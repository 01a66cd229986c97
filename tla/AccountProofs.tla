---------------------------- MODULE AccountProofs ----------------------------
(***************************************************************************)
(* What a member's account guarantees for every decay function that        *)
(* satisfies the assumptions of SupportDecay and for all constants; and    *)
(* in the second half, what the client makes of the same account while     *)
(* changes are staged (module StagedVotes).                                *)
(***************************************************************************)
EXTENDS MemberAccount, StagedVotes, Induction

Live == 0..(statementCount - 1)
Listed(list, x) == \E i \in DOMAIN list : list[i] = x

-----------------------------------------------------------------------------
(* Elapsed time, speeded up, is in the range the decay is asked for. *)
LEMMA ElapsedType ==
  ASSUME NEW from \in Times, NEW to \in Times, from <= to
  PROVE  (to - from) * decaySpeedupFactor \in Elapsed
<1>1. /\ to - from \in Nat /\ MaxTime \in Nat /\ decaySpeedupFactor \in Nat
      /\ to - from <= MaxTime
  BY DecayBoundsAssumption DEF Times
<1>2. ASSUME NEW a \in Nat, NEW b \in Nat, NEW c \in Nat, a <= b
      PROVE  a * c \in 0..(b * c)
  <2>1. (b - a) * c \in Nat
    BY <1>2
  <2>2. b * c = a * c + (b - a) * c
    BY <1>2
  <2>3. a * c \in Nat /\ b * c \in Nat
    OBVIOUS
  <2> QED
    BY <2>1, <2>2, <2>3
<1> QED
  BY <1>1, <1>2 DEF Elapsed

LEMMA ElapsedGrows ==
  ASSUME NEW from \in Times, NEW t1 \in Times, NEW t2 \in Times, from <= t1, t1 <= t2
  PROVE  (t1 - from) * decaySpeedupFactor <= (t2 - from) * decaySpeedupFactor
<1>1. /\ t1 - from \in Nat /\ t2 - from \in Nat /\ decaySpeedupFactor \in Nat
      /\ t1 - from <= t2 - from
  BY DecayBoundsAssumption DEF Times
<1>2. ASSUME NEW a \in Nat, NEW b \in Nat, NEW c \in Nat, a <= b
      PROVE  a * c <= b * c
  <2>1. (b - a) * c \in Nat
    BY <1>2
  <2>2. b * c = a * c + (b - a) * c
    BY <1>2
  <2>3. a * c \in Nat /\ b * c \in Nat
    OBVIOUS
  <2> QED
    BY <2>1, <2>2, <2>3
<1> QED
  BY <1>1, <1>2

(* _decayValue returns an amount in range, *)
LEMMA CurrentSupportType ==
  ASSUME NEW support \in Support, NEW t \in Times, support.lastUpdated <= t
  PROVE  CurrentSupport(support, t) \in Supports
<1>1. (t - support.lastUpdated) * decaySpeedupFactor \in Elapsed
  BY ElapsedType DEF Support
<1> QED
  BY <1>1, DecayAssumption DEF Support, CurrentSupport, DecayValue

(* and once it is 0 it remains so. *)
LEMMA FadedStaysFaded ==
  ASSUME NEW support \in Support, NEW t1 \in Times, NEW t2 \in Times,
         support.lastUpdated <= t1, t1 <= t2, CurrentSupport(support, t1) = 0
  PROVE  CurrentSupport(support, t2) = 0
<1> DEFINE v == support.value
           e1 == (t1 - support.lastUpdated) * decaySpeedupFactor
           e2 == (t2 - support.lastUpdated) * decaySpeedupFactor
<1>1. /\ v \in Supports /\ support.lastUpdated \in Times
      /\ e1 \in Elapsed /\ e2 \in Elapsed /\ e1 <= e2
  BY ElapsedType, ElapsedGrows DEF Support, Times
<1>2. /\ ApproxDecay(v, e1) \in Int /\ ApproxDecay(v, e2) \in Int
      /\ Abs(ApproxDecay(v, e2)) <= Abs(ApproxDecay(v, e1))
  BY <1>1, DecayAssumption, DecayMonotonicAssumption, DecayBoundsAssumption DEF Supports
<1>3. v # 0 => e1 # 0 /\ ApproxDecay(v, e1) = 0
  BY <1>1 DEF CurrentSupport, DecayValue
<1>4. v # 0 => ApproxDecay(v, e2) = 0
  BY <1>2, <1>3 DEF Abs
<1>5. v # 0 => e2 # 0
  BY <1>1, <1>3, DecayBoundsAssumption DEF Elapsed
<1> QED
  BY <1>4, <1>5 DEF CurrentSupport, DecayValue

-----------------------------------------------------------------------------
(* Tracking s only gives up a slot whose statement has no support left. *)
LEMMA TrackKeepsListed ==
  ASSUME NEW S, NEW list \in Seq(S), NEW cur, NEW s \in S
  PROVE  LET tracked == Track(list, cur, s)
             empty == EmptySlots(list, cur)
         IN  /\ tracked \in Seq(S)
             /\ empty # {} => Len(tracked) = Len(list)
             /\ Len(tracked) >= Len(list)
             /\ \A i \in 1..Len(list) :
                  ~IsLeast(i, empty) => tracked[i] = list[i]
             /\ cur[s] # 0 => Listed(tracked, s)
             /\ \A x \in S : cur[x] # 0 /\ Listed(list, x) => Listed(tracked, x)
<1> DEFINE tracked == Track(list, cur, s)
           empty == EmptySlots(list, cur)
           replaced == [i \in DOMAIN list |-> IF IsLeast(i, empty) THEN s ELSE list[i]]
<1>1. Len(list) \in Nat /\ DOMAIN list = 1..Len(list) /\ empty \in SUBSET (1..Len(list))
  BY DEF EmptySlots
<1>2. CASE cur[s] = 0 \/ Listed(list, s)
  <2>1. tracked = list
    BY <1>2 DEF Track, Listed
  <2> QED
    BY <1>2, <2>1
<1>3. CASE cur[s] # 0 /\ ~Listed(list, s) /\ empty = {}
  <2>1. tracked = Append(list, s)
    BY <1>3 DEF Track, Listed
  <2>2. /\ tracked \in Seq(S) /\ Len(tracked) = Len(list) + 1
        /\ DOMAIN tracked = 1..(Len(list) + 1)
        /\ tracked[Len(list) + 1] = s
        /\ \A i \in 1..Len(list) : tracked[i] = list[i]
    BY <1>1, <2>1
  <2>3. Listed(tracked, s)
    BY <2>2 DEF Listed
  <2>4. ASSUME NEW x \in S, Listed(list, x) PROVE Listed(tracked, x)
    BY <1>1, <2>2, <2>4 DEF Listed
  <2> QED
    BY <1>1, <1>3, <2>2, <2>3, <2>4
<1>4. CASE cur[s] # 0 /\ ~Listed(list, s) /\ empty # {}
  <2>1. tracked = replaced
    BY <1>4 DEF Track, Listed
  <2>2. replaced \in Seq(S) /\ Len(replaced) = Len(list)
    BY <1>1
  <2>3. PICK k \in empty : IsLeast(k, empty)
    <3>1. 1 \in Int /\ Len(list) \in Int /\ empty \in SUBSET (1..Len(list)) /\ empty # {}
      BY <1>1, <1>4
    <3>2. \E m \in empty : \A i \in empty : m <= i
      <4> HIDE DEF empty
      <4> QED
        BY <3>1, LeastOfInterval
    <3> QED
      BY <3>2 DEF IsLeast
  <2>4. replaced[k] = s /\ k \in DOMAIN replaced
    BY <1>1, <2>3
  <2>5. ASSUME NEW x \in S, cur[x] # 0, Listed(list, x) PROVE Listed(replaced, x)
    <3>1. PICK i \in DOMAIN list : list[i] = x
      BY <2>5 DEF Listed
    <3>2. i \notin empty
      BY <2>5, <3>1 DEF EmptySlots
    <3>3. ~IsLeast(i, empty)
      BY <3>2 DEF IsLeast
    <3> QED
      BY <3>1, <3>3 DEF Listed
  <2> QED
    BY <1>1, <2>1, <2>2, <2>4, <2>5 DEF Listed
<1> QED
  BY <1>2, <1>3, <1>4

(* Compacting drops no statement with support. *)
LEMMA UpdateKeepsListed ==
  ASSUME NEW S, NEW list \in Seq(S), NEW cur, NEW s \in S
  PROVE  LET new == UpdateUserSupportedStatements(list, cur, s)
         IN  /\ new \in Seq(S)
             /\ \A x \in S :
                  cur[x] # 0 /\ (x = s \/ Listed(list, x)) => Listed(new, x)
<1> DEFINE tracked == Track(list, cur, s)
           empty == EmptySlots(list, cur)
           occupied == OccupiedSlots(list, cur)
           later == {i \in empty : \E j \in empty : j < i}
           movable(i, j) == IsLeast(i, later) /\ IsGreatest(j, occupied) /\ j > i
           last == CHOOSE j \in occupied : IsGreatest(j, occupied)
           filled == [i \in DOMAIN tracked |->
                        IF IsLeast(i, later) THEN tracked[last] ELSE tracked[i]]
           new == UpdateUserSupportedStatements(list, cur, s)
<1>1. /\ tracked \in Seq(S)
      /\ empty # {} => Len(tracked) = Len(list)
      /\ \A i \in 1..Len(list) : ~IsLeast(i, empty) => tracked[i] = list[i]
      /\ \A x \in S : cur[x] # 0 /\ (x = s \/ Listed(list, x)) => Listed(tracked, x)
  BY TrackKeepsListed
<1>2. /\ Len(list) \in Nat /\ DOMAIN list = 1..Len(list)
      /\ Len(tracked) \in Nat /\ DOMAIN tracked = 1..Len(tracked)
  BY <1>1
<1>3. /\ empty = {i \in 1..Len(list) : cur[list[i]] = 0}
      /\ occupied = {i \in 1..Len(list) : cur[list[i]] # 0}
  BY <1>2 DEF EmptySlots, OccupiedSlots
<1>4. CASE ~ \E i \in later, j \in occupied : movable(i, j)
  <2>1. new = tracked
    BY <1>4 DEF UpdateUserSupportedStatements, Compact
  <2> QED
    BY <1>1, <2>1
<1>5. CASE \E i \in later, j \in occupied : movable(i, j)
  <2>1. PICK i \in later, j \in occupied : movable(i, j)
    BY <1>5
  <2>2. last = j
    <3>1. IsGreatest(last, occupied) /\ last \in occupied
      BY <2>1
    <3> QED
      BY <1>3, <2>1, <3>1 DEF IsGreatest
  <2>3. new = SubSeq(filled, 1, Len(filled) - 1)
    BY <1>5 DEF UpdateUserSupportedStatements, Compact
  <2> DEFINE n == Len(list)
  <2>4. /\ n \in Nat /\ Len(tracked) = n /\ i \in 1..n /\ j \in 1..n /\ i < j
        /\ cur[list[i]] = 0
        /\ \E k \in empty : k < i
    BY <1>1, <1>2, <1>3, <2>1
  <2>5. filled = [k \in 1..n |-> IF k = i THEN tracked[j] ELSE tracked[k]]
    <3>1. \A k \in 1..n : IsLeast(k, later) <=> k = i
      BY <1>3, <2>1 DEF IsLeast
    <3> HIDE DEF later, last
    <3> QED
      BY <1>2, <2>2, <2>4, <3>1
  <2>6. /\ new \in Seq(S) /\ DOMAIN new = 1..(n - 1)
        /\ new[i] = tracked[j]
        /\ \A k \in 1..(n - 1) : k # i => new[k] = tracked[k]
    <3>1. \A k \in 1..n : tracked[k] \in S
      BY <1>1, <1>2, <2>4
    <3> HIDE DEF new, filled, tracked
    <3>2. filled \in Seq(S) /\ Len(filled) = n
      BY <2>4, <2>5, <3>1
    <3>3. new \in Seq(S) /\ Len(new) = n - 1 /\ \A k \in 1..(n - 1) : new[k] = filled[k]
      BY <2>3, <2>4, <3>2
    <3>4. DOMAIN new = 1..(n - 1)
      BY <2>4, <3>3
    <3>5. i \in 1..(n - 1) /\ i \in 1..n /\ 1..(n - 1) \subseteq 1..n
      BY <2>4
    <3> HIDE DEF n
    <3> QED
      BY <2>5, <3>3, <3>4, <3>5
  <2>8. ASSUME NEW x \in S, cur[x] # 0, Listed(tracked, x) PROVE Listed(new, x)
    <3>1. PICK k \in 1..n : tracked[k] = x
      BY <1>2, <2>4, <2>8 DEF Listed
    <3>2. ASSUME NEW m \in 1..n, m >= i, m \notin occupied
          PROVE  tracked[m] # x
      <4>1. ~IsLeast(m, empty)
        BY <1>3, <2>4, <3>2 DEF IsLeast
      <4> QED
        BY <1>1, <1>3, <2>8, <3>2, <4>1
    <3>3. k # i
      BY <1>3, <2>4, <3>1, <3>2
    <3>4. CASE k < n
      <4>1. k \in DOMAIN new /\ k \in 1..(n - 1)
        BY <2>4, <2>6, <3>1, <3>4
      <4>2. new[k] = x
        BY <2>6, <3>1, <3>3, <4>1
      <4> QED
        BY <4>1, <4>2 DEF Listed
    <3>5. CASE k = n
      <4>1. n \in occupied
        BY <2>4, <3>1, <3>2, <3>5
      <4>2. j = n
        BY <2>1, <2>4, <4>1 DEF IsGreatest
      <4> QED
        BY <2>4, <2>6, <3>1, <3>5, <4>2 DEF Listed
    <3> QED
      BY <2>4, <3>4, <3>5
  <2> QED
    BY <1>1, <2>6, <2>8
<1> QED
  BY <1>4, <1>5

-----------------------------------------------------------------------------
(* Costs and charges are whole numbers. *)
LEMMA CostType == \A v \in Int : CostOfUserSupport(v) \in Nat
<1> SUFFICES ASSUME NEW v \in Int PROVE CostOfUserSupport(v) \in Nat
  OBVIOUS
<1>1. ASSUME NEW a \in Nat, NEW b \in Nat PROVE a * b \in Nat
  OBVIOUS
<1>2. ASSUME NEW a \in Nat, NEW b \in Nat \ {0} PROVE a \div b \in Nat
  OBVIOUS
<1>3. /\ Abs(v) \in Nat /\ Abs(v) + creditMultiplier \in Nat
      /\ 2 * creditMultiplier \in Nat \ {0}
  BY CostAssumption DEF Abs
<1>4. Abs(v) * (Abs(v) + creditMultiplier) \in Nat
  BY <1>1, <1>3
<1> QED
  BY <1>2, <1>3, <1>4 DEF CostOfUserSupport

LEMMA IntervalsType ==
  ASSUME NEW from \in Times, NEW t \in Times, from <= t
  PROVE  (t - from) \div creditAllowanceIntervalSeconds \in Nat
<1>1. /\ t - from \in Nat
      /\ creditAllowanceIntervalSeconds \in Nat \ {0}
  BY AccountAssumption, DecayBoundsAssumption DEF Times
<1> QED
  BY <1>1

LEMMA BalanceType ==
  ASSUME TypeOK, balance.lastUpdated <= now, IsMember
  PROVE  CurrentUserBalance \in Nat
<1>1. /\ now \in Times /\ registrationTimestamp \in Times
      /\ balance.lastUpdated \in Times /\ balance.credits \in Nat
  BY AccountAssumption DEF TypeOK, UserBalance
<1>2. Intervals(balance.lastUpdated) \in Nat /\ Intervals(registrationTimestamp) \in Nat
  BY <1>1, IntervalsType DEF IsMember, Intervals
<1>3. ASSUME NEW a \in Nat, NEW b \in Nat, NEW c \in Nat PROVE a + b * c \in Nat
  OBVIOUS
<1> QED
  BY <1>1, <1>2, <1>3, AccountAssumption DEF CurrentUserBalance

-----------------------------------------------------------------------------
(***************************************************************************)
(* Supports given to statements of L, none written in the future, all that *)
(* have not faded listed.                                                  *)
(***************************************************************************)
Recorded(given, list, L) ==
  /\ given \in [StatementIds -> Support]
  /\ list \in Seq(L)
  /\ \A x \in StatementIds :
       /\ given[x].lastUpdated <= now
       /\ given[x] # NoSupport => x \in L
       /\ CurrentSupport(given[x], now) # 0 => Listed(list, x)

(***************************************************************************)
(* The states adjustSupport's loop may be in: what holds of the account    *)
(* between calls holds between the rounds.                                 *)
(***************************************************************************)
Drafts ==
  {c \in [supports : [StatementIds -> Support], supported : Seq(Live),
          totalCostChange : Int,
          changes : Seq([statementId : StatementIds, change : Int]),
          reverted : BOOLEAN] :
     Recorded(c.supports, c.supported, Live)}

IInv == TypeOK /\ AccountIsPast /\ SupportListed

LEMMA TimeFacts ==
  ASSUME TypeOK
  PROVE  /\ now \in Times /\ now \in Nat /\ Times \subseteq Nat
         /\ statementCount \in Nat /\ Live \subseteq StatementIds
         /\ Supports \subseteq Int
         /\ StatementIds \subseteq Nat /\ MaxStatements \in Nat
         /\ NoSupport \in Support
         /\ \A t \in Times : CurrentSupport(NoSupport, t) = 0
BY AccountAssumption, DecayBoundsAssumption
   DEF TypeOK, Times, Live, StatementIds, Supports, NoSupport, Support,
       CurrentSupport, DecayValue

(* Writing one support and listing it. *)
LEMMA GiveSupport ==
  ASSUME TypeOK, NEW given, NEW list, NEW L \in SUBSET StatementIds,
         Recorded(given, list, L), NEW s \in L, NEW value \in Supports
  PROVE  LET after == [given EXCEPT ![s] = [value |-> value, lastUpdated |-> now]]
             new == UpdateUserSupportedStatements(list, CurrentSupports(after, now), s)
         IN  Recorded(after, new, L)
<1> DEFINE after == [given EXCEPT ![s] = [value |-> value, lastUpdated |-> now]]
           cur == CurrentSupports(after, now)
           new == UpdateUserSupportedStatements(list, cur, s)
<1> USE DEF Recorded
<1>1. s \in StatementIds /\ now \in Times /\ now \in Nat
  BY TimeFacts
<1>2. after \in [StatementIds -> Support]
  BY <1>1 DEF Support
<1>3. \A x \in StatementIds : cur[x] = CurrentSupport(after[x], now)
  BY <1>2 DEF CurrentSupports
<1>4. /\ new \in Seq(L)
      /\ \A x \in L : cur[x] # 0 /\ (x = s \/ Listed(list, x)) => Listed(new, x)
  BY UpdateKeepsListed
<1>5. ASSUME NEW x \in StatementIds
      PROVE  /\ after[x].lastUpdated <= now
             /\ after[x] # NoSupport => x \in L
             /\ CurrentSupport(after[x], now) # 0 => Listed(new, x)
  <2>1. CASE x = s
    <3>1. after[x] = [value |-> value, lastUpdated |-> now]
      BY <1>1, <2>1
    <3>2. after[x].lastUpdated <= now
      BY <1>1, <3>1
    <3> HIDE DEF after, new, cur
    <3> QED
      BY <1>1, <1>3, <1>4, <2>1, <3>2
  <2>2. CASE x # s
    <3>1. after[x] = given[x]
      BY <2>2
    <3>2. CurrentSupport(after[x], now) # 0 => x \in L
      BY <1>1, <3>1, TimeFacts
    <3> HIDE DEF after, new, cur
    <3> QED
      BY <1>3, <1>4, <3>1, <3>2
  <2> QED
    BY <2>1, <2>2
<1> QED
  BY <1>2, <1>4, <1>5

LEMMA AdjustOneKeepsDraft ==
  ASSUME TypeOK, NEW c \in Drafts, NEW adjustment \in Adjustments
  PROVE  AdjustOne(c, adjustment) \in Drafts
<1> DEFINE s == adjustment.statementId
           old == CurrentSupport(c.supports[s], now)
           new == Adjusted(old, adjustment)
           given == [c.supports EXCEPT ![s] = [value |-> new, lastUpdated |-> now]]
           list == UpdateUserSupportedStatements(
                     c.supported, CurrentSupports(given, now), s)
           cost == c.totalCostChange + CostOfUserSupport(new) - CostOfUserSupport(old)
           changes == Append(c.changes, [statementId |-> s, change |-> new - old])
           result == [supports |-> given, supported |-> list, totalCostChange |-> cost,
                      changes |-> changes, reverted |-> c.reverted]
<1>1. /\ s \in StatementIds /\ adjustment.value \in Int
      /\ now \in Times /\ now \in Nat
  BY InputsAssumption, TimeFacts
<1>2. /\ c.totalCostChange \in Int /\ c.reverted \in BOOLEAN
      /\ c.changes \in Seq([statementId : StatementIds, change : Int])
      /\ Recorded(c.supports, c.supported, Live)
  BY DEF Drafts
<1>3. CASE AdjustOne(c, adjustment) = [c EXCEPT !.reverted = TRUE]
  BY <1>3 DEF Drafts
<1>4. CASE /\ AdjustOne(c, adjustment) = Accept(c, s, old, new)
           /\ s < statementCount /\ new \in Supports
  <2>1. s \in Live
    BY <1>1, <1>4, TimeFacts DEF Live, StatementIds
  <2>2. Recorded(given, list, Live)
    <3>1. Live \in SUBSET StatementIds
      BY TimeFacts
    <3> HIDE DEF new, s
    <3> QED
      BY <1>2, <1>4, <2>1, <3>1, GiveSupport
  <2>3. old \in Int /\ new \in Int
    BY <1>1, <1>2, <1>4, CurrentSupportType, TimeFacts DEF Recorded
  <2>4. cost \in Int
    <3>1. CostOfUserSupport(new) \in Int /\ CostOfUserSupport(old) \in Int
      BY <2>3, CostType
    <3> HIDE DEF new, old
    <3> QED
      BY <1>2, <3>1
  <2>5. changes \in Seq([statementId : StatementIds, change : Int])
    BY <1>1, <1>2, <2>3
  <2>6. Accept(c, s, old, new) = result
    <3>1. c \in [supports : [StatementIds -> Support], supported : Seq(Live),
                 totalCostChange : Int,
                 changes : Seq([statementId : StatementIds, change : Int]),
                 reverted : BOOLEAN]
      BY DEF Drafts
    <3>2. Accept(c, s, old, new)
            = [c EXCEPT !.supports = given, !.supported = list,
                        !.totalCostChange = cost, !.changes = changes]
      BY DEF Accept
    <3> HIDE DEF given, list, cost, changes
    <3> QED
      BY <3>1, <3>2
  <2>7. result \in Drafts
    <3>1. given \in [StatementIds -> Support] /\ list \in Seq(Live)
      BY <2>2 DEF Recorded
    <3> HIDE DEF given, list, cost, changes
    <3> QED
      BY <1>2, <2>2, <2>4, <2>5, <3>1 DEF Drafts
  <2> QED
    BY <1>4, <2>6, <2>7
<1>5. s >= statementCount \/ s < statementCount
  BY <1>1, TimeFacts
<1> QED
  BY <1>3, <1>4, <1>5 DEF AdjustOne

(* A batch is a sequence of adjustments. *)
LEMMA BatchType ==
  ASSUME NEW batch \in Batches
  PROVE  /\ Len(batch) \in Nat
         /\ \A i \in 1..Len(batch) : batch[i] \in Adjustments
<1>1. PICK n \in 0..MaxBatch : batch \in [1..n -> Adjustments]
  BY DEF Batches
<1>2. n \in Nat
  BY AccountAssumption
<1>3. Len(batch) = n
  BY <1>1, <1>2
<1> QED
  BY <1>1, <1>2, <1>3

(* What AdjustAll returns is the end of a run of its loop. *)
LEMMA AdjustAllIsRun ==
  ASSUME TypeOK, BeforeAdjusting \in Drafts, NEW batch \in Batches
  PROVE  \E run \in [0..Len(batch) -> Drafts] :
           /\ run[0] = BeforeAdjusting
           /\ \A i \in 1..Len(batch) :
                run[i] = AdjustOne(run[i - 1], batch[i])
           /\ AdjustAll(batch) = run[Len(batch)]
<1> DEFINE n == Len(batch)
           Equation(f) == f = [i \in 0..n |->
                                 IF i = 0 THEN BeforeAdjusting
                                 ELSE AdjustOne(f[i - 1], batch[i])]
           step == [i \in 1..n |-> [c \in Drafts |-> AdjustOne(c, batch[i])]]
           after == CHOOSE f : Equation(f)
<1>1. n \in Nat /\ \A i \in 1..n : batch[i] \in Adjustments
  BY BatchType
<1>2. step \in [1..n -> [Drafts -> Drafts]]
  BY <1>1, AdjustOneKeepsDraft
<1>3. PICK g : IsRun(g, Drafts, BeforeAdjusting, n, step)
  <2>1. IsLoop(Drafts, BeforeAdjusting, n, step)
    BY <1>1, <1>2 DEF IsLoop
  <2> HIDE DEF step, n
  <2> QED
    BY <2>1, LoopHasRun
<1>4. \A i \in 1..n : g[i] = AdjustOne(g[i - 1], batch[i])
  <2> SUFFICES ASSUME NEW i \in 1..n
               PROVE  g[i] = AdjustOne(g[i - 1], batch[i])
    OBVIOUS
  <2>1. g[i - 1] \in Drafts
    BY <1>1, <1>3 DEF IsRun
  <2> QED
    BY <1>3, <2>1 DEF IsRun
<1>5. Equation(g)
  <2>1. \A i \in 0..n : i # 0 => i \in 1..n
    BY <1>1
  <2> HIDE DEF n
  <2> QED
    BY <1>3, <1>4, <2>1 DEF IsRun
<1>6. Equation(after)
  BY <1>5
<1>7. AdjustAll(batch) = after[n]
  BY DEF AdjustAll
<1>8. after[0] = BeforeAdjusting
  <2>1. 0 \in 0..n
    BY <1>1
  <2> HIDE DEF after, n
  <2> QED
    BY <1>6, <2>1
<1>9. \A i \in 1..n : after[i] = AdjustOne(after[i - 1], batch[i])
  <2>1. \A i \in 1..n : i \in 0..n /\ i # 0
    BY <1>1
  <2> HIDE DEF after, n
  <2> QED
    BY <1>6, <2>1
<1>10. after \in [0..n -> Drafts]
  <2> DEFINE S == {i \in 0..n : after[i] \in Drafts}
  <2>1. 0 \in S
    BY <1>1, <1>8
  <2>2. ASSUME NEW i \in 1..n, i - 1 \in S PROVE i \in S
    BY <1>1, <1>9, <2>2, AdjustOneKeepsDraft
  <2>3. 0..n \subseteq S
    <3> HIDE DEF S, n
    <3> QED
      BY <1>1, <2>1, <2>2, IntervalInduction
  <2>4. DOMAIN after = 0..n /\ after = [i \in 0..n |-> after[i]]
    <3> HIDE DEF after
    <3> QED
      BY <1>6
  <2> HIDE DEF after
  <2> QED
    BY <2>3, <2>4
<1> HIDE DEF after
<1> QED
  BY <1>7, <1>8, <1>9, <1>10

LEMMA AccountRecorded == IInv => Recorded(supports, supported, Live)
<1> SUFFICES ASSUME IInv PROVE Recorded(supports, supported, Live)
  OBVIOUS
<1>1. supported \in Seq(Live)
  <2>1. /\ supported \in Seq(StatementIds)
        /\ \A i \in DOMAIN supported : supported[i] < statementCount
    BY DEF IInv, TypeOK, AccountIsPast
  <2>2. \A i \in 1..Len(supported) : supported[i] \in Live
    BY <2>1, TimeFacts DEF IInv, Live, StatementIds
  <2> QED
    BY <2>1, <2>2
<1>2. supports \in [StatementIds -> Support]
  BY DEF IInv, TypeOK
<1>3. \A s \in StatementIds : s < statementCount => s \in Live
  BY TimeFacts DEF IInv, Live, StatementIds
<1> QED
  BY <1>1, <1>2, <1>3
     DEF IInv, AccountIsPast, SupportListed, UserSupport, Listed, Recorded

LEMMA BeforeAdjustingDraft == IInv => BeforeAdjusting \in Drafts
<1> SUFFICES ASSUME IInv PROVE BeforeAdjusting \in Drafts
  OBVIOUS
<1>1. Recorded(supports, supported, Live)
  BY AccountRecorded
<1>2. supports \in [StatementIds -> Support] /\ supported \in Seq(Live)
  BY <1>1 DEF Recorded
<1> QED
  BY <1>1, <1>2 DEF BeforeAdjusting, Drafts

(* What a call stores satisfies the invariant again. *)
LEMMA StoredKeepsInvariant ==
  ASSUME TypeOK, NEW given, NEW list, NEW count \in 0..MaxStatements,
         Recorded(given, list, 0..(count - 1)),
         supports' = given, supported' = list, now' = now, statementCount' = count,
         balance' \in UserBalance, balance'.lastUpdated = now
  PROVE  IInv'
<1> USE DEF Recorded
<1>1. /\ now \in Times /\ now \in Nat /\ count \in Nat
      /\ 0..(count - 1) \subseteq StatementIds
  BY TimeFacts DEF StatementIds
<1>2. list \in Seq(StatementIds) /\ \A i \in DOMAIN list : list[i] < count
  BY <1>1
<1>3. TypeOK'
  BY <1>1, <1>2 DEF TypeOK
<1>4. AccountIsPast'
  BY <1>1, <1>2 DEF AccountIsPast
<1>5. SupportListed'
  BY DEF SupportListed, UserSupport, Listed
<1> QED
  BY <1>3, <1>4, <1>5 DEF IInv

-----------------------------------------------------------------------------
LEMMA InitIInv == Init => IInv
<1> SUFFICES ASSUME Init PROVE IInv
  OBVIOUS
<1>1. TypeOK
  BY AccountAssumption, ClockAssumption, DecayBoundsAssumption
     DEF Init, TypeOK, UserBalance, NoSupport, Support, Supports, Times
<1>2. now \in Times /\ now \in Nat
  BY <1>1, TimeFacts
<1>3. AccountIsPast
  BY <1>2 DEF Init, AccountIsPast, NoSupport
<1>4. SupportListed
  BY <1>1, <1>2, TimeFacts DEF Init, SupportListed, UserSupport
<1> QED
  BY <1>1, <1>3, <1>4 DEF IInv

LEMMA AddKeepsInvariant ==
  ASSUME IInv, NEW initialSupport \in InitialSupports, Add(initialSupport)
  PROVE  IInv'
<1> DEFINE s == statementCount
           count == statementCount + 1
           L == 0..(count - 1)
           given == [supports EXCEPT
                       ![s] = [value |-> initialSupport, lastUpdated |-> now]]
           list == UpdateUserSupportedStatements(
                     supported, CurrentSupports(given, now), s)
           cost == CostOfUserSupport(initialSupport)
<1>1. TypeOK /\ now \in Times /\ statementCount \in Nat /\ MaxStatements \in Nat
  BY TimeFacts DEF IInv
<1>2. /\ count \in 0..MaxStatements /\ s \in L
      /\ L \in SUBSET StatementIds /\ Live \subseteq L
  BY <1>1 DEF Add, StatementIds, Live
<1>3. Recorded(supports, supported, L)
  <2>1. Recorded(supports, supported, Live)
    BY AccountRecorded
  <2>2. \A i \in 1..Len(supported) : supported[i] \in Live
    BY <2>1 DEF Recorded
  <2> HIDE DEF L
  <2>3. \A i \in 1..Len(supported) : supported[i] \in L
    BY <1>2, <2>2
  <2> QED
    BY <1>2, <2>1, <2>3 DEF Recorded
<1>4. balance' \in UserBalance /\ balance'.lastUpdated = now
  <2>1. CurrentUserBalance \in Nat
    BY BalanceType DEF IInv, AccountIsPast, Add
  <2>2. cost \in Nat /\ cost <= CurrentUserBalance
    <3>1. initialSupport \in Int
      BY InputsAssumption, <1>1, TimeFacts
    <3>2. cost \in Nat
      BY <3>1, CostType
    <3>3. CurrentUserBalance >= cost
      BY DEF Add
    <3> QED
      BY <2>1, <3>2, <3>3
  <2>3. balance' = [credits |-> CurrentUserBalance - cost, lastUpdated |-> now]
    BY DEF Add
  <2>4. CurrentUserBalance - cost \in Nat
    BY <2>1, <2>2
  <2> HIDE DEF cost
  <2> QED
    BY <1>1, <2>3, <2>4 DEF UserBalance
<1>5. now' = now /\ statementCount' = count
  BY DEF Add
<1>6. CASE initialSupport = 0
  <2>1. supports' = supports /\ supported' = supported
    BY <1>6 DEF Add
  <2> QED
    BY <1>1, <1>2, <1>3, <1>4, <1>5, <2>1, StoredKeepsInvariant
<1>7. CASE initialSupport # 0
  <2>1. supports' = given /\ supported' = list
    BY <1>7 DEF Add
  <2>2. initialSupport \in Supports
    BY InputsAssumption
  <2>3. Recorded(given, list, L)
    <3> HIDE DEF L, s
    <3> QED
      BY <1>1, <1>2, <1>3, <2>2, GiveSupport
  <2> HIDE DEF given, list
  <2> QED
    BY <1>1, <1>2, <1>4, <1>5, <2>1, <2>3, StoredKeepsInvariant
<1> QED
  BY <1>6, <1>7

LEMMA AdjustKeepsInvariant ==
  ASSUME IInv, NEW batch \in Batches, Adjust(batch)
  PROVE  IInv'
<1> DEFINE c == AdjustAll(batch)
           charge == Settle(c.totalCostChange)
<1>1. TypeOK /\ now \in Times /\ statementCount \in 0..MaxStatements
  BY TimeFacts DEF IInv, TypeOK
<1>2. c \in Drafts
  <2>1. Len(batch) \in 0..Len(batch)
    BY BatchType
  <2> QED
    BY <1>1, <2>1, BeforeAdjustingDraft, AdjustAllIsRun
<1>3. /\ supports' = c.supports /\ supported' = c.supported
      /\ now' = now /\ statementCount' = statementCount
      /\ balance' = [credits |-> CurrentUserBalance - charge, lastUpdated |-> now]
      /\ CurrentUserBalance >= charge /\ IsMember
  BY DEF Adjust
<1>4. balance' \in UserBalance /\ balance'.lastUpdated = now
  <2>1. CurrentUserBalance \in Nat
    BY <1>3, BalanceType DEF IInv, AccountIsPast
  <2>2. charge \in Int
    <3>1. c.totalCostChange \in Int
      BY <1>2 DEF Drafts
    <3>2. \A a, b \in Int : (a * b) \div 10000 \in Int
      OBVIOUS
    <3> HIDE DEF c
    <3> QED
      BY <3>1, <3>2, CostAssumption DEF Settle
  <2>3. CurrentUserBalance - charge \in Nat
    BY <1>3, <2>1, <2>2
  <2> HIDE DEF charge
  <2> QED
    BY <1>1, <1>3, <2>3 DEF UserBalance
<1>5. Recorded(c.supports, c.supported, 0..(statementCount - 1))
  BY <1>2 DEF Drafts, Live
<1> HIDE DEF c, charge
<1> QED
  BY <1>1, <1>3, <1>4, <1>5, StoredKeepsInvariant

LEMMA OtherAddsKeepsInvariant == IInv /\ OtherAdds => IInv'
<1> SUFFICES ASSUME IInv, OtherAdds PROVE IInv'
  OBVIOUS
<1>1. /\ statementCount \in Nat /\ MaxStatements \in Nat
      /\ statementCount' = statementCount + 1 /\ statementCount < MaxStatements
      /\ UNCHANGED <<now, supports, supported, balance>>
  BY TimeFacts DEF IInv, OtherAdds
<1>2. TypeOK'
  BY <1>1 DEF IInv, TypeOK
<1>3. AccountIsPast'
  BY <1>1 DEF IInv, TypeOK, AccountIsPast, StatementIds
<1>4. SupportListed'
  BY <1>1 DEF IInv, SupportListed, UserSupport
<1> QED
  BY <1>2, <1>3, <1>4 DEF IInv

(* Time takes supports away, never brings one back. *)
LEMMA TickKeepsInvariant == IInv /\ Tick => IInv'
<1> SUFFICES ASSUME IInv, Tick PROVE IInv'
  OBVIOUS
<1>1. /\ now \in Nat /\ now \in Times /\ now' = now + 1 /\ now' \in Times
      /\ Times \subseteq Nat
      /\ UNCHANGED <<statementCount, supports, supported, balance>>
  BY TimeFacts, DecayBoundsAssumption DEF IInv, Tick, Times
<1>2. TypeOK'
  BY <1>1 DEF IInv, TypeOK
<1>3. AccountIsPast'
  <2>1. balance.lastUpdated \in Nat
    BY <1>1 DEF IInv, TypeOK, UserBalance
  <2>2. \A s \in StatementIds : supports[s].lastUpdated \in Nat
    BY <1>1 DEF IInv, TypeOK, Support
  <2> QED
    BY <1>1, <2>1, <2>2 DEF IInv, AccountIsPast
<1>4. SupportListed'
  <2> SUFFICES ASSUME NEW s \in StatementIds, CurrentSupport(supports[s], now') # 0
               PROVE  \E i \in DOMAIN supported : supported[i] = s
    BY <1>1 DEF SupportListed, UserSupport
  <2>1. supports[s] \in Support /\ supports[s].lastUpdated <= now /\ now <= now'
    BY <1>1 DEF IInv, TypeOK, AccountIsPast
  <2>2. CurrentSupport(supports[s], now) # 0
    BY <1>1, <2>1, FadedStaysFaded
  <2> QED
    BY <2>2 DEF IInv, SupportListed, UserSupport
<1> QED
  BY <1>2, <1>3, <1>4 DEF IInv

LEMMA NextIInv == IInv /\ [Next]_vars => IInv'
<1> SUFFICES ASSUME IInv, [Next]_vars PROVE IInv'
  OBVIOUS
<1>1. ASSUME NEW initialSupport \in InitialSupports, Add(initialSupport)
      PROVE  IInv'
  BY <1>1, AddKeepsInvariant
<1>2. ASSUME NEW batch \in Batches, Adjust(batch)
      PROVE  IInv'
  BY <1>2, AdjustKeepsInvariant
<1>3. CASE OtherAdds
  BY <1>3, OtherAddsKeepsInvariant
<1>4. CASE Tick
  BY <1>4, TickKeepsInvariant
<1>5. CASE UNCHANGED vars
  BY <1>5 DEF vars, IInv, TypeOK, AccountIsPast, SupportListed, UserSupport
<1> QED
  BY <1>1, <1>2, <1>3, <1>4, <1>5 DEF Next

(***************************************************************************)
(* The invariant holds of every reachable state of an account.             *)
(***************************************************************************)
THEOREM AccountInvariant == Spec => []IInv
<1> QED
  BY InitIInv, NextIInv, PTL DEF Spec

(***************************************************************************)
(* Amounts stay in the range of checked arithmetic, credits never negative *)
(* (addStatement and adjustSupport of Forum.sol).                          *)
(***************************************************************************)
THEOREM AccountTypeCorrect == Spec => []TypeOK
<1>1. IInv => TypeOK
  BY DEF IInv
<1> QED
  BY <1>1, AccountInvariant, PTL

(***************************************************************************)
(* A member finds every support the member gives in the list               *)
(* (_updateUserSupportedStatements), at every moment, although slots empty *)
(* by themselves as supports decay.                                        *)
(***************************************************************************)
THEOREM SupportAlwaysListed == Spec => []SupportListed
<1>1. IInv => SupportListed
  BY DEF IInv
<1> QED
  BY <1>1, AccountInvariant, PTL

(***************************************************************************)
(* No stored time is in the future and nothing is supported that does not  *)
(* exist.                                                                  *)
(***************************************************************************)
THEOREM AccountAlwaysPast == Spec => []AccountIsPast
<1>1. IInv => AccountIsPast
  BY DEF IInv
<1> QED
  BY <1>1, AccountInvariant, PTL

-----------------------------------------------------------------------------
(* Arithmetic of costs and allowances. *)
LEMMA DivisionGrows ==
  ASSUME NEW a \in Nat, NEW b \in Nat, NEW d \in Nat \ {0}, a <= b
  PROVE  a \div d <= b \div d
OBVIOUS

LEMMA DivisionSuperadditive ==
  ASSUME NEW a \in Nat, NEW b \in Nat, NEW d \in Nat \ {0}
  PROVE  (a \div d) + (b \div d) <= (a + b) \div d
<1>1. /\ a \div d \in Nat /\ b \div d \in Nat /\ (a + b) \div d \in Nat
      /\ d * (a \div d) <= a /\ d * (b \div d) <= b
  OBVIOUS
<1>2. d * ((a \div d) + (b \div d)) <= a + b
  BY <1>1
<1>3. \A q \in Nat : d * q <= a + b => q <= (a + b) \div d
  OBVIOUS
<1> QED
  BY <1>1, <1>2, <1>3

LEMMA ProductGrows ==
  ASSUME NEW a \in Nat, NEW b \in Nat, NEW c \in Nat, a <= b
  PROVE  a * c <= b * c
<1>1. (b - a) * c \in Nat
  OBVIOUS
<1>2. b * c = a * c + (b - a) * c
  OBVIOUS
<1>3. a * c \in Nat /\ b * c \in Nat
  OBVIOUS
<1> QED
  BY <1>1, <1>2, <1>3

(* The more support, the higher the cost; nothing costs nothing. *)
LEMMA CostGrows ==
  ASSUME NEW v \in Int, NEW w \in Int, Abs(v) <= Abs(w)
  PROVE  CostOfUserSupport(v) <= CostOfUserSupport(w)
<1> DEFINE a == Abs(v)  b == Abs(w)  m == creditMultiplier
<1>1. a \in Nat /\ b \in Nat /\ a <= b /\ m \in Nat /\ 2 * m \in Nat \ {0}
  BY CostAssumption DEF Abs
<1>2. a * (a + m) \in Nat /\ b * (b + m) \in Nat /\ a * (a + m) <= b * (b + m)
  <2> HIDE DEF a, b, m
  <2>1. a * (a + m) <= b * (a + m)
    BY <1>1, ProductGrows
  <2>2. (a + m) * b <= (b + m) * b
    BY <1>1, ProductGrows
  <2>3. b * (a + m) = (a + m) * b /\ (b + m) * b = b * (b + m)
    BY <1>1
  <2>4. a * (a + m) \in Nat /\ b * (a + m) \in Nat /\ b * (b + m) \in Nat
    BY <1>1
  <2> QED
    BY <2>1, <2>2, <2>3, <2>4
<1>3. (a * (a + m)) \div (2 * m) <= (b * (b + m)) \div (2 * m)
  <2> HIDE DEF a, b, m
  <2> QED
    BY <1>1, <1>2, DivisionGrows
<1> QED
  BY <1>3 DEF CostOfUserSupport

LEMMA NothingCostsNothing == CostOfUserSupport(0) = 0
<1>1. Abs(0) = 0
  BY DEF Abs
<1>2. creditMultiplier \in Nat \ {0}
  BY CostAssumption
<1>3. 0 * (0 + creditMultiplier) = 0 /\ 0 \div (2 * creditMultiplier) = 0
  BY <1>2
<1> QED
  BY <1>1, <1>3 DEF CostOfUserSupport

(* A support costs no more after it has decayed. *)
LEMMA DecayCheapens ==
  ASSUME NEW support \in Support, NEW t \in Times, support.lastUpdated <= t
  PROVE  CostOfUserSupport(CurrentSupport(support, t)) <= CostOfUserSupport(support.value)
<1> DEFINE v == support.value
           w == CurrentSupport(support, t)
           e == (t - support.lastUpdated) * decaySpeedupFactor
<1>1. v \in Supports /\ v \in Int /\ e \in Elapsed
  BY ElapsedType, DecayBoundsAssumption DEF Support, Supports
<1>2. /\ ApproxDecay(v, e) \in Int
      /\ v >= 0 => ApproxDecay(v, e) \in 0..v
      /\ v <= 0 => ApproxDecay(v, e) \in v..0
  BY <1>1, DecayAssumption, DecayBoundsAssumption DEF Supports
<1>3. w = v \/ w = ApproxDecay(v, e)
  BY DEF CurrentSupport, DecayValue
<1>4. w \in Int /\ Abs(w) <= Abs(v)
  <2> HIDE DEF v, w, e
  <2> QED
    BY <1>1, <1>2, <1>3 DEF Abs
<1> QED
  BY <1>1, <1>4, CostGrows

(* A refund is never more than what is given back. *)
LEMMA SettleKeeps ==
  ASSUME NEW x \in Int
  PROVE  Settle(x) \in Int /\ Settle(x) >= x
<1>1. CASE x >= 0
  BY <1>1 DEF Settle
<1>2. CASE ~(x >= 0)
  <2>1. -x \in Nat /\ refundPenaltyBps \in Nat
    BY <1>2, CostAssumption
  <2>2. \A a, b \in Nat : a * b \in Nat
    OBVIOUS
  <2>3. \A a \in Nat : a \div 10000 \in Nat
    OBVIOUS
  <2>4. ((-x) * refundPenaltyBps) \div 10000 \in Nat
    BY <2>1, <2>2, <2>3
  <2>5. Settle(x) = x + ((-x) * refundPenaltyBps) \div 10000
    BY <1>2 DEF Settle
  <2> QED
    BY <2>4, <2>5
<1> QED
  BY <1>1, <1>2

-----------------------------------------------------------------------------
(***************************************************************************)
(* The stake of an account is a sum over the statements, which the         *)
(* following says of its partial sums.                                     *)
(***************************************************************************)
IsPartialSum(sum, given) ==
  /\ sum \in [0..MaxStatements -> Nat]
  /\ sum[0] = 0
  /\ \A k \in 1..MaxStatements :
       sum[k] = sum[k - 1] + CostOfUserSupport(given[k - 1].value)

LEMMA StakeIsSum ==
  ASSUME NEW given \in [StatementIds -> Support]
  PROVE  \E sum : IsPartialSum(sum, given) /\ StakeOf(given) = sum[MaxStatements]
<1> DEFINE n == MaxStatements
           cost(k) == CostOfUserSupport(given[k - 1].value)
           Equation(f) == f = [k \in 0..n |-> IF k = 0 THEN 0 ELSE f[k - 1] + cost(k)]
           step == [k \in 1..n |-> [x \in Nat |-> x + cost(k)]]
           upTo == CHOOSE f : Equation(f)
<1>1. n \in Nat
  BY AccountAssumption
<1>2. \A k \in 1..n : k - 1 \in StatementIds /\ cost(k) \in Nat
  <2> SUFFICES ASSUME NEW k \in 1..n PROVE k - 1 \in StatementIds /\ cost(k) \in Nat
    OBVIOUS
  <2>1. k - 1 \in StatementIds
    BY <1>1 DEF StatementIds
  <2>2. given[k - 1].value \in Int
    BY <2>1, DecayBoundsAssumption DEF Support, Supports
  <2> QED
    BY <2>1, <2>2, CostType
<1>3. step \in [1..n -> [Nat -> Nat]]
  <2> HIDE DEF cost
  <2> QED
    BY <1>2
<1>4. PICK g : IsRun(g, Nat, 0, n, step)
  <2>1. IsLoop(Nat, 0, n, step)
    BY <1>1, <1>3 DEF IsLoop
  <2> HIDE DEF step, n
  <2> QED
    BY <2>1, LoopHasRun
<1>5. \A k \in 1..n : g[k] = g[k - 1] + cost(k)
  <2> SUFFICES ASSUME NEW k \in 1..n PROVE g[k] = g[k - 1] + cost(k)
    OBVIOUS
  <2>1. g[k - 1] \in Nat
    BY <1>1, <1>4 DEF IsRun
  <2> HIDE DEF cost
  <2> QED
    BY <1>4, <2>1 DEF IsRun
<1>6. Equation(g)
  <2>1. \A k \in 0..n : k # 0 => k \in 1..n
    BY <1>1
  <2> HIDE DEF n, cost
  <2> QED
    BY <1>4, <1>5, <2>1 DEF IsRun
<1>7. Equation(upTo)
  BY <1>6
<1>8. StakeOf(given) = upTo[n]
  BY DEF StakeOf
<1>9. upTo[0] = 0 /\ \A k \in 1..n : upTo[k] = upTo[k - 1] + cost(k)
  <2>1. 0 \in 0..n /\ \A k \in 1..n : k \in 0..n /\ k # 0
    BY <1>1
  <2> HIDE DEF upTo, n, cost
  <2> QED
    BY <1>7, <2>1
<1>10. upTo \in [0..n -> Nat]
  <2> DEFINE S == {k \in 0..n : upTo[k] \in Nat}
  <2>1. 0 \in S
    BY <1>1, <1>9
  <2>2. ASSUME NEW k \in 1..n, k - 1 \in S PROVE k \in S
    <3>1. upTo[k - 1] \in Nat /\ cost(k) \in Nat /\ k \in 0..n
      BY <1>1, <1>2, <2>2
    <3> HIDE DEF upTo, cost
    <3> QED
      BY <1>9, <3>1
  <2>3. 0..n \subseteq S
    <3> HIDE DEF S, n
    <3> QED
      BY <1>1, <2>1, <2>2, IntervalInduction
  <2>4. DOMAIN upTo = 0..n /\ upTo = [k \in 0..n |-> upTo[k]]
    <3> HIDE DEF upTo
    <3> QED
      BY <1>7
  <2> HIDE DEF upTo
  <2> QED
    BY <2>3, <2>4
<1> HIDE DEF upTo
<1> QED
  BY <1>8, <1>9, <1>10 DEF IsPartialSum

LEMMA StakeType ==
  ASSUME NEW given \in [StatementIds -> Support]
  PROVE  StakeOf(given) \in Nat
<1>1. PICK sum : IsPartialSum(sum, given) /\ StakeOf(given) = sum[MaxStatements]
  BY StakeIsSum
<1>2. MaxStatements \in 0..MaxStatements
  BY AccountAssumption
<1> QED
  BY <1>1, <1>2 DEF IsPartialSum

(* Nothing given is nothing staked. *)
LEMMA EmptyStake == StakeOf([s \in StatementIds |-> NoSupport]) = 0
<1> DEFINE given == [s \in StatementIds |-> NoSupport]
<1>1. given \in [StatementIds -> Support]
  BY DecayBoundsAssumption DEF NoSupport, Support, Supports, Times
<1>2. PICK sum : IsPartialSum(sum, given) /\ StakeOf(given) = sum[MaxStatements]
  BY <1>1, StakeIsSum
<1>3. \A k \in 1..MaxStatements : CostOfUserSupport(given[k - 1].value) = 0
  <2> SUFFICES ASSUME NEW k \in 1..MaxStatements
               PROVE  CostOfUserSupport(given[k - 1].value) = 0
    OBVIOUS
  <2>1. k - 1 \in StatementIds
    BY AccountAssumption DEF StatementIds
  <2>2. given[k - 1].value = 0
    BY <2>1 DEF NoSupport
  <2> QED
    BY <2>2, NothingCostsNothing
<1> DEFINE S == {k \in 0..MaxStatements : sum[k] = 0}
<1>4. 0 \in S
  BY <1>2, AccountAssumption DEF IsPartialSum
<1>5. \A k \in 1..MaxStatements : k - 1 \in S => k \in S
  <2> SUFFICES ASSUME NEW k \in 1..MaxStatements, k - 1 \in S PROVE k \in S
    OBVIOUS
  <2> HIDE DEF given
  <2>1. sum[k] = sum[k - 1] + CostOfUserSupport(given[k - 1].value)
    BY <1>2 DEF IsPartialSum
  <2>2. sum[k] = 0
    BY <1>3, <2>1
  <2> QED
    BY <2>2, AccountAssumption
<1>6. 0..MaxStatements \subseteq S
  <2> HIDE DEF S
  <2> QED
    BY <1>4, <1>5, AccountAssumption, IntervalInduction
<1>7. MaxStatements \in S
  <2> HIDE DEF S
  <2> QED
    BY <1>6, AccountAssumption
<1> QED
  BY <1>2, <1>7

(* Writing one support changes the stake by the difference of its cost. *)
LEMMA StakeUpdate ==
  ASSUME NEW given \in [StatementIds -> Support],
         NEW s \in StatementIds, NEW support \in Support
  PROVE  StakeOf([given EXCEPT ![s] = support])
           = StakeOf(given) + CostOfUserSupport(support.value)
               - CostOfUserSupport(given[s].value)
<1> DEFINE after == [given EXCEPT ![s] = support]
           new == CostOfUserSupport(support.value)
           old == CostOfUserSupport(given[s].value)
<1>1. PICK sum : IsPartialSum(sum, given) /\ StakeOf(given) = sum[MaxStatements]
  BY StakeIsSum
<1>2. PICK sum2 : IsPartialSum(sum2, after) /\ StakeOf(after) = sum2[MaxStatements]
  BY StakeIsSum
<1>3. /\ s \in Nat /\ s < MaxStatements /\ MaxStatements \in Nat
      /\ s + 1 \in 1..MaxStatements
  BY AccountAssumption DEF StatementIds
<1>4. new \in Nat /\ old \in Nat
  BY CostType, DecayBoundsAssumption DEF Support, Supports
<1> DEFINE S == {k \in 0..MaxStatements :
                   sum2[k] = sum[k] + (IF k > s THEN new - old ELSE 0)}
<1>5. 0 \in S
  BY <1>1, <1>2, <1>3 DEF IsPartialSum
<1>6. \A k \in 1..MaxStatements : k - 1 \in S => k \in S
  <2> SUFFICES ASSUME NEW k \in 1..MaxStatements, k - 1 \in S PROVE k \in S
    OBVIOUS
  <2> DEFINE c1 == CostOfUserSupport(given[k - 1].value)
             c2 == CostOfUserSupport(after[k - 1].value)
  <2>1. sum[k] = sum[k - 1] + c1 /\ sum2[k] = sum2[k - 1] + c2
    BY <1>1, <1>2 DEF IsPartialSum
  <2>2. sum[k] \in Nat /\ sum2[k] \in Nat /\ sum[k - 1] \in Nat /\ sum2[k - 1] \in Nat
    BY <1>1, <1>2, <1>3 DEF IsPartialSum
  <2>3. k - 1 \in StatementIds
    BY <1>3 DEF StatementIds
  <2>4. c1 \in Nat
    BY <2>3, CostType, DecayBoundsAssumption DEF Support, Supports
  <2>5. CASE k - 1 = s
    <3>1. c1 = old /\ c2 = new
      BY <2>3, <2>5
    <3>2. sum2[k - 1] = sum[k - 1]
      BY <1>3, <2>2, <2>5
    <3> HIDE DEF c1, c2, new, old
    <3> QED
      BY <1>3, <1>4, <2>1, <2>2, <2>5, <3>1, <3>2
  <2>6. CASE k - 1 # s
    <3>1. c2 = c1
      BY <2>3, <2>6
    <3>2. k > s <=> k - 1 > s
      BY <1>3, <2>6
    <3>3. sum2[k - 1] = sum[k - 1] + (IF k - 1 > s THEN new - old ELSE 0)
      OBVIOUS
    <3> HIDE DEF c1, c2, new, old
    <3> QED
      BY <1>4, <2>1, <2>2, <2>4, <3>1, <3>2, <3>3
  <2> QED
    BY <2>5, <2>6
<1>7. 0..MaxStatements \subseteq S
  <2> HIDE DEF S
  <2> QED
    BY <1>3, <1>5, <1>6, IntervalInduction
<1>8. sum2[MaxStatements] = sum[MaxStatements] + (new - old)
  <2>1. MaxStatements \in S
    <3> HIDE DEF S
    <3> QED
      BY <1>3, <1>7
  <2> HIDE DEF new, old
  <2> QED
    BY <1>3, <2>1
<1>9. sum[MaxStatements] \in Nat
  BY <1>1, <1>3 DEF IsPartialSum
<1> HIDE DEF new, old, after
<1>10. StakeOf(after) = StakeOf(given) + new - old
  BY <1>1, <1>2, <1>4, <1>8, <1>9
<1> QED
  BY <1>10 DEF new, old, after

-----------------------------------------------------------------------------
(***************************************************************************)
(* NoFreeCredits is not inductive: an allowance interval of the account    *)
(* ends at other times than one counted from registration.  What is        *)
(* inductive is that the stored credits and the stake were covered at the  *)
(* time they were stored.                                                  *)
(***************************************************************************)
GrantedBy(t) ==
  userStartingCredits
    + ((t - registrationTimestamp) \div creditAllowanceIntervalSeconds)
        * userCreditAllowancePerInterval

CreditsBacked ==
  IF balance.lastUpdated = 0
  THEN Stake = 0
  ELSE /\ registrationTimestamp <= balance.lastUpdated
       /\ balance.credits + Stake <= GrantedBy(balance.lastUpdated)

LEMMA GrantedType ==
  ASSUME NEW t \in Times, registrationTimestamp <= t
  PROVE  GrantedBy(t) \in Nat
<1>1. (t - registrationTimestamp) \div creditAllowanceIntervalSeconds \in Nat
  BY IntervalsType, AccountAssumption
<1>2. \A a, b, c \in Nat : a + b * c \in Nat
  OBVIOUS
<1> QED
  BY <1>1, <1>2, AccountAssumption DEF GrantedBy

(* What was covered when it was stored is covered now. *)
LEMMA BackedNow ==
  ASSUME IInv, CreditsBacked, IsMember
  PROVE  /\ CurrentUserBalance \in Nat /\ Stake \in Nat /\ GrantedBy(now) \in Nat
         /\ CurrentUserBalance + Stake <= GrantedBy(now)
<1> DEFINE L == balance.lastUpdated
           R == registrationTimestamp
           I == creditAllowanceIntervalSeconds
           A == userCreditAllowancePerInterval
<1>1. /\ now \in Times /\ L \in Times /\ R \in Times /\ L <= now /\ R <= now
      /\ now \in Nat /\ L \in Nat /\ R \in Nat /\ balance.credits \in Nat
      /\ I \in Nat \ {0} /\ A \in Nat /\ userStartingCredits \in Nat
  BY AccountAssumption, DecayBoundsAssumption
     DEF IInv, TypeOK, UserBalance, AccountIsPast, IsMember, Times
<1>2. CurrentUserBalance \in Nat
  BY <1>1, BalanceType DEF IInv
<1>3. Stake \in Nat
  BY StakeType DEF Stake, IInv, TypeOK
<1>4. GrantedBy(now) \in Nat
  BY <1>1, GrantedType
<1>5. CASE L = 0
  <2>1. CurrentUserBalance = GrantedBy(now)
    BY <1>5 DEF CurrentUserBalance, Intervals, GrantedBy
  <2>2. Stake = 0
    BY <1>5 DEF CreditsBacked
  <2> QED
    BY <1>2, <1>3, <1>4, <2>1, <2>2
<1>6. CASE L # 0
  <2> DEFINE x == (now - L) \div I
             y == (L - R) \div I
             z == (now - R) \div I
  <2>1. R <= L /\ balance.credits + Stake <= GrantedBy(L)
    BY <1>6 DEF CreditsBacked
  <2>2. x \in Nat /\ y \in Nat /\ z \in Nat /\ x + y <= z
    <3>1. now - L \in Nat /\ L - R \in Nat /\ (now - L) + (L - R) = now - R
      BY <1>1, <2>1
    <3>2. x + y <= ((now - L) + (L - R)) \div I
      BY <1>1, <3>1, DivisionSuperadditive
    <3> QED
      BY <1>1, <2>1, <3>1, <3>2
  <2>3. (x + y) * A <= z * A
    <3>1. x + y \in Nat
      BY <2>2
    <3> HIDE DEF x, y, z, A
    <3> QED
      BY <1>1, <2>2, <3>1, ProductGrows
  <2>4. (x + y) * A = x * A + y * A /\ x * A \in Nat /\ y * A \in Nat /\ z * A \in Nat
    <3> HIDE DEF x, y, z, A
    <3> QED
      BY <1>1, <2>2
  <2>5. /\ CurrentUserBalance = balance.credits + x * A
        /\ GrantedBy(L) = userStartingCredits + y * A
        /\ GrantedBy(now) = userStartingCredits + z * A
    BY <1>6 DEF CurrentUserBalance, Intervals, GrantedBy
  <2> HIDE DEF x, y, z, A, L
  <2> QED
    BY <1>1, <1>2, <1>3, <1>4, <2>1, <2>3, <2>4, <2>5
<1> QED
  BY <1>5, <1>6

LEMMA InitBacked == Init => CreditsBacked
<1> SUFFICES ASSUME Init PROVE CreditsBacked
  OBVIOUS
<1>1. balance.lastUpdated = 0 /\ supports = [s \in StatementIds |-> NoSupport]
  BY DEF Init
<1> QED
  BY <1>1, EmptyStake DEF CreditsBacked, Stake

(* A call that stores what was paid for leaves the credits covered. *)
LEMMA PaidIsBacked ==
  ASSUME IInv, CreditsBacked, IsMember, NEW charge \in Int,
         Stake' \in Nat, Stake' <= Stake + charge, charge <= CurrentUserBalance,
         balance' = [credits |-> CurrentUserBalance - charge, lastUpdated |-> now],
         now' = now
  PROVE  CreditsBacked'
<1>1. /\ CurrentUserBalance \in Nat /\ Stake \in Nat /\ GrantedBy(now) \in Nat
      /\ CurrentUserBalance + Stake <= GrantedBy(now)
  BY BackedNow
<1>2. (CurrentUserBalance - charge) + Stake' <= GrantedBy(now)
  BY <1>1
<1>3. now # 0 /\ registrationTimestamp <= now
  BY AccountAssumption, TimeFacts DEF IsMember, IInv, Times
<1>4. balance'.lastUpdated = now /\ balance'.credits = CurrentUserBalance - charge
  OBVIOUS
<1> QED
  BY <1>2, <1>3, <1>4 DEF CreditsBacked, GrantedBy

LEMMA AddBacked ==
  ASSUME IInv, CreditsBacked, NEW initialSupport \in InitialSupports,
         Add(initialSupport)
  PROVE  CreditsBacked'
<1> DEFINE s == statementCount
           given == [value |-> initialSupport, lastUpdated |-> now]
           cost == CostOfUserSupport(initialSupport)
<1>1. /\ supports \in [StatementIds -> Support] /\ s \in StatementIds
      /\ initialSupport \in Supports /\ initialSupport \in Int
      /\ now \in Times /\ given \in Support
  BY InputsAssumption, TimeFacts DEF IInv, TypeOK, Add, StatementIds, Support
<1>2. cost \in Nat /\ Stake \in Nat
  BY <1>1, CostType, StakeType DEF Stake
<1>3. supports[s] = NoSupport
  <2>1. ~(s < statementCount)
    BY TimeFacts DEF IInv
  <2> QED
    BY <1>1, <2>1 DEF IInv, AccountIsPast
<1>4. Stake' \in Nat /\ Stake' = Stake + cost
  <2>1. CASE initialSupport = 0
    <3>1. supports' = supports /\ cost = 0
      BY <2>1, NothingCostsNothing DEF Add
    <3> HIDE DEF cost
    <3> QED
      BY <1>2, <3>1 DEF Stake
  <2>2. CASE initialSupport # 0
    <3>1. supports' = [supports EXCEPT ![s] = given]
      BY <2>2 DEF Add
    <3>2. StakeOf([supports EXCEPT ![s] = given])
            = StakeOf(supports) + CostOfUserSupport(given.value)
                - CostOfUserSupport(supports[s].value)
      BY <1>1, StakeUpdate
    <3>3. CostOfUserSupport(supports[s].value) = 0
      BY <1>3, NothingCostsNothing DEF NoSupport
    <3>4. CostOfUserSupport(given.value) = cost
      OBVIOUS
    <3> HIDE DEF cost, given
    <3> QED
      BY <1>2, <3>1, <3>2, <3>3, <3>4 DEF Stake
  <2> QED
    BY <2>1, <2>2
<1>5. /\ IsMember /\ CurrentUserBalance >= cost /\ now' = now
      /\ balance' = [credits |-> CurrentUserBalance - cost, lastUpdated |-> now]
  BY DEF Add
<1>6. CurrentUserBalance \in Nat
  BY <1>5, BackedNow
<1> HIDE DEF cost
<1> QED
  BY <1>2, <1>4, <1>5, <1>6, PaidIsBacked

(* The loop of adjustSupport adds to the cost what it adds to the stake. *)
LEMMA RoundIsPaid ==
  ASSUME IInv, NEW c \in Drafts, NEW adjustment \in Adjustments,
         StakeOf(c.supports) <= Stake + c.totalCostChange
  PROVE  LET next == AdjustOne(c, adjustment)
         IN  StakeOf(next.supports) <= Stake + next.totalCostChange
<1> DEFINE s == adjustment.statementId
           old == CurrentSupport(c.supports[s], now)
           new == Adjusted(old, adjustment)
           given == [value |-> new, lastUpdated |-> now]
           next == AdjustOne(c, adjustment)
<1>1. /\ TypeOK /\ now \in Times /\ s \in StatementIds
      /\ c.supports \in [StatementIds -> Support]
      /\ c.supports[s] \in Support /\ c.supports[s].lastUpdated <= now
      /\ c.totalCostChange \in Int
  BY InputsAssumption, TimeFacts DEF IInv, Drafts, Recorded
<1>2. CASE next = [c EXCEPT !.reverted = TRUE]
  <2>1. next.supports = c.supports /\ next.totalCostChange = c.totalCostChange
    BY <1>2 DEF Drafts
  <2> QED
    BY <2>1
<1>3. CASE next = Accept(c, s, old, new) /\ new \in Supports
  <2> DEFINE costOld == CostOfUserSupport(old)
             costNew == CostOfUserSupport(new)
             stored == CostOfUserSupport(c.supports[s].value)
  <2>1. /\ next.supports = [c.supports EXCEPT ![s] = given]
        /\ next.totalCostChange = c.totalCostChange + costNew - costOld
    <3>1. c \in [supports : [StatementIds -> Support], supported : Seq(Live),
                 totalCostChange : Int,
                 changes : Seq([statementId : StatementIds, change : Int]),
                 reverted : BOOLEAN]
      BY DEF Drafts
    <3> HIDE DEF old, new, s
    <3> QED
      BY <1>3, <3>1 DEF Accept
  <2>2. given \in Support /\ old \in Int /\ new \in Int
    BY <1>1, <1>3, CurrentSupportType, TimeFacts DEF Support
  <2>3. costOld \in Nat /\ costNew \in Nat /\ stored \in Nat
    BY <1>1, <2>2, CostType, TimeFacts DEF Support
  <2>4. costOld <= stored
    BY <1>1, DecayCheapens
  <2>5. StakeOf([c.supports EXCEPT ![s] = given])
          = StakeOf(c.supports) + CostOfUserSupport(given.value) - stored
    <3> HIDE DEF given, s
    <3> QED
      BY <1>1, <2>2, StakeUpdate
  <2>6. CostOfUserSupport(given.value) = costNew
    OBVIOUS
  <2>7. StakeOf(c.supports) \in Nat /\ Stake \in Nat
    BY <1>1, StakeType DEF Stake, IInv, TypeOK
  <2> HIDE DEF given, costOld, costNew, stored
  <2> QED
    BY <1>1, <2>1, <2>3, <2>4, <2>5, <2>6, <2>7
<1>4. next = [c EXCEPT !.reverted = TRUE]
        \/ (next = Accept(c, s, old, new) /\ new \in Supports)
  BY DEF AdjustOne
<1> QED
  BY <1>2, <1>3, <1>4

LEMMA AdjustBacked ==
  ASSUME IInv, CreditsBacked, NEW batch \in Batches, Adjust(batch)
  PROVE  CreditsBacked'
<1> DEFINE n == Len(batch)
           c == AdjustAll(batch)
           charge == Settle(c.totalCostChange)
<1>1. TypeOK /\ n \in Nat /\ \A i \in 1..n : batch[i] \in Adjustments
  BY BatchType DEF IInv
<1>2. PICK run \in [0..n -> Drafts] :
        /\ run[0] = BeforeAdjusting
        /\ \A i \in 1..n : run[i] = AdjustOne(run[i - 1], batch[i])
        /\ c = run[n]
  BY <1>1, BeforeAdjustingDraft, AdjustAllIsRun
<1>3. Stake \in Nat
  BY StakeType DEF Stake, IInv, TypeOK
<1> DEFINE S == {i \in 0..n :
                   StakeOf(run[i].supports) <= Stake + run[i].totalCostChange}
<1>4. 0 \in S
  <2>1. run[0].supports = supports /\ run[0].totalCostChange = 0
    BY <1>2 DEF BeforeAdjusting
  <2>2. StakeOf(run[0].supports) <= Stake + run[0].totalCostChange
    BY <1>3, <2>1 DEF Stake
  <2> QED
    BY <1>1, <2>2
<1>5. \A i \in 1..n : i - 1 \in S => i \in S
  <2> SUFFICES ASSUME NEW i \in 1..n, i - 1 \in S PROVE i \in S
    OBVIOUS
  <2>1. /\ run[i - 1] \in Drafts /\ batch[i] \in Adjustments
        /\ StakeOf(run[i - 1].supports) <= Stake + run[i - 1].totalCostChange
        /\ run[i] = AdjustOne(run[i - 1], batch[i])
    BY <1>1, <1>2
  <2>2. StakeOf(run[i].supports) <= Stake + run[i].totalCostChange
    BY <2>1, RoundIsPaid
  <2> QED
    BY <1>1, <2>2
<1>6. 0..n \subseteq S
  <2> HIDE DEF S, n
  <2> QED
    BY <1>1, <1>4, <1>5, IntervalInduction
<1>7. c \in Drafts /\ StakeOf(c.supports) <= Stake + c.totalCostChange
  <2>1. n \in S
    <3> HIDE DEF S, n
    <3> QED
      BY <1>1, <1>6
  <2> HIDE DEF n, c
  <2> QED
    BY <1>1, <1>2, <2>1
<1>8. /\ IsMember /\ CurrentUserBalance >= charge /\ now' = now
      /\ supports' = c.supports
      /\ balance' = [credits |-> CurrentUserBalance - charge, lastUpdated |-> now]
  BY DEF Adjust
<1> HIDE DEF c
<1>9. c.totalCostChange \in Int /\ c.supports \in [StatementIds -> Support]
  BY <1>7 DEF Drafts, Recorded
<1>10. charge \in Int /\ charge >= c.totalCostChange
  BY <1>9, SettleKeeps
<1>11. Stake' \in Nat /\ Stake' <= Stake + charge
  <2>1. Stake' = StakeOf(c.supports) /\ StakeOf(c.supports) \in Nat
    BY <1>8, <1>9, StakeType DEF Stake
  <2> HIDE DEF charge
  <2> QED
    BY <1>3, <1>7, <1>9, <1>10, <2>1
<1>12. CurrentUserBalance \in Nat
  BY <1>8, BackedNow
<1> HIDE DEF charge
<1> QED
  BY <1>8, <1>10, <1>11, <1>12, PaidIsBacked

LEMMA NextBacked == IInv /\ CreditsBacked /\ [Next]_vars => CreditsBacked'
<1> SUFFICES ASSUME IInv, CreditsBacked, [Next]_vars PROVE CreditsBacked'
  OBVIOUS
<1>1. ASSUME NEW initialSupport \in InitialSupports, Add(initialSupport)
      PROVE  CreditsBacked'
  BY <1>1, AddBacked
<1>2. ASSUME NEW batch \in Batches, Adjust(batch)
      PROVE  CreditsBacked'
  BY <1>2, AdjustBacked
<1>3. CASE UNCHANGED <<supports, balance>>
  BY <1>3 DEF CreditsBacked, Stake, GrantedBy
<1>4. OtherAdds \/ Tick \/ UNCHANGED vars => UNCHANGED <<supports, balance>>
  BY DEF OtherAdds, Tick, vars
<1> QED
  BY <1>1, <1>2, <1>3, <1>4 DEF Next

(***************************************************************************)
(* No sequence of calls yields credits (addStatement and adjustSupport of  *)
(* Forum.sol): credits and stake together never exceed the starting        *)
(* credits and the allowance since registration, for every decay that only *)
(* takes away, every refund penalty and every batch.                       *)
(***************************************************************************)
THEOREM CreditsNeverFree == Spec => []NoFreeCredits
<1>1. IInv /\ CreditsBacked => NoFreeCredits
  <2> SUFFICES ASSUME IInv, CreditsBacked, IsMember
               PROVE  CurrentUserBalance + Stake <= Granted
    BY DEF NoFreeCredits
  <2>1. Granted = GrantedBy(now)
    BY DEF Granted, GrantedBy, Intervals
  <2> QED
    BY <2>1, BackedNow
<1> QED
  BY <1>1, InitIInv, NextIInv, InitBacked, NextBacked, PTL DEF Spec

(***************************************************************************)
(* A support only changes in a call that moves the member's clock, which   *)
(* getUserLastUpdated returns.                                             *)
(***************************************************************************)
THEOREM SupportAlwaysMovesClock == Spec => SupportMovesClock
<1> DEFINE Moves == supports' # supports => balance'.lastUpdated = now
<1>1. [Next]_vars => [Moves]_vars
  <2>1. ASSUME NEW initialSupport \in InitialSupports, Add(initialSupport) PROVE Moves
    BY <2>1 DEF Add
  <2>2. ASSUME NEW batch \in Batches, Adjust(batch) PROVE Moves
    BY <2>2 DEF Adjust
  <2>3. ASSUME OtherAdds \/ Tick PROVE Moves
    BY <2>3 DEF OtherAdds, Tick
  <2> HIDE DEF Moves
  <2> QED
    BY <2>1, <2>2, <2>3 DEF Next
<1>2. Spec => [][Moves]_vars
  BY <1>1, PTL DEF Spec
<1> QED
  BY <1>2 DEF SupportMovesClock

-----------------------------------------------------------------------------
(***************************************************************************)
(* All of it, for every decay, limit and batch: what getUserLastUpdated,   *)
(* getUserStatementSupport and the next call rely on.                      *)
(***************************************************************************)
THEOREM AccountAlwaysKept == Spec => AccountIsKept
<1> QED
  BY AccountTypeCorrect, SupportAlwaysListed, AccountAlwaysPast, SupportAlwaysMovesClock,
     PTL DEF AccountIsKept

-----------------------------------------------------------------------------
(***************************************************************************)
(* Staging.                                                                *)
(*                                                                         *)
(* The client and the forum price the same support, the client in          *)
(* fractions and the forum rounded down.  The invariant says what is asked *)
(* of a card and that both sides list the same statements; what is said of *)
(* credits holds in every well-formed state, by bounds on the sums.        *)
(***************************************************************************)
(* TotalOf of the model is the sum that module Induction speaks of. *)
LEMMA TotalIs == \A f : TotalOf(f) = SumFunctionOnSet(f, DOMAIN f)
BY DEF TotalOf, FoldFunction, FoldFunctionOnSet, SumFunctionOnSet

-----------------------------------------------------------------------------
Amounts == [supports : Seq(Int), credits : Nat]

StagedTyped ==
  /\ account \in Amounts /\ onChain \in Amounts
  /\ Len(account.supports) = Len(onChain.supports)
  /\ statements \in Seq(Int)
  /\ asked \in [card : Nat, credits : Int]
  /\ asked # NotAsked => asked.card \in Statements

StagingIInv == StagingTypeOK /\ StagedTyped /\ CardShowsWhatWasAsked

(* Rounding to credits. *)
LEMMA DivisionShifts ==
  ASSUME NEW a \in Int, NEW k \in Int, NEW d \in Nat \ {0}
  PROVE  (a + k * d) \div d = (a \div d) + k
<1> DEFINE q == a \div d
           r == (a + k * d) \div d
<1>1. q \in Int /\ d * q <= a /\ a < d * q + d
  OBVIOUS
<1>2. a + k * d \in Int
  OBVIOUS
<1>3. r \in Int /\ d * r <= a + k * d /\ a + k * d < d * r + d
  <2> HIDE DEF q
  <2>1. \A b \in Int : b \div d \in Int /\ d * (b \div d) <= b /\ b < d * (b \div d) + d
    OBVIOUS
  <2> QED
    BY <1>2, <2>1
<1> HIDE DEF q, r
<1>4. k * d = d * k /\ d * (q + k) = d * q + d * k
  BY <1>1
<1>5. d * q \in Int /\ d * r \in Int /\ d * k \in Int /\ d * (q + k) \in Int
  BY <1>1, <1>3
<1>6. d * r < d * (q + k) + d /\ d * (q + k) < d * r + d
  BY <1>1, <1>3, <1>4, <1>5
<1>7. \A x, y \in Int : d * x < d * y + d => x < y + 1
  <2> SUFFICES ASSUME NEW x \in Int, NEW y \in Int, x >= y + 1, d * x < d * y + d
               PROVE  FALSE
    OBVIOUS
  <2>1. d * (x - (y + 1)) \in Nat
    OBVIOUS
  <2>2. d * (x - (y + 1)) = d * x - (d * y + d)
    OBVIOUS
  <2>3. d * x \in Int /\ d * y \in Int
    OBVIOUS
  <2> QED
    BY <2>1, <2>2, <2>3
<1>8. r < (q + k) + 1 /\ q + k < r + 1
  BY <1>1, <1>3, <1>6, <1>7
<1>9. r = q + k
  BY <1>1, <1>3, <1>8
<1> QED
  BY <1>9 DEF q, r

(* Whole credits pass through the rounding of toCredits untouched. *)
LEMMA RoundingShifts ==
  /\ \A parts \in Int, credits \in Int :
       /\ ToCredits(parts) \in Int /\ ToParts(credits) \in Int
       /\ ToCredits(parts + ToParts(credits)) = ToCredits(parts) + credits
  /\ ToCredits(0) = 0
<1> DEFINE m == creditMultiplier
<1>1. m \in Nat \ {0} /\ 2 * m \in Nat \ {0} /\ m \in Nat
  BY CostAssumption
<1>2. ASSUME NEW parts \in Int, NEW credits \in Int
      PROVE  /\ ToCredits(parts) \in Int /\ ToParts(credits) \in Int
             /\ ToCredits(parts + ToParts(credits)) = ToCredits(parts) + credits
  <2> HIDE DEF m
  <2>1. 2 * parts + m \in Int /\ credits * m \in Int
    BY <1>1
  <2>2. 2 * (parts + credits * m) + m = (2 * parts + m) + credits * (2 * m)
    BY <1>1
  <2>3. ((2 * parts + m) + credits * (2 * m)) \div (2 * m)
          = ((2 * parts + m) \div (2 * m)) + credits
    BY <1>1, <2>1, DivisionShifts
  <2>4. (2 * parts + m) \div (2 * m) \in Int
    BY <1>1, <2>1
  <2> QED
    BY <2>1, <2>2, <2>3, <2>4 DEF ToCredits, ToParts, Unit, m
<1>3. ToCredits(0) = 0
  <2> HIDE DEF m
  <2>1. 2 * 0 + m = m /\ m \div (2 * m) = 0
    BY <1>1
  <2> QED
    BY <2>1 DEF ToCredits, Unit, m
<1> QED
  BY <1>2, <1>3

(* The price of support in the client. *)
LEMMA TriangleType ==
  \A x \in Int : Abs(x) \in Nat /\ Triangle(x) \in Nat
<1> SUFFICES ASSUME NEW x \in Int PROVE Abs(x) \in Nat /\ Triangle(x) \in Nat
  OBVIOUS
<1>1. Abs(x) \in Nat /\ creditMultiplier \in Nat
  BY CostAssumption DEF Abs
<1>2. \A a, b \in Nat : a * (a + b) \in Nat
  OBVIOUS
<1> QED
  BY <1>1, <1>2 DEF Triangle

(* Every cost buys a support. *)
LEMMA InverseTriangleType ==
  ASSUME NEW cost \in Nat
  PROVE  InverseTriangle(cost) \in 0..cost
<1> DEFINE S == {x \in 0..cost : Triangle(x) <= cost}
<1>1. Triangle(0) = 0
  <2>1. Abs(0) = 0 /\ creditMultiplier \in Nat
    BY CostAssumption DEF Abs
  <2> QED
    BY <2>1 DEF Triangle
<1>2. PICK x \in S : \A y \in S : x >= y
  <2>1. S \in SUBSET (0..cost) /\ S # {} /\ cost \in Int /\ 0 \in Int
    BY <1>1
  <2> HIDE DEF S
  <2>2. \E m \in S : \A x \in S : m >= x
    BY <2>1, GreatestOfInterval
  <2> QED
    BY <2>2
<1>3. Triangle(x + 1) > cost
  <2>1. CASE x + 1 \in 0..cost
    <3>1. x + 1 \notin S
      <4> HIDE DEF S
      <4>1. x \in Int
        BY DEF S
      <4> QED
        BY <1>2, <4>1
    <3>2. Triangle(x + 1) \in Nat
      BY TriangleType
    <3> QED
      BY <2>1, <3>1, <3>2
  <2>2. CASE x = cost
    <3>1. Abs(x + 1) = cost + 1 /\ creditMultiplier \in Nat
      BY <2>2, CostAssumption DEF Abs
    <3>2. \A m \in Nat : (cost + 1) * ((cost + 1) + m) > cost
      <4> SUFFICES ASSUME NEW m \in Nat PROVE (cost + 1) * ((cost + 1) + m) > cost
        OBVIOUS
      <4>1. (cost + 1) * (cost + m) \in Nat
        OBVIOUS
      <4>2. (cost + 1) * ((cost + 1) + m) = (cost + 1) * (cost + m) + (cost + 1)
        OBVIOUS
      <4> QED
        BY <4>1, <4>2
    <3> QED
      BY <3>1, <3>2 DEF Triangle
  <2> QED
    BY <2>1, <2>2
<1> QED
  BY <1>2, <1>3 DEF InverseTriangle

-----------------------------------------------------------------------------
(* What an adjustment makes of a statement, and nothing of the others. *)
LEMMA AdjustedType ==
  \A old \in Int, adjustment \in SupportAdjustment :
    GetAdjustedSupport(old, adjustment) \in Int
BY DEF GetAdjustedSupport, SupportAdjustment

Effective(f, s) ==
  IF s \in DOMAIN f THEN GetAdjustedSupport(onChain.supports[s], f[s])
  ELSE onChain.supports[s]

(* What a card, the reducer and the forum take for the support is an integer. *)
LEMMA EffectiveType ==
  ASSUME StagingTypeOK, StagedTyped, NEW s \in Statements
  PROVE  /\ onChain.supports[s] \in Int
         /\ GetEffectiveSupport(s) \in Int
         /\ GetEffectiveSupport(s) = Effective(adjustments, s)
<1>1. onChain.supports[s] \in Int
  BY DEF StagedTyped, Amounts, Statements
<1> QED
  BY <1>1, AdjustedType DEF StagingTypeOK, GetEffectiveSupport, Effective

(* setStagedSupportAdjustment keeps the record of adjustments well formed. *)
LEMMA AdjustmentAdded ==
  ASSUME StagedTyped, NEW f, f \in [DOMAIN f -> SupportAdjustment],
         NEW s \in Statements, NEW adjustment \in SupportAdjustment
  PROVE  LET g == WithAdjustment(f, s, adjustment)
         IN  /\ g \in [DOMAIN g -> SupportAdjustment]
             /\ DOMAIN g \subseteq DOMAIN f \cup {s}
             /\ Effective(g, s) = GetAdjustedSupport(onChain.supports[s], adjustment)
             /\ \A x \in Statements \ {s} : Effective(g, x) = Effective(f, x)
<1> DEFINE old == onChain.supports[s]
<1>1. CASE GetAdjustedSupport(old, adjustment) = old
  <2>1. WithAdjustment(f, s, adjustment) = [x \in DOMAIN f \ {s} |-> f[x]]
    BY <1>1 DEF WithAdjustment, Without
  <2> QED
    BY <1>1, <2>1 DEF Effective
<1>2. CASE GetAdjustedSupport(old, adjustment) # old
  <2>1. WithAdjustment(f, s, adjustment)
          = [x \in DOMAIN f \cup {s} |-> IF x = s THEN adjustment ELSE f[x]]
    BY <1>2 DEF WithAdjustment
  <2> QED
    BY <2>1 DEF Effective
<1> QED
  BY <1>1, <1>2

(* The adjustments are staged for another set of them, and nothing else    *)
(* is touched but the card that was asked about.                           *)
LEMMA AdjustmentsSet ==
  ASSUME StagingIInv, NEW g, g \in [DOMAIN g -> SupportAdjustment],
         DOMAIN g \subseteq Statements, adjustments' = g,
         UNCHANGED <<account, onChain, statements, draft, moves>>,
         \/ asked' = NotAsked
         \/ /\ asked' \in [card : Statements, credits : Int]
            /\ ToCredits(Effective(g, asked'.card)) = asked'.credits
  PROVE  StagingIInv'
<1>1. StagingTypeOK'
  BY DEF StagingIInv, StagingTypeOK, Statements
<1>2. StagedTyped'
  <2>1. Statements \subseteq Nat
    BY DEF StagingIInv, StagedTyped, Amounts, Statements
  <2>2. asked' \in [card : Nat, credits : Int]
    BY <2>1 DEF NotAsked
  <2>3. asked' # NotAsked => asked'.card \in Statements
    OBVIOUS
  <2> QED
    BY <2>2, <2>3 DEF StagingIInv, StagedTyped, Statements
<1>3. CardShowsWhatWasAsked'
  <2>1. ASSUME asked' # NotAsked
        PROVE  ToCredits(Effective(g, asked'.card)) = asked'.credits
    BY <2>1
  <2> QED
    BY <2>1 DEF CardShowsWhatWasAsked, Shown, GetEffectiveSupport, Effective
<1> QED
  BY <1>1, <1>2, <1>3 DEF StagingIInv

(* Each action keeps the invariant; the first is the one that asks. *)
LEMMA StagePreserves ==
  ASSUME StagingIInv, NEW s \in Statements, StageUserSupport(s)
  PROVE  StagingIInv'
<1>1. PICK credits \in VoteToggle(Shown(s)) :
        /\ adjustments' = WithAdjustment(adjustments, s, SupportChange(s, credits))
        /\ asked' = [card |-> s, credits |-> credits]
        /\ UNCHANGED <<account, onChain, statements, draft, moves>>
  BY DEF StageUserSupport
<1> DEFINE change == SupportChange(s, credits)
           g == WithAdjustment(adjustments, s, change)
           old == onChain.supports[s]
<1>2. credits \in Int /\ old \in Int
  <2>1. credits \in -MaxShown..MaxShown /\ MaxShown \in Nat
    BY StagingBounds DEF VoteToggle
  <2> QED
    BY <2>1, EffectiveType DEF StagingIInv
<1>3. /\ change \in SupportAdjustment
      /\ ToCredits(GetAdjustedSupport(old, change)) = credits
  <2>1. CASE credits = 0
    <3>1. change = [type |-> "SetTo", value |-> 0]
      BY <2>1 DEF SupportChange, SetTo
    <3>2. GetAdjustedSupport(old, change) = 0 /\ change \in SupportAdjustment
      BY <3>1 DEF SupportAdjustment, GetAdjustedSupport
    <3> HIDE DEF old, change
    <3> QED
      BY <2>1, <3>2, RoundingShifts
  <2>2. CASE credits # 0
    <3> DEFINE d == credits - ToCredits(old)
    <3>1. change = [type |-> "Delta", value |-> ToParts(d)]
      BY <2>2 DEF SupportChange, Delta
    <3>2. d \in Int /\ ToCredits(old) \in Int
      <4> HIDE DEF old
      <4>1. ToCredits(old) \in Int
        BY <1>2, RoundingShifts
      <4> QED
        BY <1>2, <4>1
    <3>3. /\ ToParts(d) \in Int
          /\ ToCredits(old + ToParts(d)) = ToCredits(old) + d
      <4> HIDE DEF d, old
      <4> QED
        BY <1>2, <3>2, RoundingShifts
    <3>4. ToCredits(old) + d = credits
      BY <1>2, <3>2
    <3>5. GetAdjustedSupport(old, change) = old + ToParts(d)
      BY <3>1 DEF GetAdjustedSupport
    <3> HIDE DEF d, old, change
    <3>6. ToCredits(GetAdjustedSupport(old, change)) = credits
      BY <3>3, <3>4, <3>5
    <3> QED
      BY <3>1, <3>3, <3>6 DEF SupportAdjustment
  <2> QED
    BY <2>1, <2>2
<1>4. /\ g \in [DOMAIN g -> SupportAdjustment] /\ DOMAIN g \subseteq Statements
      /\ Effective(g, s) = GetAdjustedSupport(old, change)
  <2> HIDE DEF change
  <2> QED
    BY <1>3, AdjustmentAdded DEF StagingIInv, StagingTypeOK
<1> HIDE DEF g, change, old
<1>5. adjustments' = g /\ ToCredits(Effective(g, asked'.card)) = asked'.credits
      /\ asked' \in [card : Statements, credits : Int]
  BY <1>1, <1>2, <1>3, <1>4 DEF g, change
<1> QED
  BY <1>1, <1>4, <1>5, AdjustmentsSet

(* The tab on the corner of a card. *)
LEMMA ClearPreserves ==
  ASSUME StagingIInv, NEW s \in Statements, ClearStagedSupport(s)
  PROVE  StagingIInv'
<1> DEFINE g == WithAdjustment(adjustments, s, Delta(0))
<1>1. Delta(0) \in SupportAdjustment
  BY DEF Delta, SupportAdjustment
<1>2. g \in [DOMAIN g -> SupportAdjustment] /\ DOMAIN g \subseteq Statements
  BY <1>1, AdjustmentAdded DEF StagingIInv, StagingTypeOK
<1>3. adjustments' = g /\ asked' = NotAsked
      /\ UNCHANGED <<account, onChain, statements, draft, moves>>
  BY DEF ClearStagedSupport
<1> HIDE DEF g
<1> QED
  BY <1>2, <1>3, AdjustmentsSet

(* Moving and merging support. *)
LEMMA SwitchPreserves ==
  ASSUME StagingIInv, NEW s \in Statements, NEW t \in Statements, SwitchSupport(s, t)
  PROVE  StagingIInv'
<1> DEFINE source == GetEffectiveSupport(s)
           target == GetEffectiveSupport(t)
           cost == Triangle(source) + Triangle(target)
           merged == SignOf(source) * InverseTriangle(cost)
           rest == merged - onChain.supports[t]
           f == WithAdjustment(adjustments, s, SetTo(0))
           g == WithAdjustment(f, t, Delta(rest))
<1>1. rest \in Int
  <2>1. source \in Int /\ target \in Int /\ onChain.supports[t] \in Int
    BY EffectiveType DEF StagingIInv
  <2>2. cost \in Nat
    <3> HIDE DEF source, target
    <3>1. Triangle(source) \in Nat /\ Triangle(target) \in Nat
      BY <2>1, TriangleType
    <3> QED
      BY <3>1
  <2>3. InverseTriangle(cost) \in Int
    <3> HIDE DEF cost
    <3> QED
      BY <2>2, InverseTriangleType
  <2>4. SignOf(source) \in {1, 0, -1}
    BY DEF SignOf
  <2> HIDE DEF source, cost
  <2>5. merged \in Int
    BY <2>3, <2>4
  <2> HIDE DEF merged
  <2> QED
    BY <2>1, <2>5
<1> HIDE DEF rest
<1>2. SetTo(0) \in SupportAdjustment /\ Delta(rest) \in SupportAdjustment
  BY <1>1 DEF Delta, SetTo, SupportAdjustment
<1>3. f \in [DOMAIN f -> SupportAdjustment] /\ DOMAIN f \subseteq Statements
  BY <1>2, AdjustmentAdded DEF StagingIInv, StagingTypeOK
<1> HIDE DEF f
<1>4. g \in [DOMAIN g -> SupportAdjustment] /\ DOMAIN g \subseteq Statements
  BY <1>2, <1>3, AdjustmentAdded DEF StagingIInv
<1>5. adjustments' = g /\ asked' = NotAsked
      /\ UNCHANGED <<account, onChain, statements, draft, moves>>
  BY DEF SwitchSupport, f, rest
<1> HIDE DEF g
<1> QED
  BY <1>4, <1>5, AdjustmentsSet

(* The form and the new statements, and nothing that is asked on a card. *)
LEMMA FormSet ==
  ASSUME StagingIInv, draft' \in [open : BOOLEAN, support : -MaxShown .. MaxShown],
         statements' \in Seq(Int), UNCHANGED <<account, onChain, adjustments, asked>>
  PROVE  StagingIInv'
<1>1. StagingTypeOK'
  BY DEF StagingIInv, StagingTypeOK, Statements
<1>2. StagedTyped'
  BY DEF StagingIInv, StagedTyped, Statements
<1>3. CardShowsWhatWasAsked'
  BY DEF StagingIInv, CardShowsWhatWasAsked, Shown, GetEffectiveSupport
<1> QED
  BY <1>1, <1>2, <1>3 DEF StagingIInv

(* The form for a new statement. *)
LEMMA FormPreserves ==
  ASSUME StagingIInv, OpenForm \/ ChangeDraft \/ CancelForm \/ StageStatement
  PROVE  StagingIInv'
<1> DEFINE Forms == [open : BOOLEAN, support : -MaxShown .. MaxShown]
<1>1. draft \in Forms /\ statements \in Seq(Int) /\ 0 \in -MaxShown .. MaxShown
  BY StagingBounds DEF StagingIInv, StagingTypeOK, StagedTyped
<1>2. draft' \in Forms
  <2>1. CASE ChangeDraft
    <3>1. PICK n \in VoteToggle(draft.support) : draft' = [draft EXCEPT !.support = n]
      BY <2>1 DEF ChangeDraft
    <3>2. n \in -MaxShown .. MaxShown
      BY DEF VoteToggle
    <3> QED
      BY <1>1, <3>1, <3>2
  <2>2. CASE ~ChangeDraft
    <3>1. PICK b \in BOOLEAN : draft' = [open |-> b, support |-> 0]
      BY <2>2 DEF OpenForm, CancelForm, StageStatement, CloseForm
    <3> QED
      BY <1>1, <3>1
  <2> QED
    BY <2>1, <2>2
<1>3. statements' \in Seq(Int)
  <2>1. CASE StageStatement
    <3>1. draft.support \in Int
      BY <1>1, StagingBounds
    <3>2. ToParts(draft.support) \in Int
      BY <3>1, RoundingShifts
    <3> QED
      BY <1>1, <2>1, <3>2 DEF StageStatement
  <2>2. CASE ~StageStatement
    BY <1>1, <2>2 DEF OpenForm, ChangeDraft, CancelForm
  <2> QED
    BY <2>1, <2>2
<1>4. UNCHANGED <<account, onChain, adjustments, asked>>
  BY DEF OpenForm, ChangeDraft, CancelForm, StageStatement
<1> HIDE DEF Forms
<1> QED
  BY <1>2, <1>3, <1>4, FormSet DEF Forms

(* Staged statements, and dropping them. *)
LEMMA StatementPreserves ==
  ASSUME StagingIInv, NEW i \in DOMAIN statements,
         UpdateStagedInitialSupport(i) \/ UnstageStatement(i)
  PROVE  StagingIInv'
<1>1. statements \in Seq(Int) /\ i \in 1..Len(statements)
      /\ draft \in [open : BOOLEAN, support : -MaxShown .. MaxShown]
  BY DEF StagingIInv, StagedTyped, StagingTypeOK
<1>2. CASE UpdateStagedInitialSupport(i)
  <2>1. PICK n \in VoteToggle(ToCredits(statements[i])) :
          statements' = [statements EXCEPT ![i] = ToParts(n)]
    BY <1>2 DEF UpdateStagedInitialSupport
  <2>2. n \in Int
    BY StagingBounds DEF VoteToggle
  <2>3. ToParts(n) \in Int
    BY <2>2, RoundingShifts
  <2>4. statements' \in Seq(Int)
    BY <1>1, <2>1, <2>3
  <2> QED
    BY <1>1, <1>2, <2>4, FormSet DEF UpdateStagedInitialSupport
<1>3. CASE UnstageStatement(i)
  <2>1. /\ SubSeq(statements, 1, i - 1) \in Seq(Int)
        /\ SubSeq(statements, i + 1, Len(statements)) \in Seq(Int)
    BY <1>1
  <2>2. statements' \in Seq(Int)
    BY <1>3, <2>1 DEF UnstageStatement
  <2> QED
    BY <1>1, <1>3, <2>2, FormSet DEF UnstageStatement
<1> QED
  BY <1>2, <1>3

(* Sums of what is staged. *)
LEMMA TotalType ==
  ASSUME NEW S, IsFiniteSet(S), NEW f \in [S -> Int]
  PROVE  TotalOf(f) \in Int /\ TotalOf(f) = SumFunctionOnSet(f, S)
<1>1. DOMAIN f = S
  OBVIOUS
<1> QED
  BY <1>1, TotalIs, SumStep

(* The forum's price is the client's, rounded down. *)
LEMMA CostInt ==
  \A x \in Int : /\ CostOfUserSupport(x) \in Nat
                 /\ Unit * CostOfUserSupport(x) <= Triangle(x)
                 /\ Triangle(x) <= Unit * CostOfUserSupport(x) + (Unit - 1)
<1> SUFFICES ASSUME NEW x \in Int
             PROVE  /\ CostOfUserSupport(x) \in Nat
                    /\ Unit * CostOfUserSupport(x) <= Triangle(x)
                    /\ Triangle(x) <= Unit * CostOfUserSupport(x) + (Unit - 1)
  OBVIOUS
<1>1. Triangle(x) \in Nat /\ Unit \in Nat \ {0}
  BY TriangleType, CostAssumption DEF Unit
<1>2. CostOfUserSupport(x) = Triangle(x) \div Unit
  BY DEF CostOfUserSupport, Triangle, Unit
<1>3. \A a \in Nat, d \in Nat \ {0} :
        a \div d \in Nat /\ d * (a \div d) <= a /\ a <= d * (a \div d) + (d - 1)
  OBVIOUS
<1> QED
  BY <1>1, <1>2, <1>3

(* What is staged is finitely much. *)
LEMMA Staged ==
  ASSUME StagingTypeOK, StagedTyped
  PROVE  /\ IsFiniteSet(Statements) /\ IsFiniteSet(DOMAIN adjustments)
         /\ DOMAIN adjustments \subseteq Statements
         /\ IsFiniteSet(DOMAIN statements)
         /\ statements \in [DOMAIN statements -> Int]
         /\ onChain.supports \in [Statements -> Int]
         /\ account.supports \in [Statements -> Int]
<1>1. /\ Statements = 1..Len(onChain.supports) /\ Len(onChain.supports) \in Nat
      /\ DOMAIN account.supports = Statements
      /\ DOMAIN statements = 1..Len(statements) /\ Len(statements) \in Nat
  BY DEF StagedTyped, Amounts, Statements
<1>2. IsFiniteSet(Statements) /\ IsFiniteSet(DOMAIN statements)
  BY <1>1, FS_Interval
<1>3. DOMAIN adjustments \subseteq Statements
  BY DEF StagingTypeOK
<1>4. IsFiniteSet(DOMAIN adjustments)
  BY <1>2, <1>3, FS_Subset
<1>5. /\ statements \in [DOMAIN statements -> Int]
      /\ onChain.supports \in [Statements -> Int]
      /\ account.supports \in [Statements -> Int]
  BY <1>1 DEF StagedTyped, Amounts
<1> QED
  BY <1>2, <1>3, <1>4, <1>5

(* What the forum makes of an adjustment. *)
LEMMA NewSupportType ==
  ASSUME StagingTypeOK, StagedTyped, NEW s \in Statements
  PROVE  account.supports[s] \in Int /\ NewSupport(s) \in Int
<1>1. account.supports[s] \in Int
  BY Staged
<1> QED
  BY <1>1, AdjustedType DEF StagingTypeOK, NewSupport

(* Both parts of the charge are integers. *)
LEMMA ChargeType ==
  ASSUME StagingTypeOK, StagedTyped
  PROVE  StatementsCharge \in Int /\ AdjustmentsCharge \in Int
<1>1. StatementsCharge \in Int
  <2> DEFINE f == [i \in DOMAIN statements |-> CostOfUserSupport(statements[i])]
  <2>1. f \in [DOMAIN statements -> Int]
    BY Staged, CostInt
  <2> HIDE DEF f
  <2>2. TotalOf(f) \in Int
    BY <2>1, Staged, TotalType
  <2> QED
    BY <2>2 DEF StatementsCharge, f
<1>2. AdjustmentsCharge \in Int
  <2> DEFINE f == [s \in DOMAIN adjustments |->
                     CostOfUserSupport(NewSupport(s)) - CostOfUserSupport(account.supports[s])]
  <2>1. f \in [DOMAIN adjustments -> Int]
    <3> SUFFICES ASSUME NEW s \in DOMAIN adjustments
                 PROVE  CostOfUserSupport(NewSupport(s))
                          - CostOfUserSupport(account.supports[s]) \in Int
      OBVIOUS
    <3>1. account.supports[s] \in Int /\ NewSupport(s) \in Int
      BY Staged, NewSupportType
    <3>2. /\ CostOfUserSupport(NewSupport(s)) \in Int
          /\ CostOfUserSupport(account.supports[s]) \in Int
      BY <3>1, CostInt
    <3> QED
      BY <3>2
  <2> HIDE DEF f
  <2>2. TotalOf(f) \in Int
    BY <2>1, Staged, TotalType
  <2>3. Settle(TotalOf(f)) \in Int
    BY <2>2, SettleKeeps
  <2> QED
    BY <2>3 DEF AdjustmentsCharge, f
<1> QED
  BY <1>1, <1>2

(* Nothing is staged, and the copy is the account. *)
LEMMA AfterSync ==
  ASSUME StagingIInv, account' \in Amounts, onChain' = account',
         DOMAIN adjustments' \subseteq DOMAIN account'.supports,
         adjustments' \in [DOMAIN adjustments' -> SupportAdjustment],
         statements' \in Seq(Int), draft' = draft, asked' = NotAsked
  PROVE  StagingIInv'
<1>1. StagingTypeOK'
  BY DEF StagingIInv, StagingTypeOK, Statements, Amounts
<1>2. StagedTyped'
  BY DEF StagingIInv, StagedTyped, NotAsked
<1>3. CardShowsWhatWasAsked'
  BY DEF CardShowsWhatWasAsked, NotAsked
<1> QED
  BY <1>1, <1>2, <1>3 DEF StagingIInv

(* A commit unstages everything, so that no card has an open question. *)
LEMMA CommitPreserves ==
  ASSUME StagingIInv, CommitStaged
  PROVE  StagingIInv'
<1> DEFINE changed == [s \in DOMAIN account.supports |-> NewSupport(s)]
<1>1. ForumCharges \in Amounts
  <2>1. changed \o statements \in Seq(Int)
    <3>1. DOMAIN account.supports = 1..Len(account.supports) /\ Len(account.supports) \in Nat
          /\ DOMAIN account.supports = Statements
      BY DEF StagingIInv, StagedTyped, Amounts, Statements
    <3>2. changed \in Seq(Int)
      BY <3>1, NewSupportType DEF StagingIInv
    <3> HIDE DEF changed
    <3> QED
      BY <3>2 DEF StagingIInv, StagedTyped
  <2>2. account.credits - StatementsCharge - AdjustmentsCharge \in Nat
    <3>1. account.credits \in Nat /\ StatementsCharge \in Int /\ AdjustmentsCharge \in Int
      BY ChargeType DEF StagingIInv, StagedTyped, Amounts
    <3>2. StatementsCharge + AdjustmentsCharge <= account.credits
      BY DEF CommitStaged, Accepted
    <3> QED
      BY <3>1, <3>2
  <2> QED
    BY <2>1, <2>2 DEF ForumCharges, Amounts
<1>2. /\ account' = ForumCharges /\ onChain' = account' /\ adjustments' = <<>>
      /\ statements' = <<>> /\ asked' = NotAsked /\ draft' = draft
  BY DEF CommitStaged, NothingStaged
<1> QED
  BY <1>1, <1>2, AfterSync

(* The chain moves alone: no card looks at it before the next sync. *)
LEMMA FadePreserves ==
  ASSUME StagingIInv, NEW s \in Statements, Fade(s)
  PROVE  StagingIInv'
<1> DEFINE x == account.supports[s] - SignOf(account.supports[s])
<1>1. x \in Int
  <2>1. account.supports[s] \in Int
    BY NewSupportType DEF StagingIInv
  <2> QED
    BY <2>1 DEF SignOf
<1>2. account' = [account EXCEPT !.supports[s] = x]
  BY DEF Fade
<1>3. UNCHANGED <<onChain, adjustments, statements, draft, asked>>
  BY DEF Fade
<1> HIDE DEF x
<1>4. account' \in Amounts /\ Len(account'.supports) = Len(account.supports)
  <2>1. account \in Amounts /\ account.supports \in Seq(Int)
    BY DEF StagingIInv, StagedTyped, Amounts
  <2>2. [account.supports EXCEPT ![s] = x] \in Seq(Int)
        /\ Len([account.supports EXCEPT ![s] = x]) = Len(account.supports)
    <3> DEFINE q == account.supports
               n == Len(q)
               r == [q EXCEPT ![s] = x]
    <3>1. n \in Nat /\ q \in [1..n -> Int] /\ s \in 1..n
      BY <2>1 DEF StagingIInv, StagedTyped, Amounts, Statements
    <3> HIDE DEF q, n
    <3>2. r \in [1..n -> Int]
      BY <1>1, <3>1
    <3> HIDE DEF r
    <3>3. r \in Seq(Int) /\ Len(r) = n
      BY <3>1, <3>2
    <3> QED
      BY <3>3 DEF r, q, n
  <2> QED
    BY <1>2, <2>1, <2>2 DEF Amounts
<1>5. StagingTypeOK'
  BY <1>3, <1>4 DEF StagingIInv, StagingTypeOK, Statements, Amounts
<1>6. StagedTyped'
  BY <1>3, <1>4 DEF StagingIInv, StagedTyped, Statements
<1>7. CardShowsWhatWasAsked'
  BY <1>3 DEF StagingIInv, CardShowsWhatWasAsked, Shown, GetEffectiveSupport
<1> QED
  BY <1>5, <1>6, <1>7 DEF StagingIInv

(* Nothing is staged at first. *)
LEMMA InitStagingIInv == StagingInit => StagingIInv
<1> SUFFICES ASSUME StagingInit PROVE StagingIInv
  OBVIOUS
<1>1. Supports \subseteq Int
  BY DecayBoundsAssumption DEF Supports
<1>2. account \in Amounts
  <2>1. account.supports \in StartSupports /\ account.credits \in StartCredits
        /\ account = [supports |-> account.supports, credits |-> account.credits]
    BY DEF StagingInit
  <2>2. account.supports \in Seq(Supports) /\ account.credits \in Nat
    BY <2>1, StagingBounds
  <2>3. account.supports \in Seq(Int)
    <3>1. account.supports \in [1..Len(account.supports) -> Supports]
          /\ Len(account.supports) \in Nat
      BY <2>2
    <3>2. account.supports \in [1..Len(account.supports) -> Int]
      BY <1>1, <3>1
    <3> QED
      BY <3>1, <3>2
  <2> QED
    BY <2>1, <2>2, <2>3 DEF Amounts
<1>3. StagingTypeOK
  BY <1>2, StagingBounds DEF StagingInit, StagingTypeOK, Amounts
<1>4. StagedTyped
  BY <1>2 DEF StagingInit, StagedTyped, NotAsked
<1>5. CardShowsWhatWasAsked
  BY DEF StagingInit, CardShowsWhatWasAsked
<1> QED
  BY <1>3, <1>4, <1>5 DEF StagingIInv

(* One step for each action. *)
LEMMA NextStagingIInv == StagingIInv /\ [StagingNext]_stagingVars => StagingIInv'
<1> SUFFICES ASSUME StagingIInv, [StagingNext]_stagingVars PROVE StagingIInv'
  OBVIOUS
<1>1. CASE ResetStaged
  <2>1. /\ adjustments' = <<>> /\ statements' = <<>> /\ asked' = NotAsked
        /\ UNCHANGED <<account, onChain, draft>>
    BY <1>1 DEF ResetStaged, NothingStaged
  <2>2. StagingTypeOK'
    BY <2>1 DEF StagingIInv, StagingTypeOK, Statements
  <2>3. StagedTyped'
    BY <2>1 DEF StagingIInv, StagedTyped, NotAsked
  <2>4. CardShowsWhatWasAsked'
    BY <2>1 DEF CardShowsWhatWasAsked, NotAsked
  <2> QED
    BY <2>2, <2>3, <2>4 DEF StagingIInv
<1>2. CASE SyncAccount
  <2>1. /\ onChain' = account /\ asked' = NotAsked
        /\ UNCHANGED <<account, adjustments, statements, draft>>
    BY <1>2 DEF SyncAccount
  <2>2. /\ account \in Amounts /\ DOMAIN account.supports = Statements
        /\ DOMAIN adjustments \subseteq Statements /\ statements \in Seq(Int)
        /\ adjustments \in [DOMAIN adjustments -> SupportAdjustment]
    BY DEF StagingIInv, StagedTyped, StagingTypeOK, Amounts, Statements
  <2> QED
    BY <2>1, <2>2, AfterSync
<1>3. CASE UNCHANGED stagingVars
  <2>1. UNCHANGED <<account, onChain, adjustments, asked, statements, draft>>
    BY <1>3 DEF stagingVars
  <2>2. draft \in [open : BOOLEAN, support : -MaxShown .. MaxShown]
        /\ statements \in Seq(Int)
    BY DEF StagingIInv, StagingTypeOK, StagedTyped
  <2> QED
    BY <2>1, <2>2, FormSet
<1> QED
  BY <1>1, <1>2, <1>3, StagePreserves, ClearPreserves, SwitchPreserves, FormPreserves,
     StatementPreserves, CommitPreserves, FadePreserves DEF StagingNext

(* The member's staging is well formed, the support lists of the client and  *)
(* of the chain stay alike, and cards show what was asked.                   *)
THEOREM StagingInvariant == StagingSpec => []StagingIInv
<1> QED
  BY InitStagingIInv, NextStagingIInv, PTL DEF StagingSpec

(* What the credits of the client and of the forum are, as sums. *)
Worth(s) == AdjustmentCost(onChain.supports[s], GetEffectiveSupport(s))

(* An adjustment returns at most what the support had cost. *)
LEMMA WorthType ==
  ASSUME StagingTypeOK, StagedTyped, NEW s \in Statements
  PROVE  /\ Worth(s) \in Int
         /\ Triangle(onChain.supports[s]) \in Nat
         /\ Worth(s) >= -Triangle(onChain.supports[s])
<1>1. onChain.supports[s] \in Int /\ GetEffectiveSupport(s) \in Int
  BY EffectiveType
<1>2. Triangle(onChain.supports[s]) \in Nat /\ Triangle(GetEffectiveSupport(s)) \in Nat
  BY <1>1, TriangleType
<1> QED
  BY <1>2 DEF Worth, AdjustmentCost

(* The four totals, and how the bar's are related to the reducer's. *)
LEMMA StagedTotals ==
  ASSUME StagingTypeOK, StagedTyped
  PROVE  /\ AdjustmentsCost \in Int /\ StatementsCost \in Nat /\ PendingDraftCost \in Nat
         /\ CommittedCost \in Nat /\ AdjustmentsCost >= -CommittedCost
         /\ Increases - Decreases = AdjustmentsCost + StatementsCost + PendingDraftCost
         /\ Increases \in Int /\ Decreases \in Int
<1> DEFINE D == DOMAIN adjustments
           worth == [s \in D |-> Worth(s)]
           more == [s \in D |-> IF Worth(s) > 0 THEN Worth(s) ELSE 0]
           less == [s \in D |-> IF Worth(s) < 0 THEN -Worth(s) ELSE 0]
           committed == [s \in Statements |-> Triangle(onChain.supports[s])]
           created == [i \in DOMAIN statements |-> Triangle(statements[i])]
<1>1. IsFiniteSet(D) /\ D \subseteq Statements /\ IsFiniteSet(Statements)
      /\ IsFiniteSet(DOMAIN statements)
  BY Staged
<1>2. /\ worth \in [D -> Int] /\ more \in [D -> Int] /\ less \in [D -> Int]
      /\ committed \in [Statements -> Nat] /\ created \in [DOMAIN statements -> Nat]
  <2>1. \A s \in D : Worth(s) \in Int
    BY <1>1, WorthType
  <2>2. \A s \in Statements : Triangle(onChain.supports[s]) \in Nat
    BY WorthType
  <2>3. \A i \in DOMAIN statements : Triangle(statements[i]) \in Nat
    BY Staged, TriangleType
  <2> QED
    BY <2>1, <2>2, <2>3
<1>3. /\ AdjustmentsCost = TotalOf(worth) /\ StatementsCost = TotalOf(created)
      /\ CommittedCost = TotalOf(committed)
      /\ Increases = TotalOf(more) + StatementsCost + PendingDraftCost
      /\ Decreases = TotalOf(less)
  BY DEF AdjustmentsCost, StatementsCost, CommittedCost, Increases, Decreases, Worth
<1>4. TotalOf(worth) = TotalOf(more) - TotalOf(less)
      /\ TotalOf(worth) \in Int /\ TotalOf(more) \in Int /\ TotalOf(less) \in Int
  <2>1. \A s \in D : worth[s] = more[s] - less[s]
    <3> SUFFICES ASSUME NEW s \in D PROVE worth[s] = more[s] - less[s]
      OBVIOUS
    <3>1. Worth(s) \in Int
      BY <1>1, WorthType
    <3> QED
      BY <3>1
  <2> HIDE DEF worth, more, less, D
  <2> QED
    BY <1>1, <1>2, <2>1, SumDifference, TotalType
<1>5. TotalOf(created) \in Nat /\ TotalOf(committed) \in Nat
  <2> HIDE DEF created, committed
  <2>1. created \in [DOMAIN statements -> Int] /\ committed \in [Statements -> Int]
    BY <1>2
  <2> QED
    BY <1>1, <1>2, <2>1, TotalType, SumOfPart
<1>6. TotalOf(worth) >= -TotalOf(committed)
  <2> DEFINE old == [s \in D |-> Triangle(onChain.supports[s])]
  <2>1. \A s \in D : (-1) * old[s] <= 1 * worth[s] + 0
    <3> SUFFICES ASSUME NEW s \in D PROVE (-1) * old[s] <= 1 * worth[s] + 0
      OBVIOUS
    <3>1. /\ Worth(s) \in Int /\ Triangle(onChain.supports[s]) \in Nat
          /\ Worth(s) >= -Triangle(onChain.supports[s])
      BY <1>1, WorthType
    <3> QED
      BY <3>1
  <2>2. old \in [D -> Nat] /\ old \in [D -> Int]
    BY <1>1, WorthType
  <2>3. SumFunctionOnSet(old, D) = SumFunctionOnSet(committed, D)
    <3>1. \A s \in D : old[s] <= committed[s] /\ committed[s] <= old[s]
      BY <1>1, <1>2
    <3>2. committed \in [Statements -> Int]
      BY <1>2
    <3> HIDE DEF old, committed, D
    <3>3. SumFunctionOnSet(old, D) <= SumFunctionOnSet(committed, D)
      BY <1>1, <2>2, <3>1, <3>2, SumGrows
    <3>4. SumFunctionOnSet(committed, D) <= SumFunctionOnSet(old, D)
      BY <1>1, <2>2, <3>1, <3>2, SumGrows
    <3>5. SumFunctionOnSet(committed, D) \in Int /\ SumFunctionOnSet(old, D) \in Int
      BY <1>1, <2>2, <3>2, SumStep
    <3> QED
      BY <3>3, <3>4, <3>5
  <2> HIDE DEF old, committed, worth, D
  <2>4. (-1) * SumFunctionOnSet(old, D)
          <= 1 * SumFunctionOnSet(worth, D) + 0 * Cardinality(D)
    <3>1. ASSUME NEW a \in Int, NEW b \in Int, NEW c \in Int, a = -1, b = 1, c = 0
          PROVE  a * SumFunctionOnSet(old, D)
                   <= b * SumFunctionOnSet(worth, D) + c * Cardinality(D)
      <4>1. \A s \in D : a * old[s] <= b * worth[s] + c
        BY <2>1, <3>1
      <4> QED
        BY <1>1, <1>2, <2>2, <4>1, SumBound
    <3> QED
      BY <3>1
  <2>5. SumFunctionOnSet(committed, D) <= SumFunctionOnSet(committed, Statements)
        /\ SumFunctionOnSet(committed, D) \in Nat
    BY <1>1, <1>2, SumOfPart
  <2>6. /\ TotalOf(worth) = SumFunctionOnSet(worth, D)
        /\ TotalOf(committed) = SumFunctionOnSet(committed, Statements)
    <3>1. committed \in [Statements -> Int]
      BY <1>2
    <3> QED
      BY <1>1, <1>2, <3>1, TotalType
  <2>7. Cardinality(D) \in Nat
    BY <1>1, FS_CardinalityType
  <2> QED
    BY <1>4, <1>5, <2>3, <2>4, <2>5, <2>6, <2>7
<1>7. PendingDraftCost \in Nat
  <2>1. draft.support \in Int /\ Unit \in Nat /\ creditMultiplier \in Nat
    BY StagingBounds, CostAssumption DEF StagingTypeOK, Unit
  <2>2. Abs(draft.support) \in Nat
    BY <2>1, TriangleType
  <2>3. AllocatedCredits(draft.support) \in Nat
    <3>1. \A a \in Nat : (a * (a + 1)) \div 2 \in Nat
      OBVIOUS
    <3> QED
      BY <2>2, <3>1 DEF AllocatedCredits
  <2>4. \A a, b, c \in Nat : a * (b * c) \in Nat
    OBVIOUS
  <2> QED
    BY <2>1, <2>3, <2>4 DEF PendingDraftCost, ToParts
<1> HIDE DEF worth, more, less, committed, created
<1> QED
  BY <1>3, <1>4, <1>5, <1>6, <1>7

(* The bar nets out the same amounts. *)
LEMMA BarAlwaysAgrees == StagingTypeOK /\ StagedTyped => BarAgrees
<1> SUFFICES ASSUME StagingTypeOK, StagedTyped PROVE BarAgrees
  OBVIOUS
<1> DEFINE net == Increases - Decreases
           have == Unit * onChain.credits
<1>1. have \in Int
  <2>1. Unit \in Nat /\ onChain.credits \in Nat
    BY CostAssumption DEF Unit, StagedTyped, Amounts
  <2> QED
    BY <2>1
<1>2. /\ net \in Int /\ CommittedCost \in Nat /\ net >= -CommittedCost
      /\ StagedCredits = have - net
      /\ net < 0 <=> Increases < Decreases
  <2>1. StagedCredits = have - AdjustmentsCost - StatementsCost - PendingDraftCost
    BY DEF StagedCredits
  <2> HIDE DEF have
  <2> QED
    BY <1>1, <2>1, StagedTotals
<1>3. CASE net >= 0
  <2>1. CreditAllocation = [allocated |-> CommittedCost, staged |-> net,
                            unallocated |-> have - net]
    BY <1>3 DEF CreditAllocation
  <2> HIDE DEF have
  <2> QED
    BY <1>1, <1>2, <1>3, <2>1 DEF BarAgrees
<1>4. CASE ~(net >= 0)
  <2>1. CreditAllocation = [allocated |-> CommittedCost + net, staged |-> -net,
                            unallocated |-> have]
    BY <1>4 DEF CreditAllocation
  <2> HIDE DEF have
  <2> QED
    BY <1>1, <1>2, <1>4, <2>1 DEF BarAgrees
<1> QED
  BY <1>3, <1>4

(* The charge of the forum and the costs of the client are apart by less   *)
(* than a part for each cost that was rounded.                             *)
LEMMA StatementsCharged ==
  ASSUME StagingTypeOK, StagedTyped
  PROVE  /\ StatementsCharge \in Int
         /\ Unit * StatementsCharge <= StatementsCost
         /\ StatementsCost <= Unit * StatementsCharge + (Unit - 1) * Len(statements)
         /\ statements = <<>> => StatementsCharge = 0
<1> DEFINE D == DOMAIN statements
           cost == [i \in D |-> Triangle(statements[i])]
           charge == [i \in D |-> CostOfUserSupport(statements[i])]
<1>1. IsFiniteSet(D) /\ Unit \in Nat \ {0} /\ Unit \in Int
  BY Staged, CostAssumption DEF Unit
<1>2. cost \in [D -> Int] /\ charge \in [D -> Int]
  BY Staged, TriangleType, CostInt
<1>3. /\ \A i \in D : Unit * charge[i] <= cost[i]
      /\ \A i \in D : cost[i] <= Unit * charge[i] + (Unit - 1)
  BY Staged, CostInt
<1>4. StatementsCharge = TotalOf(charge) /\ StatementsCost = TotalOf(cost)
  BY DEF StatementsCharge, StatementsCost
<1>5. Cardinality(D) = Len(statements) /\ Len(statements) \in Nat
  <2>1. D = 1..Len(statements) /\ Len(statements) \in Nat
    BY DEF StagedTyped
  <2> HIDE DEF D
  <2> QED
    BY <2>1, FS_Interval
<1> HIDE DEF cost, charge
<1>6. /\ TotalOf(charge) \in Int /\ TotalOf(charge) = SumFunctionOnSet(charge, D)
      /\ TotalOf(cost) \in Int /\ TotalOf(cost) = SumFunctionOnSet(cost, D)
  BY <1>1, <1>2, TotalType
<1>7. Unit * TotalOf(charge) <= TotalOf(cost)
  <2>1. ASSUME NEW b \in Int, NEW c \in Int, b = 1, c = 0
        PROVE  Unit * SumFunctionOnSet(charge, D)
                 <= b * SumFunctionOnSet(cost, D) + c * Cardinality(D)
    <3>1. \A i \in D : Unit * charge[i] <= b * cost[i] + c
      BY <1>2, <1>3, <2>1
    <3> QED
      BY <1>1, <1>2, <3>1, SumBound
  <2> QED
    BY <1>5, <1>6, <2>1
<1>8. TotalOf(cost) <= Unit * TotalOf(charge) + (Unit - 1) * Len(statements)
  <2>1. ASSUME NEW a \in Int, NEW c \in Int, a = 1, c = Unit - 1
        PROVE  a * SumFunctionOnSet(cost, D)
                 <= Unit * SumFunctionOnSet(charge, D) + c * Cardinality(D)
    <3>1. \A i \in D : a * cost[i] <= Unit * charge[i] + c
      BY <1>2, <1>3, <2>1
    <3> QED
      BY <1>1, <1>2, <3>1, SumBound
  <2>2. Unit - 1 \in Int
    BY <1>1
  <2>3. 1 * SumFunctionOnSet(cost, D)
          <= Unit * SumFunctionOnSet(charge, D) + (Unit - 1) * Cardinality(D)
    BY <2>1, <2>2
  <2> QED
    BY <1>5, <1>6, <2>3
<1>9. ASSUME statements = <<>> PROVE TotalOf(charge) = 0
  <2>1. D = {}
    BY <1>9
  <2> HIDE DEF D
  <2> QED
    BY <1>2, <1>6, <2>1, SumStep, FS_EmptySet
<1> QED
  BY <1>4, <1>6, <1>7, <1>8, <1>9

ChangedCosts ==
  TotalOf([s \in DOMAIN adjustments |->
    CostOfUserSupport(NewSupport(s)) - CostOfUserSupport(account.supports[s])])

(* The same for the adjustments, before the forum keeps its share of a refund. *)
LEMMA AdjustmentsCharged ==
  ASSUME StagingTypeOK, StagedTyped, onChain = account
  PROVE  LET k == Cardinality(DOMAIN adjustments)
         IN  /\ ChangedCosts \in Int
             /\ Unit * ChangedCosts <= AdjustmentsCost + (Unit - 1) * k
             /\ AdjustmentsCost <= Unit * ChangedCosts + (Unit - 1) * k
             /\ k \in Nat
             /\ k = 0 => ChangedCosts = 0 /\ AdjustmentsCost = 0
<1> DEFINE D == DOMAIN adjustments
           worth == [s \in D |-> Worth(s)]
           charge == [s \in D |-> CostOfUserSupport(NewSupport(s))
                                    - CostOfUserSupport(account.supports[s])]
           k == Cardinality(D)
<1>1. IsFiniteSet(D) /\ Unit \in Nat \ {0} /\ Unit \in Int /\ D \subseteq Statements
  BY Staged, CostAssumption DEF Unit
<1>2. \A s \in D : /\ Worth(s) \in Int /\ charge[s] \in Int
                   /\ Unit * charge[s] <= Worth(s) + (Unit - 1)
                   /\ Worth(s) <= Unit * charge[s] + (Unit - 1)
  <2> SUFFICES ASSUME NEW s \in D
               PROVE  /\ Worth(s) \in Int /\ charge[s] \in Int
                      /\ Unit * charge[s] <= Worth(s) + (Unit - 1)
                      /\ Worth(s) <= Unit * charge[s] + (Unit - 1)
    OBVIOUS
  <2> DEFINE old == onChain.supports[s]
             new == GetEffectiveSupport(s)
  <2>1. old \in Int /\ new \in Int /\ NewSupport(s) = new /\ account.supports[s] = old
    BY <1>1, EffectiveType DEF NewSupport, GetEffectiveSupport
  <2>2. Worth(s) = Triangle(new) - Triangle(old)
    BY DEF Worth, AdjustmentCost
  <2>3. charge[s] = CostOfUserSupport(new) - CostOfUserSupport(old)
    BY <2>1
  <2> HIDE DEF old, new, charge
  <2>4. /\ Triangle(new) \in Nat /\ Triangle(old) \in Nat
        /\ CostOfUserSupport(new) \in Nat /\ CostOfUserSupport(old) \in Nat
        /\ Unit * CostOfUserSupport(new) <= Triangle(new)
        /\ Triangle(new) <= Unit * CostOfUserSupport(new) + (Unit - 1)
        /\ Unit * CostOfUserSupport(old) <= Triangle(old)
        /\ Triangle(old) <= Unit * CostOfUserSupport(old) + (Unit - 1)
    BY <2>1, TriangleType, CostInt
  <2>5. \A p, q \in Nat : /\ Unit * (p - q) = Unit * p - Unit * q
                          /\ Unit * p \in Int /\ Unit * q \in Int
    BY <1>1
  <2>6. /\ Unit * charge[s] = Unit * CostOfUserSupport(new) - Unit * CostOfUserSupport(old)
        /\ Unit * CostOfUserSupport(new) \in Int /\ Unit * CostOfUserSupport(old) \in Int
    BY <2>3, <2>4, <2>5
  <2> QED
    BY <1>1, <2>2, <2>3, <2>4, <2>6
<1>3. worth \in [D -> Int] /\ charge \in [D -> Int]
  <2>1. charge \in [D -> Int]
    <3> HIDE DEF D
    <3> QED
      BY <1>2
  <2> QED
    BY <1>2, <2>1
<1>4. ChangedCosts = TotalOf(charge) /\ AdjustmentsCost = TotalOf(worth)
  BY DEF ChangedCosts, AdjustmentsCost, Worth
<1>5. \A s \in D : worth[s] = Worth(s)
  OBVIOUS
<1>6. k \in Nat
  BY <1>1, FS_CardinalityType
<1> HIDE DEF worth, charge, D
<1>7. /\ TotalOf(charge) \in Int /\ TotalOf(charge) = SumFunctionOnSet(charge, D)
      /\ TotalOf(worth) \in Int /\ TotalOf(worth) = SumFunctionOnSet(worth, D)
  BY <1>1, <1>3, TotalType
<1>8. ASSUME NEW a \in Int, NEW c \in Int, a = 1, c = Unit - 1
      PROVE  /\ a * SumFunctionOnSet(worth, D)
                  <= Unit * SumFunctionOnSet(charge, D) + c * Cardinality(D)
             /\ Unit * SumFunctionOnSet(charge, D)
                  <= a * SumFunctionOnSet(worth, D) + c * Cardinality(D)
  <2>1. /\ \A s \in D : a * worth[s] <= Unit * charge[s] + c
        /\ \A s \in D : Unit * charge[s] <= a * worth[s] + c
    BY <1>2, <1>3, <1>5, <1>8
  <2> QED
    BY <1>1, <1>3, <2>1, SumBound
<1>9. Unit - 1 \in Int
  BY <1>1
<1>10. /\ 1 * SumFunctionOnSet(worth, D)
            <= Unit * SumFunctionOnSet(charge, D) + (Unit - 1) * k
       /\ Unit * SumFunctionOnSet(charge, D)
            <= 1 * SumFunctionOnSet(worth, D) + (Unit - 1) * k
  BY <1>8, <1>9
<1>11. ASSUME k = 0 PROVE TotalOf(charge) = 0 /\ TotalOf(worth) = 0
  <2>1. D = {}
    BY <1>1, <1>11, FS_EmptySet
  <2> QED
    BY <1>3, <1>7, <2>1, SumStep, FS_EmptySet
<1> HIDE DEF k
<1>12. /\ Unit * TotalOf(charge) <= TotalOf(worth) + (Unit - 1) * k
       /\ TotalOf(worth) <= Unit * TotalOf(charge) + (Unit - 1) * k
  BY <1>7, <1>10
<1> QED
  BY <1>4, <1>6, <1>7, <1>11, <1>12 DEF k, D

(* Comparing multiples of a unit. *)
LEMMA ProductsOrder ==
  ASSUME NEW u \in Nat \ {0}, NEW x \in Int, NEW y \in Int, u * x < u * y + u
  PROVE  x <= y
<1> SUFFICES ASSUME x >= y + 1 PROVE FALSE
  OBVIOUS
<1>1. u * (x - (y + 1)) \in Nat
  OBVIOUS
<1>2. u * (x - (y + 1)) = u * x - (u * y + u)
  OBVIOUS
<1>3. u * x \in Int /\ u * y \in Int
  OBVIOUS
<1> QED
  BY <1>1, <1>2, <1>3

Share(whole, bps) == (whole * bps) \div 10000

(* A share is no more than the whole. *)
LEMMA ShareIsPart ==
  ASSUME NEW whole \in Nat, NEW bps \in Nat, bps <= 10000
  PROVE  Share(whole, bps) \in Nat /\ Share(whole, bps) <= whole
<1> DEFINE b == whole * bps
           c == whole * (10000 - bps)
<1>1. b \in Nat /\ c \in Nat /\ whole * 10000 = b + c
  OBVIOUS
<1> HIDE DEF b, c
<1>2. b \in Nat /\ b <= whole * 10000
  BY <1>1
<1>3. b \div 10000 \in Nat /\ b \div 10000 <= whole
  BY <1>2
<1> QED
  BY <1>3 DEF b, Share

(* A net refund stays one when the forum has kept its share of it. *)
LEMMA SettledRefund ==
  ASSUME NEW x \in Int
  PROVE  /\ Settle(x) \in Int
         /\ x >= 0 => Settle(x) = x
         /\ x < 0 => Settle(x) <= 0
<1>1. Settle(x) \in Int
  BY SettleKeeps
<1>2. x >= 0 => Settle(x) = x
  BY DEF Settle
<1>3. ASSUME x < 0 PROVE Settle(x) <= 0
  <2>1. -x \in Nat /\ refundPenaltyBps \in 0..10000
    BY <1>3, CostAssumption
  <2>2. Share(-x, refundPenaltyBps) \in Nat /\ Share(-x, refundPenaltyBps) <= -x
    <3>1. refundPenaltyBps \in Nat /\ refundPenaltyBps <= 10000
      BY <2>1
    <3> DEFINE w == -x
    <3>2. w \in Nat
      BY <2>1
    <3> HIDE DEF w
    <3>3. Share(w, refundPenaltyBps) \in Nat /\ Share(w, refundPenaltyBps) <= w
      BY <3>1, <3>2, ShareIsPart
    <3> QED
      BY <3>3 DEF w
  <2>3. Settle(x) = x + Share(-x, refundPenaltyBps)
    BY <1>3 DEF Settle, Share
  <2> QED
    BY <2>2, <2>3
<1> QED
  BY <1>1, <1>2, <1>3

(* Enough in the client is enough for the forum: a part to spare for each  *)
(* adjustment but one makes up for what rounding adds to the charge.       *)
LEMMA EnoughIsAccepted == StagingTypeOK /\ StagedTyped => EnoughMeansAccepted
<1> SUFFICES ASSUME StagingTypeOK, StagedTyped, onChain = account,
                    StagedCredits >= Unit * (Cardinality(DOMAIN adjustments) - 1),
                    StagedCredits >= 0,
                    statements = <<>> \/ AdjustmentsCost >= 0
             PROVE  Accepted
  BY DEF EnoughMeansAccepted, HasEnoughCredits
<1> DEFINE U == Unit
           k == Cardinality(DOMAIN adjustments)
           C == ChangedCosts
           S == StatementsCharge
           SC == StatementsCost
           A == AdjustmentsCost
           P == PendingDraftCost
           credits == account.credits
<1>1. /\ U \in Nat \ {0} /\ k \in Nat /\ C \in Int /\ S \in Int
      /\ SC \in Nat /\ A \in Int /\ P \in Nat /\ credits \in Nat
  BY CostAssumption, AdjustmentsCharged, StatementsCharged, StagedTotals
     DEF Unit, StagedTyped, Amounts
<1>2. /\ U * S <= SC /\ U * C <= A + (U - 1) * k
      /\ statements = <<>> => S = 0
      /\ k = 0 => C = 0 /\ A = 0
  BY AdjustmentsCharged, StatementsCharged
<1>3. /\ U * credits - A - SC - P >= U * (k - 1)
      /\ U * credits - A - SC - P >= 0
  BY DEF StagedCredits
<1>4. AdjustmentsCharge = Settle(C)
  BY DEF AdjustmentsCharge, ChangedCosts
<1>5. statements = <<>> \/ A >= 0
  OBVIOUS
<1> HIDE DEF U, k, C, S, SC, A, P, credits
<1>6. /\ U * S \in Int /\ U * C \in Int /\ U * k \in Int /\ U * credits \in Int
      /\ (U - 1) * k = U * k - k /\ U * (k - 1) = U * k - U
      /\ U * (S + C) = U * S + U * C
  BY <1>1
<1>7. CASE C >= 0
  <2>1. S + C <= credits
    <3>1. CASE k = 0
      <4>1. C = 0
        BY <1>2, <3>1
      <4>2. (U - 1) * k = 0 /\ U * C = 0
        BY <1>1, <3>1, <4>1
      <4>3. A >= 0
        BY <1>2, <3>1
      <4>4. U * (S + C) < U * credits + U
        BY <1>1, <1>2, <1>3, <1>6, <4>2, <4>3
      <4> QED
        BY <1>1, <4>4, ProductsOrder
    <3>2. CASE k # 0
      <4>1. U * (S + C) < U * credits + U
        BY <1>1, <1>2, <1>3, <1>6, <3>2
      <4> QED
        BY <1>1, <4>1, ProductsOrder
    <3> QED
      BY <3>1, <3>2
  <2>2. AdjustmentsCharge = C
    BY <1>1, <1>4, <1>7, SettledRefund
  <2> QED
    BY <1>1, <1>7, <2>1, <2>2 DEF Accepted, S, credits
<1>8. CASE C < 0
  <2>1. AdjustmentsCharge <= 0 /\ AdjustmentsCharge \in Int
    BY <1>1, <1>4, <1>8, SettledRefund
  <2>2. S <= credits
    <3>1. CASE statements = <<>>
      BY <1>1, <1>2, <3>1
    <3>2. CASE A >= 0
      <4>1. U * S < U * credits + U
        BY <1>1, <1>2, <1>3, <1>6, <3>2
      <4> QED
        BY <1>1, <4>1, ProductsOrder
    <3> QED
      BY <1>5, <3>1, <3>2
  <2> QED
    BY <1>1, <2>1, <2>2 DEF Accepted, S, credits
<1> QED
  BY <1>1, <1>7, <1>8

(* What the client leaves and what the forum leaves are apart by the       *)
(* rounding of the costs, of which there is at least one.                  *)
LEMMA LeftAlwaysAsShown == StagingTypeOK /\ StagedTyped => LeftIsAsShown
<1> SUFFICES ASSUME StagingTypeOK, StagedTyped, onChain = account, ~draft.open,
                    HasStagedChanges, AdjustmentsCost >= 0, AdjustmentsCharge >= 0
             PROVE  Abs(Unit * ForumCharges.credits - StagedCredits)
                      < Unit * (Cardinality(DOMAIN adjustments) + Len(statements))
  BY DEF LeftIsAsShown
<1> DEFINE U == Unit
           k == Cardinality(DOMAIN adjustments)
           n == Len(statements)
           C == ChangedCosts
           S == StatementsCharge
           SC == StatementsCost
           A == AdjustmentsCost
           R == AdjustmentsCharge
           credits == account.credits
<1>1. /\ U \in Nat \ {0} /\ k \in Nat /\ C \in Int /\ S \in Int /\ n \in Nat
      /\ SC \in Nat /\ A \in Int /\ credits \in Nat
  BY CostAssumption, AdjustmentsCharged, StatementsCharged, StagedTotals
     DEF Unit, StagedTyped, Amounts
<1>2. /\ U * S <= SC /\ SC <= U * S + (U - 1) * n
      /\ U * C <= A + (U - 1) * k /\ A <= U * C + (U - 1) * k
  BY AdjustmentsCharged, StatementsCharged
<1>3. StagedCredits = U * credits - A - SC
  <2>1. StagedCredits = U * credits - A - SC - PendingDraftCost
    BY DEF StagedCredits
  <2>2. PendingDraftCost = 0
    BY DEF PendingDraftCost
  <2> HIDE DEF U, A, SC, credits
  <2>3. U * credits \in Int
    BY <1>1
  <2> QED
    BY <1>1, <2>1, <2>2, <2>3
<1>4. R = Settle(C) /\ R >= 0
  BY DEF AdjustmentsCharge, ChangedCosts
<1>5. ForumCharges.credits = credits - S - R
  BY DEF ForumCharges
<1>6. k + n >= 1
  <2>1. CASE DOMAIN adjustments # {}
    <3>1. k # 0
      BY Staged, FS_EmptySet, <2>1
    <3> HIDE DEF k, n
    <3> QED
      BY <1>1, <3>1
  <2>2. CASE statements # <<>>
    <3>1. n # 0
      <4>1. statements \in Seq(Int)
        BY DEF StagedTyped
      <4> QED
        BY <2>2, <4>1
    <3> HIDE DEF k, n
    <3> QED
      BY <1>1, <3>1
  <2> QED
    BY <2>1, <2>2 DEF HasStagedChanges
<1>7. A >= 0
  OBVIOUS
<1> HIDE DEF U, k, n, C, S, SC, A, R, credits
<1>8. R \in Int /\ (C >= 0 => R = C) /\ (C < 0 => R = 0)
  BY <1>1, <1>4, SettledRefund
<1>9. /\ U * S \in Int /\ U * C \in Int /\ U * k \in Int /\ U * n \in Int
      /\ U * credits \in Int /\ U * R \in Int
      /\ (U - 1) * k = U * k - k /\ (U - 1) * n = U * n - n
      /\ U * (k + n) = U * k + U * n
      /\ U * (credits - S - R) = U * credits - U * S - U * R
  BY <1>1, <1>8
<1>10. U * R <= A + U * k - k /\ A <= U * R + U * k - k
  <2>1. CASE C >= 0
    BY <1>1, <1>2, <1>8, <1>9, <2>1
  <2>2. CASE C < 0
    <3>1. U * C <= 0
      <4>1. U * (-C) \in Nat /\ U * (-C) = -(U * C)
        BY <1>1, <2>2
      <4> QED
        BY <1>9, <4>1
    <3>2. U * R = 0
      BY <1>1, <1>8, <2>2
    <3>3. U * k - k \in Nat
      <4>1. (U - 1) * k \in Nat
        BY <1>1
      <4> QED
        BY <1>9, <4>1
    <3> QED
      BY <1>1, <1>2, <1>7, <1>9, <3>1, <3>2, <3>3
  <2> QED
    BY <1>1, <2>1, <2>2
<1>11. /\ U * (credits - S - R) - StagedCredits < U * (k + n)
       /\ -(U * (k + n)) < U * (credits - S - R) - StagedCredits
       /\ U * (credits - S - R) - StagedCredits \in Int
  BY <1>1, <1>2, <1>3, <1>6, <1>9, <1>10
<1>12. Abs(U * (credits - S - R) - StagedCredits) < U * (k + n)
  BY <1>9, <1>11 DEF Abs
<1> QED
  BY <1>5, <1>12 DEF U, k, n

-----------------------------------------------------------------------------
(* After any edits, fadings, syncs and commits a card shows the number the *)
(* member last asked of it (handleSupportChange of the StatementCard).     *)
THEOREM CardAlwaysShowsWhatWasAsked == StagingSpec => []CardShowsWhatWasAsked
<1>1. StagingIInv => CardShowsWhatWasAsked
  BY DEF StagingIInv
<1> QED
  BY <1>1, StagingInvariant, PTL

(* What the client says of credits, in the bar, the panel and the button,  *)
(* is what the forum will do with the multicall, for every refund penalty, *)
(* multiplier and number of changes (UserVotes.tsx, useCreditAllocation).  *)
THEOREM CreditsAlwaysHonest == StagingSpec => []CreditsAreHonest
<1>1. StagingIInv => CreditsAreHonest
  BY EnoughIsAccepted, BarAlwaysAgrees, LeftAlwaysAsShown
     DEF StagingIInv, CreditsAreHonest
<1> QED
  BY <1>1, StagingInvariant, PTL

=============================================================================
