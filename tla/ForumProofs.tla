---------------------------- MODULE ForumProofs -----------------------------
(***************************************************************************)
(* A forum, on the chain and in the browser.  Every transaction of a forum *)
(* is a step of its statements and a step of the caller's account, and the *)
(* other accounts see at most a new statement or nothing.  So what         *)
(* StatementsProofs and AccountProofs show of the parts holds in the       *)
(* forum, for any number of members.  The only thing to be known of the    *)
(* states for that is which changes the member's side of a batch can hand  *)
(* to the statements: FInv.                                                *)
(*                                                                         *)
(* The web client keeps to one forum at a time: an address the context has *)
(* yet to take over is the one asked for last (RouteIInv), the list of the *)
(* home page and the pages of its cache are each one forum's (FeedIInv),   *)
(* and an untouched form shows the draft that is stored (FormIInv).        *)
(***************************************************************************)
EXTENDS Forum, Browser, Induction

ForumIds == Statement!StatementIds

(* The supports of one member, none written in the future. *)
Past(given) ==
  /\ given \in [ForumIds -> Statement!Support]
  /\ \A s \in ForumIds : given[s].lastUpdated <= now

FInv ==
  /\ now \in Statement!Times /\ statementCount \in 0..MaxStatements
  /\ userSupportMap \in [Users -> [ForumIds -> Statement!Support]]
  /\ \A u \in Users : Past(userSupportMap[u])
  /\ userSupportedStatements = [u \in Users |-> userSupportedStatements[u]]
  /\ userCredits = [u \in Users |-> userCredits[u]]

-----------------------------------------------------------------------------
(* What the assumptions say of the constants, in the names used here. *)
LEMMA Assumed ==
  /\ MaxStatements \in Nat \ {0} /\ MaxBatch \in Nat /\ MaxSupport \in Nat
  /\ MaxTime \in Nat /\ StartTime \in Statement!Times
  /\ InitialSupports \subseteq Statement!Supports
  /\ ForumIds = 0..(MaxStatements - 1)
  /\ Users # {} =>
       \A a \in Adjustments : a.statementId \in ForumIds /\ a.value \in Statement!Supports
<1>1. ASSUME NEW u \in Users, NEW a \in Adjustments
      PROVE  a.statementId \in ForumIds /\ a.value \in Statement!Supports
  <2>1. a \in [statementId : Member(u)!StatementIds, value : Member(u)!Supports,
               adjustmentType : {"Delta", "SetTo"}]
    BY <1>1, ForumAssumption DEF Member!InputsAssumption
  <2> QED
    BY <2>1 DEF ForumIds, Member!StatementIds, Statement!StatementIds,
                Member!Supports, Statement!Supports
<1>2. /\ MaxStatements \in Nat \ {0} /\ MaxBatch \in Nat /\ MaxSupport \in Nat
      /\ MaxTime \in Nat /\ StartTime \in Statement!Times
      /\ InitialSupports \subseteq Statement!Supports
  BY ForumAssumption
     DEF Statement!RankingAssumption, Statement!StatementsAssumption,
         Statement!DecayBoundsAssumption
<1> QED
  BY <1>1, <1>2 DEF ForumIds, Statement!StatementIds

(* Elapsed time, speeded up, is in the range the decay is asked for, *)
LEMMA ElapsedType ==
  ASSUME NEW from \in Statement!Times, NEW to \in Statement!Times, from <= to
  PROVE  (to - from) * decaySpeedupFactor \in Statement!Elapsed
<1>1. /\ to - from \in Nat /\ MaxTime \in Nat /\ decaySpeedupFactor \in Nat
      /\ to - from <= MaxTime
  BY ForumAssumption DEF Statement!DecayBoundsAssumption, Statement!Times
<1>2. ASSUME NEW a \in Nat, NEW b \in Nat, NEW c \in Nat, a <= b
      PROVE  a * c \in 0..(b * c)
  <2>1. (b - a) * c \in Nat
    BY <1>2
  <2>2. b * c = a * c + (b - a) * c
    BY <1>2
  <2>3. a * c \in Nat /\ b * c \in Nat
    OBVIOUS
  <2> QED
    BY <2>1, <2>2, <2>3
<1> QED
  BY <1>1, <1>2 DEF Statement!Elapsed

(* so a support that is read is an amount. *)
LEMMA CurrentType ==
  ASSUME NEW support \in Statement!Support, NEW t \in Statement!Times,
         support.lastUpdated <= t
  PROVE  Statement!CurrentSupport(support, t) \in Statement!Supports
<1>1. (t - support.lastUpdated) * decaySpeedupFactor \in Statement!Elapsed
  BY ElapsedType DEF Statement!Support
<1> QED
  BY <1>1, ForumAssumption
     DEF Statement!DecayAssumption, Statement!Support, Statement!CurrentSupport,
         Statement!DecayValue

-----------------------------------------------------------------------------
(* What the loop of adjustSupport keeps of the storage it works on. *)
Draft(c, n) ==
  /\ c \in [supports : [ForumIds -> Statement!Support], supported : {c.supported},
            totalCostChange : {c.totalCostChange}, changes : Seq(Changes),
            reverted : BOOLEAN]
  /\ Past(c.supports)
  /\ Len(c.changes) <= n

(* A round adds at most one change, and one a statement can get. *)
LEMMA RoundTyped ==
  ASSUME FInv, NEW u \in Users, NEW c, NEW n \in Nat, Draft(c, n),
         NEW adjustment \in Adjustments
  PROVE  Draft(Member(u)!AdjustOne(c, adjustment), n + 1)
<1> DEFINE s == adjustment.statementId
           old == Member(u)!CurrentSupport(c.supports[s], now)
           new == Member(u)!Adjusted(old, adjustment)
           given == [c.supports EXCEPT ![s] = [value |-> new, lastUpdated |-> now]]
           list == Member(u)!UpdateUserSupportedStatements(
                     c.supported, Member(u)!CurrentSupports(given, now), s)
           cost == c.totalCostChange + Member(u)!CostOfUserSupport(new)
                     - Member(u)!CostOfUserSupport(old)
           change == [statementId |-> s, change |-> new - old]
           result == [supports |-> given, supported |-> list, totalCostChange |-> cost,
                      changes |-> Append(c.changes, change), reverted |-> c.reverted]
<1>1. /\ s \in ForumIds /\ now \in Statement!Times /\ now \in Int
      /\ c.reverted \in BOOLEAN /\ c.changes \in Seq(Changes)
      /\ c.supports \in [ForumIds -> Statement!Support] /\ Past(c.supports)
      /\ Len(c.changes) \in Nat /\ Len(c.changes) <= n
  BY Assumed DEF Draft, FInv, Statement!Times
<1>2. CASE Member(u)!AdjustOne(c, adjustment) = [c EXCEPT !.reverted = TRUE]
  <2> DEFINE d == [c EXCEPT !.reverted = TRUE]
  <2>1. /\ d \in [supports : [ForumIds -> Statement!Support], supported : {c.supported},
                  totalCostChange : {c.totalCostChange}, changes : Seq(Changes),
                  reverted : BOOLEAN]
        /\ d.supports = c.supports /\ d.changes = c.changes
        /\ d.supported = c.supported /\ d.totalCostChange = c.totalCostChange
    BY DEF Draft
  <2> HIDE DEF d
  <2>2. Draft(d, n + 1)
    BY <1>1, <2>1 DEF Draft
  <2> QED
    BY <1>2, <2>2 DEF d
<1>3. CASE /\ Member(u)!AdjustOne(c, adjustment) = Member(u)!Accept(c, s, old, new)
           /\ new \in Member(u)!Supports
  <2>1. /\ old \in Statement!Supports /\ new \in Statement!Supports
        /\ new \in Int /\ old \in Int
    <3>1. Statement!CurrentSupport(c.supports[s], now) \in Statement!Supports
      BY <1>1, CurrentType DEF Past
    <3>2. old = Statement!CurrentSupport(c.supports[s], now)
      BY DEF Member!CurrentSupport, Statement!CurrentSupport,
             Member!DecayValue, Statement!DecayValue
    <3>3. Member(u)!Supports = Statement!Supports
      BY DEF Member!Supports, Statement!Supports
    <3> HIDE DEF old, new
    <3>4. old \in Statement!Supports /\ new \in Statement!Supports
      BY <1>3, <3>1, <3>2, <3>3
    <3> QED
      BY <3>4, Assumed DEF Statement!Supports
  <2>2. change \in Changes
    <3> HIDE DEF old, new, s
    <3>1. s \in 0..(MaxStatements - 1) /\ new - old \in (-2 * MaxSupport)..(2 * MaxSupport)
      BY <1>1, <2>1, Assumed DEF Statement!Supports
    <3> QED
      BY <3>1 DEF Changes
  <2>3. /\ Append(c.changes, change) \in Seq(Changes)
        /\ Len(Append(c.changes, change)) = Len(c.changes) + 1
    <3> HIDE DEF change
    <3> QED
      BY <1>1, <2>2
  <2>4. given \in [ForumIds -> Statement!Support] /\ Past(given)
    <3> HIDE DEF old, new, s
    <3>1. [value |-> new, lastUpdated |-> now] \in Statement!Support
      BY <1>1, <2>1 DEF Statement!Support
    <3>2. given \in [ForumIds -> Statement!Support]
      BY <1>1, <3>1
    <3>3. ASSUME NEW x \in ForumIds PROVE given[x].lastUpdated <= now
      BY <1>1 DEF Past
    <3> QED
      BY <3>2, <3>3 DEF Past
  <2>5. Member(u)!Accept(c, s, old, new) = result
    <3>1. c \in [supports : [ForumIds -> Statement!Support], supported : {c.supported},
                 totalCostChange : {c.totalCostChange}, changes : Seq(Changes),
                 reverted : BOOLEAN]
      BY DEF Draft
    <3>2. Member(u)!Accept(c, s, old, new)
            = [c EXCEPT !.supports = given, !.supported = list,
                        !.totalCostChange = cost, !.changes = Append(c.changes, change)]
      BY DEF Member!Accept
    <3> HIDE DEF given, list, cost, change
    <3> QED
      BY <3>1, <3>2
  <2> HIDE DEF given, list, cost, change
  <2>6. Draft(result, n + 1)
    BY <1>1, <2>3, <2>4 DEF Draft
  <2> QED
    BY <1>3, <2>5, <2>6
<1> QED
  BY <1>2, <1>3 DEF Member!AdjustOne

(* A batch is a sequence of adjustments. *)
LEMMA BatchType ==
  ASSUME NEW adjustments \in Batches
  PROVE  /\ Len(adjustments) \in 0..MaxBatch
         /\ \A i \in 1..Len(adjustments) : adjustments[i] \in Adjustments
<1>1. PICK n \in 0..MaxBatch : adjustments \in [1..n -> Adjustments]
  BY DEF Batches
<1>2. n \in Nat
  BY Assumed
<1>3. Len(adjustments) = n
  BY <1>1, <1>2
<1> QED
  BY <1>1, <1>3

(* The loop over a batch is a function: what holds after i rounds, *)
Rounds(u, adjustments, n, f) ==
  f = [i \in 0..n |-> IF i = 0 THEN Member(u)!BeforeAdjusting
                      ELSE Member(u)!AdjustOne(f[i - 1], adjustments[i])]

(* and there is one for every batch, by adding one round at a time, *)
LEMMA RoundsExist ==
  ASSUME NEW u \in Users, NEW adjustments, NEW n \in Nat
  PROVE  \E f : Rounds(u, adjustments, n, f)
<1> DEFINE Done == {k \in 0..n : \E f : Rounds(u, adjustments, k, f)}
<1>1. 0 \in Done
  <2>1. Rounds(u, adjustments, 0, [i \in 0..0 |-> Member(u)!BeforeAdjusting])
    BY DEF Rounds
  <2> QED
    BY <2>1
<1>2. ASSUME NEW k \in 1..n, k - 1 \in Done PROVE k \in Done
  <2>1. PICK f : Rounds(u, adjustments, k - 1, f)
    BY <1>2
  <2> DEFINE g == [i \in 0..k |-> IF i < k THEN f[i]
                                  ELSE Member(u)!AdjustOne(f[k - 1], adjustments[k])]
  <2>2. \A i \in 0..(k - 1) :
          f[i] = IF i = 0 THEN Member(u)!BeforeAdjusting
                 ELSE Member(u)!AdjustOne(f[i - 1], adjustments[i])
    BY <2>1 DEF Rounds
  <2>3. \A i \in 0..k : i # 0 => i - 1 \in 0..k /\ i - 1 < k /\ (i < k => i \in 0..(k - 1))
    OBVIOUS
  <2>4. k # 0 /\ k \in 0..k /\ 0 \in 0..(k - 1)
    OBVIOUS
  <2>5. Rounds(u, adjustments, k, g)
    <3>1. ASSUME NEW i \in 0..k
          PROVE  g[i] = IF i = 0 THEN Member(u)!BeforeAdjusting
                        ELSE Member(u)!AdjustOne(g[i - 1], adjustments[i])
      <4>1. CASE i = 0
        BY <2>2, <2>4, <4>1
      <4>2. CASE i # 0 /\ i < k
        BY <2>2, <2>3, <4>2
      <4>3. CASE i # 0 /\ i = k
        BY <2>3, <4>3
      <4> QED
        BY <4>1, <4>2, <4>3
    <3> QED
      BY <3>1, Zenon DEF Rounds
  <2> QED
    BY <2>5
<1>3. 0..n \subseteq Done
  <2> HIDE DEF Done
  <2> QED
    BY <1>1, <1>2, IntervalInduction
<1> QED
  BY <1>3

(* and leaves a batch of changes to the statements. *)
LEMMA ChangesAreBatch ==
  ASSUME FInv, NEW u \in Users, NEW adjustments \in Batches
  PROVE  LET c == Member(u)!AdjustAll(adjustments)
         IN  Past(c.supports) /\ c.changes \in Statement!Batches
<1> DEFINE n == Len(adjustments)
           after == CHOOSE f : Rounds(u, adjustments, n, f)
           Done == {i \in 0..n : Draft(after[i], i)}
<1>1. n \in Nat /\ n <= MaxBatch /\ \A i \in 1..n : adjustments[i] \in Adjustments
  BY BatchType, Assumed
<1>2. Rounds(u, adjustments, n, after)
  BY <1>1, RoundsExist
<1>3. Member(u)!AdjustAll(adjustments) = after[n]
  BY DEF Member!AdjustAll, Rounds
<1> HIDE DEF after
<1>4. 0 \in Done
  <2>1. after[0] = Member(u)!BeforeAdjusting
    BY <1>1, <1>2 DEF Rounds
  <2>2. Draft(Member(u)!BeforeAdjusting, 0)
    BY DEF Draft, Member!BeforeAdjusting, FInv
  <2> QED
    BY <1>1, <2>1, <2>2
<1>5. ASSUME NEW i \in 1..n, i - 1 \in Done PROVE i \in Done
  <2>1. after[i] = Member(u)!AdjustOne(after[i - 1], adjustments[i])
    BY <1>1, <1>2 DEF Rounds
  <2>2. Draft(after[i], (i - 1) + 1)
    <3>1. i - 1 \in Nat /\ adjustments[i] \in Adjustments /\ Draft(after[i - 1], i - 1)
      BY <1>1, <1>5
    <3> QED
      BY <2>1, <3>1, RoundTyped
  <2> QED
    BY <1>1, <2>2
<1>6. 0..n \subseteq Done
  <2> HIDE DEF Done, n
  <2> QED
    BY <1>1, <1>4, <1>5, IntervalInduction
<1>7. Draft(after[n], n)
  BY <1>1, <1>6
<1>8. ASSUME NEW q \in Seq(Changes), Len(q) <= n PROVE q \in Statement!Batches
  <2>1. q \in [1..Len(q) -> Changes] /\ Len(q) \in 0..MaxBatch
    BY <1>1, <1>8, Assumed
  <2> QED
    BY <2>1 DEF Statement!Batches
<1> QED
  BY <1>3, <1>7, <1>8 DEF Draft

-----------------------------------------------------------------------------
(* Past reads the clock and nothing else of the state. *)
LEMMA PastStays ==
  ASSUME FInv, NEW given, Past(given), now' \in Statement!Times, now' >= now
  PROVE  Past(given)'
<1>1. now \in Int /\ now' \in Int
  BY DEF FInv, Statement!Times
<1>2. ASSUME NEW s \in ForumIds PROVE given[s].lastUpdated <= now'
  <2>1. given[s].lastUpdated \in Int /\ given[s].lastUpdated <= now
    BY DEF Past, Statement!Support, Statement!Times
  <2> QED
    BY <1>1, <2>1
<1> QED
  BY <1>2 DEF Past

(* A call that writes the supports of one member. *)
LEMMA CallKeepsFInv ==
  ASSUME FInv, NEW u \in Users, NEW given, NEW list, NEW credit, Past(given),
         now' = now, statementCount' \in 0..MaxStatements,
         userSupportMap' = [userSupportMap EXCEPT ![u] = given],
         userSupportedStatements' = [userSupportedStatements EXCEPT ![u] = list],
         userCredits' = [userCredits EXCEPT ![u] = credit]
  PROVE  FInv'
<1>1. \A g : Past(g) => Past(g)'
  BY DEF Past
<1>2. /\ userSupportMap' \in [Users -> [ForumIds -> Statement!Support]]
      /\ \A v \in Users : Past(userSupportMap'[v])
  BY DEF FInv, Past
<1>3. /\ userSupportedStatements' = [v \in Users |-> userSupportedStatements'[v]]
      /\ userCredits' = [v \in Users |-> userCredits'[v]]
  BY DEF FInv
<1>4. \A v \in Users : Past(userSupportMap[v])'
  BY <1>2 DEF Past
<1> QED
  BY <1>2, <1>3, <1>4 DEF FInv

(* Adding a statement is such a call, whether or not it has support, *)
LEMMA AddKeepsFInv ==
  ASSUME FInv, NEW u \in Users, NEW initialSupport \in InitialSupports,
         AddStatement(u, initialSupport)
  PROVE  FInv'
<1> DEFINE s == statementCount
           given == [userSupportMap[u] EXCEPT
                       ![s] = [value |-> initialSupport, lastUpdated |-> now]]
           list == Member(u)!UpdateUserSupportedStatements(
                     userSupportedStatements[u], Member(u)!CurrentSupports(given, now), s)
           credit == [credits |-> Member(u)!CurrentUserBalance
                                     - Member(u)!CostOfUserSupport(initialSupport),
                       lastUpdated |-> now]
<1>1. /\ now' = now /\ statementCount < MaxStatements /\ statementCount' = statementCount + 1
      /\ statementCount' \in 0..MaxStatements /\ s \in ForumIds
  BY Assumed DEF AddStatement, Statement!Add, FInv
<1>2. userCredits' = [userCredits EXCEPT ![u] = credit]
  BY DEF AddStatement
<1>3. CASE initialSupport = 0
  <2>1. UNCHANGED <<userSupportMap, userSupportedStatements>>
    BY <1>3 DEF AddStatement
  <2>2. /\ userSupportMap' = [userSupportMap EXCEPT ![u] = userSupportMap[u]]
        /\ userSupportedStatements' =
             [userSupportedStatements EXCEPT ![u] = userSupportedStatements[u]]
        /\ Past(userSupportMap[u])
    BY <2>1 DEF FInv
  <2> HIDE DEF credit
  <2> QED
    BY <1>1, <1>2, <2>2, CallKeepsFInv
<1>4. CASE initialSupport # 0
  <2>1. /\ userSupportMap' = [userSupportMap EXCEPT ![u] = given]
        /\ userSupportedStatements' = [userSupportedStatements EXCEPT ![u] = list]
    BY <1>4 DEF AddStatement
  <2>2. Past(given)
    <3>1. [value |-> initialSupport, lastUpdated |-> now] \in Statement!Support
      BY Assumed DEF Statement!Support, FInv
    <3>2. userSupportMap[u] \in [ForumIds -> Statement!Support] /\ Past(userSupportMap[u])
          /\ now \in Int
      BY DEF FInv, Statement!Times
    <3> QED
      BY <1>1, <3>1, <3>2 DEF Past
  <2> HIDE DEF credit, given, list
  <2> QED
    BY <1>1, <1>2, <2>1, <2>2, CallKeepsFInv
<1> QED
  BY <1>3, <1>4

(* and so is a batch of adjustments. *)
LEMMA AdjustKeepsFInv ==
  ASSUME FInv, NEW u \in Users, NEW adjustments \in Batches, AdjustSupport(u, adjustments)
  PROVE  FInv'
<1> DEFINE c == Member(u)!AdjustAll(adjustments)
           credit == [credits |-> Member(u)!CurrentUserBalance
                                     - Member(u)!Settle(c.totalCostChange),
                       lastUpdated |-> now]
<1>1. /\ now' = now /\ statementCount' = statementCount
      /\ userSupportMap' = [userSupportMap EXCEPT ![u] = c.supports]
      /\ userSupportedStatements' = [userSupportedStatements EXCEPT ![u] = c.supported]
      /\ userCredits' = [userCredits EXCEPT ![u] = credit]
  BY DEF AdjustSupport, Statement!Adjust
<1>2. Past(c.supports) /\ statementCount' \in 0..MaxStatements
  BY <1>1, ChangesAreBatch DEF FInv
<1> HIDE DEF c, credit
<1> QED
  BY <1>1, <1>2, CallKeepsFInv

(* A forum begins without statements and supports, *)
LEMMA InitFInv == Init => FInv
<1> SUFFICES ASSUME Init PROVE FInv
  OBVIOUS
<1>1. /\ now = StartTime /\ statementCount = 0
      /\ userSupportMap = [u \in Users |-> [s \in ForumIds |-> Statement!NoSupport]]
      /\ userSupportedStatements = [u \in Users |-> <<>>]
      /\ userCredits = [u \in Users |-> [credits |-> 0, lastUpdated |-> 0]]
  BY DEF Init, Statement!Init, ForumIds
<1>2. Statement!NoSupport \in Statement!Support /\ Statement!NoSupport.lastUpdated <= now
  BY <1>1, Assumed DEF Statement!NoSupport, Statement!Support, Statement!Supports,
                      Statement!Times
<1>3. \A u \in Users : Past(userSupportMap[u])
  BY <1>1, <1>2 DEF Past
<1> QED
  BY <1>1, <1>2, <1>3, Assumed DEF FInv

(* and no step of it breaks the invariant. *)
LEMMA NextFInv == FInv /\ [Next]_vars => FInv'
<1> SUFFICES ASSUME FInv, [Next]_vars PROVE FInv'
  OBVIOUS
<1>1. CASE Tick
  <2>1. now' = now + 1 /\ now < MaxTime /\ UNCHANGED memberVars
        /\ statementCount' = statementCount
    BY <1>1 DEF Tick, Statement!Tick
  <2>2. now' \in Statement!Times /\ now' >= now
    BY <2>1, Assumed DEF FInv, Statement!Times
  <2>3. \A u \in Users : Past(userSupportMap[u])'
    BY <2>1, <2>2, PastStays DEF FInv, memberVars, Past
  <2> QED
    BY <2>1, <2>2, <2>3 DEF FInv, memberVars
<1>2. CASE UNCHANGED vars
  BY <1>2 DEF FInv, vars, memberVars, statementVars, Past
<1> QED
  BY <1>1, <1>2, AddKeepsFInv, AdjustKeepsFInv DEF Next

(***************************************************************************)
(* No member's support is written in the future or outside of its range,   *)
(* whoever calls in whatever order.                                        *)
(***************************************************************************)
THEOREM ForumInvariant == Spec => []FInv
<1> QED
  BY InitFInv, NextFInv, PTL DEF Spec

-----------------------------------------------------------------------------
(* A step of the forum is one of its statements. *)
LEMMA StatementStep == FInv /\ [Next]_vars => [Statement!Next]_(Statement!vars)
<1> SUFFICES ASSUME FInv, [Next]_vars PROVE [Statement!Next]_(Statement!vars)
  OBVIOUS
<1>1. ASSUME NEW u \in Users, NEW initialSupport \in InitialSupports,
             AddStatement(u, initialSupport)
      PROVE  Statement!Next
  BY <1>1 DEF AddStatement, Statement!Next
<1>2. ASSUME NEW u \in Users, NEW adjustments \in Batches, AdjustSupport(u, adjustments)
      PROVE  Statement!Next
  <2>1. /\ Statement!Adjust(Member(u)!AdjustAll(adjustments).changes)
        /\ Member(u)!AdjustAll(adjustments).changes \in Statement!Batches
    BY <1>2, ChangesAreBatch DEF AdjustSupport
  <2> QED
    BY <2>1 DEF Statement!Next
<1>3. CASE Tick
  BY <1>3 DEF Tick, Statement!Next
<1>4. CASE UNCHANGED vars
  BY <1>4 DEF vars, statementVars, Statement!vars
<1> QED
  BY <1>1, <1>2, <1>3, <1>4 DEF Next

(* A step of the forum is one of every member's account, or leaves it alone. *)
LEMMA AddIsMembers ==
  ASSUME FInv, NEW u \in Users, NEW initialSupport \in InitialSupports,
         AddStatement(u, initialSupport), NEW v \in Users
  PROVE  Member(v)!Next
<1> DEFINE s == statementCount
           given == [userSupportMap[u] EXCEPT
                       ![s] = [value |-> initialSupport, lastUpdated |-> now]]
           list == Member(u)!UpdateUserSupportedStatements(
                     userSupportedStatements[u], Member(u)!CurrentSupports(given, now), s)
           credit == [credits |-> Member(u)!CurrentUserBalance
                                     - Member(u)!CostOfUserSupport(initialSupport),
                       lastUpdated |-> now]
           newGiven == IF initialSupport = 0 THEN userSupportMap[u] ELSE given
           newList == IF initialSupport = 0 THEN userSupportedStatements[u] ELSE list
<1>1. /\ now' = now /\ statementCount < MaxStatements /\ statementCount' = statementCount + 1
      /\ userCredits' = [userCredits EXCEPT ![u] = credit]
      /\ Member(u)!IsMember
      /\ Member(u)!CurrentUserBalance >= Member(u)!CostOfUserSupport(initialSupport)
  BY DEF AddStatement, Statement!Add
<1>2. /\ userSupportMap' = [userSupportMap EXCEPT ![u] = newGiven]
      /\ userSupportedStatements' = [userSupportedStatements EXCEPT ![u] = newList]
  <2>1. CASE initialSupport = 0
    <3>1. UNCHANGED <<userSupportMap, userSupportedStatements>>
      BY <2>1 DEF AddStatement
    <3> QED
      BY <2>1, <3>1 DEF FInv
  <2>2. CASE initialSupport # 0
    BY <2>2 DEF AddStatement
  <2> QED
    BY <2>1, <2>2
<1>3. /\ userSupportMap'[u] = newGiven /\ userSupportedStatements'[u] = newList
      /\ userCredits'[u] = credit
      /\ v # u => /\ userSupportMap'[v] = userSupportMap[v]
                  /\ userSupportedStatements'[v] = userSupportedStatements[v]
                  /\ userCredits'[v] = userCredits[v]
  <2> HIDE DEF newGiven, newList, credit
  <2>1. CASE v = u
    BY <1>1, <1>2, <2>1 DEF FInv
  <2>2. CASE v # u
    BY <1>1, <1>2, <2>2 DEF FInv
  <2> QED
    BY <2>1, <2>2
<1>4. CASE v = u
  <2>1. Member(u)!Add(initialSupport)
    BY <1>1, <1>3 DEF Member!Add
  <2> QED
    BY <1>4, <2>1 DEF Member!Next
<1>5. CASE v # u
  BY <1>1, <1>3, <1>5 DEF Member!Next, Member!OtherAdds
<1> QED
  BY <1>4, <1>5

(* An adjustment is one of the caller's account and nothing to the others. *)
LEMMA AdjustIsMembers ==
  ASSUME FInv, NEW u \in Users, NEW adjustments \in Batches,
         AdjustSupport(u, adjustments), NEW v \in Users
  PROVE  [Member(v)!Next]_(Member(v)!vars)
<1> DEFINE c == Member(u)!AdjustAll(adjustments)
           charge == Member(u)!Settle(c.totalCostChange)
           credit == [credits |-> Member(u)!CurrentUserBalance - charge,
                       lastUpdated |-> now]
<1>1. /\ now' = now /\ statementCount' = statementCount
      /\ userSupportMap' = [userSupportMap EXCEPT ![u] = c.supports]
      /\ userSupportedStatements' = [userSupportedStatements EXCEPT ![u] = c.supported]
      /\ userCredits' = [userCredits EXCEPT ![u] = credit]
      /\ Member(u)!IsMember /\ ~c.reverted
      /\ Member(u)!CurrentUserBalance >= charge
  BY DEF AdjustSupport, Statement!Adjust
<1>2. /\ userSupportMap'[u] = c.supports /\ userSupportedStatements'[u] = c.supported
      /\ userCredits'[u] = credit
      /\ v # u => /\ userSupportMap'[v] = userSupportMap[v]
                  /\ userSupportedStatements'[v] = userSupportedStatements[v]
                  /\ userCredits'[v] = userCredits[v]
  <2> HIDE DEF c, credit
  <2>1. CASE v = u
    BY <1>1, <2>1 DEF FInv
  <2>2. CASE v # u
    BY <1>1, <2>2 DEF FInv
  <2> QED
    BY <2>1, <2>2
<1>3. CASE v = u
  <2>1. Member(u)!Adjust(adjustments)
    BY <1>1, <1>2 DEF Member!Adjust
  <2>2. adjustments \in Member(u)!Batches
    BY DEF Batches, Member!Batches
  <2> QED
    BY <1>3, <2>1, <2>2 DEF Member!Next
<1>4. CASE v # u
  BY <1>1, <1>2, <1>4 DEF Member!vars
<1> QED
  BY <1>3, <1>4

(* So is every step. *)
LEMMA MemberStep ==
  FInv /\ [Next]_vars => [\A u \in Users : [Member(u)!Next]_(Member(u)!vars)]_vars
<1> SUFFICES ASSUME FInv, Next, NEW v \in Users
             PROVE  [Member(v)!Next]_(Member(v)!vars)
  OBVIOUS
<1>1. CASE Tick
  BY <1>1 DEF Tick, Statement!Tick, memberVars, Member!Next, Member!Tick
<1> QED
  BY <1>1, AddIsMembers, AdjustIsMembers DEF Next

(***************************************************************************)
(* The statements of a forum behave as Statements says: a sequence of      *)
(* calls by any members is one of changes to statements, each with a       *)
(* difference two supports can have and no more of them than a batch.      *)
(***************************************************************************)
THEOREM ForumImplementsStatements == Spec => ImplementsStatements
<1>1. Init => Statement!Init
  BY DEF Init
<1> QED
  BY <1>1, StatementStep, ForumInvariant, PTL DEF Spec, ImplementsStatements

(***************************************************************************)
(* The account of each member behaves as MemberAccount says, whatever the  *)
(* others do.                                                              *)
(***************************************************************************)
THEOREM ForumImplementsMembers == Spec => ImplementsMembers
<1>1. Init => \A u \in Users : Member(u)!Init
  <2> SUFFICES ASSUME Init, NEW u \in Users PROVE Member(u)!Init
    OBVIOUS
  <2> QED
    BY DEF Init, Statement!Init, Statement!StatementIds, Statement!NoSupport,
           Member!Init, Member!StatementIds, Member!NoSupport
<1> QED
  BY <1>1, MemberStep, ForumInvariant, PTL DEF Spec, ImplementsMembers

(***************************************************************************)
(* Both at once: a transaction is a step of the statements and one of the  *)
(* caller's account, for any number of members, statements and batches.    *)
(***************************************************************************)
THEOREM ForumImplementsBoth == Spec => ImplementsBoth
<1> QED
  BY ForumImplementsStatements, ForumImplementsMembers DEF ImplementsBoth

-----------------------------------------------------------------------------
(***************************************************************************)
(* The address and the forum: an address whose forum the context has yet   *)
(* to take over is the one that was asked for last.                        *)
(***************************************************************************)
RouteIInv ==
  /\ DOMAIN route = {"page", "slug", "q"}
  /\ forum \in Forums
  /\ InForum /\ route.slug \in Forums /\ route.slug # synced => wanted = route.slug

(* The forum of the context changes to the one wanted, but by a reload. *)
FollowsWish == forum' # forum /\ synced' # None => forum' = wanted'

RouteStep == RouteIInv' /\ FollowsWish

(* What is read from local storage is a forum, whatever is stored. *)
LEMMA StoredForumType == StoredForum \in Forums
BY ForumRouteAssumption DEF StoredForum

(* An address that is visited is one that was asked for. *)
LEMMA VisitKeepsRoute ==
  ASSUME RouteIInv, NEW page \in Pages, NEW slug \in Forums \cup {Unlisted}, Visit(page, slug)
  PROVE  RouteStep
BY DEF RouteIInv, Visit, At, RouteStep, FollowsWish, InForum

(* A link within the client keeps to the forum of the context. *)
LEMMA GoKeepsRoute ==
  ASSUME RouteIInv, NEW page \in LayoutPages, Go(page)
  PROVE  RouteStep
BY DEF RouteIInv, Go, At, RouteStep, FollowsWish, InForum

(* A redirect asks for the forum it leads to. *)
LEMMA RedirectKeepsRoute ==
  ASSUME RouteIInv, NEW page \in Pages, NEW slug \in Forums \cup {None},
         page \in LayoutPages => slug \in Forums,
         RedirectTo(At(page, slug, NoQuery))
  PROVE  RouteStep
<1>1. None \notin Forums
  BY ForumRouteAssumption
<1>2. route' = At(page, slug, NoQuery) /\ UNCHANGED <<forum, synced>>
      /\ wanted' = IF slug = None THEN wanted ELSE slug
  BY DEF RedirectTo, At
<1> QED
  BY <1>1, <1>2 DEF RouteIInv, At, RouteStep, FollowsWish, InForum

(* What the client does by itself follows what was asked for last. *)
LEMMA EffectKeepsRoute ==
  ASSUME RouteIInv, RouteEffect
  PROVE  RouteStep
<1>1. CASE RootRedirect
  <2>1. \/ RedirectTo(At("home", StoredForum, NoQuery))
        \/ RedirectTo(At("welcome", None, NoQuery))
    BY <1>1 DEF RootRedirect
  <2> QED
    BY <2>1, StoredForumType, RedirectKeepsRoute DEF Pages, LayoutPages
<1>2. CASE ValidateForumSlug
  <2>1. RedirectTo(At("home", StoredForum, NoQuery))
    BY <1>2 DEF ValidateForumSlug
  <2> QED
    BY <2>1, StoredForumType, RedirectKeepsRoute DEF Pages, LayoutPages
<1>3. CASE SyncFromSlug
  BY <1>3 DEF SyncFromSlug, SetForum, RouteIInv, RouteStep, FollowsWish, InForum
<1>4. CASE NavigateToChosen
  BY <1>4 DEF NavigateToChosen, At, RouteIInv, RouteStep, FollowsWish, InForum
<1>5. CASE ReadFingerprint
  BY <1>5 DEF ReadFingerprint, RouteIInv, RouteStep, FollowsWish, InForum
<1> QED
  BY <1>1, <1>2, <1>3, <1>4, <1>5 DEF RouteEffect

(* A dialog sets context and wish at once, the address later. *)
LEMMA VisitorKeepsRoute ==
  ASSUME RouteIInv, VisitorStep
  PROVE  RouteStep
<1>1. CASE EnterFromWelcome
  BY <1>1, StoredForumType
     DEF EnterFromWelcome, At, RouteIInv, RouteStep, FollowsWish, InForum
<1>2. ASSUME NEW f \in Forums, ChooseForum(f)
      PROVE  RouteStep
  BY <1>2 DEF ChooseForum, Settled, Quiet, SetForum, RouteIInv, RouteStep, FollowsWish, InForum
<1>3. ASSUME NEW f \in Forums, OtherTab(f)
      PROVE  RouteStep
  BY <1>3 DEF OtherTab, RouteIInv, RouteStep, FollowsWish, InForum
<1> QED
  BY <1>1, <1>2, <1>3, VisitKeepsRoute, GoKeepsRoute DEF VisitorStep

(* A reload is the one step that may leave the wish. *)
LEMMA ReloadKeepsRoute ==
  ASSUME RouteIInv, ReloadRoute
  PROVE  RouteStep
BY StoredForumType DEF ReloadRoute, RouteIInv, RouteStep, FollowsWish, InForum

(* A step that changes at most the query of the address. *)
LEMMA QueryKeepsRoute ==
  ASSUME RouteIInv, UNCHANGED <<forum, synced, wanted>>,
         route' = route \/ \E q : route' = [route EXCEPT !.q = q]
  PROVE  RouteStep
BY DEF RouteIInv, RouteStep, FollowsWish, InForum

(* So every step of the client follows the wish, but a reload. *)
LEMMA NextKeepsRoute ==
  ASSUME RouteIInv, form.leaving \in {None, "home", "other"}, BrowserNext
  PROVE  RouteStep
<1>1. CASE HomeNext
  <2>1. CASE Route(VisitorStep) \/ Route(RouteEffect)
    BY <2>1, VisitorKeepsRoute, EffectKeepsRoute DEF Route
  <2>2. CASE Box
    BY <2>2, QueryKeepsRoute DEF Box, SetQuery, ClearQuery
  <2>3. CASE Reload
    BY <2>3, ReloadKeepsRoute DEF Reload
  <2>4. CASE Search
    <3>1. UNCHANGED <<forum, synced, wanted>>
          /\ (route' = route \/ \E q : route' = [route EXCEPT !.q = q])
      BY <2>4 DEF Search, TimerFires, Answer, Failure, Arrived, routeVars
    <3> QED
      BY <3>1, QueryKeepsRoute
  <2>5. CASE FeedStep /\ UNCHANGED <<routeVars, searchVars>>
    BY <2>5, QueryKeepsRoute DEF routeVars
  <2> QED
    BY <1>1, <2>1, <2>2, <2>3, <2>4, <2>5 DEF HomeNext
<1>2. CASE RouteRecords(VisitorStep) \/ RouteRecords(RouteEffect)
  BY <1>2, VisitorKeepsRoute, EffectKeepsRoute DEF RouteRecords
<1>3. CASE RecordStep
  <2>1. CASE ReloadRecords
    BY <2>1, ReloadKeepsRoute DEF ReloadRecords
  <2>2. CASE Leave
    <3>1. RedirectTo(At(form.leaving, forum, NoQuery)) /\ form.leaving # None
      BY <2>2 DEF Leave, RouteRecords
    <3> QED
      BY <3>1, RedirectKeepsRoute DEF RouteIInv, Pages, LayoutPages
  <2>3. CASE RecordStep /\ ~ReloadRecords /\ ~Leave
    <3>1. UNCHANGED <<route, forum, synced, wanted>>
      BY <2>3 DEF RecordStep, SwitchAccount, Type, SaveDraft, Create, Cancel, Close,
                  ToggleBookmark, OtherTabToggles, SetNickname, OtherTabNames,
                  StorageEvent, NicknameEvent, routeVars
    <3> QED
      BY <3>1, QueryKeepsRoute
  <2> QED
    BY <1>3, <2>1, <2>2, <2>3
<1> QED
  BY <1>1, <1>2, <1>3 DEF BrowserNext, HomeVisit, WriteVisit

-----------------------------------------------------------------------------
(* A form that was neither typed in nor came with a text shows the draft   *)
(* of its key, unless that was removed.                                    *)
Untouched(f) == ~f.typed /\ ~f.carried

FormIInv ==
  /\ DOMAIN form = {"open", "text", "key", "hydrated", "timer", "leaving", "typed", "carried"}
  /\ DOMAIN drafts = Keys
  /\ form.leaving \in {None, "home", "other"}
  /\ form.timer => form.key # None
  /\ Untouched(form) /\ form.key \in Keys \ {None} =>
       form.text = drafts[form.key] \/ drafts[form.key] = NoText

(* A stored draft gives way to the closing or to the text of its own form. *)
GivesWay(k) ==
  \/ k = Key /\ drafts'[k] = NoText /\ form.leaving = None /\ form'.leaving # None
  \/ k = form.key /\ drafts'[k] = form.text /\ (form.typed \/ form.carried)

KeepsDrafts ==
  \A k \in KeysOfChain : drafts[k] # NoText /\ drafts'[k] # drafts[k] => GivesWay(k)

FormStep == FormIInv' /\ KeepsDrafts

(* A form that is mounted anew has no key yet. *)
LEMMA NoFormFits ==
  ASSUME DOMAIN drafts' = Keys,
         form' = NoForm \/ \E o : form' = [NoForm EXCEPT !.open = o]
  PROVE  FormIInv'
<1>1. /\ DOMAIN form' = {"open", "text", "key", "hydrated", "timer", "leaving", "typed", "carried"}
      /\ form'.leaving = None /\ form'.timer = FALSE /\ form'.key = None
  BY DEF NoForm
<1> QED
  BY <1>1 DEF FormIInv

(* The form as a step leaves it, before it is rendered. *)
AsLeft(base) ==
  base = form \/ \E text : base = [form EXCEPT !.text = text, !.typed = TRUE]

(* Hydration: the form keeps its draft, takes its text along or loads one. *)
LEMMA HydratedFits ==
  ASSUME FormIInv, NEW base,
         AsLeft(base),
         \A k \in Keys : drafts'[k] = drafts[k] \/ drafts'[k] = NoText,
         NEW key, NEW g, g = Hydrated(base, key)
  PROVE  /\ DOMAIN g = {"open", "text", "key", "hydrated", "timer", "leaving", "typed", "carried"}
         /\ g.leaving = form.leaving /\ g.timer = form.timer /\ g.key = key
         /\ Untouched(g) /\ key \in Keys \ {None} => g.text = drafts'[key] \/ drafts'[key] = NoText
<1>1. /\ DOMAIN base = {"open", "text", "key", "hydrated", "timer", "leaving", "typed", "carried"}
      /\ base.leaving = form.leaving /\ base.timer = form.timer /\ base.key = form.key
      /\ base.typed = TRUE \/ base = form
  <2>1. CASE base = form
    BY <2>1 DEF FormIInv
  <2>2. ASSUME NEW text, base = [form EXCEPT !.text = text, !.typed = TRUE]
        PROVE  <1>1!:
    BY <2>2 DEF FormIInv
  <2> QED
    BY <2>1, <2>2 DEF AsLeft
<1>2. CASE key = None
  BY <1>1, <1>2 DEF Hydrated
<1>3. CASE key # None /\ base.key = key
  <2>1. g = base
    BY <1>3 DEF Hydrated
  <2>2. Untouched(g) => g = form
    BY <1>1, <2>1 DEF Untouched
  <2> QED
    BY <1>1, <1>3, <2>1, <2>2 DEF FormIInv
<1>4. CASE key # None /\ base.key # key /\ base.text # NoText
  BY <1>1, <1>4 DEF Hydrated, Untouched
<1>5. CASE key # None /\ base.key # key /\ base.text = NoText
  BY <1>1, <1>5 DEF Hydrated, LoadDraft
<1> QED
  BY <1>2, <1>3, <1>4, <1>5

(* Rendering, which starts the timer for a form with a key alone. *)
LEMMA RenderFits ==
  ASSUME FormIInv, NEW base,
         AsLeft(base),
         DOMAIN drafts' = Keys, \A k \in Keys : drafts'[k] = drafts[k] \/ drafts'[k] = NoText,
         RenderRecords(base)
  PROVE  FormIInv'
<1>1. CASE form' = NoForm
  BY <1>1, NoFormFits
<1>2. CASE form' = RenderedForm(base, Key')
  <2>1. PICK key : key = Key'
    OBVIOUS
  <2>2. PICK g : g = Hydrated(base, key)
    OBVIOUS
  <2>3. /\ DOMAIN g = {"open", "text", "key", "hydrated", "timer", "leaving", "typed", "carried"}
        /\ g.leaving = form.leaving /\ g.timer = form.timer /\ g.key = key
        /\ Untouched(g) /\ key \in Keys \ {None} => g.text = drafts'[key] \/ drafts'[key] = NoText
    BY <2>2, HydratedFits
  <2> DEFINE same == <<g.text, g.key, g.hydrated>> = <<form.text, form.key, form.hydrated>>
             timer == IF same THEN base.timer ELSE g.hydrated /\ key # None
  <2>4. base.timer = form.timer
    BY DEF FormIInv, AsLeft
  <2>5. form' = [g EXCEPT !.open = TRUE, !.timer = timer]
    BY <1>2, <2>1, <2>2 DEF RenderedForm
  <2>6. timer => key # None
    BY <2>3, <2>4 DEF FormIInv
  <2> HIDE DEF timer, same
  <2>7. /\ DOMAIN form' = {"open", "text", "key", "hydrated", "timer", "leaving", "typed", "carried"}
        /\ form'.leaving = g.leaving /\ form'.text = g.text /\ form'.key = key
        /\ form'.typed = g.typed /\ form'.carried = g.carried /\ form'.timer = timer
    BY <2>3, <2>5
  <2> QED
    BY <2>3, <2>6, <2>7 DEF FormIInv, Untouched
<1> QED
  BY <1>1, <1>2 DEF RenderRecords

(* A step of the address, the forum or the chain sweeps other chains alone. *)
LEMMA RouteKeepsForm ==
  ASSUME FormIInv, NEW step, RouteRecords(step)
  PROVE  FormStep
<1>1. /\ DOMAIN drafts' = Keys
      /\ \A k \in Keys : drafts'[k] = drafts[k] \/ (k[1] # "chain" /\ drafts'[k] = NoText)
      /\ RenderRecords(form)
  BY DEF RouteRecords
<1>2. FormIInv'
  BY <1>1, RenderFits DEF AsLeft, FormIInv
<1>3. KeepsDrafts
  BY <1>1 DEF KeepsDrafts, KeysOfChain, Keys
<1> QED
  BY <1>2, <1>3 DEF FormStep

(* The timer of an untouched form writes what is stored. *)
LEMMA SaveKeepsForm ==
  ASSUME FormIInv, SaveDraft
  PROVE  FormStep
<1>1. /\ form.timer /\ form' = [form EXCEPT !.timer = FALSE]
      /\ drafts' = [drafts EXCEPT ![form.key] = form.text]
  BY DEF SaveDraft
<1>2. form.key # None
  BY <1>1 DEF FormIInv
<1>3. /\ DOMAIN form' = DOMAIN form /\ form'.leaving = form.leaving /\ form'.key = form.key
      /\ form'.text = form.text /\ form'.typed = form.typed /\ form'.carried = form.carried /\ form'.timer = FALSE
  BY <1>1 DEF FormIInv
<1>4. FormIInv'
  BY <1>1, <1>3 DEF FormIInv, Untouched
<1>5. KeepsDrafts
  BY <1>1, <1>2 DEF FormIInv, Untouched, KeepsDrafts, GivesWay, KeysOfChain, Keys
<1> QED
  BY <1>4, <1>5 DEF FormStep

(* Who closes the form gives up its draft. *)
LEMMA CloseKeepsForm ==
  ASSUME FormIInv, NEW page \in {"home", "other"}, Close(page)
  PROVE  FormStep
<1>1. /\ form' = [form EXCEPT !.leaving = page] /\ form.leaving = None
      /\ drafts' = IF Key = None THEN drafts ELSE [drafts EXCEPT ![Key] = NoText]
  BY DEF Close
<1>2. page # None
  BY ForumRouteAssumption
<1>3. /\ DOMAIN form' = DOMAIN form /\ form'.leaving = page /\ form'.key = form.key
      /\ form'.text = form.text /\ form'.typed = form.typed /\ form'.carried = form.carried /\ form'.timer = form.timer
  BY <1>1 DEF FormIInv
<1>4. DOMAIN drafts' = Keys /\ \A k \in Keys : drafts'[k] = drafts[k] \/ drafts'[k] = NoText
  BY <1>1 DEF FormIInv
<1>5. FormIInv'
  BY <1>3, <1>4 DEF FormIInv, Untouched
<1>6. KeepsDrafts
  BY <1>1, <1>2, <1>3 DEF FormIInv, KeepsDrafts, GivesWay, KeysOfChain, Keys
<1> QED
  BY <1>5, <1>6 DEF FormStep

(* No other step of the form or the records replaces a draft. *)
LEMMA RecordKeepsForm ==
  ASSUME FormIInv, RecordStep
  PROVE  FormStep
<1>1. ASSUME NEW a \in Accounts, SwitchAccount(a)
      PROVE  FormStep
  <2>1. drafts' = drafts /\ RenderRecords(form)
    BY <1>1 DEF SwitchAccount
  <2> QED
    BY <2>1, RenderFits DEF AsLeft, FormIInv, FormStep, KeepsDrafts
<1>2. CASE ReloadRecords
  <2>1. drafts' = drafts /\ form' = [NoForm EXCEPT !.open = FormOpen]
    BY <1>2 DEF ReloadRecords
  <2> QED
    BY <2>1, NoFormFits DEF FormIInv, FormStep, KeepsDrafts
<1>3. ASSUME NEW text \in Texts \cup {NoText}, Type(text)
      PROVE  FormStep
  <2>1. drafts' = drafts /\ RenderRecords([form EXCEPT !.text = text, !.typed = TRUE])
    BY <1>3 DEF Type
  <2> QED
    BY <2>1, RenderFits DEF AsLeft, FormIInv, FormStep, KeepsDrafts
<1>4. CASE Create \/ Cancel
  BY <1>4, CloseKeepsForm DEF Create, Cancel
<1>5. CASE Leave
  BY <1>5, RouteKeepsForm DEF Leave
<1>6. CASE UNCHANGED <<drafts, form>>
  BY <1>6 DEF FormIInv, FormStep, KeepsDrafts
<1> QED
  <2>1. \/ \E a \in Accounts : SwitchAccount(a)
        \/ ReloadRecords \/ (\E text \in Texts \cup {NoText} : Type(text))
        \/ SaveDraft \/ Create \/ Cancel \/ Leave \/ UNCHANGED <<drafts, form>>
    BY DEF RecordStep, ToggleBookmark, OtherTabToggles, SetNickname, OtherTabNames,
           StorageEvent, NicknameEvent
  <2> QED
    BY <1>1, <1>2, <1>3, <1>4, <1>5, <1>6, <2>1, SaveKeepsForm

(* So a draft gives way to the visitor alone. *)
LEMMA NextKeepsForm ==
  ASSUME FormIInv, BrowserNext
  PROVE  FormStep
<1>1. CASE UNCHANGED <<drafts, form>>
  BY <1>1 DEF FormIInv, FormStep, KeepsDrafts
<1> QED
  BY <1>1, RouteKeepsForm, RecordKeepsForm DEF BrowserNext, HomeVisit, WriteVisit, recordVars

-----------------------------------------------------------------------------
(* A list of statements of one forum, read so far up to an offset. *)
ListFits(f) ==
  /\ DOMAIN f = {"forum", "offset", "shown", "hasMore", "pausing"}
  /\ f.forum \in Feeds \cup {Nowhere} /\ f.offset \in Offsets
  /\ \A i \in DOMAIN f.shown : f.shown[i][1] = f.forum

(* A page that was read is a sequence of statements of its forum. *)
PageFits(page, f) ==
  page # Unread =>
    /\ Len(page.statements) \in Nat
    /\ DOMAIN page.statements = 1..Len(page.statements)
    /\ \A i \in DOMAIN page.statements : page.statements[i][1] = f

FeedIInv ==
  /\ ListFits(feed)
  /\ DOMAIN pages = Feeds
  /\ \A f \in Feeds : DOMAIN pages[f] = Offsets
  /\ \A f \in Feeds, o \in Offsets : PageFits(pages[f][o], f)
  /\ DOMAIN ranked = Feeds
  /\ \A f \in Feeds : ranked[f] \in Rankings[f]

(* The offsets are numbers, and the first of them is zero. *)
LEMMA OffsetsType == Offsets \subseteq Nat /\ 0 \in Offsets
<1>1. Offsets \subseteq Nat
  BY RankedFeedAssumption DEF Offsets
<1>2. 0 \in 0..MaxPages - 1 /\ 0 = 0 * PageSize
  BY RankedFeedAssumption
<1> QED
  BY <1>1, <1>2 DEF Offsets

(* A list that is reset, but for its offset. *)
LEMMA FreshFits ==
  ASSUME NEW f \in Feeds \cup {Nowhere}, NEW o \in Offsets,
         NEW g, g = [Fresh(f) EXCEPT !.offset = o]
  PROVE  ListFits(g) /\ g.forum = f
BY DEF Fresh, ListFits

(* Merging a page of the forum that is shown leaves the forum shown. *)
LEMMA MergedFits ==
  ASSUME NEW f, ListFits(f), NEW page, PageFits(page, f.forum), NEW g, g = Merged(f, page)
  PROVE  ListFits(g) /\ g.forum = f.forum
<1>1. CASE g = f
  BY <1>1
<1>2. CASE page # Unread /\ page.statements # <<>>
  <2> DEFINE read == page.statements  last == f.offset + Len(read)
             shown == [i \in DOMAIN f.shown \cup (f.offset + 1..last) |->
                         IF i \in f.offset + 1..last THEN read[i - f.offset] ELSE f.shown[i]]
             more == last < page.count
  <2>1. g = [f EXCEPT !.shown = shown, !.hasMore = more]
    BY <1>2 DEF Merged, ListFits
  <2>2. f.offset \in Nat /\ Len(read) \in Nat /\ DOMAIN read = 1..Len(read)
        /\ \A i \in DOMAIN read : read[i][1] = f.forum
    BY <1>2, OffsetsType DEF ListFits, PageFits
  <2>3. ASSUME NEW i \in DOMAIN shown
        PROVE  shown[i][1] = f.forum
    <3>1. CASE i \in f.offset + 1..last
      <4>1. i - f.offset \in DOMAIN read
        BY <2>2, <3>1
      <4> QED
        BY <2>2, <3>1, <4>1
    <3>2. CASE i \notin f.offset + 1..last
      BY <3>2 DEF ListFits
    <3> QED
      BY <3>1, <3>2
  <2> HIDE DEF shown, more
  <2> QED
    BY <2>1, <2>3 DEF ListFits
<1> QED
  BY <1>1, <1>2 DEF Merged

(* A change of the forum, with the page of the old offset merged before. *)
LEMMA FeedOfFits ==
  ASSUME FeedIInv, NEW f \in Feeds \cup {Nowhere}, NEW g, g = FeedOf(f)
  PROVE  ListFits(g)
<1>0. Nowhere \notin Feeds
  BY HomePageAssumption
<1>1. CASE f = feed.forum
  BY <1>1 DEF FeedOf, FeedIInv
<1>2. CASE f = Nowhere /\ f # feed.forum
  BY <1>2, OffsetsType DEF FeedOf, Fresh, ListFits
<1>3. CASE f # Nowhere /\ feed.forum = Nowhere
  <2>1. PICK fresh : fresh = Fresh(f)
    OBVIOUS
  <2>2. ListFits(fresh) /\ fresh.forum = f
    BY <2>1, OffsetsType DEF Fresh, ListFits
  <2>3. PICK page : page = pages[f][0]
    OBVIOUS
  <2>4. PageFits(page, f)
    BY <1>3, <2>3, OffsetsType DEF FeedIInv
  <2>5. g = Merged(fresh, page)
    BY <1>3, <2>1, <2>3 DEF FeedOf
  <2> QED
    BY <2>2, <2>4, <2>5, MergedFits
<1>4. CASE f # Nowhere /\ feed.forum # Nowhere /\ f # feed.forum
  <2>1. PICK reset : reset = [Fresh(f) EXCEPT !.offset = feed.offset]
    OBVIOUS
  <2>2. ListFits(reset) /\ reset.forum = f
    BY <2>1, FreshFits DEF FeedIInv, ListFits
  <2>3. PICK old, new : old = pages[f][feed.offset] /\ new = pages[f][0]
    OBVIOUS
  <2>4. PageFits(old, f) /\ PageFits(new, f)
    BY <1>4, <2>3, OffsetsType DEF FeedIInv, ListFits
  <2>5. PICK merged : merged = Merged(reset, old)
    OBVIOUS
  <2>6. ListFits(merged) /\ merged.forum = f
    BY <2>2, <2>4, <2>5, MergedFits
  <2>7. PICK back : back = [merged EXCEPT !.offset = 0]
    OBVIOUS
  <2>8. ListFits(back) /\ back.forum = f
    BY <2>6, <2>7, OffsetsType DEF ListFits
  <2>9. g = Merged(back, new)
    BY <1>0, <1>4, <2>1, <2>3, <2>5, <2>7 DEF FeedOf
  <2> QED
    BY <2>4, <2>8, <2>9, MergedFits
<1> QED
  BY <1>1, <1>2, <1>3, <1>4

(* A page of a forum holds that forum's statements. *)
LEMMA PageAtFits ==
  ASSUME FeedIInv, NEW f \in Feeds, NEW o \in Offsets, NEW page, page = PageAt(f, o)
  PROVE  PageFits(page, f)
<1> DEFINE order == ranked[f]
           length == IF o >= Len(order) THEN 0
                     ELSE IF o + PageSize <= Len(order) THEN PageSize
                     ELSE Len(order) - o
           read == [i \in 1..length |-> <<f, order[o + i]>>]
<1>1. order \in Seq({order[i] : i \in DOMAIN order})
  BY RankedFeedAssumption DEF FeedIInv
<1>2. length \in Nat
  <2>1. Len(order) \in Nat /\ o \in Nat /\ PageSize \in Nat
    BY <1>1, OffsetsType, RankedFeedAssumption
  <2> HIDE DEF order
  <2> QED
    BY <2>1
<1>3. page.statements = read
  BY DEF PageAt
<1> HIDE DEF length, order
<1>4. Len(read) = length /\ DOMAIN read = 1..length
  BY <1>2
<1> QED
  BY <1>2, <1>3, <1>4 DEF PageFits

(* The list that is mounted is one of a forum. *)
LEMMA ForumOfFeed ==
  ASSUME RouteIInv'
  PROVE  FeedForum' \in Feeds \cup {Nowhere}
BY HomePageAssumption DEF RouteIInv, FeedForum

(* Rendering the home page after any step of the address or the box. *)
LEMMA RenderedKeepsFeed ==
  ASSUME FeedIInv, RouteIInv', Rendered
  PROVE  FeedIInv'
<1>1. feed' = FeedOf(FeedForum') /\ UNCHANGED <<ranked, pages>>
  BY DEF Rendered
<1>2. PICK f \in Feeds \cup {Nowhere} : f = FeedForum'
  BY ForumOfFeed
<1>3. PICK g : g = FeedOf(f)
  OBVIOUS
<1>4. ListFits(g)
  BY <1>3, FeedOfFits
<1>5. feed' = g
  BY <1>1, <1>2, <1>3
<1> QED
  BY <1>1, <1>4, <1>5 DEF FeedIInv, ListFits

(* A reload forgets list and cache. *)
LEMMA ReloadKeepsFeed ==
  ASSUME FeedIInv, RouteIInv', Reload
  PROVE  FeedIInv'
<1>1. /\ feed' = Fresh(FeedForum') /\ ranked' = ranked
      /\ pages' = [f \in Feeds |-> [o \in Offsets |-> Unread]]
  BY DEF Reload
<1>2. ListFits(feed')
  BY <1>1, ForumOfFeed, OffsetsType DEF Fresh, ListFits
<1> QED
  BY <1>1, <1>2 DEF FeedIInv, ListFits, PageFits

(* A page that is read lands in the cache of its forum and in its list. *)
LEMMA ReadPageKeepsFeed ==
  ASSUME FeedIInv, ReadPage
  PROVE  FeedIInv'
<1>1. PICK page : page = PageAt(feed.forum, feed.offset)
  OBVIOUS
<1>2. /\ pages' = [pages EXCEPT ![feed.forum][feed.offset] = page]
      /\ feed' = Merged(feed, page) /\ ranked' = ranked
      /\ feed.forum \in Feeds /\ feed.offset \in Offsets
  BY <1>1 DEF ReadPage, FeedIInv, ListFits
<1>3. PageFits(page, feed.forum)
  BY <1>1, <1>2, PageAtFits
<1>4. PICK g : g = Merged(feed, page)
  OBVIOUS
<1>5. ListFits(g)
  BY <1>3, <1>4, MergedFits DEF FeedIInv
<1>6. \A f \in Feeds, o \in Offsets :
        pages'[f][o] = IF f = feed.forum /\ o = feed.offset THEN page ELSE pages[f][o]
  BY <1>2 DEF FeedIInv
<1>7. DOMAIN pages' = Feeds /\ \A f \in Feeds : DOMAIN pages'[f] = Offsets
  BY <1>2 DEF FeedIInv
<1>8. \A f \in Feeds, o \in Offsets : PageFits(pages'[f][o], f)
  BY <1>3, <1>6 DEF FeedIInv
<1> QED
  BY <1>2, <1>4, <1>5, <1>7, <1>8 DEF FeedIInv, ListFits, PageFits

(* The next page, where it is cached, is merged at the next offset. *)
LEMMA LoadMoreKeepsFeed ==
  ASSUME FeedIInv, LoadMore
  PROVE  FeedIInv'
<1>1. PICK base, page : /\ base = [feed EXCEPT !.offset = @ + PageSize, !.pausing = TRUE]
                        /\ page = pages[feed.forum][feed.offset + PageSize]
  OBVIOUS
<1>2. /\ feed' = Merged(base, page) /\ UNCHANGED <<ranked, pages>>
      /\ feed.forum \in Feeds /\ feed.offset + PageSize \in Offsets
  BY <1>1 DEF LoadMore, FeedIInv, ListFits
<1>3. ListFits(base) /\ base.forum = feed.forum
  BY <1>1, <1>2 DEF FeedIInv, ListFits
<1>4. PageFits(page, base.forum)
  BY <1>1, <1>2, <1>3 DEF FeedIInv
<1>5. PICK g : g = Merged(base, page)
  OBVIOUS
<1>6. ListFits(g)
  BY <1>3, <1>4, <1>5, MergedFits
<1> QED
  BY <1>2, <1>5, <1>6 DEF FeedIInv, ListFits

(* What the list itself does. *)
LEMMA FeedStepKeepsFeed ==
  ASSUME FeedIInv, FeedStep
  PROVE  FeedIInv'
<1>1. CASE PauseEnds
  BY <1>1 DEF PauseEnds, FeedIInv, ListFits
<1>2. ASSUME NEW f \in Feeds, NEW r \in Rankings[f], RankingChanges(f, r)
      PROVE  FeedIInv'
  BY <1>2 DEF RankingChanges, FeedIInv, ListFits
<1> QED
  BY <1>1, <1>2, ReadPageKeepsFeed, LoadMoreKeepsFeed DEF FeedStep

(* So the list stays one forum's. *)
LEMMA NextKeepsFeed ==
  ASSUME FeedIInv, RouteIInv', BrowserNext
  PROVE  FeedIInv'
<1>1. CASE UNCHANGED feedVars
  BY <1>1 DEF feedVars, FeedIInv, ListFits
<1>2. BrowserNext => Rendered \/ Reload \/ FeedStep \/ UNCHANGED feedVars
  BY DEF BrowserNext, HomeVisit, WriteVisit, HomeNext, Route
<1> QED
  BY <1>1, <1>2, RenderedKeepsFeed, ReloadKeepsFeed, FeedStepKeepsFeed

-----------------------------------------------------------------------------
(* What the three parts of the client know of their state. *)
BrowserIInv == RouteIInv /\ FormIInv /\ FeedIInv

(* A visit starts with them. *)
LEMMA InitBrowserIInv == BrowserInit => BrowserIInv
<1> SUFFICES ASSUME BrowserInit PROVE BrowserIInv
  OBVIOUS
<1>0. HomeInit /\ RecordInit /\ RouteInit /\ FeedInit(FeedForum)
  BY DEF BrowserInit, HomeInit
<1>1. RouteIInv
  <2>1. DOMAIN route = {"page", "slug", "q"}
    BY <1>0 DEF RouteInit, At
  <2>2. forum \in Forums /\ (route.slug \in Forums => wanted = route.slug)
    BY <1>0, StoredForumType DEF RouteInit
  <2> QED
    BY <2>1, <2>2 DEF RouteIInv
<1>2. FormIInv
  <2>1. form = [NoForm EXCEPT !.open = FormOpen]
    BY <1>0 DEF RecordInit
  <2>2. DOMAIN drafts = Keys
    BY <1>0 DEF RecordInit
  <2> QED
    BY <2>1, <2>2 DEF NoForm, FormIInv
<1>3. FeedIInv
  <2>1. FeedForum \in Feeds \cup {Nowhere}
    BY <1>1, HomePageAssumption DEF RouteIInv, FeedForum
  <2>2. ListFits(feed)
    BY <1>0, <2>1, OffsetsType DEF FeedInit, Fresh, ListFits
  <2> QED
    BY <1>0, <2>2 DEF FeedInit, FeedIInv, PageFits
<1> QED
  BY <1>1, <1>2, <1>3 DEF BrowserIInv

(* Every step keeps them, follows the wish and keeps the drafts. *)
LEMMA NextBrowserIInv ==
  ASSUME BrowserIInv, [BrowserNext]_browserVars
  PROVE  /\ BrowserIInv' /\ [FollowsWish]_routeVars
         /\ [KeepsDrafts]_<<routeVars, recordVars>>
<1>1. CASE BrowserNext
  <2>1. RouteStep
    BY <1>1, NextKeepsRoute DEF BrowserIInv, FormIInv
  <2>2. FormStep
    BY <1>1, NextKeepsForm DEF BrowserIInv
  <2>3. FeedIInv'
    BY <1>1, <2>1, NextKeepsFeed DEF BrowserIInv, RouteStep
  <2> QED
    BY <2>1, <2>2, <2>3 DEF BrowserIInv, RouteStep, FormStep
<1>2. CASE UNCHANGED browserVars
  <2>1. UNCHANGED <<routeVars, recordVars, feedVars>>
    BY <1>2 DEF browserVars, homeVars
  <2>2. UNCHANGED <<route, forum, synced, wanted, drafts, form, ranked, feed, pages>>
    BY <2>1 DEF routeVars, recordVars, feedVars
  <2>3. RouteIInv' /\ FormIInv' /\ FeedIInv'
    BY <2>2 DEF BrowserIInv, RouteIInv, InForum, FormIInv, Untouched, FeedIInv, ListFits
  <2> QED
    BY <2>1, <2>3 DEF BrowserIInv
<1> QED
  BY <1>1, <1>2

(***************************************************************************)
(* Addresses, the form and the list keep their invariants, whatever the    *)
(* visitor, the other tabs, the rankings and the answers do.               *)
(***************************************************************************)
THEOREM BrowserInvariant == BrowserSpec => []BrowserIInv
<1> QED
  BY InitBrowserIInv, NextBrowserIInv, PTL DEF BrowserSpec

(***************************************************************************)
(* The context never bounces back to an address the visitor has left, and  *)
(* the home page shows statements of its own forum alone: with any number  *)
(* of forums, statements, pages and moves.                                 *)
(***************************************************************************)
THEOREM ForumAlwaysKept == BrowserSpec => ForumIsKept
<1>1. BrowserIInv => ShownIsOfForum
  BY DEF BrowserIInv, FeedIInv, ListFits, ShownIsOfForum
<1>2. BrowserIInv /\ [BrowserNext]_browserVars =>
        [forum' # forum /\ synced' # None => forum' = wanted']_routeVars
  BY NextBrowserIInv DEF FollowsWish
<1> QED
  BY <1>1, <1>2, BrowserInvariant, PTL DEF BrowserSpec, ForumIsKept, ForumNeverBounces

(***************************************************************************)
(* A stored draft of this chain gives way only to the closing of its own   *)
(* form, or to the text of a form that has been typed in under its key or  *)
(* was carried there from another forum or account.  What no timer, sweep  *)
(* or reload does, a change of forum or account does in the last case.     *)
(***************************************************************************)
THEOREM DraftAlwaysKept == BrowserSpec => DraftIsKept
<1>1. BrowserIInv /\ [BrowserNext]_browserVars =>
        [KeepsDrafts]_<<routeVars, recordVars>>
  BY NextBrowserIInv
<1> QED
  BY <1>1, BrowserInvariant, PTL DEF BrowserSpec, DraftIsKept, KeepsDrafts, GivesWay

=============================================================================
