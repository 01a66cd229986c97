---------------------------- MODULE SearchProofs ----------------------------
(***************************************************************************)
(* What holds of the two indexes that statements are searched in: the one  *)
(* of the backend (Indexer) and the one each browser keeps (LocalSearch).  *)
(*                                                                         *)
(* The indexer, for every set of statements and forums, every batch size,  *)
(* lookback and age, and every pattern of failures and crashes: nothing    *)
(* below the persisted cursor was left out, and, until an exception makes  *)
(* a round repeat, no document's last engagement is behind the cursor.     *)
(* Both are said of the cursor in memory first, which is ahead of the      *)
(* persisted one, with what the running batch still owes.                  *)
(*                                                                         *)
(* The browser, for any forums, statements, windows and confirmations, and *)
(* any number of visits, deltas and failures: what is kept for a forum is  *)
(* the forum's, and what the page believes of its window and of the worker *)
(* is so.  That the invariants are inductive takes two things: which sync  *)
(* or delta may still write what, and, for every request under way, what   *)
(* its answer will find in the worker.                                     *)
(***************************************************************************)
EXTENDS Indexer, LocalSearch, Induction, SequenceTheorems

Cursors == 0 .. head + 1

ChainOK ==
    /\ head \in Nat
    /\ \A e \in events :
          /\ e.block \in 1 .. head /\ e.kind \in {"added", "engaged"}
          /\ e.statement \in Statements /\ Added(e.statement)
    /\ \A e, x \in events :
          e.statement = x.statement /\ e.kind = "added" => e.block <= x.block

ProcessOK ==
    /\ process = [at |-> process.at, memory |-> process.memory,
                  cursor |-> process.cursor, target |-> process.target]
    /\ process.at \in {"connecting", "polling", "gathering"}
    /\ process.memory \in {None} \cup Cursors
    /\ process.at # "connecting" => process.memory # None
    /\ process.at = "gathering" =>
          /\ process.target \in 0 .. head
          /\ process.cursor \in process.memory .. process.target

\* The coroutines that are awaited are those of the running batch, one a forum.
JobsOK ==
    /\ \A j \in jobs :
          /\ j = [forum |-> j.forum, from |-> j.from, to |-> j.to,
                  step |-> j.step, awaited |-> j.awaited]
          /\ j.step \in {"added", "engaged"} /\ j.awaited \in BOOLEAN
          /\ j.awaited =>
                /\ process.at = "gathering"
                /\ j.from = process.cursor /\ j.to = BatchEnd(process)
    /\ \A j, k \in jobs : j.awaited /\ k.awaited /\ j.forum = k.forum => j = k

StoredOK == stored \in {None} \cup Cursors

Known(e) == e.statement \in DOMAIN index

Covered(e) ==
    \/ e.block \in history.skipped
    \/ e.statement \in history.evicted \/ e \in history.lost
    \/ Known(e) /\ index[e.statement].text

InBatch(e) ==
    process.at = "gathering" /\ e.block \in process.cursor .. BatchEnd(process)

\* The batch has still to write events of this kind of e's forum.
Owed(e) ==
    \E j \in jobs :
        /\ j.awaited /\ j.forum = ForumOf[e.statement]
        /\ e.kind = "added" => j.step = "added"

\* Below the cursor a block is done: the persisted one, the one kept in memory,
\* and the one the round has reached.
Done(block) ==
    \/ stored # None /\ block < stored
    \/ process.memory # None /\ block < process.memory
    \/ process.at = "gathering" /\ block < process.cursor

AllCovered ==
    \A e \in events : e.kind = "added" =>
        /\ Done(e.block) => Covered(e)
        /\ InBatch(e) => Covered(e) \/ Owed(e)

Kept(e) ==
    \/ e.block \in history.skipped \/ e \in history.lost
    \/ Known(e) => index[e.statement].lastEngagement >= e.block

\* Before an exception the cursor in memory is never behind the persisted one,
\* and every coroutine is awaited.
InOrder ==
    /\ \A j \in jobs : j.awaited
    /\ stored # None /\ process.memory # None /\ process.at # "gathering"
          => stored <= process.memory
    /\ stored # None /\ process.at = "gathering" => stored <= process.cursor

AllKept ==
    \A e \in events :
        /\ Done(e.block) => Kept(e)
        /\ InBatch(e) => Kept(e) \/ Owed(e)

IndexOK == \A s \in DOMAIN index : index[s].lastEngagement \in Int

HistoryOK ==
    /\ history = [skipped |-> history.skipped, evicted |-> history.evicted,
                  lost |-> history.lost, repeated |-> history.repeated,
                  failures |-> history.failures, crashes |-> history.crashes]
    /\ history.repeated \in BOOLEAN

IInv ==
    /\ ChainOK /\ ProcessOK /\ JobsOK /\ StoredOK /\ IndexOK /\ HistoryOK
    /\ AllCovered
    /\ ~history.repeated => InOrder /\ AllKept

----------------------------------------------------------------------------
(* The operators of the model *)

LEMMA MinOfTwo ==
  ASSUME NEW a \in Int, NEW b \in Int
  PROVE  Min({a, b}) = IF a <= b THEN a ELSE b
  BY DEF Min

(* A batch is not empty and stays within the round. *)
LEMMA BatchEndBounds ==
  ASSUME NEW p, p.cursor \in Int, p.target \in Int, p.cursor <= p.target
  PROVE  BatchEnd(p) \in p.cursor .. p.target
<1>1. BatchSize \in Nat \ {0}
  BY IndexerBounds
<1> QED
  BY <1>1, MinOfTwo DEF BatchEnd

(* The latest of some events is one of them. *)
LEMMA LatestOf ==
  ASSUME NEW h \in Nat, NEW S \in SUBSET (1 .. h), S # {}
  PROVE  Max(S) \in S /\ \A x \in S : Max(S) >= x
<1>1. \E m \in S : \A x \in S : m >= x
  <2>1. 1 \in Int /\ h \in Int
    OBVIOUS
  <2> QED
    BY <2>1, GreatestOfInterval
<1> QED
  BY <1>1 DEF Max

(* Where the running batch ends. *)
LEMMA RunningBatch ==
  ASSUME IInv, process.at = "gathering"
  PROVE  /\ process.memory \in Nat /\ process.cursor \in Nat
         /\ process.target \in 0 .. head
         /\ process.memory <= process.cursor
         /\ BatchEnd(process) \in process.cursor .. process.target
<1>1. /\ process.memory \in Nat /\ process.cursor \in process.memory .. process.target
      /\ process.target \in 0 .. head
  BY DEF IInv, ProcessOK, Cursors, ChainOK
<1> QED
  BY <1>1, BatchEndBounds

----------------------------------------------------------------------------
LEMMA InitIInv == Init => IInv
<1> SUFFICES ASSUME Init PROVE IInv
  OBVIOUS
<1> USE IndexerBounds
<1>1. ChainOK /\ ProcessOK /\ JobsOK /\ StoredOK /\ IndexOK /\ HistoryOK
  BY DEF Init, ChainOK, ProcessOK, JobsOK, StoredOK, IndexOK, HistoryOK, Cursors, Started
<1>2. AllCovered /\ AllKept /\ InOrder
  BY DEF Init, AllCovered, AllKept, InOrder, Started
<1> QED
  BY <1>1, <1>2 DEF IInv

(* A block is mined: the event in it is beyond every cursor. *)
LEMMA MineIInv == IInv /\ Mine => IInv'
<1> SUFFICES ASSUME IInv, Mine PROVE IInv'
  OBVIOUS
<1> USE IndexerBounds DEF IInv
<1>1. /\ head \in Nat /\ head' = head + 1
      /\ UNCHANGED <<index, stored, process, jobs, history>>
  BY DEF Mine, ChainOK
<1>2. \A e \in events' \ events :
        /\ e.block = head + 1 /\ e.statement \in Statements
        /\ e.kind = IF Added(e.statement) THEN "engaged" ELSE "added"
  BY DEF Mine
<1>3. events \subseteq events'
  BY DEF Mine
<1>4. ChainOK'
  <2>1. \A e \in events' : /\ e.block \in 1 .. head' /\ e.kind \in {"added", "engaged"}
                           /\ e.statement \in Statements
    BY <1>1, <1>2 DEF ChainOK
  <2>3. \A e \in events' : Added(e.statement)'
    BY <1>1, <1>2, <1>3 DEF ChainOK, Added
  <2>2. ASSUME NEW e \in events', NEW x \in events',
               e.statement = x.statement, e.kind = "added"
        PROVE  e.block <= x.block
    <3>1. CASE e \in events
      BY <1>1, <1>2, <2>1, <2>2, <3>1 DEF ChainOK
    <3>2. CASE e \notin events
      <4>1. ~Added(x.statement)
        BY <1>2, <2>2, <3>2
      <4>2. x \notin events
        <5> SUFFICES ASSUME x \in events PROVE FALSE
          OBVIOUS
        <5> QED
          BY <4>1 DEF ChainOK
      <4> QED
        BY <1>1, <1>2, <3>2, <4>2
    <3> QED
      BY <3>1, <3>2
  <2> QED
    BY <1>1, <2>1, <2>2, <2>3 DEF ChainOK
<1>5. ProcessOK' /\ StoredOK'
  BY <1>1 DEF ProcessOK, StoredOK, Cursors
<1>6. JobsOK' /\ IndexOK' /\ HistoryOK' /\ (InOrder => InOrder')
  BY <1>1 DEF JobsOK, IndexOK, HistoryOK, InOrder, BatchEnd
<1>7. \A e \in events' \ events : ~Done(e.block)' /\ ~InBatch(e)'
  <2> SUFFICES ASSUME NEW e \in events' \ events PROVE ~Done(e.block)' /\ ~InBatch(e)'
    OBVIOUS
  <2>1. e.block = head + 1
    BY <1>2
  <2>2. ~Done(e.block)'
    BY <1>1, <2>1, RunningBatch DEF Done, ProcessOK, StoredOK, Cursors
  <2>3. ~InBatch(e)'
    BY <1>1, <2>1, RunningBatch DEF InBatch, BatchEnd
  <2> QED
    BY <2>2, <2>3
<1>8. \A e : /\ Done(e.block)' <=> Done(e.block)
             /\ InBatch(e)' <=> InBatch(e)
             /\ Owed(e)' <=> Owed(e)
             /\ Covered(e)' <=> Covered(e)
             /\ Kept(e)' <=> Kept(e)
  BY <1>1 DEF Done, InBatch, Owed, Covered, Kept, Known, BatchEnd
<1>9. AllCovered' /\ (AllKept => AllKept')
  BY <1>7, <1>8 DEF AllCovered, AllKept
<1> QED
  BY <1>1, <1>4, <1>5, <1>6, <1>9

(* Where the process starts is on the chain, and not before what was stored. *)
LEMMA InitialCursorBounds ==
  ASSUME ChainOK, NEW persisted \in {None} \cup Cursors
  PROVE  /\ InitialCursor(persisted) \in Cursors
         /\ persisted # None => persisted <= InitialCursor(persisted)
<1>1. head \in Nat /\ LookbackBlock \in 0 .. head
  BY IndexerBounds DEF ChainOK, LookbackBlock
<1>2. CASE persisted = None
  BY <1>1, <1>2, MinOfTwo DEF InitialCursor, Cursors
<1>3. CASE persisted # None
  BY <1>1, <1>3, MinOfTwo DEF InitialCursor, Cursors
<1> QED
  BY <1>2, <1>3

(* Connecting: what the cursor jumps over is recorded as left out. *)
LEMMA ConnectIInv == IInv /\ Connect => IInv'
<1> SUFFICES ASSUME IInv, Connect PROVE IInv'
  OBVIOUS
<1> USE IndexerBounds DEF IInv
<1> PICK persisted \in {stored, None} :
      LET cursor == IF process.memory # None THEN process.memory
                    ELSE InitialCursor(persisted)
          before == IF stored = None THEN 0 ELSE stored
      IN  /\ process' = [process EXCEPT !.at = "polling", !.memory = cursor]
          /\ history' = [(IF persisted = stored THEN history ELSE Setback)
              EXCEPT !.skipped = IF process.memory # None THEN @
                                 ELSE @ \cup before .. cursor - 1]
  BY DEF Connect
<1> DEFINE cursor == IF process.memory # None THEN process.memory
                     ELSE InitialCursor(persisted)
           before == IF stored = None THEN 0 ELSE stored
<1>1. process.at = "connecting" /\ UNCHANGED <<head, events, index, stored, jobs>>
  BY DEF Connect
<1>2. /\ process'.at = "polling" /\ process'.memory = cursor
      /\ process'.cursor = process.cursor /\ process'.target = process.target
      /\ process' = [at |-> process'.at, memory |-> process'.memory,
                     cursor |-> process'.cursor, target |-> process'.target]
  BY DEF ProcessOK
<1>3. /\ history'.evicted = history.evicted /\ history'.lost = history.lost
      /\ history'.skipped = IF process.memory # None THEN history.skipped
                            ELSE history.skipped \cup before .. cursor - 1
      /\ ~history'.repeated => ~history.repeated /\ persisted = stored
      /\ HistoryOK'
  BY DEF HistoryOK, Setback, OneFailure
<1>4. /\ cursor \in Cursors /\ head \in Nat
      /\ process.memory = None /\ stored # None /\ persisted = stored => stored <= cursor
  BY InitialCursorBounds DEF ProcessOK, StoredOK, ChainOK
<1> HIDE DEF cursor
<1>5. ProcessOK' /\ ChainOK' /\ JobsOK' /\ StoredOK' /\ IndexOK'
  BY <1>1, <1>2, <1>4
     DEF ProcessOK, ChainOK, Added, JobsOK, StoredOK, IndexOK, Cursors
<1>6. ASSUME NEW e \in events, Done(e.block)', ~Done(e.block)
      PROVE  e.block \in history'.skipped
  <2>1. process.memory = None /\ e.block < cursor
    BY <1>1, <1>2, <1>6 DEF Done, cursor
  <2>2. stored # None => stored <= e.block
    BY <1>1, <1>6 DEF Done, StoredOK, Cursors, ChainOK
  <2> QED
    BY <1>3, <1>4, <2>1, <2>2 DEF ChainOK, Cursors, StoredOK
<1>7. \A e \in events : (Covered(e) => Covered(e)') /\ (Kept(e) => Kept(e)')
  BY <1>1, <1>3 DEF Covered, Kept, Known
<1>8. AllCovered'
  BY <1>1, <1>2, <1>6, <1>7 DEF AllCovered, Covered, InBatch
<1>9. ~history'.repeated => InOrder' /\ AllKept'
  <2>1. ~history'.repeated => InOrder'
    BY <1>1, <1>2, <1>3, <1>4 DEF InOrder, cursor
  <2>2. ~history'.repeated => AllKept'
    BY <1>1, <1>2, <1>3, <1>6, <1>7 DEF AllKept, Kept, InBatch
  <2> QED
    BY <2>1, <2>2
<1> QED
  BY <1>3, <1>5, <1>8, <1>9

(* A round begins: its first batch starts at the cursor in memory. *)
LEMMA PollIInv == IInv /\ Poll => IInv'
<1> SUFFICES ASSUME IInv, Poll PROVE IInv'
  OBVIOUS
<1> USE IndexerBounds DEF IInv
<1> DEFINE p == [process EXCEPT !.at = "gathering", !.cursor = process.memory,
                                !.target = head]
<1>1. /\ process.at = "polling" /\ process.memory <= head
      /\ process' = p /\ jobs' = jobs \cup Batch(p)
      /\ UNCHANGED <<head, events, index, stored, history>>
  BY DEF Poll, Behind
<1>2. /\ p.at = "gathering" /\ p.memory = process.memory
      /\ p.cursor = process.memory /\ p.target = head
      /\ p = [at |-> p.at, memory |-> p.memory, cursor |-> p.cursor, target |-> p.target]
      /\ process.memory \in 0 .. head /\ head \in Nat
  <2>1. process.memory \in Cursors /\ head \in Nat
    BY <1>1 DEF ProcessOK, ChainOK
  <2>2. process.memory \in 0 .. head
    BY <1>1, <2>1 DEF Cursors
  <2>3. p = [at |-> "gathering", memory |-> process.memory,
             cursor |-> process.memory, target |-> head]
    <3>1. process = [at |-> process.at, memory |-> process.memory,
                     cursor |-> process.cursor, target |-> process.target]
      BY DEF ProcessOK
    <3> DEFINE r1 == [process EXCEPT !.at = "gathering"]
               r2 == [r1 EXCEPT !.cursor = process.memory]
               r3 == [r2 EXCEPT !.target = head]
    <3>2. p = r3
      OBVIOUS
    <3>3. r1 = [at |-> "gathering", memory |-> process.memory,
                cursor |-> process.cursor, target |-> process.target]
      BY <3>1
    <3> HIDE DEF r1
    <3>4. r2 = [at |-> "gathering", memory |-> process.memory,
                cursor |-> process.memory, target |-> process.target]
      BY <3>3
    <3> HIDE DEF r2
    <3>5. r3 = [at |-> "gathering", memory |-> process.memory,
                cursor |-> process.memory, target |-> head]
      BY <3>4
    <3> QED
      BY <3>2, <3>5
  <2> HIDE DEF p
  <2> QED
    BY <2>1, <2>2, <2>3
<1> HIDE DEF p
<1>3. BatchEnd(p) \in p.cursor .. p.target /\ BatchEnd(process)' = BatchEnd(p)
  BY <1>1, <1>2, BatchEndBounds DEF BatchEnd
<1>4. \A j \in jobs : ~j.awaited
  BY <1>1 DEF JobsOK
<1>5. \A j \in Batch(p) :
        /\ j = [forum |-> j.forum, from |-> p.cursor, to |-> BatchEnd(p),
                step |-> "added", awaited |-> TRUE]
        /\ j.from = p.cursor /\ j.to = BatchEnd(p)
        /\ j.step = "added" /\ j.awaited = TRUE
  BY DEF Batch, WriteOrder
<1>6. ProcessOK' /\ ChainOK' /\ StoredOK' /\ IndexOK' /\ HistoryOK'
  BY <1>1, <1>2 DEF ProcessOK, ChainOK, Added, StoredOK, IndexOK, HistoryOK, Cursors
<1>7. JobsOK'
  <2>1. ASSUME NEW j \in jobs'
        PROVE  /\ j = [forum |-> j.forum, from |-> j.from, to |-> j.to,
                       step |-> j.step, awaited |-> j.awaited]
               /\ j.step \in {"added", "engaged"} /\ j.awaited \in BOOLEAN
               /\ j.awaited => /\ process'.at = "gathering"
                               /\ j.from = process'.cursor /\ j.to = BatchEnd(process)'
    <3>1. CASE j \in jobs
      BY <1>4, <3>1 DEF JobsOK
    <3>2. CASE j \in Batch(p)
      BY <1>1, <1>2, <1>3, <1>5, <3>2
    <3> QED
      BY <1>1, <3>1, <3>2
  <2>2. ASSUME NEW j \in jobs', NEW k \in jobs', j.awaited, k.awaited,
               j.forum = k.forum
        PROVE  j = k
    <3>1. j \in Batch(p) /\ k \in Batch(p)
      BY <1>1, <1>4, <2>2
    <3> QED
      BY <1>5, <2>2, <3>1
  <2> QED
    BY <2>1, <2>2 DEF JobsOK
<1>8. \A e \in events : /\ Done(e.block)' => Done(e.block)
                        /\ Covered(e) => Covered(e)'
                        /\ Kept(e) => Kept(e)'
  BY <1>1, <1>2 DEF Done, Covered, Kept, Known
<1>9. \A e \in events : Owed(e)'
  <2> SUFFICES ASSUME NEW e \in events PROVE Owed(e)'
    OBVIOUS
  <2> DEFINE j == [forum |-> ForumOf[e.statement], from |-> p.cursor,
                   to |-> BatchEnd(p), step |-> WriteOrder[1], awaited |-> TRUE]
  <2>1. j \in jobs'
    BY <1>1 DEF Batch, IndexedForums, ChainOK
  <2> QED
    BY <2>1 DEF Owed, WriteOrder
<1>10. AllCovered' /\ (AllKept => AllKept')
  BY <1>1, <1>8, <1>9 DEF AllCovered, AllKept
<1>11. InOrder => InOrder'
  BY <1>1, <1>2, <1>5 DEF InOrder
<1> QED
  BY <1>1, <1>6, <1>7, <1>10, <1>11

(* An exception: the coroutines that are left go on, but nobody waits for them. *)
LEMMA Raised ==
  ASSUME IInv, NEW R \in SUBSET jobs, Raise(R)
  PROVE  /\ process' = [at |-> "connecting", memory |-> process.memory,
                        cursor |-> None, target |-> None]
         /\ JobsOK'
<1>1. /\ process' = [at |-> "connecting", memory |-> process.memory,
                     cursor |-> None, target |-> None]
      /\ \A j \in jobs' : \E k \in jobs : j = [k EXCEPT !.awaited = FALSE]
  BY DEF Raise, Started
<1>2. ASSUME NEW j \in jobs'
      PROVE  /\ j = [forum |-> j.forum, from |-> j.from, to |-> j.to,
                     step |-> j.step, awaited |-> j.awaited]
             /\ j.step \in {"added", "engaged"} /\ j.awaited = FALSE
  <2>1. PICK k \in jobs : j = [k EXCEPT !.awaited = FALSE]
    BY <1>1
  <2>2. /\ k = [forum |-> k.forum, from |-> k.from, to |-> k.to,
                step |-> k.step, awaited |-> k.awaited]
        /\ k.step \in {"added", "engaged"}
    BY DEF IInv, JobsOK
  <2>3. j = [forum |-> k.forum, from |-> k.from, to |-> k.to,
             step |-> k.step, awaited |-> FALSE]
    BY <2>1, <2>2, Zenon
  <2> QED
    BY <2>2, <2>3
<1> QED
  BY <1>1, <1>2 DEF JobsOK

(* What a batch has written when it is awaited no longer. *)
LEMMA BatchWritten ==
  ASSUME IInv, Gathered, NEW e \in events, e.block <= BatchEnd(process)
  PROVE  /\ e.kind = "added" => Covered(e)
         /\ ~history.repeated => Kept(e)
<1>1. ~Owed(e)
  BY DEF Gathered, Owed
<1>2. Done(e.block) \/ InBatch(e)
  BY RunningBatch DEF Gathered, Done, InBatch, IInv, ChainOK
<1> QED
  BY <1>1, <1>2 DEF IInv, AllCovered, AllKept

(* A batch is over: the cursor moves on and is persisted, or not. *)
LEMMA GatheredIInv == IInv /\ Gathered => IInv'
<1> SUFFICES ASSUME IInv, Gathered PROVE IInv'
  OBVIOUS
<1> USE IndexerBounds
<1> DEFINE next == BatchEnd(process) + 1
<1>1. /\ process.at = "gathering" /\ \A j \in jobs : ~j.awaited
      /\ UNCHANGED <<head, events, index>>
      /\ stored' \in {stored, next}
  BY DEF Gathered, Persist, AfterBatch
<1>2. /\ process.memory \in Nat /\ process.cursor \in Nat /\ head \in Nat
      /\ process.target \in 0 .. head /\ process.memory <= process.cursor
      /\ process.cursor < next /\ next \in 1 .. process.target + 1
  BY <1>1, RunningBatch DEF IInv, ChainOK
<1>3. /\ history'.skipped = history.skipped /\ history'.evicted = history.evicted
      /\ history'.lost = history.lost
      /\ ~history'.repeated => ~history.repeated
      /\ HistoryOK'
  BY DEF IInv, HistoryOK, Gathered, OneFailure, Setback
<1>4. ChainOK' /\ StoredOK' /\ IndexOK'
  BY <1>1, <1>2 DEF IInv, ChainOK, Added, StoredOK, IndexOK, Cursors
<1>5. \A e \in events : (Covered(e) => Covered(e)') /\ (Kept(e) => Kept(e)')
  BY <1>1, <1>3 DEF Covered, Kept, Known
<1>6. ASSUME NEW e \in events, e.block < next \/ Done(e.block)
      PROVE  /\ e.kind = "added" => Covered(e)'
             /\ ~history'.repeated => Kept(e)'
  <2>1. CASE e.block < next
    <3>1. e.block <= BatchEnd(process)
      BY <1>1, <1>2, <2>1, RunningBatch DEF IInv, ChainOK
    <3> QED
      BY <1>3, <1>5, <3>1, BatchWritten
  <2>2. CASE Done(e.block)
    BY <1>3, <1>5, <2>2 DEF IInv, AllCovered, AllKept
  <2> QED
    BY <1>6, <2>1, <2>2
<1> HIDE DEF next
<1>7. CASE Raise(jobs) /\ history' = Setback
  <2>1. process' = [at |-> "connecting", memory |-> process.memory,
                    cursor |-> None, target |-> None]
    BY <1>7, Raised
  <2>3. JobsOK'
    BY <1>7, Raised
  <2>4. ProcessOK'
    BY <1>1, <1>2, <2>1 DEF IInv, ProcessOK, Cursors
  <2>5. \A e \in events : Done(e.block)' => e.block < next \/ Done(e.block)
    BY <1>1, <2>1 DEF Done
  <2>6. AllCovered'
    BY <1>1, <1>6, <2>1, <2>5 DEF AllCovered, InBatch
  <2>7. history'.repeated
    BY <1>7 DEF Setback, OneFailure, IInv, HistoryOK
  <2> QED
    BY <1>3, <1>4, <2>3, <2>4, <2>6, <2>7 DEF IInv
<1>8. CASE Persist(next, next) \/ Persist(next, stored)
  <2>1. CASE next <= process.target
    <3> DEFINE p == [process EXCEPT !.cursor = next]
    <3>1. p = [at |-> "gathering", memory |-> process.memory,
               cursor |-> next, target |-> process.target]
      BY <1>1 DEF IInv, ProcessOK
    <3>2. process' = p /\ jobs' = jobs \cup Batch(p)
      BY <1>8, <2>1 DEF Persist
    <3> HIDE DEF p
    <3>3. BatchEnd(p) \in next .. process.target
      BY <1>2, <2>1, <3>1, BatchEndBounds
    <3>4. \A j \in Batch(p) :
            /\ j = [forum |-> j.forum, from |-> next, to |-> BatchEnd(p),
                    step |-> "added", awaited |-> TRUE]
            /\ j.from = next /\ j.to = BatchEnd(p)
            /\ j.step = "added" /\ j.awaited = TRUE
      BY <3>1 DEF Batch, WriteOrder
    <3>5. ProcessOK'
      BY <1>1, <1>2, <2>1, <3>1, <3>2 DEF IInv, ProcessOK, Cursors
    <3>6. ASSUME NEW j \in jobs'
          PROVE  /\ j = [forum |-> j.forum, from |-> j.from, to |-> j.to,
                         step |-> j.step, awaited |-> j.awaited]
                 /\ j.step \in {"added", "engaged"} /\ j.awaited \in BOOLEAN
                 /\ j.awaited => /\ process'.at = "gathering" /\ j \in Batch(p)
                                 /\ j.from = process'.cursor /\ j.to = BatchEnd(process)'
      <4>1. CASE j \in jobs
        BY <1>1, <4>1 DEF IInv, JobsOK
      <4>2. CASE j \in Batch(p)
        BY <3>1, <3>2, <3>4, <4>2 DEF BatchEnd
      <4> QED
        BY <3>2, <4>1, <4>2
    <3>7. JobsOK'
      BY <3>4, <3>6 DEF JobsOK
    <3>8. \A e \in events : Owed(e)'
      <4> SUFFICES ASSUME NEW e \in events PROVE Owed(e)'
        OBVIOUS
      <4> DEFINE j == [forum |-> ForumOf[e.statement], from |-> p.cursor,
                       to |-> BatchEnd(p), step |-> WriteOrder[1], awaited |-> TRUE]
      <4>1. j \in jobs'
        BY <3>2 DEF Batch, IndexedForums, IInv, ChainOK
      <4> QED
        BY <4>1 DEF Owed, WriteOrder
    <3>9. \A e \in events : Done(e.block)' => e.block < next \/ Done(e.block)
      BY <1>1, <3>1, <3>2 DEF Done
    <3>10. AllCovered' /\ (~history'.repeated => AllKept')
      BY <1>1, <1>6, <3>8, <3>9 DEF AllCovered, AllKept
    <3>11. ~history'.repeated => InOrder'
      <4>1. stored' # None => stored' <= next \/ stored' = stored
        BY <1>1, <1>2
      <4>2. ~history.repeated /\ stored # None => stored <= process.cursor
        BY <1>1 DEF IInv, InOrder
      <4>3. ~history.repeated => jobs' = Batch(p)
        BY <1>1, <3>2 DEF IInv, InOrder
      <4>4. stored \in {None} \cup Cursors
        BY DEF IInv, StoredOK
      <4>5. ~history'.repeated /\ stored' # None => stored' <= next
        BY <1>1, <1>2, <1>3, <4>2, <4>4 DEF Cursors
      <4> QED
        BY <1>3, <3>1, <3>2, <3>4, <4>3, <4>5 DEF InOrder
    <3> QED
      BY <1>3, <1>4, <3>5, <3>7, <3>10, <3>11 DEF IInv
  <2>2. CASE ~(next <= process.target)
    <3>1. /\ process' = [at |-> "polling", memory |-> next, cursor |-> None,
                         target |-> None]
          /\ jobs' = jobs
      BY <1>8, <2>2 DEF Persist, Started
    <3>2. ProcessOK' /\ JobsOK'
      BY <1>1, <1>2, <3>1 DEF IInv, ProcessOK, JobsOK, Cursors
    <3>3. \A e \in events : Done(e.block)' => e.block < next \/ Done(e.block)
      BY <1>1, <3>1 DEF Done
    <3>4. AllCovered' /\ (~history'.repeated => AllKept')
      BY <1>1, <1>6, <3>1, <3>3 DEF AllCovered, AllKept, InBatch
    <3>5. ~history'.repeated => InOrder'
      <4>1. ~history.repeated /\ stored # None => stored <= process.cursor
        BY <1>1 DEF IInv, InOrder
      <4>2. ~history'.repeated /\ stored' # None => stored' <= next
        BY <1>1, <1>2, <1>3, <4>1 DEF IInv, StoredOK, Cursors
      <4> QED
        BY <1>1, <1>3, <3>1, <4>2 DEF IInv, InOrder
    <3> QED
      BY <1>3, <1>4, <3>2, <3>4, <3>5 DEF IInv
  <2> QED
    BY <2>1, <2>2
<1> QED
  BY <1>7, <1>8 DEF Gathered, AfterBatch, next

----------------------------------------------------------------------------
(* What a coroutine writes: it drops no document and no text, and a        *)
(* document it touches is left at one of its own events, the latest.       *)
LEMMA DocumentsKeep ==
  ASSUME IInv, NEW j
  PROVE  /\ \A s \in DOMAIN index :
               s \in DOMAIN Documents(j) /\ (index[s].text => Documents(j)[s].text)
         /\ \A e \in InRange(j, j.step) :
               /\ e.statement \in DOMAIN Documents(j)
               /\ j.step = "added" => Documents(j)[e.statement].text
         /\ \A s \in DOMAIN Documents(j) :
               \/ /\ s \in DOMAIN index /\ Documents(j)[s] = index[s]
                  /\ \A x \in InRange(j, j.step) : x.statement # s
               \/ /\ \E x \in InRange(j, j.step) :
                        x.statement = s /\ Documents(j)[s].lastEngagement = x.block
                  /\ \A x \in InRange(j, j.step) :
                        x.statement = s => Documents(j)[s].lastEngagement >= x.block
<1> DEFINE found == InRange(j, j.step)
           touched == {e.statement : e \in found}
           last(s) == Max({e.block : e \in {x \in found : x.statement = s}})
           text(s) == j.step = "added" \/ (s \in DOMAIN index /\ index[s].text)
<1>1. Documents(j) =
        [s \in DOMAIN index \cup touched |->
           IF s \notin touched THEN index[s]
           ELSE [text |-> text(s), lastEngagement |-> last(s)]]
  BY DEF Documents
<1>2. ASSUME NEW s \in touched
      PROVE  /\ \E x \in found : x.statement = s /\ last(s) = x.block
             /\ \A x \in found : x.statement = s => last(s) >= x.block
  <2> DEFINE S == {e.block : e \in {x \in found : x.statement = s}}
  <2>1. head \in Nat /\ S \in SUBSET (1 .. head) /\ S # {}
    BY <1>2 DEF InRange, IInv, ChainOK
  <2> HIDE DEF S
  <2>2. Max(S) \in S /\ \A x \in S : Max(S) >= x
    BY <2>1, LatestOf
  <2> QED
    BY <2>2 DEF S
<1>3. \A e \in found : e.statement \in touched
  OBVIOUS
<1> HIDE DEF touched, last, text, found
<1>4. ASSUME NEW s \in touched
      PROVE  /\ s \in DOMAIN Documents(j) /\ Documents(j)[s].text = text(s)
             /\ Documents(j)[s].lastEngagement = last(s)
  BY <1>1, <1>4
<1>5. ASSUME NEW s \in DOMAIN index, s \notin touched
      PROVE  s \in DOMAIN Documents(j) /\ Documents(j)[s] = index[s]
  BY <1>1, <1>5
<1>6. DOMAIN Documents(j) = DOMAIN index \cup touched
  BY <1>1
<1>7. \A s \in DOMAIN index :
        s \in DOMAIN Documents(j) /\ (index[s].text => Documents(j)[s].text)
  BY <1>4, <1>5 DEF text
<1>8. \A e \in found : /\ e.statement \in DOMAIN Documents(j)
                       /\ j.step = "added" => Documents(j)[e.statement].text
  BY <1>3, <1>4 DEF text
<1>9. \A s \in DOMAIN Documents(j) :
        \/ /\ s \in DOMAIN index /\ Documents(j)[s] = index[s]
           /\ \A x \in found : x.statement # s
        \/ /\ \E x \in found : x.statement = s /\ Documents(j)[s].lastEngagement = x.block
           /\ \A x \in found : x.statement = s => Documents(j)[s].lastEngagement >= x.block
  BY <1>2, <1>3, <1>4, <1>5, <1>6
<1> QED
  BY <1>7, <1>8, <1>9 DEF found

(* A coroutine moves on: what it owed and has not written it still owes.   *)
LEMMA AdvanceKeeps ==
  ASSUME IInv, NEW j \in jobs, Advance(j), UNCHANGED <<head, events, process>>
  PROVE  /\ JobsOK'
         /\ (\A k \in jobs : k.awaited) => \A k \in jobs' : k.awaited
         /\ \A e \in events : Owed(e) /\ InBatch(e) =>
               Owed(e)' \/ (j.awaited /\ e \in InRange(j, j.step))
         /\ \A e \in events :
               /\ j.awaited /\ j.step = "added"
               /\ e.kind = "engaged" /\ j.forum = ForumOf[e.statement]
               => Owed(e)'
<1> DEFINE next == [j EXCEPT !.step = "engaged"]
<1>1. /\ j.step \in {"added", "engaged"} /\ j.awaited \in BOOLEAN
      /\ j = [forum |-> j.forum, from |-> j.from, to |-> j.to,
              step |-> j.step, awaited |-> j.awaited]
  BY DEF IInv, JobsOK
<1>2. next = [forum |-> j.forum, from |-> j.from, to |-> j.to,
              step |-> "engaged", awaited |-> j.awaited]
  BY <1>1
<1>3. jobs' = (jobs \ {j}) \cup (IF j.step = "added" THEN {next} ELSE {})
  BY DEF Advance, WriteOrder
<1> HIDE DEF next
<1>4. JobsOK'
  <2>1. ASSUME NEW k \in jobs'
        PROVE  /\ k = [forum |-> k.forum, from |-> k.from, to |-> k.to,
                       step |-> k.step, awaited |-> k.awaited]
               /\ k.step \in {"added", "engaged"} /\ k.awaited \in BOOLEAN
               /\ k.awaited => /\ process'.at = "gathering"
                               /\ k.from = process'.cursor /\ k.to = BatchEnd(process)'
    <3>1. CASE k \in jobs
      BY <3>1 DEF IInv, JobsOK, BatchEnd
    <3>2. CASE k = next
      BY <1>1, <1>2, <3>2 DEF IInv, JobsOK, BatchEnd
    <3> QED
      BY <1>3, <3>1, <3>2
  <2>2. ASSUME NEW k \in jobs', NEW l \in jobs', k.awaited, l.awaited,
               k.forum = l.forum
        PROVE  k = l
    <3>1. \A m \in jobs' : m = next \/ (m \in jobs /\ m # j)
      BY <1>3
    <3>2. next.forum = j.forum /\ next.awaited = j.awaited
      BY <1>2
    <3> QED
      BY <2>2, <3>1, <3>2 DEF IInv, JobsOK
  <2> QED
    BY <2>1, <2>2 DEF JobsOK
<1>5. (\A k \in jobs : k.awaited) => \A k \in jobs' : k.awaited
  BY <1>2, <1>3
<1>6. ASSUME NEW e \in events, Owed(e), InBatch(e)
      PROVE  Owed(e)' \/ (j.awaited /\ e \in InRange(j, j.step))
  <2>1. PICK k \in jobs : /\ k.awaited /\ k.forum = ForumOf[e.statement]
                          /\ e.kind = "added" => k.step = "added"
    BY <1>6 DEF Owed
  <2>2. CASE k # j
    BY <1>3, <2>1, <2>2 DEF Owed
  <2>3. CASE k = j
    <3>1. e.kind \in {"added", "engaged"}
      BY DEF IInv, ChainOK
    <3>2. e.block \in j.from .. j.to
      BY <1>6, <2>1, <2>3 DEF InBatch, IInv, JobsOK
    <3>3. CASE e.kind = j.step
      BY <2>1, <2>3, <3>2, <3>3 DEF InRange
    <3>4. CASE e.kind # j.step
      <4>1. j.step = "added" /\ e.kind = "engaged"
        BY <1>1, <2>1, <2>3, <3>1, <3>4
      <4>2. next \in jobs'
        BY <1>3, <4>1
      <4> QED
        BY <1>2, <2>1, <2>3, <4>1, <4>2 DEF Owed
    <3> QED
      BY <3>3, <3>4
  <2> QED
    BY <2>2, <2>3
<1>7. ASSUME NEW e \in events, j.awaited, j.step = "added", e.kind = "engaged",
             j.forum = ForumOf[e.statement]
      PROVE  Owed(e)'
  <2>1. next \in jobs'
    BY <1>3, <1>7
  <2> QED
    BY <1>2, <1>7, <2>1 DEF Owed
<1> QED
  BY <1>4, <1>5, <1>6, <1>7

(* Every block of a running batch is at or above what is done, while the    *)
(* rounds are in order.                                                     *)
LEMMA DoneIsBelow ==
  ASSUME IInv, InOrder, process.at = "gathering",
         NEW e \in events, Done(e.block)
  PROVE  e.block < process.cursor
<1>1. /\ process.memory \in Nat /\ process.cursor \in Nat
      /\ process.memory <= process.cursor
  BY RunningBatch
<1>2. e.block \in Nat /\ stored \in {None} \cup Nat
  BY DEF IInv, ChainOK, StoredOK, Cursors
<1>3. stored # None => stored <= process.cursor
  BY DEF InOrder
<1> QED
  BY <1>1, <1>2, <1>3 DEF Done

(* What a write leaves of the documents' last engagements.                 *)
LEMMA WriteKeeps ==
  ASSUME IInv, ~history.repeated, NEW j \in jobs, Write(j),
         UNCHANGED <<head, events, stored>>
  PROVE  AllKept'
<1>1. /\ index' = Documents(j) /\ Advance(j)
      /\ UNCHANGED <<process, history>>
  BY DEF Write
<1>2. /\ j.awaited /\ process.at = "gathering" /\ InOrder /\ AllKept
      /\ j.from = process.cursor /\ j.to = BatchEnd(process)
      /\ j.step \in {"added", "engaged"}
  BY DEF IInv, InOrder, JobsOK
<1>3. /\ process.cursor \in Nat
      /\ BatchEnd(process) \in Nat
  BY <1>2, RunningBatch DEF IInv, ChainOK
<1>4. ASSUME NEW x \in InRange(j, j.step)
      PROVE  /\ x \in events /\ x.kind = j.step /\ x.block \in Nat
             /\ x.block >= process.cursor /\ ForumOf[x.statement] = j.forum
  BY <1>2 DEF InRange, IInv, ChainOK
\* A document that is touched is left at or above any event that is done.
<1>5. ASSUME NEW e \in events, NEW x \in InRange(j, j.step), e.block <= x.block,
             e.statement \in DOMAIN index', index'[e.statement].lastEngagement >= x.block,
             index'[e.statement].lastEngagement \in Int
      PROVE  Kept(e)'
  BY <1>4, <1>5 DEF Kept, IInv, ChainOK
<1>6. \A s \in DOMAIN index' : index'[s].lastEngagement \in Int
  BY <1>1, <1>4, DocumentsKeep DEF IInv, IndexOK
<1>7. ASSUME NEW e \in events, Done(e.block)' \/ InBatch(e)'
      PROVE  Kept(e)' \/ (InBatch(e)' /\ Owed(e)')
  <2>1. Done(e.block)' = Done(e.block) /\ InBatch(e)' = InBatch(e)
    BY <1>1 DEF Done, InBatch, BatchEnd
  <2>2. /\ e.block \in Nat /\ e.kind \in {"added", "engaged"}
    BY DEF IInv, ChainOK
  <2>3. CASE /\ e.statement \in DOMAIN index'
             /\ \E x \in InRange(j, j.step) : x.statement = e.statement
             /\ \A x \in InRange(j, j.step) : x.statement = e.statement =>
                  index'[e.statement].lastEngagement >= x.block
    <3>1. PICK x \in InRange(j, j.step) : x.statement = e.statement
      BY <2>3
    <3>2. CASE Done(e.block)
      <4>1. e.block <= x.block
        BY <1>2, <1>3, <1>4, <2>2, <3>2, DoneIsBelow
      <4> QED
        BY <1>5, <1>6, <2>3, <3>1, <4>1
    <3>3. CASE InBatch(e) /\ e.kind = j.step
      <4>1. e \in InRange(j, j.step)
        BY <1>2, <1>4, <3>1, <3>3 DEF InRange, InBatch
      <4> QED
        BY <1>5, <1>6, <2>2, <2>3, <4>1
    <3>4. CASE InBatch(e) /\ e.kind = "added" /\ j.step = "engaged"
      <4>1. e.block <= x.block
        BY <1>4, <3>1, <3>4 DEF IInv, ChainOK
      <4> QED
        BY <1>5, <1>6, <2>3, <3>1, <4>1
    <3>5. CASE InBatch(e) /\ e.kind = "engaged" /\ j.step = "added"
      <4>1. Owed(e)'
        BY <1>1, <1>2, <1>4, <3>1, <3>5, AdvanceKeeps
      <4> QED
        BY <2>1, <3>5, <4>1
    <3> QED
      BY <1>2, <1>7, <2>1, <2>2, <3>2, <3>3, <3>4, <3>5
  <2>4. CASE e.statement \in DOMAIN index' =>
               /\ e.statement \in DOMAIN index
               /\ index'[e.statement] = index[e.statement]
               /\ \A x \in InRange(j, j.step) : x.statement # e.statement
    <3>1. Kept(e) => Kept(e)'
      BY <1>1, <2>4 DEF Kept, Known
    <3>2. CASE ~Kept(e)
      <4>1. InBatch(e) /\ Owed(e)
        BY <1>2, <1>7, <2>1, <3>2 DEF AllKept
      <4>2. Owed(e)' \/ e \in InRange(j, j.step)
        BY <1>1, <4>1, AdvanceKeeps
      <4>3. CASE e \in InRange(j, j.step)
        <5>1. e.statement \in DOMAIN index'
          BY <1>1, <4>3, DocumentsKeep
        <5> QED
          BY <2>4, <4>3, <5>1
      <4> QED
        BY <2>1, <4>1, <4>2, <4>3
    <3> QED
      BY <3>1, <3>2
  <2> QED
    BY <1>1, <2>3, <2>4, DocumentsKeep
<1>8. \A e \in events : Done(e.block)' => ~InBatch(e)'
  <2>1. ASSUME NEW e \in events, Done(e.block) PROVE ~InBatch(e)
    BY <1>2, <1>3, <2>1, DoneIsBelow DEF InBatch, IInv, ChainOK
  <2> QED
    BY <1>1, <2>1 DEF Done, InBatch, BatchEnd
<1> QED
  BY <1>1, <1>7, <1>8 DEF AllKept

(* One forum's part of a batch is written, lost, or fails.                 *)
LEMMA IndexIInv ==
  ASSUME IInv, NEW j \in jobs, IndexForumBlockRange(j)
  PROVE  IInv'
<1>1. UNCHANGED <<head, events, stored>>
  BY DEF IndexForumBlockRange
<1>2. ChainOK' /\ StoredOK'
  BY <1>1 DEF IInv, ChainOK, Added, StoredOK, Cursors
<1>3. \A s \in DOMAIN Documents(j) : Documents(j)[s].lastEngagement \in Int
  <2>1. \A x \in InRange(j, j.step) : x.block \in Int
    BY DEF InRange, IInv, ChainOK
  <2> QED
    BY <2>1, DocumentsKeep DEF IInv, IndexOK
<1>4. CASE Write(j)
  <2>1. /\ index' = Documents(j) /\ Advance(j)
        /\ UNCHANGED <<process, history>>
    BY <1>4 DEF Write
  <2>2. ProcessOK' /\ HistoryOK' /\ IndexOK' /\ JobsOK'
    BY <1>1, <1>3, <2>1, AdvanceKeeps DEF IInv, ProcessOK, HistoryOK, IndexOK, Cursors
  <2>3. \A e : /\ Done(e.block)' = Done(e.block) /\ InBatch(e)' = InBatch(e)
               /\ Covered(e) => Covered(e)'
    BY <1>1, <2>1, DocumentsKeep DEF Done, InBatch, BatchEnd, Covered, Known
  <2>4. \A e \in InRange(j, j.step) : e.kind = "added" => Covered(e)'
    BY <2>1, DocumentsKeep DEF InRange, Covered, Known
  <2>5. AllCovered'
    BY <1>1, <2>1, <2>3, <2>4, AdvanceKeeps DEF IInv, AllCovered
  <2>6. ~history'.repeated => InOrder' /\ AllKept'
    BY <1>1, <1>4, <2>1, AdvanceKeeps, WriteKeeps DEF IInv, InOrder
  <2> QED
    BY <1>2, <2>2, <2>5, <2>6 DEF IInv
<1>5. CASE WriteFails(j)
  <2>1. Advance(j) /\ UNCHANGED <<index, process>>
    BY <1>5 DEF WriteFails
  <2>2. /\ history'.skipped = history.skipped /\ history'.evicted = history.evicted
        /\ history'.lost = history.lost \cup InRange(j, j.step)
        /\ history'.repeated = history.repeated
        /\ HistoryOK'
    BY <1>5 DEF WriteFails, OneFailure, IInv, HistoryOK
  <2>3. ProcessOK' /\ IndexOK' /\ JobsOK'
    BY <1>1, <2>1, AdvanceKeeps DEF IInv, ProcessOK, IndexOK, Cursors
  <2>4. \A e : /\ Done(e.block)' = Done(e.block) /\ InBatch(e)' = InBatch(e)
               /\ Covered(e) => Covered(e)'
               /\ Kept(e) => Kept(e)'
    BY <1>1, <2>1, <2>2 DEF Done, InBatch, BatchEnd, Covered, Kept, Known
  <2>5. \A e \in InRange(j, j.step) : Covered(e)' /\ Kept(e)'
    BY <2>2 DEF Covered, Kept
  <2>6. AllCovered' /\ (AllKept => AllKept')
    BY <1>1, <2>1, <2>4, <2>5, AdvanceKeeps DEF IInv, AllCovered, AllKept
  <2>7. ~history'.repeated => InOrder' /\ AllKept'
    BY <1>1, <2>1, <2>2, <2>6, AdvanceKeeps DEF IInv, InOrder
  <2> QED
    BY <1>2, <2>2, <2>3, <2>6, <2>7 DEF IInv
<1>6. CASE RequestFails(j)
  <2>1. index' = index \/ index' = Documents(j)
    BY <1>6 DEF RequestFails
  <2>2. /\ history'.skipped = history.skipped /\ history'.evicted = history.evicted
        /\ history'.lost = history.lost /\ history'.repeated
        /\ HistoryOK'
    BY <1>6 DEF RequestFails, Setback, OneFailure, IInv, HistoryOK
  <2>3. IndexOK'
    BY <1>3, <2>1 DEF IInv, IndexOK
  <2>4. \A e : Covered(e) => Covered(e)'
    BY <2>1, <2>2, DocumentsKeep DEF Covered, Known
  <2>5. CASE j.awaited
    <3>1. Raise(jobs \ {j}) /\ process.at = "gathering"
      BY <1>6, <2>5 DEF RequestFails, IInv, JobsOK
    <3>2. /\ process' = [at |-> "connecting", memory |-> process.memory,
                         cursor |-> None, target |-> None]
          /\ JobsOK'
      BY <3>1, Raised
    <3>3. ProcessOK'
      BY <1>1, <3>2 DEF IInv, ProcessOK, Cursors
    <3>4. AllCovered'
      BY <1>1, <2>4, <3>2 DEF IInv, AllCovered, Done, InBatch
    <3> QED
      BY <1>2, <2>2, <2>3, <3>2, <3>3, <3>4 DEF IInv
  <2>6. CASE ~j.awaited
    <3>1. jobs' = jobs \ {j} /\ UNCHANGED process
      BY <1>6, <2>6 DEF RequestFails
    <3>2. ProcessOK' /\ JobsOK'
      BY <1>1, <3>1 DEF IInv, ProcessOK, JobsOK, Cursors, BatchEnd
    <3>3. \A e : /\ Done(e.block)' = Done(e.block) /\ InBatch(e)' = InBatch(e)
                 /\ Owed(e) => Owed(e)'
      BY <1>1, <2>6, <3>1 DEF Done, InBatch, BatchEnd, Owed
    <3>4. AllCovered'
      BY <1>1, <2>4, <3>3 DEF IInv, AllCovered
    <3> QED
      BY <1>2, <2>2, <2>3, <3>2, <3>4 DEF IInv
  <2> QED
    BY <2>5, <2>6
<1> QED
  BY <1>4, <1>5, <1>6 DEF IndexForumBlockRange

(* Stale documents are evicted: what was covered is recorded as evicted.   *)
LEMMA EvictIInv == IInv /\ Evict => IInv'
<1> SUFFICES ASSUME IInv, Evict PROVE IInv'
  OBVIOUS
<1>1. UNCHANGED <<head, events, stored, process, jobs>>
  BY DEF Evict
<1>2. PICK stale \in SUBSET DOMAIN index :
        /\ index' = [s \in DOMAIN index \ stale |-> index[s]]
        /\ history' = [history EXCEPT !.evicted = @ \cup stale]
  BY DEF Evict
<1>3. /\ history'.skipped = history.skipped /\ history'.lost = history.lost
      /\ history'.evicted = history.evicted \cup stale
      /\ history'.repeated = history.repeated
      /\ HistoryOK'
  BY <1>2 DEF IInv, HistoryOK
<1>4. ChainOK' /\ ProcessOK' /\ JobsOK' /\ StoredOK' /\ IndexOK' /\ (InOrder => InOrder')
  BY <1>1, <1>2 DEF IInv, ChainOK, Added, ProcessOK, JobsOK, StoredOK, IndexOK, InOrder,
                    Cursors, BatchEnd
<1>5. \A e : /\ Done(e.block)' = Done(e.block) /\ InBatch(e)' = InBatch(e)
             /\ Owed(e)' = Owed(e)
             /\ Covered(e) => Covered(e)'
             /\ Kept(e) => Kept(e)'
  BY <1>1, <1>2, <1>3 DEF Done, InBatch, Owed, Covered, Kept, Known, BatchEnd
<1>6. AllCovered' /\ (AllKept => AllKept')
  BY <1>1, <1>5 DEF IInv, AllCovered, AllKept
<1> QED
  BY <1>3, <1>4, <1>6 DEF IInv

(* The process dies: what is left is the persisted cursor and the index.   *)
LEMMA CrashIInv == IInv /\ Crash => IInv'
<1> SUFFICES ASSUME IInv, Crash PROVE IInv'
  OBVIOUS
<1>1. /\ UNCHANGED <<head, events, index, stored>> /\ jobs' = {}
      /\ process' = [at |-> "connecting", memory |-> None,
                     cursor |-> None, target |-> None]
  BY DEF Crash, Started
<1>2. /\ history'.skipped = history.skipped /\ history'.lost = history.lost
      /\ history'.evicted = history.evicted /\ history'.repeated = history.repeated
      /\ HistoryOK'
  BY DEF Crash, IInv, HistoryOK
<1>3. ChainOK' /\ ProcessOK' /\ JobsOK' /\ StoredOK' /\ IndexOK' /\ InOrder'
  BY <1>1 DEF IInv, ChainOK, Added, ProcessOK, JobsOK, StoredOK, IndexOK, InOrder, Cursors
<1>4. \A e : /\ Done(e.block)' => Done(e.block)
             /\ ~InBatch(e)'
             /\ Covered(e) => Covered(e)'
             /\ Kept(e) => Kept(e)'
  BY <1>1, <1>2 DEF Done, InBatch, Covered, Kept, Known
<1>5. AllCovered' /\ (AllKept => AllKept')
  BY <1>1, <1>4 DEF IInv, AllCovered, AllKept
<1> QED
  BY <1>2, <1>3, <1>5 DEF IInv

LEMMA NextIInv == IInv /\ [Next]_vars => IInv'
<1> SUFFICES ASSUME IInv, [Next]_vars PROVE IInv'
  OBVIOUS
<1>1. CASE UNCHANGED vars
  <2>1. UNCHANGED <<head, events, index, stored, process, jobs, history>>
    BY <1>1 DEF vars
  <2> QED
    BY <2>1 DEF IInv, ChainOK, Added, ProcessOK, JobsOK, StoredOK, IndexOK, HistoryOK,
                AllCovered, AllKept, InOrder, Covered, Kept, Known, Done, InBatch, Owed,
                BatchEnd, Cursors
<1>2. CASE \E j \in jobs : IndexForumBlockRange(j)
  BY <1>2, IndexIInv
<1> QED
  BY <1>1, <1>2, MineIInv, ConnectIInv, PollIInv, GatheredIInv, EvictIInv, CrashIInv DEF Next

----------------------------------------------------------------------------
(* Whatever fails, is repeated or crashes, a statement added below the     *)
(* persisted cursor is in the index with its text, unless it was evicted,  *)
(* its task was reported as failed, or the startup lookback left it out.   *)
THEOREM NothingIsEverSkipped == Spec => []NothingIsSkipped
<1>1. IInv => NothingIsSkipped
  BY DEF IInv, NothingIsSkipped, AllCovered, Done, Covered, Known
<1> QED
  BY <1>1, InitIInv, NextIInv, PTL DEF Spec

(* Until an exception makes a round repeat, no document's last engagement  *)
(* is behind an event below the persisted cursor, so that no statement is  *)
(* evicted for an engagement that was indexed and overwritten.             *)
THEOREM EngagementAlwaysKept == Spec => []EngagementIsKept
<1>1. IInv => EngagementIsKept
  BY DEF IInv, EngagementIsKept, AllKept, Done, Kept, Known, HistoryOK
<1> QED
  BY <1>1, InitIInv, NextIInv, PTL DEF Spec

-----------------------------------------------------------------------------
(***************************************************************************)
(* The browser's index.                                                    *)
(***************************************************************************)

Engines == {"lexical", "hybrid"}
Early == {"vectors", "load", "hydrating", "head", "ranked", "reads"}

(* A request, as it is remembered, is of its forum's texts. *)
JobOf(kind, f, job) ==
  /\ DOMAIN job = {"docs", "missing", "born"}
  /\ OfForum(f, job.docs) /\ job.missing \subseteq DOMAIN job.docs
  /\ kind = "lexical" => job.missing = {}

(* Nothing is left of a sync that was superseded that goes on whatever the *)
(* page shows, except an answer that changes nothing.                      *)
SyncFits(t, s, token, active) ==
  /\ DOMAIN s = {"forum", "kind", "safe", "ranked", "job", "step"}
  /\ s.forum \in Forums /\ s.kind \in Engines
  /\ s.step \in Early \cup {"indexing", "saving"}
  /\ JobOf(s.kind, s.forum, s.job)
  /\ t \in Nat /\ t <= token
  /\ t = token => s.forum = active
  /\ t # token => \/ s.step \in {"vectors", "load", "head", "ranked", "reads"}
                  \/ s.kind = "lexical" /\ s.step \in {"hydrating", "indexing"}

(* A delta of another forum is still to ask which forum the page shows. *)
DeltaFits(d, active) ==
  /\ DOMAIN d = {"forum", "kind", "from", "safe", "ids", "job", "step"}
  /\ d.forum \in Forums /\ d.kind \in Engines
  /\ JobOf(d.kind, d.forum, d.job)
  /\ d.step \in {"head", "logs", "texts", "indexing", "saving"}
  /\ d.step \in {"indexing", "saving"} => d.forum = active

PageFits(p) ==
  /\ DOMAIN p = {"forum", "kind", "seen", "token", "active", "docs", "vectors",
                 "cursor", "ready", "indexing", "model"}
  /\ p.forum \in Forums /\ p.active \in Forums \cup {Unvisited}
  /\ p.token \in Nat /\ p.kind \in Engines \cup {"backend"} /\ p.ready \in BOOLEAN
  /\ p.active \in Forums => OfForum(p.active, p.docs) /\ OfForum(p.active, p.vectors)

EngineFits(f, engine) ==
  DOMAIN engine = {"born", "vectors", "entries"} /\ EngineIsOf(f, engine)

EnginesFit(e) ==
  /\ DOMAIN e = Engines
  /\ \A k \in Engines :
       /\ DOMAIN e[k] = {"lru", "of"}
       /\ e[k].lru \in Seq(Forums) /\ ToSet(e[k].lru) \subseteq DOMAIN e[k].of
       /\ \A f \in DOMAIN e[k].of : EngineFits(f, e[k].of[f])

StoreFits(s) ==
  /\ DOMAIN s = Forums
  /\ \A f \in Forums : /\ DOMAIN s[f] = {"docs", "vectors"}
                       /\ OfForum(f, s[f].docs) /\ OfForum(f, s[f].vectors)

PastFits == DOMAIN past = {"failures", "broken", "crossed"}
            /\ past.broken \in BOOLEAN /\ past.crossed \in BOOLEAN

SyncsFit == \A t \in DOMAIN syncs : SyncFits(t, syncs[t], page.token, page.active)
DeltasFit == \A d \in deltas : DeltaFits(d, page.active)

(* Everything kept for a forum is of its texts, and so is all that may     *)
(* still be written.                                                       *)
Apart ==
  /\ PageFits(page) /\ EnginesFit(engines) /\ StoreFits(store)
  /\ SyncsFit /\ DeltasFit

ApartInv == PastFits /\ (~past.crossed => Apart)

-----------------------------------------------------------------------------
(* What the cursor stands for, and what the worker has or will have.  The  *)
(* parts take the state as arguments, so that one lemma serves for what a  *)
(* step leaves alone, before and after it.                                 *)

ChainFits(c) ==
  /\ DOMAIN c = {"head", "events"} /\ c.head \in Nat \ {0}
  /\ \A e \in c.events : e.block \in 1..c.head

(* The forum's statements of the window before a block are among the ids. *)
Covers(ids, c, f, block) ==
  \A e \in c.events :
    e.forum = f /\ e.block \in block - lookbackBlocks .. block => e.id \in ids

CursorFits(c, p) ==
  /\ p.cursor \in 0..c.head
  /\ p.cursor # 0 => Covers(DOMAIN p.docs, c, p.active, p.cursor)

(* A sync or a delta is of the engine chosen, or of one that was left for  *)
(* the hosted search, which is no restart.                                 *)
OwnKind(p, kind) == kind = p.kind \/ p.kind = "backend"

(* The sync of the visit sets the cursor when it has read the chain.       *)
SyncKnows(c, p, s) ==
  /\ s.step \in Early <=> p.cursor = 0
  /\ s.step \in {"ranked", "reads"} => s.safe \in 1..c.head
  /\ s.step = "hydrating" => s.job # NoJob
  /\ OwnKind(p, s.kind)

(* A delta of the forum on screen began where the page was covered, and    *)
(* what it has read covers the page up to where it ends.                   *)
DeltaKnows(c, p, d) ==
  /\ p.cursor # 0 /\ OwnKind(p, d.kind)
  /\ d.from \in 1..c.head /\ Covers(DOMAIN p.docs, c, p.active, d.from)
  /\ d.step # "head" => d.safe \in d.from + 1 .. c.head
  /\ d.step = "texts" =>
       \A e \in c.events :
         e.forum = p.active /\ e.block \in d.from + 1 .. d.safe =>
           e.id \in DOMAIN p.docs \cup d.ids
  /\ d.step = "indexing" => Covers(DOMAIN p.docs, c, p.active, d.safe)

DeltasKnow(c, p, ds) == \A d \in ds : d.forum = p.active => DeltaKnows(c, p, d)

(* The requests for documents the page counts as indexed. *)
Waiting(p, s, ds) ==
  {s[t].job : t \in {u \in DOMAIN s : u = p.token /\ s[u].step = "indexing"}}
    \cup {d.job : d \in {x \in ds : x.forum = p.active /\ x.step = "indexing"}}

(* What the answer to a request finds or makes in the engine. *)
WillBeIndexed(docs, kind, engine, job) ==
  /\ DOMAIN job.docs \subseteq DOMAIN docs
  /\ kind = "lexical" => DOMAIN job.docs \subseteq DOMAIN engine.entries
  /\ kind = "hybrid" =>
       /\ job.born = engine.born
       /\ DOMAIN job.docs \subseteq job.missing \cup DOMAIN engine.vectors

(* The engine has the page's documents and no others, but for those it has *)
(* been asked for.                                                         *)
EngineKnows(docs, kind, waiting, engine) ==
  /\ DOMAIN engine.entries \subseteq DOMAIN docs
  /\ \A job \in waiting : WillBeIndexed(docs, kind, engine, job)
  /\ \A id \in DOMAIN docs :
       id \in DOMAIN engine.entries \/ \E job \in waiting : id \in DOMAIN job.docs

WorkerKnows(p, e, waiting) ==
  /\ p.active \in DOMAIN e[p.kind].of
  /\ EngineKnows(p.docs, p.kind, waiting, e[p.kind].of[p.active])

(* The page is ready with a cursor, or with an index from IndexedDB.       *)
ReadyFits(p, s) ==
  p.ready =>
    \/ p.cursor # 0
    \/ /\ p.token \in DOMAIN s
       /\ s[p.token].step \in {"head", "ranked", "reads"} /\ s[p.token].job # NoJob

(* What is known of the chain, and what the worker makes of it.            *)
KnowsChain(c, p, s, ds) ==
  /\ ChainFits(c) /\ CursorFits(c, p) /\ DeltasKnow(c, p, ds)
  /\ p.token \in DOMAIN s => SyncKnows(c, p, s[p.token])

Served(p, e, s, ds) ==
  /\ ReadyFits(p, s)
  /\ p.kind # "backend" /\ p.cursor # 0 => WorkerKnows(p, e, Waiting(p, s, ds))

(* A failure of the worker leaves the cursor right, and its index short.   *)
Complete ==
  KnowsChain(chain, page, syncs, deltas) /\ (~past.broken => Served(page, engines, syncs, deltas))

CompleteInv == ~past.crossed => Complete

-----------------------------------------------------------------------------
(* The maps of documents and of vectors.                                   *)

(* Two maps of a forum make one of it.                                     *)
LEMMA AddingFits ==
  ASSUME NEW f, NEW known, NEW more, OfForum(f, known), OfForum(f, more)
  PROVE  OfForum(f, Adding(known, more))
<1>1. /\ \A x \in DOMAIN known : known[x] = f
      /\ \A x \in DOMAIN more : more[x] = f
  BY DEF OfForum, Range
<1> QED
  BY <1>1 DEF OfForum, Range, Adding

LEMMA RestrictFits ==
  ASSUME NEW f, NEW docs, OfForum(f, docs), NEW S, S \subseteq DOMAIN docs
  PROVE  OfForum(f, Restrict(docs, S)) /\ DOMAIN Restrict(docs, S) = S
  BY DEF OfForum, Range, Restrict

LEMMA NothingFits ==
  ASSUME NEW f
  PROVE  OfForum(f, NoDocs) /\ DOMAIN NoDocs = {}
  BY DEF OfForum, Range, NoDocs

LEMMA StatementsFit ==
  ASSUME NEW f, NEW ids
  PROVE  OfForum(f, StatementsByIds(f, ids)) /\ DOMAIN StatementsByIds(f, ids) = ids
  BY DEF OfForum, Range, StatementsByIds

(* Both parts of an entry are there and are the forum's. *)
EntriesFit(f, entries) ==
  \A id \in DOMAIN entries : entries[id].text = f /\ entries[id].vector = f

LEMMA EntriesOfFits ==
  ASSUME NEW f, NEW docs, NEW vectors, OfForum(f, docs), OfForum(f, vectors),
         DOMAIN docs \subseteq DOMAIN vectors
  PROVE  EntriesFit(f, Entries(docs, vectors)) /\ DOMAIN Entries(docs, vectors) = DOMAIN docs
<1>1. /\ \A x \in DOMAIN docs : docs[x] = f
      /\ \A x \in DOMAIN vectors : vectors[x] = f
  BY DEF OfForum, Range
<1> QED
  BY <1>1 DEF EntriesFit, Entries

LEMMA AddingEntriesFits ==
  ASSUME NEW f, NEW known, NEW more, EntriesFit(f, known), EntriesFit(f, more)
  PROVE  EntriesFit(f, Adding(known, more))
  BY DEF EntriesFit, Adding

LEMMA AddingDomain ==
  ASSUME NEW known, NEW more
  PROVE  DOMAIN Adding(known, more) = DOMAIN known \cup DOMAIN more
  BY DEF Adding

-----------------------------------------------------------------------------
(* The order of use names the forum asked for, and no forum that has no    *)
(* index.                                                                  *)
LEMMA LruAfterFits ==
  ASSUME NEW kind, NEW f \in Forums, engines[kind].lru \in Seq(Forums)
  PROVE  /\ LruAfter(kind, f) \in Seq(Forums)
         /\ f \in ToSet(LruAfter(kind, f))
         /\ ToSet(LruAfter(kind, f)) \subseteq ToSet(engines[kind].lru) \cup {f}
<1> DEFINE lru == engines[kind].lru
           i == CHOOSE j \in DOMAIN lru : lru[j] = f
           rest == IF f \in ToSet(lru) THEN RemoveAt(lru, i) ELSE lru
           order == Append(rest, f)
<1>1. lru \in Seq(Forums) /\ Len(lru) \in Nat /\ DOMAIN lru = 1..Len(lru)
  BY LenProperties
<1>2. rest \in Seq(Forums) /\ ToSet(rest) \subseteq ToSet(lru)
  <2>1. CASE f \notin ToSet(lru)
    BY <1>1, <2>1
  <2>2. CASE f \in ToSet(lru)
    <3>1. i \in 1..Len(lru)
      BY <1>1, <2>2 DEF ToSet
    <3> HIDE DEF i
    <3> DEFINE before == SubSeq(lru, 1, i - 1)
               after == SubSeq(lru, i + 1, Len(lru))
               mine == ToSet(lru)
    <3>2. \A j \in 1..Len(lru) : lru[j] \in mine /\ lru[j] \in Forums
      BY <1>1 DEF ToSet
    <3>3. before \in Seq(mine) /\ before \in Seq(Forums)
      <4>1. \A j \in 1..(i - 1) : lru[j] \in mine /\ lru[j] \in Forums
        BY <1>1, <3>1, <3>2
      <4> HIDE DEF mine, lru
      <4> QED
        BY <3>1, <4>1, SubSeqProperties
    <3>4. after \in Seq(mine) /\ after \in Seq(Forums)
      <4>1. \A j \in (i + 1)..Len(lru) : lru[j] \in mine /\ lru[j] \in Forums
        BY <1>1, <3>1, <3>2
      <4> HIDE DEF mine, lru
      <4> QED
        BY <1>1, <3>1, <4>1, SubSeqProperties
    <3>5. rest = before \o after
      BY <2>2 DEF RemoveAt
    <3> HIDE DEF before, after, mine, rest
    <3>6. rest \in Seq(mine) /\ rest \in Seq(Forums)
      BY <3>3, <3>4, <3>5, ConcatProperties
    <3>7. ToSet(rest) \subseteq mine
      <4>1. DOMAIN rest = 1..Len(rest) /\ \A j \in 1..Len(rest) : rest[j] \in mine
        BY <3>6, LenProperties
      <4> QED
        BY <4>1 DEF ToSet
    <3> QED
      BY <3>6, <3>7 DEF mine
  <2> QED
    BY <2>1, <2>2
<1> HIDE DEF rest
<1>3. /\ order \in Seq(Forums) /\ Len(order) = Len(rest) + 1 /\ Len(rest) \in Nat
      /\ order[Len(order)] = f
      /\ \A j \in 1..Len(order) : order[j] \in ToSet(lru) \cup {f}
  <2>1. Len(rest) \in Nat /\ DOMAIN rest = 1..Len(rest)
    BY <1>2, LenProperties
  <2>2. order \in Seq(Forums) /\ Len(order) = Len(rest) + 1 /\ order[Len(rest) + 1] = f
        /\ \A j \in 1..Len(rest) : order[j] = rest[j]
    BY <1>2, <2>1
  <2>3. \A j \in 1..Len(rest) : rest[j] \in ToSet(lru)
    BY <1>2, <2>1 DEF ToSet
  <2> HIDE DEF order, lru
  <2> QED
    BY <2>1, <2>2, <2>3
<1> DEFINE kept == IF Len(order) > MaxIndexes THEN Tail(order) ELSE order
<1>4. LruAfter(kind, f) = kept
  BY DEF LruAfter, rest
<1> HIDE DEF order, lru
<1>5. MaxIndexes \in Nat /\ MaxIndexes >= 1
  BY SearchBounds
<1>6. CASE Len(order) <= MaxIndexes
  <2>1. kept = order /\ Len(order) \in DOMAIN order /\ DOMAIN order = 1..Len(order)
    BY <1>3, <1>5, <1>6
  <2> QED
    BY <1>3, <1>4, <2>1 DEF ToSet, lru
<1>7. CASE Len(order) > MaxIndexes
  <2>1. kept = Tail(order) /\ Len(order) >= 2
    BY <1>3, <1>5, <1>7
  <2>2. /\ kept \in Seq(Forums) /\ Len(kept) = Len(order) - 1
        /\ \A j \in 1..Len(kept) : kept[j] = order[j + 1]
    <3>1. order # <<>>
      BY <2>1
    <3> HIDE DEF kept
    <3> QED
      BY <1>3, <2>1, <3>1, HeadTailProperties
  <2> HIDE DEF kept
  <2>3. DOMAIN kept = 1..Len(kept) /\ Len(kept) \in 1..Len(kept) /\ kept[Len(kept)] = f
    BY <1>3, <2>1, <2>2
  <2>4. \A j \in 1..Len(kept) : kept[j] \in ToSet(lru) \cup {f}
    BY <1>3, <2>1, <2>2
  <2> QED
    BY <1>4, <2>2, <2>3, <2>4 DEF ToSet, lru
<1> QED
  BY <1>3, <1>5, <1>6, <1>7

-----------------------------------------------------------------------------
(* What a request does to the index of its forum, and to no other's.       *)
LEMMA WithEngineDoes ==
  ASSUME EnginesFit(engines), NEW kind \in Engines, NEW f \in Forums,
         NEW engine, EngineFits(f, engine)
  PROVE  /\ EnginesFit(WithEngine(kind, f, engine))
         /\ f \in DOMAIN WithEngine(kind, f, engine)[kind].of
         /\ WithEngine(kind, f, engine)[kind].of[f] = engine
         /\ \A k \in Engines : k # kind => WithEngine(kind, f, engine)[k] = engines[k]
<1> DEFINE order == LruAfter(kind, f)
           of == [g \in ToSet(order) |-> IF g = f THEN engine ELSE engines[kind].of[g]]
           new == WithEngine(kind, f, engine)
<1>1. /\ DOMAIN engines = Engines /\ engines[kind].lru \in Seq(Forums)
      /\ ToSet(engines[kind].lru) \subseteq DOMAIN engines[kind].of
      /\ \A g \in DOMAIN engines[kind].of : EngineFits(g, engines[kind].of[g])
  BY DEF EnginesFit
<1>2. /\ order \in Seq(Forums) /\ f \in ToSet(order)
      /\ ToSet(order) \subseteq ToSet(engines[kind].lru) \cup {f}
  BY <1>1, LruAfterFits
<1> HIDE DEF order
<1>3. new = [engines EXCEPT ![kind] = [lru |-> order, of |-> of]]
  BY DEF WithEngine, order
<1>4. DOMAIN of = ToSet(order) /\ of[f] = engine
  BY <1>2
<1>5. \A g \in DOMAIN of : EngineFits(g, of[g])
  BY <1>1, <1>2
<1> HIDE DEF of, new
<1>6. /\ DOMAIN new = Engines /\ new[kind] = [lru |-> order, of |-> of]
      /\ \A k \in Engines : k # kind => new[k] = engines[k]
  BY <1>1, <1>3
<1>7. EnginesFit(new)
  <2> SUFFICES ASSUME NEW k \in Engines
               PROVE  /\ DOMAIN new[k] = {"lru", "of"}
                      /\ new[k].lru \in Seq(Forums) /\ ToSet(new[k].lru) \subseteq DOMAIN new[k].of
                      /\ \A g \in DOMAIN new[k].of : EngineFits(g, new[k].of[g])
    BY <1>6 DEF EnginesFit
  <2>1. CASE k = kind
    BY <1>2, <1>4, <1>5, <1>6, <2>1
  <2>2. CASE k # kind
    BY <1>6, <2>2 DEF EnginesFit
  <2> QED
    BY <2>1, <2>2
<1> QED
  BY <1>2, <1>4, <1>6, <1>7 DEF new

(* An engine that is found or made is of its forum.                        *)
LEMMA EngineOfFits ==
  ASSUME EnginesFit(engines), NEW kind \in Engines, NEW f \in Forums
  PROVE  EngineFits(f, EngineOf(kind, f))
<1>1. EngineFits(f, NewEngine)
  BY NothingFits DEF EngineFits, EngineIsOf, NewEngine, EmptyIndex
<1> QED
  BY <1>1 DEF EngineOf, EnginesFit

(* The lexical worker's request leaves the documents, and what was there   *)
(* before unless they replace it.                                          *)
LEMMA LexicalIndexDoes ==
  ASSUME EnginesFit(engines), NEW f \in Forums, NEW docs, OfForum(f, docs),
         NEW replace \in BOOLEAN
  PROVE  LET new == LexicalIndex(f, docs, replace)
         IN  /\ EnginesFit(new) /\ f \in DOMAIN new["lexical"].of
             /\ new["hybrid"] = engines["hybrid"]
             /\ DOMAIN new["lexical"].of[f].entries
                  = DOMAIN docs \cup
                      (IF replace THEN {} ELSE DOMAIN EngineOf("lexical", f).entries)
<1> DEFINE old == EngineOf("lexical", f)
           known == IF replace THEN EmptyIndex ELSE old.entries
           entries == Adding(Entries(docs, docs), known)
           engine == [old EXCEPT !.entries = entries]
<1>1. DOMAIN old = {"born", "vectors", "entries"} /\ OfForum(f, old.vectors)
      /\ EntriesFit(f, old.entries)
  BY EngineOfFits DEF Engines, EngineFits, EngineIsOf, EntriesFit
<1> HIDE DEF old
<1>2. EntriesFit(f, known) /\ DOMAIN known = IF replace THEN {} ELSE DOMAIN old.entries
  BY <1>1, NothingFits DEF EmptyIndex, EntriesFit
<1> HIDE DEF known
<1>3. EntriesFit(f, entries) /\ DOMAIN entries = DOMAIN docs \cup DOMAIN known
  <2> DEFINE added == Entries(docs, docs)
  <2>1. EntriesFit(f, added) /\ DOMAIN added = DOMAIN docs
    BY EntriesOfFits
  <2> HIDE DEF added
  <2>2. EntriesFit(f, Adding(added, known))
    BY <1>2, <2>1, AddingEntriesFits
  <2>3. DOMAIN Adding(added, known) = DOMAIN docs \cup DOMAIN known
    BY <2>1, AddingDomain
  <2> QED
    BY <2>2, <2>3 DEF added
<1> HIDE DEF entries
<1>4. EngineFits(f, engine) /\ engine.entries = entries
  BY <1>1, <1>3 DEF EngineFits, EngineIsOf, EntriesFit
<1>5. LexicalIndex(f, docs, replace) = WithEngine("lexical", f, engine)
  BY DEF LexicalIndex, entries, known, old
<1> HIDE DEF engine
<1>6. "lexical" \in Engines /\ "hybrid" \in Engines /\ "hybrid" # "lexical"
  BY DEF Engines
<1> QED
  BY <1>2, <1>3, <1>4, <1>5, <1>6, WithEngineDoes DEF old

(* The hybrid worker's leaves the seeds, and the rest of it to the answer. *)
LEMMA HybridBeginDoes ==
  ASSUME EnginesFit(engines), NEW f \in Forums, NEW seeds, OfForum(f, seeds),
         NEW replace \in BOOLEAN, NEW new, new = HybridBegin(f, replace, seeds),
         NEW old, old = EngineOf("hybrid", f)
  PROVE  /\ EnginesFit(new) /\ f \in DOMAIN new["hybrid"].of
         /\ new["lexical"] = engines["lexical"]
         /\ new["hybrid"].of[f].born = old.born
         /\ DOMAIN new["hybrid"].of[f].entries = IF replace THEN {} ELSE DOMAIN old.entries
         /\ DOMAIN new["hybrid"].of[f].vectors
              = DOMAIN seeds \cup (IF replace THEN {} ELSE DOMAIN old.vectors)
<1> DEFINE engine == IF replace THEN [old EXCEPT !.vectors = seeds, !.entries = EmptyIndex]
                     ELSE [old EXCEPT !.vectors = Adding(@, seeds)]
<1>1. DOMAIN old = {"born", "vectors", "entries"} /\ OfForum(f, old.vectors)
      /\ EntriesFit(f, old.entries)
  BY EngineOfFits DEF Engines, EngineFits, EngineIsOf, EntriesFit
<1> DEFINE vectors == Adding(old.vectors, seeds)
<1>2. OfForum(f, vectors) /\ DOMAIN vectors = DOMAIN seeds \cup DOMAIN old.vectors
  BY <1>1, AddingFits, AddingDomain
<1>3. DOMAIN EmptyIndex = {}
  BY NothingFits DEF EmptyIndex
<1>4. engine = IF replace THEN [old EXCEPT !.vectors = seeds, !.entries = EmptyIndex]
               ELSE [old EXCEPT !.vectors = vectors]
  OBVIOUS
<1> HIDE DEF vectors
<1>5. /\ EngineFits(f, engine) /\ engine.born = old.born
      /\ DOMAIN engine.entries = IF replace THEN {} ELSE DOMAIN old.entries
      /\ DOMAIN engine.vectors = DOMAIN seeds \cup (IF replace THEN {} ELSE DOMAIN old.vectors)
  <2>1. CASE replace
    <3>1. engine = [old EXCEPT !.vectors = seeds, !.entries = EmptyIndex]
      BY <2>1
    <3> HIDE DEF engine
    <3> QED
      BY <1>1, <1>3, <2>1, <3>1 DEF EngineFits, EngineIsOf
  <2>2. CASE ~replace
    <3>1. engine = [old EXCEPT !.vectors = vectors]
      BY <1>4, <2>2
    <3> HIDE DEF engine
    <3> QED
      BY <1>1, <1>2, <2>2, <3>1 DEF EngineFits, EngineIsOf, EntriesFit
  <2> QED
    BY <2>1, <2>2
<1>6. new = WithEngine("hybrid", f, engine)
  BY DEF HybridBegin
<1> HIDE DEF engine
<1>7. "lexical" \in Engines /\ "hybrid" \in Engines /\ "hybrid" # "lexical"
  BY DEF Engines
<1> QED
  BY <1>5, <1>6, <1>7, WithEngineDoes

(* Both keep the forums apart, and so does the answer, if it comes of a    *)
(* request of the same forum.                                              *)
LEMMA IndexFits ==
  ASSUME EnginesFit(engines), NEW kind \in Engines, NEW f \in Forums,
         NEW docs, OfForum(f, docs), NEW seeds, OfForum(f, seeds),
         NEW replace \in BOOLEAN
  PROVE  /\ EnginesFit(Index(kind, f, docs, replace, seeds))
         /\ JobOf(kind, f, Job(kind, f, docs, replace, seeds))
<1>1. EnginesFit(Index(kind, f, docs, replace, seeds))
  BY LexicalIndexDoes, HybridBeginDoes DEF Index
<1>2. JobOf(kind, f, Job(kind, f, docs, replace, seeds))
  BY DEF JobOf, Job, Missing
<1> QED
  BY <1>1, <1>2

(* The answer of the hybrid worker. *)
LEMMA HybridEndDoes ==
  ASSUME EnginesFit(engines), NEW f \in Forums, NEW job, JobOf("hybrid", f, job)
  PROVE  LET new == HybridEnd(f, job)
             old == engines["hybrid"].of[f]
         IN  /\ EnginesFit(new) /\ new["lexical"] = engines["lexical"]
             /\ DOMAIN new["hybrid"].of = DOMAIN engines["hybrid"].of
             /\ \A g \in DOMAIN engines["hybrid"].of :
                  g # f => new["hybrid"].of[g] = engines["hybrid"].of[g]
             /\ f \in DOMAIN engines["hybrid"].of =>
                  /\ new["hybrid"].of[f].born = old.born
                  /\ job.born = old.born =>
                       /\ DOMAIN new["hybrid"].of[f].vectors = job.missing \cup DOMAIN old.vectors
                       /\ DOMAIN new["hybrid"].of[f].entries
                            = DOMAIN old.entries
                                \cup (DOMAIN job.docs \cap (job.missing \cup DOMAIN old.vectors))
                  /\ job.born # old.born => new["hybrid"].of[f] = old
<1> DEFINE new == HybridEnd(f, job)
           old == engines["hybrid"].of[f]
           vectors == Adding(Restrict(job.docs, job.missing), old.vectors)
           fresh == {id \in DOMAIN job.docs :
                        id \in DOMAIN vectors /\ id \notin DOMAIN old.entries}
           added == Entries(Restrict(job.docs, fresh), vectors)
           entries == Adding(old.entries, added)
           engine == [old EXCEPT !.vectors = vectors, !.entries = entries]
<1>1. /\ DOMAIN engines = Engines /\ DOMAIN engines["hybrid"] = {"lru", "of"}
      /\ "hybrid" \in Engines /\ "lexical" \in Engines
  BY DEF EnginesFit, Engines
<1>2. CASE f \notin DOMAIN engines["hybrid"].of \/ job.born # old.born
  BY <1>2 DEF HybridEnd
<1>3. CASE f \in DOMAIN engines["hybrid"].of /\ job.born = old.born
  <2>1. new = [engines EXCEPT !["hybrid"].of[f] = engine]
    BY <1>3 DEF HybridEnd
  <2>2. DOMAIN old = {"born", "vectors", "entries"} /\ OfForum(f, old.vectors)
        /\ EntriesFit(f, old.entries)
    BY <1>1, <1>3 DEF EnginesFit, EngineFits, EngineIsOf, EntriesFit
  <2>3. OfForum(f, job.docs) /\ job.missing \subseteq DOMAIN job.docs
    BY DEF JobOf
  <2>4. OfForum(f, vectors) /\ DOMAIN vectors = job.missing \cup DOMAIN old.vectors
    <3> DEFINE made == Restrict(job.docs, job.missing)
               known == old.vectors
    <3>1. OfForum(f, made) /\ DOMAIN made = job.missing
      BY <2>3, RestrictFits
    <3>2. OfForum(f, known)
      BY <2>2
    <3>3. vectors = Adding(made, known)
      OBVIOUS
    <3> HIDE DEF made, vectors, old, known
    <3>4. OfForum(f, Adding(made, known))
      BY <3>1, <3>2, AddingFits
    <3>5. DOMAIN Adding(made, known) = job.missing \cup DOMAIN known
      BY <3>1, AddingDomain
    <3> QED
      BY <3>3, <3>4, <3>5 DEF known
  <2> HIDE DEF old, vectors
  <2>5. EntriesFit(f, added) /\ DOMAIN added = fresh
    <3>1. fresh \subseteq DOMAIN job.docs /\ fresh \subseteq DOMAIN vectors
      OBVIOUS
    <3> HIDE DEF fresh
    <3>2. OfForum(f, Restrict(job.docs, fresh)) /\ DOMAIN Restrict(job.docs, fresh) = fresh
      BY <2>3, <3>1, RestrictFits
    <3> QED
      BY <2>4, <3>1, <3>2, EntriesOfFits
  <2>6. EntriesFit(f, entries) /\ DOMAIN entries = DOMAIN old.entries \cup fresh
    <3> HIDE DEF added
    <3> QED
      BY <2>2, <2>5, AddingEntriesFits, AddingDomain
  <2>7. fresh = (DOMAIN job.docs \cap (job.missing \cup DOMAIN old.vectors)) \ DOMAIN old.entries
    BY <2>4
  <2> HIDE DEF entries, fresh, added
  <2>8. /\ EngineFits(f, engine) /\ engine.born = old.born
        /\ engine.vectors = vectors /\ engine.entries = entries
    BY <2>2, <2>4, <2>6 DEF EngineFits, EngineIsOf, EntriesFit
  <2> HIDE DEF engine, new
  <2>9. /\ DOMAIN new = Engines /\ new["lexical"] = engines["lexical"]
        /\ DOMAIN new["hybrid"] = {"lru", "of"} /\ new["hybrid"].lru = engines["hybrid"].lru
        /\ DOMAIN new["hybrid"].of = DOMAIN engines["hybrid"].of
        /\ new["hybrid"].of[f] = engine
        /\ \A g \in DOMAIN engines["hybrid"].of :
              g # f => new["hybrid"].of[g] = engines["hybrid"].of[g]
    BY <1>1, <1>3, <2>1
  <2>10. EnginesFit(new)
    <3>1. \A g \in DOMAIN new["hybrid"].of : EngineFits(g, new["hybrid"].of[g])
      BY <1>1, <2>8, <2>9 DEF EnginesFit
    <3> QED
      BY <1>1, <2>9, <3>1 DEF EnginesFit, Engines
  <2> QED
    BY <1>3, <2>4, <2>6, <2>7, <2>8, <2>9, <2>10 DEF new, old
<1> QED
  BY <1>2, <1>3

(* So is what the worker makes of a request, in either engine.             *)
LEMMA AfterWorkerFits ==
  ASSUME EnginesFit(engines), NEW kind \in Engines, NEW f \in Forums,
         NEW job, JobOf(kind, f, job)
  PROVE  EnginesFit(AfterWorker(kind, f, job))
  BY HybridEndDoes DEF AfterWorker

-----------------------------------------------------------------------------
(* What a step leaves of the syncs and of the deltas.                      *)
Anchored == page'.token = page.token /\ page'.active = page.active

(* The syncs and the deltas that are left as they are, fewer or with one   *)
(* that goes on still fit while the page keeps its token and forum.        *)
LEMMA SyncsStay ==
  ASSUME SyncsFit, Anchored, NEW t, syncs' \in {syncs, Without(t)}
  PROVE  SyncsFit'
<1>1. \A u \in DOMAIN syncs' : u \in DOMAIN syncs /\ syncs'[u] = syncs[u]
  BY DEF Without, Restrict
<1> QED
  BY <1>1 DEF SyncsFit, Anchored

LEMMA SyncGoesOn ==
  ASSUME SyncsFit, Anchored, NEW t \in DOMAIN syncs,
         DOMAIN syncs' = DOMAIN syncs,
         \A u \in DOMAIN syncs : u # t => syncs'[u] = syncs[u],
         SyncFits(t, syncs'[t], page.token, page.active)
  PROVE  SyncsFit'
<1> SUFFICES ASSUME NEW u \in DOMAIN syncs'
             PROVE  SyncFits(u, syncs'[u], page'.token, page'.active)
  BY DEF SyncsFit
<1>1. CASE u = t
  BY <1>1 DEF Anchored
<1>2. CASE u # t
  BY <1>2 DEF SyncsFit, Anchored
<1> QED
  BY <1>1, <1>2

LEMMA DeltasStay ==
  ASSUME DeltasFit, page'.active = page.active, deltas' \subseteq deltas
  PROVE  DeltasFit'
  BY DEF DeltasFit

LEMMA DeltaGoesOn ==
  ASSUME DeltasFit, page'.active = page.active,
         NEW next, DeltaFits(next, page.active), deltas' \subseteq deltas \cup {next}
  PROVE  DeltasFit'
  BY DEF DeltasFit

(* A member's choice. *)
LEMMA RestartApart ==
  ASSUME Apart, NEW f \in Forums, NEW kind \in Engines, Restart(f, kind), ~Crosses(f)
  PROVE  Apart'
<1> USE DEF Apart
<1>1. PageFits(page')
  <2>1. /\ DOMAIN page' = DOMAIN page /\ page'.forum = f /\ page'.kind = kind
        /\ page'.token = page.token + 1 /\ page'.active = f
        /\ page'.docs = NoDocs /\ page'.vectors = NoDocs /\ page'.ready = FALSE
    BY DEF PageFits, Restart
  <2>2. OfForum(f, NoDocs) /\ page.token + 1 \in Nat
    BY NothingFits DEF PageFits
  <2> QED
    BY <2>1, <2>2 DEF PageFits
<1>2. EnginesFit(engines') /\ StoreFits(store')
  BY DEF Restart
<1> DEFINE new == page.token + 1
           begun == Began(new, f, kind)
<1>3. page'.token = new /\ page'.active = f /\ page.token \in Nat /\ new \in Nat
  BY DEF PageFits, Restart
<1>4. syncs' = Adding(syncs, begun)
  BY DEF Restart
<1>5. DOMAIN begun = {new} /\ SyncFits(new, begun[new], new, f)
  BY <1>3, NothingFits DEF Began, SyncFits, JobOf, NoJob, Early, Engines
<1>6. ASSUME NEW t \in DOMAIN syncs PROVE t # new /\ SyncFits(t, syncs[t], new, f)
  <2>1. SyncFits(t, syncs[t], page.token, page.active)
    BY DEF SyncsFit
  <2>2. t \in Nat /\ t <= page.token /\ t # new
    BY <1>3, <2>1 DEF SyncFits
  <2>3. syncs[t].step # "saving"
        /\ ~(syncs[t].kind = "hybrid" /\ syncs[t].step \in {"hydrating", "indexing"})
    BY DEF Crosses
  <2>4. syncs[t].kind = "lexical" \/ syncs[t].kind = "hybrid"
    BY <2>1 DEF SyncFits, Engines
  <2> QED
    BY <1>3, <2>1, <2>2, <2>3, <2>4 DEF SyncFits, Early
<1> HIDE DEF new, begun
<1>7. SyncsFit'
  <2> SUFFICES ASSUME NEW t \in DOMAIN syncs' PROVE SyncFits(t, syncs'[t], new, f)
    BY <1>3 DEF SyncsFit
  <2> QED
    BY <1>4, <1>5, <1>6 DEF Adding
<1>8. DeltasFit'
  <2> SUFFICES ASSUME NEW d \in deltas PROVE DeltaFits(d, f)
    BY <1>3 DEF DeltasFit, Restart
  <2>1. d.step \notin {"indexing", "saving"}
    BY DEF Crosses
  <2> QED
    BY <2>1 DEF DeltasFit, DeltaFits
<1> QED
  BY <1>1, <1>2, <1>7, <1>8

(* The actions of the member and of the chain, one by one.                 *)
LEMMA SelectForumApart ==
  ASSUME Apart, NEW f \in Forums, SelectForum(f), past.crossed \in BOOLEAN,
         DOMAIN past = {"failures", "broken", "crossed"}, ~past'.crossed
  PROVE  Apart'
<1> USE DEF Apart
<1>1. CASE page.kind # "backend"
  <2>1. Restart(f, page.kind) /\ page.kind \in Engines
    BY <1>1 DEF SelectForum, PageFits
  <2>2. ~Crosses(f)
    BY <2>1 DEF Restart
  <2> QED
    BY <2>1, <2>2, RestartApart
<1>2. CASE page.kind = "backend"
  <2>1. /\ page' = [page EXCEPT !.forum = f]
        /\ UNCHANGED <<syncs, deltas, engines, store>>
    BY <1>2 DEF SelectForum
  <2>2. PageFits(page') /\ Anchored
    BY <2>1 DEF PageFits, Anchored
  <2>3. SyncsFit' /\ DeltasFit'
    BY <2>1, <2>2, SyncsStay, DeltasStay DEF Anchored
  <2> QED
    BY <2>1, <2>2, <2>3
<1> QED
  BY <1>1, <1>2

LEMMA SelectKindApart ==
  ASSUME Apart, NEW kind \in Kinds, SelectKind(kind), past.crossed \in BOOLEAN,
         DOMAIN past = {"failures", "broken", "crossed"}, ~past'.crossed
  PROVE  Apart'
<1> USE DEF Apart
<1>1. CASE kind # "backend"
  <2>1. Restart(page.forum, kind) /\ kind \in Engines /\ page.forum \in Forums
    BY <1>1, SearchBounds DEF SelectKind, PageFits, Engines
  <2>2. ~Crosses(page.forum)
    BY <2>1 DEF Restart
  <2> QED
    BY <2>1, <2>2, RestartApart
<1>2. CASE kind = "backend"
  <2>1. /\ page' = [page EXCEPT !.kind = kind]
        /\ UNCHANGED <<syncs, deltas, engines, store>>
    BY <1>2 DEF SelectKind
  <2>2. PageFits(page') /\ Anchored
    BY <1>2, <2>1 DEF PageFits, Anchored
  <2>3. SyncsFit' /\ DeltasFit'
    BY <2>1, <2>2, SyncsStay, DeltasStay DEF Anchored
  <2> QED
    BY <2>1, <2>2, <2>3
<1> QED
  BY <1>1, <1>2

(* Empty workers. *)
LEMMA NoEnginesFit ==
  ASSUME NEW e, e = [k \in {"lexical", "hybrid"} |-> [lru |-> <<>>, of |-> <<>>]]
  PROVE  EnginesFit(e)
<1>1. <<>> \in Seq(Forums) /\ DOMAIN <<>> = {} /\ ToSet(<<>>) = {}
  BY EmptySeq DEF ToSet
<1>2. DOMAIN e = Engines /\ \A k \in Engines : e[k] = [lru |-> <<>>, of |-> <<>>]
  BY DEF Engines
<1> QED
  BY <1>1, <1>2 DEF EnginesFit

LEMMA ReloadApart ==
  ASSUME Apart, Reload
  PROVE  Apart'
<1> USE DEF Apart
<1> DEFINE new == page.token + 1
           begun == Began(new, page.forum, page.kind)
<1>1. EnginesFit(engines') /\ StoreFits(store')
  BY NoEnginesFit DEF Reload
<1>2. PageFits(page')
  <2>1. /\ DOMAIN page' = DOMAIN page /\ page'.forum = page.forum /\ page'.kind = page.kind
        /\ page'.token = page.token + 1
        /\ page'.active = IF page.kind = "backend" THEN Unvisited ELSE page.forum
        /\ page'.docs = NoDocs /\ page'.vectors = NoDocs /\ page'.ready = FALSE
    BY DEF PageFits, Reload
  <2>2. OfForum(page'.active, NoDocs) /\ page.token + 1 \in Nat
    BY NothingFits DEF PageFits
  <2> QED
    BY <2>1, <2>2 DEF PageFits
<1>3. DeltasFit'
  BY DEF Reload, DeltasFit
<1>4. page.token \in Nat /\ new \in Nat /\ page'.token = new /\ page.forum \in Forums
  BY DEF PageFits, Reload
<1>5. CASE page.kind = "backend"
  <2>1. DOMAIN syncs' = {}
    BY <1>5 DEF Reload
  <2> QED
    BY <1>1, <1>2, <1>3, <2>1 DEF SyncsFit
<1>6. CASE page.kind # "backend"
  <2>1. syncs' = begun /\ page'.active = page.forum /\ page.kind \in Engines
    BY <1>6 DEF Reload, PageFits
  <2>2. DOMAIN begun = {new} /\ SyncFits(new, begun[new], new, page.forum)
    BY <1>4, <2>1, NothingFits DEF Began, SyncFits, JobOf, NoJob, Early, Engines
  <2> HIDE DEF new, begun
  <2> QED
    BY <1>1, <1>2, <1>3, <1>4, <2>1, <2>2 DEF SyncsFit
<1> QED
  BY <1>5, <1>6

LEMMA SearchApart ==
  ASSUME Apart, Search
  PROVE  Apart'
<1> USE DEF Apart
<1> DEFINE k == page.kind
           order == LruAfter(k, page.forum)
<1>1. /\ k \in Engines /\ page.forum \in Forums /\ page.forum \in DOMAIN engines[k].of
      /\ engines' = [engines EXCEPT ![k].lru = order]
      /\ UNCHANGED <<syncs, deltas, store>>
  BY DEF Search, PageFits
<1>2. /\ order \in Seq(Forums)
      /\ ToSet(order) \subseteq ToSet(engines[k].lru) \cup {page.forum}
  BY <1>1, LruAfterFits DEF EnginesFit
<1>3. page' = page \/ \E model \in {"loaded", "failed"} : page' = [page EXCEPT !.model = model]
  BY DEF Search
<1> HIDE DEF order
<1>4. EnginesFit(engines')
  BY <1>1, <1>2 DEF EnginesFit
<1>5. PageFits(page') /\ Anchored
  BY <1>3 DEF PageFits, Anchored
<1>6. SyncsFit' /\ DeltasFit'
  BY <1>1, <1>5, SyncsStay, DeltasStay DEF Anchored
<1> QED
  BY <1>1, <1>4, <1>5, <1>6

-----------------------------------------------------------------------------
(* What the page knows of the forum it shows.                              *)
PageGoesOn ==
  /\ DOMAIN page' = DOMAIN page /\ Anchored
  /\ page'.forum = page.forum /\ page'.kind = page.kind /\ page'.ready \in BOOLEAN
  /\ page.active \in Forums =>
        OfForum(page.active, page'.docs) /\ OfForum(page.active, page'.vectors)

(* What a step of a sync or of a delta may do to the page.                 *)
LEMMA PageGoesOnFits ==
  ASSUME PageFits(page), PageGoesOn
  PROVE  PageFits(page')
  BY DEF PageFits, PageGoesOn, Anchored

LEMMA CapturedFits ==
  ASSUME PageFits(page), NEW kind, NEW f, NEW job, JobOf(kind, f, job),
         f = page.active \/ job.missing = {}, page.active \in Forums
  PROVE  OfForum(page.active, Captured(job))
<1> DEFINE made == Restrict(job.docs, job.missing)
<1>1. OfForum(page.active, made)
  <2>1. CASE f = page.active
    BY <2>1, RestrictFits DEF JobOf
  <2>2. CASE job.missing = {}
    BY <2>2 DEF OfForum, Range, Restrict
  <2> QED
    BY <2>1, <2>2
<1>2. OfForum(page.active, page.vectors)
  BY DEF PageFits
<1>3. Captured(job) = Adding(made, page.vectors)
  BY DEF Captured
<1> HIDE DEF made
<1> QED
  BY <1>1, <1>2, <1>3, AddingFits

LEMMA VectorsSavedFit ==
  ASSUME PageFits(page), StoreFits(store), page.active \in Forums, NEW kind
  PROVE  StoreFits(VectorsSaved(kind, page.active))
<1> SUFFICES ASSUME NEW new, new = VectorsSaved(kind, page.active)
             PROVE  StoreFits(new)
  OBVIOUS
<1> DEFINE kept == Persistable
<1>1. OfForum(page.active, kept)
  BY RestrictFits DEF Persistable, PageFits
<1>2. new = [store EXCEPT ![page.active].vectors = kept] \/ new = store
  BY DEF VectorsSaved
<1> HIDE DEF kept
<1>3. CASE new = [store EXCEPT ![page.active].vectors = kept]
  <2>1. /\ DOMAIN new = Forums /\ \A f \in Forums : f # page.active => new[f] = store[f]
        /\ new[page.active] = [store[page.active] EXCEPT !.vectors = kept]
    BY <1>3 DEF StoreFits
  <2>2. \A f \in Forums : DOMAIN new[f] = {"docs", "vectors"}
    BY <2>1 DEF StoreFits
  <2>3. new[page.active].docs = store[page.active].docs /\ new[page.active].vectors = kept
    BY <2>1 DEF StoreFits
  <2>4. \A f \in Forums : OfForum(f, new[f].docs) /\ OfForum(f, new[f].vectors)
    <3> SUFFICES ASSUME NEW f \in Forums
                 PROVE  OfForum(f, new[f].docs) /\ OfForum(f, new[f].vectors)
      OBVIOUS
    <3>1. CASE f = page.active
      BY <1>1, <2>3, <3>1 DEF StoreFits
    <3>2. CASE f # page.active
      BY <2>1, <3>2 DEF StoreFits
    <3> QED
      BY <3>1, <3>2
  <2> QED
    BY <2>1, <2>2, <2>4 DEF StoreFits
<1>4. CASE new = store
  BY <1>4
<1> QED
  BY <1>2, <1>3, <1>4

(* A sync that was not superseded is of the forum the page shows; one that *)
(* was has only what changes nothing before it.                            *)
LEMMA SyncIs ==
  ASSUME PageFits(page), SyncsFit, NEW t \in DOMAIN syncs
  PROVE  /\ SyncFits(t, syncs[t], page.token, page.active)
         /\ syncs[t].forum \in Forums /\ syncs[t].kind \in Engines
         /\ JobOf(syncs[t].kind, syncs[t].forum, syncs[t].job)
         /\ ~IsStale(t) => syncs[t].forum = page.active
         /\ IsStale(t) /\ syncs[t].step \in {"hydrating", "indexing"}
              => syncs[t].job.missing = {} /\ syncs[t].kind = "lexical"
         /\ syncs[t].step = "saving" => ~IsStale(t)
<1>1. SyncFits(t, syncs[t], page.token, page.active)
  BY DEF SyncsFit
<1> QED
  BY <1>1 DEF SyncFits, IsStale, JobOf, Engines

LEMMA MineBlockApart ==
  ASSUME Apart, MineBlock
  PROVE  Apart'
  BY DEF Apart, MineBlock, SyncsFit, DeltasFit

LEMMA SyncDeltaApart ==
  ASSUME Apart, SyncDelta
  PROVE  Apart'
<1> USE DEF Apart
<1>1. page' = [page EXCEPT !.seen = chain.head] /\ UNCHANGED <<syncs, engines, store>>
  BY DEF SyncDelta
<1>2. PageFits(page') /\ Anchored
  BY <1>1 DEF PageFits, Anchored
<1>3. SyncsFit'
  BY <1>1, <1>2, SyncsStay
<1>4. DeltasFit'
  <2>1. CASE deltas' = deltas
    BY <1>2, <2>1, DeltasStay DEF Anchored
  <2>2. CASE deltas' # deltas
    <3> DEFINE d == [forum |-> page.forum, kind |-> page.kind, from |-> page.cursor,
                     safe |-> 0, ids |-> {}, job |-> NoJob, step |-> "head"]
    <3>1. page.kind # "backend" /\ page.forum = page.active /\ deltas' = deltas \cup {d}
      BY <2>2 DEF SyncDelta
    <3>2. DeltaFits(d, page.active)
      BY <3>1, NothingFits DEF DeltaFits, PageFits, JobOf, NoJob
    <3> HIDE DEF d
    <3> QED
      BY <1>2, <3>1, <3>2, DeltaGoesOn DEF Anchored
  <2> QED
    BY <2>1, <2>2
<1> QED
  BY <1>1, <1>2, <1>3, <1>4

LEMMA BailApart ==
  ASSUME Apart, NEW t \in DOMAIN syncs, Bail(t)
  PROVE  Apart'
<1> USE DEF Apart
<1>1. syncs' = Without(t) /\ UNCHANGED <<page, deltas, engines, store>> /\ Anchored
  BY DEF Bail, Anchored
<1>2. SyncsFit' /\ DeltasFit'
  BY <1>1, SyncsStay, DeltasStay
<1> QED
  BY <1>1, <1>2

(* A sync that goes on to what it awaits next. *)
LEMMA GoFits ==
  ASSUME PageFits(page), SyncsFit, Anchored, NEW t \in DOMAIN syncs, ~IsStale(t),
         NEW step \in Early, Go(t, step)
  PROVE  SyncsFit'
<1>1. syncs' = [syncs EXCEPT ![t].step = step]
  BY DEF Go
<1>2. SyncFits(t, syncs[t], page.token, page.active) /\ t = page.token
  BY DEF SyncsFit, IsStale
<1>3. /\ DOMAIN syncs' = DOMAIN syncs
      /\ \A u \in DOMAIN syncs : u # t => syncs'[u] = syncs[u]
      /\ syncs'[t] = [syncs[t] EXCEPT !.step = step]
  BY <1>1
<1>4. SyncFits(t, syncs'[t], page.token, page.active)
  BY <1>2, <1>3 DEF SyncFits, Early
<1> QED
  BY <1>3, <1>4, SyncGoesOn

(* A sync that asks the worker for an index of the forum on screen.        *)
LEMMA AwaitFits ==
  ASSUME Apart, Anchored, NEW t \in DOMAIN syncs, ~IsStale(t),
         page.active \in Forums,
         NEW step \in Early \cup {"indexing"}, NEW docs, OfForum(page.active, docs),
         Await(t, step, docs)
  PROVE  SyncsFit' /\ EnginesFit(engines')
<1> USE DEF Apart
<1> DEFINE f == syncs[t].forum
           kind == syncs[t].kind
           job == Job(kind, f, docs, TRUE, page.vectors)
<1>1. /\ SyncFits(t, syncs[t], page.token, page.active) /\ t = page.token
      /\ f = page.active /\ kind \in Engines
  BY SyncIs DEF IsStale
<1>2. /\ engines' = Index(kind, f, docs, TRUE, page.vectors)
      /\ syncs' = [syncs EXCEPT ![t].step = step, ![t].job = job]
  BY DEF Await
<1>3. OfForum(f, docs) /\ OfForum(f, page.vectors) /\ f \in Forums
  BY <1>1 DEF PageFits
<1> HIDE DEF f, kind
<1>4. EnginesFit(engines') /\ JobOf(kind, f, job)
  BY <1>1, <1>2, <1>3, IndexFits
<1> HIDE DEF job
<1>5. /\ DOMAIN syncs' = DOMAIN syncs
      /\ \A u \in DOMAIN syncs : u # t => syncs'[u] = syncs[u]
      /\ syncs'[t] = [syncs[t] EXCEPT !.step = step, !.job = job]
  BY <1>2
<1>6. DOMAIN syncs[t] = {"forum", "kind", "safe", "ranked", "job", "step"}
  BY <1>1 DEF SyncFits
<1>7. /\ DOMAIN syncs'[t] = DOMAIN syncs[t] /\ syncs'[t].forum = f /\ syncs'[t].kind = kind
      /\ syncs'[t].job = job /\ syncs'[t].step = step
  BY <1>5, <1>6 DEF f, kind
<1>8. SyncFits(t, syncs'[t], page.token, page.active)
  BY <1>1, <1>3, <1>4, <1>6, <1>7 DEF SyncFits
<1> QED
  BY <1>4, <1>5, <1>8, SyncGoesOn

(* The steps of a sync.                                                    *)
LEMMA LoadForumEmbeddingsApart ==
  ASSUME Apart, NEW t \in DOMAIN syncs, LoadForumEmbeddings(t)
  PROVE  Apart'
<1> USE DEF Apart
<1> DEFINE vectors == Adding(store[syncs[t].forum].vectors, page.vectors)
<1>1. /\ ~IsStale(t) /\ Go(t, "load") /\ UNCHANGED <<deltas, engines, store>>
      /\ page' = [page EXCEPT !.vectors = vectors]
  BY DEF LoadForumEmbeddings
<1>2. page.active \in Forums => OfForum(page.active, vectors)
  <2> SUFFICES ASSUME page.active \in Forums PROVE OfForum(page.active, vectors)
    OBVIOUS
  <2>1. syncs[t].forum = page.active
    BY <1>1, SyncIs
  <2>2. OfForum(page.active, store[page.active].vectors) /\ OfForum(page.active, page.vectors)
    BY DEF StoreFits, PageFits
  <2> QED
    BY <2>1, <2>2, AddingFits
<1> HIDE DEF vectors
<1>3. PageGoesOn /\ PageFits(page') /\ Anchored
  BY <1>1, <1>2, PageGoesOnFits DEF PageGoesOn, PageFits, Anchored
<1>4. SyncsFit' /\ DeltasFit'
  BY <1>1, <1>3, GoFits, DeltasStay DEF Early, Anchored
<1> QED
  BY <1>1, <1>3, <1>4

LEMMA LoadForumIndexApart ==
  ASSUME Apart, NEW t \in DOMAIN syncs, LoadForumIndex(t)
  PROVE  Apart'
<1> USE DEF Apart
<1> DEFINE docs == store[syncs[t].forum].docs
<1>1. ~IsStale(t) /\ UNCHANGED <<deltas, store>>
  BY DEF LoadForumIndex
<1>2. syncs[t].forum = page.active /\ page.active \in Forums
  BY <1>1, SyncIs
<1>3. CASE docs = NoDocs
  <2>1. Go(t, "head") /\ UNCHANGED <<page, engines>> /\ Anchored
    BY <1>3 DEF LoadForumIndex, Anchored
  <2>2. SyncsFit' /\ DeltasFit'
    BY <1>1, <2>1, GoFits, DeltasStay DEF Early, Anchored
  <2> QED
    BY <1>1, <2>1, <2>2
<1>4. CASE docs # NoDocs
  <2>1. page' = [page EXCEPT !.docs = docs] /\ Await(t, "hydrating", docs)
    BY <1>4 DEF LoadForumIndex
  <2>2. OfForum(page.active, docs)
    BY <1>2 DEF StoreFits
  <2> HIDE DEF docs
  <2>3. PageGoesOn /\ PageFits(page') /\ Anchored
    BY <2>1, <2>2, PageGoesOnFits DEF PageGoesOn, PageFits, Anchored
  <2>4. SyncsFit' /\ EnginesFit(engines')
    BY <1>1, <1>2, <2>1, <2>2, <2>3, AwaitFits DEF Early
  <2>5. DeltasFit'
    BY <1>1, <2>3, DeltasStay DEF Anchored
  <2> QED
    BY <1>1, <2>3, <2>4, <2>5
<1> QED
  BY <1>3, <1>4

LEMMA ReadHeadApart ==
  ASSUME Apart, NEW t \in DOMAIN syncs, ReadHead(t)
  PROVE  Apart'
<1> USE DEF Apart
<1>1. /\ ~IsStale(t) /\ UNCHANGED <<page, deltas, engines, store>> /\ Anchored
      /\ syncs' = [syncs EXCEPT ![t].step = "ranked", ![t].safe = SafeHead]
  BY DEF ReadHead, Anchored
<1>2. SyncFits(t, syncs[t], page.token, page.active) /\ t = page.token
  BY <1>1, SyncIs DEF IsStale
<1>3. /\ DOMAIN syncs' = DOMAIN syncs
      /\ \A u \in DOMAIN syncs : u # t => syncs'[u] = syncs[u]
      /\ syncs'[t] = [syncs[t] EXCEPT !.step = "ranked", !.safe = SafeHead]
  BY <1>1
<1>4. SyncFits(t, syncs'[t], page.token, page.active)
  BY <1>2, <1>3 DEF SyncFits, Early
<1>5. SyncsFit' /\ DeltasFit'
  BY <1>1, <1>3, <1>4, SyncGoesOn, DeltasStay
<1> QED
  BY <1>1, <1>5

LEMMA ReadRankedApart ==
  ASSUME Apart, NEW t \in DOMAIN syncs, ReadRanked(t)
  PROVE  Apart'
<1> USE DEF Apart
<1> DEFINE ids == RankedStatements(syncs[t].forum)
<1>1. /\ ~IsStale(t) /\ UNCHANGED <<page, deltas, engines, store>> /\ Anchored
      /\ syncs' = [syncs EXCEPT ![t].step = "reads", ![t].ranked = ids]
  BY DEF ReadRanked, Anchored
<1> HIDE DEF ids
<1>2. SyncFits(t, syncs[t], page.token, page.active) /\ t = page.token
  BY <1>1, SyncIs DEF IsStale
<1>3. /\ DOMAIN syncs' = DOMAIN syncs
      /\ \A u \in DOMAIN syncs : u # t => syncs'[u] = syncs[u]
      /\ syncs'[t] = [syncs[t] EXCEPT !.step = "reads", !.ranked = ids]
  BY <1>1
<1>4. SyncFits(t, syncs'[t], page.token, page.active)
  BY <1>2, <1>3 DEF SyncFits, Early
<1>5. SyncsFit' /\ DeltasFit'
  BY <1>1, <1>3, <1>4, SyncGoesOn, DeltasStay
<1> QED
  BY <1>1, <1>5

LEMMA ReadChainApart ==
  ASSUME Apart, NEW t \in DOMAIN syncs, ReadChain(t)
  PROVE  Apart'
<1> USE DEF Apart
<1> DEFINE f == syncs[t].forum
           safe == syncs[t].safe
           merged == StatementsByIds(f,
             syncs[t].ranked \cup EngagedStatementIds(f, WindowStart(safe), safe))
<1>1. /\ ~IsStale(t) /\ UNCHANGED <<deltas, store>>
      /\ page' = [page EXCEPT !.docs = merged, !.cursor = safe]
      /\ Await(t, "indexing", merged)
  BY DEF ReadChain
<1>2. f = page.active /\ page.active \in Forums
  BY <1>1, SyncIs
<1>3. OfForum(page.active, merged)
  BY <1>2, StatementsFit
<1> HIDE DEF merged, f, safe
<1>4. PageGoesOn /\ PageFits(page') /\ Anchored
  BY <1>1, <1>3, PageGoesOnFits DEF PageGoesOn, PageFits, Anchored
<1>5. SyncsFit' /\ EnginesFit(engines')
  BY <1>1, <1>2, <1>3, <1>4, AwaitFits
<1>6. DeltasFit'
  BY <1>1, <1>4, DeltasStay DEF Anchored
<1> QED
  BY <1>1, <1>4, <1>5, <1>6

LEMMA HydratedApart ==
  ASSUME Apart, NEW t \in DOMAIN syncs, Hydrated(t)
  PROVE  Apart'
<1> USE DEF Apart
<1> DEFINE job == syncs[t].job
           vectors == Captured(job)
           model == Extractor(job.missing)
<1>1. /\ syncs[t].step = "hydrating"
      /\ engines' = AfterWorker(syncs[t].kind, syncs[t].forum, job)
      /\ page' = [page EXCEPT !.vectors = vectors, !.ready = @ \/ ~IsStale(t),
                              !.model = model]
      /\ syncs' = Without(t) \/ (~IsStale(t) /\ Go(t, "head"))
      /\ UNCHANGED <<deltas, store>>
  BY DEF Hydrated
<1>2. /\ syncs[t].forum \in Forums /\ syncs[t].kind \in Engines
      /\ JobOf(syncs[t].kind, syncs[t].forum, job)
      /\ syncs[t].forum = page.active \/ job.missing = {}
  BY <1>1, SyncIs
<1>3. EnginesFit(engines')
  BY <1>1, <1>2, AfterWorkerFits
<1>4. page.active \in Forums => OfForum(page.active, vectors)
  BY <1>2, CapturedFits
<1> HIDE DEF job, vectors, model
<1>5. PageGoesOn /\ PageFits(page') /\ Anchored
  BY <1>1, <1>4, PageGoesOnFits DEF PageGoesOn, PageFits, Anchored
<1>6. SyncsFit'
  BY <1>1, <1>5, SyncsStay, GoFits DEF Early
<1>7. DeltasFit'
  BY <1>1, <1>5, DeltasStay DEF Anchored
<1> QED
  BY <1>1, <1>3, <1>5, <1>6, <1>7

LEMMA IndexedApart ==
  ASSUME Apart, NEW t \in DOMAIN syncs, Indexed(t)
  PROVE  Apart'
<1> USE DEF Apart
<1> DEFINE job == syncs[t].job
           vectors == Captured(job)
           model == Extractor(job.missing)
           f == syncs[t].forum
<1>1. /\ syncs[t].step = "indexing"
      /\ engines' = AfterWorker(syncs[t].kind, f, job)
      /\ page' = [page EXCEPT !.vectors = vectors, !.model = model]
      /\ UNCHANGED deltas
  BY DEF Indexed
<1>2. /\ f \in Forums /\ syncs[t].kind \in Engines
      /\ JobOf(syncs[t].kind, f, job)
      /\ f = page.active \/ job.missing = {}
      /\ SyncFits(t, syncs[t], page.token, page.active)
      /\ ~IsStale(t) => f = page.active /\ t = page.token
  BY <1>1, SyncIs DEF IsStale
<1>3. EnginesFit(engines')
  BY <1>1, <1>2, AfterWorkerFits
<1>4. page.active \in Forums => OfForum(page.active, vectors)
  BY <1>2, CapturedFits
<1> HIDE DEF vectors, model
<1>5. PageGoesOn /\ PageFits(page') /\ Anchored
  BY <1>1, <1>4, PageGoesOnFits DEF PageGoesOn, PageFits, Anchored
<1>6. DeltasFit'
  BY <1>1, <1>5, DeltasStay DEF Anchored
<1>7. SyncsFit' /\ StoreFits(store')
  <2>1. CASE IsStale(t)
    BY <1>5, <2>1, SyncsStay DEF Indexed
  <2>2. CASE ~IsStale(t)
    <3>1. /\ syncs' = [syncs EXCEPT ![t].step = "saving", ![t].job = NoJob]
          /\ store' = [store EXCEPT ![f].docs = job.docs]
      BY <2>2 DEF Indexed
    <3>2. OfForum(f, job.docs)
      BY <1>2 DEF JobOf
    <3>3. /\ DOMAIN syncs' = DOMAIN syncs
          /\ \A u \in DOMAIN syncs : u # t => syncs'[u] = syncs[u]
          /\ syncs'[t] = [syncs[t] EXCEPT !.step = "saving", !.job = NoJob]
      BY <3>1
    <3>4. SyncFits(t, syncs'[t], page.token, page.active)
      <4>1. JobOf(syncs[t].kind, f, NoJob)
        BY NothingFits DEF JobOf, NoJob
      <4>2. /\ DOMAIN syncs'[t] = DOMAIN syncs[t] /\ syncs'[t].step = "saving"
            /\ syncs'[t].forum = f /\ syncs'[t].kind = syncs[t].kind
            /\ syncs'[t].job = NoJob
        BY <1>2, <3>3 DEF SyncFits
      <4> QED
        BY <1>2, <2>2, <4>1, <4>2 DEF SyncFits
    <3>5. SyncsFit'
      BY <1>5, <3>3, <3>4, SyncGoesOn
    <3> HIDE DEF f, job
    <3>6. StoreFits(store')
      BY <1>2, <3>1, <3>2 DEF StoreFits
    <3> QED
      BY <3>5, <3>6
  <2> QED
    BY <2>1, <2>2
<1> QED
  BY <1>3, <1>5, <1>6, <1>7

LEMMA SavedApart ==
  ASSUME Apart, NEW t \in DOMAIN syncs, Saved(t)
  PROVE  Apart'
<1> USE DEF Apart
<1>1. /\ syncs[t].step = "saving"
      /\ store' = VectorsSaved(syncs[t].kind, syncs[t].forum)
      /\ page' = [page EXCEPT !.ready = TRUE, !.indexing = @ /\ IsStale(t)]
      /\ syncs' = Without(t)
      /\ UNCHANGED <<deltas, engines>>
  BY DEF Saved
<1>2. syncs[t].forum = page.active /\ page.active \in Forums
  BY <1>1, SyncIs
<1>3. StoreFits(store')
  BY <1>1, <1>2, VectorsSavedFit
<1>4. PageGoesOn /\ PageFits(page') /\ Anchored
  BY <1>1, PageGoesOnFits DEF PageGoesOn, PageFits, Anchored
<1>5. SyncsFit' /\ DeltasFit'
  BY <1>1, <1>4, SyncsStay, DeltasStay DEF Anchored
<1> QED
  BY <1>1, <1>3, <1>4, <1>5

LEMMA SyncEndsApart ==
  ASSUME Apart, NEW t \in DOMAIN syncs, NEW model, SyncEnds(t, model)
  PROVE  Apart'
<1> USE DEF Apart
<1>1. /\ syncs' = Without(t)
      /\ page' = [page EXCEPT !.indexing = @ /\ IsStale(t), !.model = model]
      /\ UNCHANGED <<deltas, engines, store>>
  BY DEF SyncEnds
<1>2. PageGoesOn /\ PageFits(page') /\ Anchored
  BY <1>1, PageGoesOnFits DEF PageGoesOn, PageFits, Anchored
<1>3. SyncsFit' /\ DeltasFit'
  BY <1>1, <1>2, SyncsStay, DeltasStay DEF Anchored
<1> QED
  BY <1>1, <1>2, <1>3

(* All steps of a sync.                                                    *)
LEMMA SyncStepApart ==
  ASSUME Apart, NEW t \in DOMAIN syncs, SyncStep(t) \/ SyncFails(t)
  PROVE  Apart'
<1>1. CASE SyncHasNoModel(t)
  BY <1>1, SyncEndsApart DEF SyncHasNoModel
<1>2. CASE SyncFails(t)
  BY <1>2, SyncEndsApart DEF SyncFails
<1> QED
  BY <1>1, <1>2, BailApart, LoadForumEmbeddingsApart, LoadForumIndexApart, HydratedApart,
     ReadHeadApart, ReadRankedApart, ReadChainApart, IndexedApart, SavedApart
  DEF SyncStep

-----------------------------------------------------------------------------
(* A delta.                                                                *)
LEMMA DeltaIs ==
  ASSUME DeltasFit, NEW d \in deltas
  PROVE  /\ DeltaFits(d, page.active)
         /\ d.forum \in Forums /\ d.kind \in Engines /\ JobOf(d.kind, d.forum, d.job)
         /\ d.step \in {"indexing", "saving"} => d.forum = page.active
  BY DEF DeltasFit, DeltaFits

LEMMA DeltaHeadApart ==
  ASSUME Apart, NEW d \in deltas, DeltaHead(d)
  PROVE  Apart'
<1> USE DEF Apart
<1>1. UNCHANGED <<page, syncs, engines, store>> /\ Anchored
  BY DEF DeltaHead, Anchored
<1> DEFINE next == [d EXCEPT !.step = "logs", !.safe = SafeHead]
<1>2. DeltaFits(next, page.active)
  BY DeltaIs DEF DeltaFits
<1>3. deltas' \subseteq deltas \cup {next}
  BY DEF DeltaHead, Become, Drop
<1> HIDE DEF next
<1>4. SyncsFit' /\ DeltasFit'
  BY <1>1, <1>2, <1>3, SyncsStay, DeltaGoesOn
<1> QED
  BY <1>1, <1>4

LEMMA DeltaLogsApart ==
  ASSUME Apart, NEW d \in deltas, DeltaLogs(d)
  PROVE  Apart'
<1> USE DEF Apart
<1> DEFINE new == EngagedStatementIds(d.forum, d.from + 1, d.safe) \ DOMAIN page.docs
           next == [d EXCEPT !.step = "texts", !.ids = new]
<1>1. UNCHANGED <<syncs, engines, store>>
      /\ (page' = page \/ page' = [page EXCEPT !.cursor = d.safe])
      /\ deltas' \subseteq deltas \cup {next}
  BY DEF DeltaLogs, Become, Drop
<1>2. PageGoesOn /\ PageFits(page') /\ Anchored
  BY <1>1, PageGoesOnFits DEF PageGoesOn, PageFits, Anchored
<1> HIDE DEF new
<1>3. DeltaFits(next, page.active)
  BY DeltaIs DEF DeltaFits
<1> HIDE DEF next
<1>4. SyncsFit' /\ DeltasFit'
  BY <1>1, <1>2, <1>3, SyncsStay, DeltaGoesOn DEF Anchored
<1> QED
  BY <1>1, <1>2, <1>4

LEMMA DeltaTextsApart ==
  ASSUME Apart, NEW d \in deltas, DeltaTexts(d)
  PROVE  Apart'
<1> USE DEF Apart
<1> DEFINE docs == StatementsByIds(d.forum, d.ids)
           job == Job(d.kind, d.forum, docs, FALSE, NoDocs)
           next == [d EXCEPT !.step = "indexing", !.job = job]
           all == Adding(docs, page.docs)
<1>1. UNCHANGED <<syncs, store>>
  BY DEF DeltaTexts
<1>2. CASE ~SameForum(d)
  <2>1. UNCHANGED <<page, engines>> /\ deltas' \subseteq deltas /\ Anchored
    BY <1>2 DEF DeltaTexts, Drop, Anchored
  <2>2. SyncsFit' /\ DeltasFit'
    BY <1>1, <2>1, SyncsStay, DeltasStay
  <2> QED
    BY <1>1, <2>1, <2>2
<1>3. CASE SameForum(d)
  <2>1. /\ page' = [page EXCEPT !.docs = all]
        /\ engines' = Index(d.kind, d.forum, docs, FALSE, NoDocs)
        /\ deltas' \subseteq deltas \cup {next}
    BY <1>3 DEF DeltaTexts, Become
  <2>2. d.forum = page.active /\ d.forum \in Forums /\ d.kind \in Engines
    BY <1>3, DeltaIs DEF SameForum
  <2>3. OfForum(d.forum, docs) /\ OfForum(d.forum, NoDocs)
    BY StatementsFit, NothingFits
  <2>4. OfForum(page.active, all)
    BY <2>2, <2>3, AddingFits DEF PageFits
  <2>5. EnginesFit(engines') /\ JobOf(d.kind, d.forum, job)
    <3> HIDE DEF docs
    <3>1. FALSE \in BOOLEAN
      OBVIOUS
    <3> QED
      BY <2>1, <2>2, <2>3, <3>1, IndexFits
  <2> HIDE DEF docs, job, all
  <2>6. DeltaFits(next, page.active)
    <3>1. DeltaFits(d, page.active)
      BY DeltaIs
    <3>2. /\ DOMAIN next = DOMAIN d /\ next.forum = d.forum /\ next.kind = d.kind
          /\ next.job = job /\ next.step = "indexing"
      BY <3>1 DEF DeltaFits
    <3> HIDE DEF next
    <3> QED
      BY <2>2, <2>5, <3>1, <3>2 DEF DeltaFits
  <2> HIDE DEF next
  <2>7. PageGoesOn /\ PageFits(page') /\ Anchored
    BY <2>1, <2>4, PageGoesOnFits DEF PageGoesOn, PageFits, Anchored
  <2>8. SyncsFit' /\ DeltasFit'
    BY <1>1, <2>1, <2>6, <2>7, SyncsStay, DeltaGoesOn DEF Anchored
  <2> QED
    BY <1>1, <2>5, <2>7, <2>8
<1> QED
  BY <1>2, <1>3

LEMMA DeltaIndexedApart ==
  ASSUME Apart, NEW d \in deltas, DeltaIndexed(d)
  PROVE  Apart'
<1> USE DEF Apart
<1> DEFINE vectors == Captured(d.job)
           model == Extractor(d.job.missing)
           next == [d EXCEPT !.step = "saving", !.job = NoJob]
<1>1. /\ d.step = "indexing" /\ UNCHANGED syncs
      /\ engines' = AfterWorker(d.kind, d.forum, d.job)
      /\ page' = [page EXCEPT !.vectors = vectors, !.cursor = d.safe, !.model = model]
      /\ store' = [store EXCEPT ![d.forum].docs = page.docs]
      /\ deltas' \subseteq deltas \cup {next}
  BY DEF DeltaIndexed, Become
<1>2. d.forum = page.active /\ d.forum \in Forums /\ d.kind \in Engines
      /\ JobOf(d.kind, d.forum, d.job) /\ DeltaFits(d, page.active)
  BY <1>1, DeltaIs
<1>3. EnginesFit(engines')
  BY <1>1, <1>2, AfterWorkerFits
<1>4. OfForum(page.active, vectors)
  BY <1>2, CapturedFits
<1> HIDE DEF vectors, model
<1>5. PageGoesOn /\ PageFits(page') /\ Anchored
  BY <1>1, <1>4, PageGoesOnFits DEF PageGoesOn, PageFits, Anchored
<1>6. StoreFits(store')
  BY <1>1, <1>2 DEF StoreFits, PageFits
<1>7. DeltaFits(next, page.active)
  <2>1. JobOf(d.kind, d.forum, NoJob)
    BY NothingFits DEF JobOf, NoJob
  <2>2. /\ DOMAIN next = DOMAIN d /\ next.forum = d.forum /\ next.kind = d.kind
        /\ next.job = NoJob /\ next.step = "saving"
    BY <1>2 DEF DeltaFits
  <2> HIDE DEF next
  <2> QED
    BY <1>2, <2>1, <2>2 DEF DeltaFits
<1> HIDE DEF next
<1>8. SyncsFit' /\ DeltasFit'
  BY <1>1, <1>5, <1>7, SyncsStay, DeltaGoesOn DEF Anchored
<1> QED
  BY <1>3, <1>5, <1>6, <1>8

LEMMA DeltaSavedApart ==
  ASSUME Apart, NEW d \in deltas, DeltaSaved(d)
  PROVE  Apart'
<1> USE DEF Apart
<1>1. /\ d.step = "saving" /\ store' = VectorsSaved(d.kind, d.forum)
      /\ deltas' \subseteq deltas /\ UNCHANGED <<page, syncs, engines>> /\ Anchored
  BY DEF DeltaSaved, Drop, Anchored
<1>2. d.forum = page.active /\ page.active \in Forums
  BY <1>1, DeltaIs
<1>3. StoreFits(store')
  BY <1>1, <1>2, VectorsSavedFit
<1>4. SyncsFit' /\ DeltasFit'
  BY <1>1, SyncsStay, DeltasStay
<1> QED
  BY <1>1, <1>3, <1>4

(* A delta that is given up. *)
LEMMA DeltaGivenUpApart ==
  ASSUME Apart, NEW d \in deltas, DeltaFails(d) \/ DeltaHasNoModel(d)
  PROVE  Apart'
<1> USE DEF Apart
<1>1. /\ deltas' \subseteq deltas /\ UNCHANGED <<syncs, engines, store>>
      /\ page' = page \/ \E model : page' = [page EXCEPT !.model = model]
  BY DEF DeltaFails, DeltaHasNoModel, Drop
<1>2. PageGoesOn /\ PageFits(page') /\ Anchored
  BY <1>1, PageGoesOnFits DEF PageGoesOn, PageFits, Anchored
<1>3. SyncsFit' /\ DeltasFit'
  BY <1>1, <1>2, SyncsStay, DeltasStay DEF Anchored
<1> QED
  BY <1>1, <1>2, <1>3

(* All steps of a delta.                                                   *)
LEMMA DeltaStepApart ==
  ASSUME Apart, NEW d \in deltas, DeltaStep(d) \/ DeltaFails(d)
  PROVE  Apart'
  BY DeltaHeadApart, DeltaLogsApart, DeltaTextsApart, DeltaIndexedApart, DeltaSavedApart,
     DeltaGivenUpApart DEF DeltaStep

-----------------------------------------------------------------------------
(* That a restart crossed something is not forgotten.                      *)
LEMMA PastGoesOn ==
  ASSUME PastFits, SearchNext
  PROVE  PastFits' /\ (past.crossed => past'.crossed)
<1> USE DEF PastFits
<1>1. /\ MineBlock \/ SyncDelta \/ SomeDelta => past' = past
                  \/ past' = [past EXCEPT !.broken = TRUE]
      /\ \A f, kind : Restart(f, kind) =>
           past' = [past EXCEPT !.crossed = @ \/ Crosses(f), !.broken = FALSE]
      /\ \A broken : Broken(broken) =>
           past' = [past EXCEPT !.failures = @ + 1, !.broken = @ \/ broken]
  BY DEF MineBlock, SyncDelta, SomeDelta, DeltaStep, DeltaHead, DeltaLogs, DeltaTexts,
     DeltaIndexed, DeltaSaved, DeltaHasNoModel, Restart, Broken
<1>2. \A f, kind : Restart(f, kind) => PastFits' /\ (past.crossed => past'.crossed)
  BY <1>1
<1>3. \A broken \in BOOLEAN : Broken(broken) => PastFits' /\ (past.crossed => past'.crossed)
  BY <1>1
<1>4. UNCHANGED past => PastFits' /\ (past.crossed => past'.crossed)
  OBVIOUS
<1>5. CASE \E f \in Forums : SelectForum(f)
  BY <1>2, <1>4, <1>5 DEF SelectForum
<1>6. CASE \E kind \in Kinds : SelectKind(kind)
  BY <1>2, <1>4, <1>6 DEF SelectKind
<1>7. CASE Reload
  BY <1>7 DEF Reload
<1>8. CASE Search
  BY <1>3, <1>4, <1>8 DEF Search
<1>9. CASE \E t \in DOMAIN syncs : SyncStep(t) \/ SyncFails(t)
  <2>1. PICK t \in DOMAIN syncs : SyncStep(t) \/ SyncFails(t)
    BY <1>9
  <2>2. CASE SyncHasNoModel(t)
    BY <2>2 DEF SyncHasNoModel
  <2>3. CASE SyncFails(t)
    BY <1>3, <2>3 DEF SyncFails
  <2> QED
    BY <1>4, <2>1, <2>2, <2>3
    DEF SyncStep, Bail, LoadForumEmbeddings, LoadForumIndex, Hydrated, ReadHead, ReadRanked,
        ReadChain, Indexed, Saved
<1>10. CASE \E d \in deltas : DeltaFails(d)
  BY <1>3, <1>10 DEF DeltaFails
<1>11. CASE MineBlock \/ SyncDelta \/ SomeDelta
  BY <1>1, <1>11
<1> QED
  BY <1>5, <1>6, <1>7, <1>8, <1>9, <1>10, <1>11 DEF SearchNext

(* Every step, while nothing has been crossed.                             *)
LEMMA ApartNext ==
  ASSUME ApartInv, [SearchNext]_searchVars
  PROVE  ApartInv'
<1> USE DEF ApartInv
<1>1. CASE UNCHANGED searchVars
  BY <1>1 DEF searchVars, PastFits, Apart, SyncsFit, DeltasFit
<1>2. CASE SearchNext
  <2>1. PastFits' /\ (past.crossed => past'.crossed)
    BY <1>2, PastGoesOn
  <2>2. ASSUME ~past'.crossed PROVE Apart'
    <3>1. Apart /\ past.crossed \in BOOLEAN /\ DOMAIN past = {"failures", "broken", "crossed"}
      BY <2>1, <2>2 DEF PastFits
    <3> QED
      BY <1>2, <2>2, <3>1, SelectForumApart, SelectKindApart, ReloadApart, MineBlockApart,
         SyncDeltaApart, SearchApart, SyncStepApart, DeltaStepApart
      DEF SearchNext, SomeDelta
  <2> QED
    BY <2>1, <2>2
<1> QED
  BY <1>1, <1>2

(* At the start there is nothing.                                          *)
LEMMA ApartInit == SearchInit => ApartInv
<1> SUFFICES ASSUME SearchInit PROVE ApartInv
  OBVIOUS
<1> USE DEF SearchInit
<1>1. PastFits
  BY DEF PastFits
<1>2. EnginesFit(engines)
  BY NoEnginesFit
<1>3. StoreFits(store)
  BY NothingFits DEF StoreFits
<1>4. PageFits(page)
  BY NothingFits, SearchBounds DEF PageFits
<1>5. SyncsFit /\ DeltasFit
  BY DEF SyncsFit, DeltasFit
<1> QED
  BY <1>1, <1>2, <1>3, <1>4, <1>5 DEF ApartInv, Apart

(* The strengthened invariant.                                             *)
THEOREM ApartInvariant == SearchSpec => []ApartInv
  BY ApartInit, ApartNext, PTL DEF SearchSpec

(* Whatever the page, a worker or IndexedDB keeps for a forum was made     *)
(* from that forum's statements, however forums and engines are switched,  *)
(* unless a restart came while something was awaited whose rest does not   *)
(* ask whether the page has gone on.                                       *)
THEOREM ForumsAlwaysKeptApart == SearchSpec => []ForumsAreKeptApart
<1>1. ApartInv => ForumsAreKeptApart
  <2> SUFFICES ASSUME Apart PROVE NothingMixed
    BY DEF ApartInv, ForumsAreKeptApart
  <2>1. page.active \in Forums =>
          OfForum(page.active, page.docs) /\ OfForum(page.active, page.vectors)
    BY DEF Apart, PageFits
  <2>2. ASSUME NEW f \in Forums
        PROVE  /\ OfForum(f, store[f].docs) /\ OfForum(f, store[f].vectors)
               /\ \A k \in DOMAIN engines :
                     f \in DOMAIN engines[k].of => EngineIsOf(f, engines[k].of[f])
    BY DEF Apart, StoreFits, EnginesFit, EngineFits
  <2> QED
    BY <2>1, <2>2 DEF NothingMixed
<1> QED
  BY <1>1, ApartInvariant, PTL

-----------------------------------------------------------------------------
(* A worker that takes all documents anew knows them when it answers.      *)
LEMMA WorkerStarts ==
  ASSUME EnginesFit(engines), NEW kind \in Engines, NEW f \in Forums,
         NEW docs, OfForum(f, docs), NEW seeds, OfForum(f, seeds),
         NEW replace \in BOOLEAN, replace,
         NEW new, new = Index(kind, f, docs, replace, seeds),
         NEW job, job = Job(kind, f, docs, replace, seeds)
  PROVE  f \in DOMAIN new[kind].of /\ EngineKnows(docs, kind, {job}, new[kind].of[f])
<1>1. CASE kind = "lexical"
  <2>1. f \in DOMAIN new[kind].of /\ DOMAIN new[kind].of[f].entries = DOMAIN docs
    <3>1. new = LexicalIndex(f, docs, replace)
      BY <1>1 DEF Index
    <3>2. /\ f \in DOMAIN new["lexical"].of
          /\ DOMAIN new["lexical"].of[f].entries
               = DOMAIN docs \cup
                   (IF replace THEN {} ELSE DOMAIN EngineOf("lexical", f).entries)
      BY ONLY EnginesFit(engines), OfForum(f, docs), <3>1, LexicalIndexDoes
    <3> QED
      BY <1>1, <3>2
  <2>2. job.docs = docs
    BY DEF Job
  <2>3. WillBeIndexed(docs, kind, new[kind].of[f], job)
    BY <1>1, <2>1, <2>2 DEF WillBeIndexed
  <2> QED
    BY <2>1, <2>2, <2>3 DEF EngineKnows
<1>2. CASE kind = "hybrid"
  <2>1. /\ f \in DOMAIN new[kind].of /\ DOMAIN new[kind].of[f].entries = {}
        /\ new[kind].of[f].born = EngineOf("hybrid", f).born
        /\ DOMAIN new[kind].of[f].vectors = DOMAIN seeds
    <3>1. new = HybridBegin(f, replace, seeds)
      BY <1>2 DEF Index
    <3>0. PICK old : old = EngineOf("hybrid", f)
      OBVIOUS
    <3>2. /\ f \in DOMAIN new["hybrid"].of
          /\ new["hybrid"].of[f].born = old.born
          /\ DOMAIN new["hybrid"].of[f].entries = IF replace THEN {} ELSE DOMAIN old.entries
          /\ DOMAIN new["hybrid"].of[f].vectors
               = DOMAIN seeds \cup (IF replace THEN {} ELSE DOMAIN old.vectors)
      BY ONLY EnginesFit(engines), OfForum(f, seeds), <3>0, <3>1, HybridBeginDoes
    <3> QED
      BY <1>2, <3>0, <3>2
  <2>2. /\ job.docs = docs /\ job.born = EngineOf("hybrid", f).born
        /\ job.missing = DOMAIN docs \ DOMAIN seeds
    BY <1>2 DEF Job, Missing
  <2>3. WillBeIndexed(docs, kind, new[kind].of[f], job)
    BY <1>2, <2>1, <2>2 DEF WillBeIndexed
  <2> QED
    BY <2>1, <2>2, <2>3 DEF EngineKnows
<1> QED
  BY <1>1, <1>2 DEF Engines

(* One that takes more knows of them as well.                              *)
LEMMA WorkerTakes ==
  ASSUME EnginesFit(engines), NEW kind \in Engines, NEW f \in Forums,
         f \in DOMAIN engines[kind].of, NEW more, OfForum(f, more),
         NEW docs, NEW waiting, EngineKnows(docs, kind, waiting, engines[kind].of[f]),
         NEW replace \in BOOLEAN, ~replace,
         NEW new, new = Index(kind, f, more, replace, NoDocs),
         NEW job, job = Job(kind, f, more, replace, NoDocs)
  PROVE  /\ f \in DOMAIN new[kind].of
         /\ EngineKnows(Adding(more, docs), kind, waiting \cup {job}, new[kind].of[f])
<1> DEFINE old == engines[kind].of[f]
           all == Adding(more, docs)
<1>1. DOMAIN all = DOMAIN more \cup DOMAIN docs
  BY AddingDomain
<1>2. EngineOf(kind, f) = old
  BY DEF EngineOf
<1>3. OfForum(f, NoDocs) /\ DOMAIN NoDocs = {}
  BY NothingFits
<1>4. job.docs = more
  BY DEF Job
<1>5. CASE kind = "lexical"
  <2>1. /\ f \in DOMAIN new[kind].of
        /\ DOMAIN new[kind].of[f].entries = DOMAIN more \cup DOMAIN old.entries
    <3>1. new = LexicalIndex(f, more, replace)
      BY <1>5 DEF Index
    <3> HIDE DEF old
    <3> QED
      <4>1. /\ f \in DOMAIN new["lexical"].of
            /\ DOMAIN new["lexical"].of[f].entries
                 = DOMAIN more \cup
                     (IF replace THEN {} ELSE DOMAIN EngineOf("lexical", f).entries)
        BY <3>1, LexicalIndexDoes
      <4> QED
        BY <1>2, <1>5, <4>1
  <2> HIDE DEF all, old
  <2>2. \A j \in waiting \cup {job} : WillBeIndexed(all, kind, new[kind].of[f], j)
    BY <1>1, <1>4, <1>5, <2>1 DEF WillBeIndexed, EngineKnows, old
  <2>3. DOMAIN new[kind].of[f].entries \subseteq DOMAIN all
    BY <1>1, <2>1 DEF EngineKnows, old
  <2>4. \A id \in DOMAIN all : \/ id \in DOMAIN new[kind].of[f].entries
                               \/ \E j \in waiting \cup {job} : id \in DOMAIN j.docs
    BY <1>1, <2>1 DEF EngineKnows, old
  <2> QED
    BY <2>1, <2>2, <2>3, <2>4 DEF EngineKnows, all
<1>6. CASE kind = "hybrid"
  <2>1. /\ f \in DOMAIN new[kind].of
        /\ DOMAIN new[kind].of[f].entries = DOMAIN old.entries
        /\ new[kind].of[f].born = old.born
        /\ DOMAIN new[kind].of[f].vectors = DOMAIN old.vectors
    <3>1. new = HybridBegin(f, replace, NoDocs)
      BY <1>6 DEF Index
    <3> HIDE DEF old
    <3>2. PICK engine : engine = EngineOf("hybrid", f)
      OBVIOUS
    <3>3. OfForum(f, NoDocs)
      BY <1>3
    <3>4. /\ f \in DOMAIN new["hybrid"].of
          /\ new["hybrid"].of[f].born = engine.born
          /\ DOMAIN new["hybrid"].of[f].entries = IF replace THEN {} ELSE DOMAIN engine.entries
          /\ DOMAIN new["hybrid"].of[f].vectors
               = DOMAIN NoDocs \cup (IF replace THEN {} ELSE DOMAIN engine.vectors)
      BY ONLY EnginesFit(engines), <3>1, <3>2, <3>3, HybridBeginDoes
    <3> QED
      BY <1>2, <1>3, <1>6, <3>2, <3>4
  <2>2. job.born = old.born /\ job.missing = DOMAIN more \ DOMAIN old.vectors
    BY <1>2, <1>3, <1>6 DEF Job, Missing
  <2> HIDE DEF all, old
  <2>3. \A j \in waiting \cup {job} : WillBeIndexed(all, kind, new[kind].of[f], j)
    BY <1>1, <1>4, <1>6, <2>1, <2>2 DEF WillBeIndexed, EngineKnows, old
  <2>4. DOMAIN new[kind].of[f].entries \subseteq DOMAIN all
    BY <1>1, <2>1 DEF EngineKnows, old
  <2>5. \A id \in DOMAIN all : \/ id \in DOMAIN new[kind].of[f].entries
                               \/ \E j \in waiting \cup {job} : id \in DOMAIN j.docs
    BY <1>1, <1>4, <2>1 DEF EngineKnows, old
  <2> QED
    BY <2>1, <2>3, <2>4, <2>5 DEF EngineKnows, all
<1> QED
  BY <1>5, <1>6 DEF Engines

(* What it has answered is in the index.                                   *)
LEMMA WorkerAnswers ==
  ASSUME EnginesFit(engines), NEW kind \in Engines, NEW f \in Forums,
         f \in DOMAIN engines[kind].of, NEW docs, NEW waiting, NEW job \in waiting,
         JobOf(kind, f, job), EngineKnows(docs, kind, waiting, engines[kind].of[f]),
         NEW rest, rest \subseteq waiting, waiting \subseteq rest \cup {job},
         NEW new, new = AfterWorker(kind, f, job)
  PROVE  f \in DOMAIN new[kind].of /\ EngineKnows(docs, kind, rest, new[kind].of[f])
<1> DEFINE old == engines[kind].of[f]
<1>1. /\ DOMAIN old.entries \subseteq DOMAIN docs
      /\ \A j \in waiting : WillBeIndexed(docs, kind, old, j)
      /\ \A id \in DOMAIN docs :
           id \in DOMAIN old.entries \/ \E j \in waiting : id \in DOMAIN j.docs
  BY DEF EngineKnows
<1>2. CASE kind = "lexical"
  <2>1. new = engines
    BY <1>2 DEF AfterWorker
  <2>2. DOMAIN job.docs \subseteq DOMAIN old.entries
    BY <1>1, <1>2 DEF WillBeIndexed
  <2> QED
    BY <1>1, <2>1, <2>2 DEF EngineKnows
<1>3. CASE kind = "hybrid"
  <2>1. /\ DOMAIN job.docs \subseteq DOMAIN docs /\ job.born = old.born
        /\ DOMAIN job.docs \subseteq job.missing \cup DOMAIN old.vectors
    BY <1>1, <1>3 DEF WillBeIndexed
  <2>2. new = HybridEnd(f, job) /\ JobOf("hybrid", f, job)
    BY <1>3 DEF AfterWorker
  <2>3. /\ DOMAIN new[kind].of = DOMAIN engines[kind].of
        /\ new[kind].of[f].born = old.born
        /\ DOMAIN new[kind].of[f].vectors = job.missing \cup DOMAIN old.vectors
        /\ DOMAIN new[kind].of[f].entries
             = DOMAIN old.entries
                 \cup (DOMAIN job.docs \cap (job.missing \cup DOMAIN old.vectors))
    BY <1>3, <2>1, <2>2, HybridEndDoes
  <2> HIDE DEF old
  <2>4. DOMAIN new[kind].of[f].entries = DOMAIN old.entries \cup DOMAIN job.docs
    BY <2>1, <2>3
  <2>5. \A j \in rest : WillBeIndexed(docs, kind, new[kind].of[f], j)
    BY <1>1, <1>3, <2>3, <2>4 DEF WillBeIndexed
  <2>6. \A id \in DOMAIN docs : \/ id \in DOMAIN new[kind].of[f].entries
                                \/ \E j \in rest : id \in DOMAIN j.docs
    BY <1>1, <2>4
  <2>7. DOMAIN new[kind].of[f].entries \subseteq DOMAIN docs
    BY <1>1, <2>1, <2>4
  <2> QED
    BY <2>3, <2>5, <2>6, <2>7 DEF EngineKnows
<1> QED
  BY <1>2, <1>3 DEF Engines

-----------------------------------------------------------------------------
(* What is known stays known while the page stays where it is.             *)
Stays(p, q) ==
  /\ q.token = p.token /\ q.active = p.active /\ q.kind \in {p.kind, "backend"}
  /\ q.cursor = p.cursor /\ q.docs = p.docs

(* What a delta knows, what is known and what the worker serves.           *)
LEMMA DeltaKnowsStill ==
  ASSUME NEW c, NEW p, NEW d, DeltaKnows(c, p, d), NEW q,
         q.active = p.active, q.kind \in {p.kind, "backend"}, q.cursor # 0,
         DOMAIN p.docs \subseteq DOMAIN q.docs
  PROVE  DeltaKnows(c, q, d)
  BY DEF DeltaKnows, OwnKind, Covers

LEMMA KnownStill ==
  ASSUME NEW c, NEW p, NEW s, NEW ds, KnowsChain(c, p, s, ds), NEW q, Stays(p, q),
         NEW s2, p.token \in DOMAIN s2 => p.token \in DOMAIN s /\ s2[p.token] = s[p.token],
         NEW ds2, \A d \in ds2 : d.forum = p.active => d \in ds \/ DeltaKnows(c, p, d)
  PROVE  KnowsChain(c, q, s2, ds2)
<1>1. CursorFits(c, q)
  BY DEF KnowsChain, CursorFits, Stays
<1>2. q.token \in DOMAIN s2 => SyncKnows(c, q, s2[q.token])
  BY DEF KnowsChain, SyncKnows, OwnKind, Stays
<1>3. ASSUME NEW d \in ds2, d.forum = q.active PROVE DeltaKnows(c, q, d)
  <2>1. DeltaKnows(c, p, d)
    BY <1>3 DEF KnowsChain, DeltasKnow, Stays
  <2>2. q.cursor # 0
    BY <2>1 DEF DeltaKnows, Stays
  <2> QED
    BY <2>1, <2>2, DeltaKnowsStill DEF Stays
<1> QED
  BY <1>1, <1>2, <1>3 DEF KnowsChain, DeltasKnow

LEMMA ServedStill ==
  ASSUME NEW p, NEW e, NEW s, NEW ds, Served(p, e, s, ds),
         NEW q, Stays(p, q), q.ready = p.ready,
         NEW e2, q.kind # "backend" => e2[p.kind].of = e[p.kind].of,
         NEW s2, p.token \in DOMAIN s2 <=> p.token \in DOMAIN s,
         p.token \in DOMAIN s => s2[p.token] = s[p.token],
         NEW ds2, \A d \in ds2 \cup ds :
                     d.forum = p.active /\ d.step = "indexing" => d \in ds2 /\ d \in ds
  PROVE  Served(q, e2, s2, ds2)
<1>1. ReadyFits(q, s2)
  BY DEF Served, ReadyFits, Stays
<1>2. ASSUME q.kind # "backend", q.cursor # 0
      PROVE  WorkerKnows(q, e2, Waiting(q, s2, ds2))
  <2>1. q.kind = p.kind /\ p.cursor # 0 /\ p.kind # "backend"
    BY <1>2 DEF Stays
  <2>2. Waiting(q, s2, ds2) = Waiting(p, s, ds)
    <3>1. {x \in ds2 : x.forum = p.active /\ x.step = "indexing"}
            = {x \in ds : x.forum = p.active /\ x.step = "indexing"}
      OBVIOUS
    <3>2. {u \in DOMAIN s2 : u = p.token /\ s2[u].step = "indexing"}
            = {u \in DOMAIN s : u = p.token /\ s[u].step = "indexing"}
      OBVIOUS
    <3>3. q.token = p.token /\ q.active = p.active
      BY DEF Stays
    <3> QED
      BY <3>1, <3>2, <3>3 DEF Waiting
  <2>3. WorkerKnows(p, e, Waiting(p, s, ds))
    BY <2>1 DEF Served
  <2> QED
    BY <1>2, <2>1, <2>2, <2>3 DEF WorkerKnows, Stays
<1> QED
  BY <1>1, <1>2 DEF Served

(* A restart that crosses nothing empties the page: there is no cursor,    *)
(* and no delta of the forum.                                              *)
LEMMA RestartComplete ==
  ASSUME Apart, Complete, NEW f \in Forums, NEW kind \in Engines, Restart(f, kind), ~Crosses(f)
  PROVE  Complete'
<1> DEFINE new == page.token + 1
           begun == Began(new, f, kind)
<1>1. /\ page'.token = new /\ page'.active = f /\ page'.kind = kind /\ page'.cursor = 0
      /\ page'.ready = FALSE /\ syncs' = Adding(syncs, begun)
      /\ chain' = chain /\ deltas' = deltas /\ page.token \in Nat
  BY DEF Restart, Apart, PageFits
<1>2. /\ begun[new].kind = kind /\ begun[new].step \in {"vectors", "load"}
      /\ DOMAIN begun = {new}
  BY DEF Began
<1>3. new \notin DOMAIN syncs
  <2> SUFFICES ASSUME new \in DOMAIN syncs PROVE FALSE
    OBVIOUS
  <2>1. new <= page.token /\ new \in Nat
    BY DEF Apart, SyncsFit, SyncFits
  <2> QED
    BY <1>1, <2>1
<1> HIDE DEF new, begun
<1>4. new \in DOMAIN syncs' /\ syncs'[new] = begun[new]
  BY <1>1, <1>2, <1>3 DEF Adding
<1>5. ChainFits(chain') /\ CursorFits(chain', page')
  BY <1>1 DEF Complete, KnowsChain, ChainFits, CursorFits
<1>6. SyncKnows(chain', page', syncs'[new])
  BY <1>1, <1>2, <1>4 DEF SyncKnows, Early, OwnKind
<1>7. DeltasKnow(chain', page', deltas')
  BY <1>1 DEF DeltasKnow, Crosses
<1>8. Served(page', engines', syncs', deltas')
  BY <1>1 DEF Served, ReadyFits
<1> QED
  BY <1>1, <1>5, <1>6, <1>7, <1>8 DEF Complete, KnowsChain

(* What a step of something that is not the visit's sync or a delta of the *)
(* forum on screen leaves as it was.                                       *)
LEMMA CompleteStill ==
  ASSUME Complete, chain' = chain, Stays(page, page'), page'.ready = page.ready,
         past'.broken = past.broken,
         page'.kind # "backend" => engines'[page.kind].of = engines[page.kind].of,
         page.token \in DOMAIN syncs' <=> page.token \in DOMAIN syncs,
         page.token \in DOMAIN syncs => syncs'[page.token] = syncs[page.token],
         \A d \in deltas' : d.forum = page.active =>
            d \in deltas \/ (d.step # "indexing" /\ DeltaKnows(chain, page, d)),
         \A d \in deltas : d.forum = page.active /\ d.step = "indexing" => d \in deltas'
  PROVE  Complete'
<1>1. KnowsChain(chain', page', syncs', deltas')
  BY KnownStill DEF Complete
<1>2. ~past'.broken => Served(page', engines', syncs', deltas')
  BY ServedStill DEF Complete
<1> QED
  BY <1>1, <1>2 DEF Complete

(* The actions of the member and of the chain.                             *)
LEMMA SelectForumComplete ==
  ASSUME Apart, Complete, NEW f \in Forums, SelectForum(f),
         past.crossed \in BOOLEAN, DOMAIN past = {"failures", "broken", "crossed"},
         ~past'.crossed
  PROVE  Complete'
<1>1. CASE page.kind # "backend"
  <2>1. Restart(f, page.kind) /\ page.kind \in Engines
    BY <1>1 DEF SelectForum, PageFits, Apart
  <2>2. ~Crosses(f)
    BY <2>1 DEF Restart
  <2> QED
    BY <2>1, <2>2, RestartComplete
<1>2. CASE page.kind = "backend"
  <2>1. /\ page' = [page EXCEPT !.forum = f]
        /\ UNCHANGED <<chain, syncs, deltas, engines, past>>
    BY <1>2 DEF SelectForum
  <2>2. Stays(page, page') /\ page'.ready = page.ready
    BY <2>1 DEF Stays, Apart, PageFits
  <2> QED
    BY <2>1, <2>2, CompleteStill
<1> QED
  BY <1>1, <1>2

LEMMA SelectKindComplete ==
  ASSUME Apart, Complete, NEW kind \in Kinds, SelectKind(kind),
         past.crossed \in BOOLEAN, DOMAIN past = {"failures", "broken", "crossed"},
         ~past'.crossed
  PROVE  Complete'
<1>1. CASE kind # "backend"
  <2>1. Restart(page.forum, kind) /\ kind \in Engines /\ page.forum \in Forums
    BY <1>1, SearchBounds DEF SelectKind, PageFits, Apart, Engines
  <2>2. ~Crosses(page.forum)
    BY <2>1 DEF Restart
  <2> QED
    BY <2>1, <2>2, RestartComplete
<1>2. CASE kind = "backend"
  <2>1. /\ page' = [page EXCEPT !.kind = kind]
        /\ UNCHANGED <<chain, syncs, deltas, engines, past>>
    BY <1>2 DEF SelectKind
  <2>2. Stays(page, page') /\ page'.ready = page.ready
    BY <1>2, <2>1 DEF Stays, Apart, PageFits
  <2> QED
    BY <2>1, <2>2, CompleteStill
<1> QED
  BY <1>1, <1>2

LEMMA ReloadComplete ==
  ASSUME Apart, Complete, Reload
  PROVE  Complete'
<1> DEFINE new == page.token + 1
           begun == Began(new, page.forum, page.kind)
<1>1. /\ page'.token = new /\ page'.kind = page.kind /\ page'.cursor = 0
      /\ page'.ready = FALSE /\ chain' = chain /\ deltas' = {}
      /\ syncs' = <<>> \/ syncs' = begun
  BY DEF Reload, Apart, PageFits
<1>2. /\ begun[new].kind = page.kind /\ begun[new].step \in {"vectors", "load"}
      /\ DOMAIN begun = {new}
  BY DEF Began
<1> HIDE DEF new, begun
<1>3. ChainFits(chain') /\ CursorFits(chain', page') /\ DeltasKnow(chain', page', deltas')
  BY <1>1 DEF Complete, KnowsChain, ChainFits, CursorFits, DeltasKnow
<1>4. page'.token \in DOMAIN syncs' => SyncKnows(chain', page', syncs'[page'.token])
  <2>1. CASE syncs' = <<>>
    BY <2>1
  <2>2. CASE syncs' = begun
    BY <1>1, <1>2, <2>2 DEF SyncKnows, Early, OwnKind
  <2> QED
    BY <1>1, <2>1, <2>2
<1>5. Served(page', engines', syncs', deltas')
  BY <1>1 DEF Served, ReadyFits
<1> QED
  BY <1>3, <1>4, <1>5 DEF Complete, KnowsChain

LEMMA SearchComplete ==
  ASSUME Apart, PastFits, Complete, Search
  PROVE  Complete'
<1>1. /\ page.kind \in Engines /\ UNCHANGED <<chain, syncs, deltas>>
      /\ engines'[page.kind].of = engines[page.kind].of
  BY DEF Search, Apart, PageFits, EnginesFit
<1>2. page' = page \/ \E model \in {"loaded", "failed"} : page' = [page EXCEPT !.model = model]
  BY DEF Search
<1>3. Stays(page, page') /\ page'.ready = page.ready
  BY <1>2 DEF Stays, Apart, PageFits
<1>4. past'.broken = past.broken
  BY DEF Search, Broken, PastFits
<1> QED
  BY <1>1, <1>3, <1>4, CompleteStill

(* A block that is mined is beyond whatever a cursor covers.               *)
LEMMA MineBlockComplete ==
  ASSUME Apart, Complete, MineBlock
  PROVE  Complete'
<1> DEFINE c == chain'
<1>1. /\ page' = page /\ syncs' = syncs /\ deltas' = deltas
      /\ engines' = engines /\ past' = past
  BY DEF MineBlock
<1>2. /\ DOMAIN chain = {"head", "events"} /\ chain.head \in Nat \ {0}
      /\ \A e \in chain.events : e.block \in 1..chain.head
  BY DEF Complete, KnowsChain, ChainFits
<1>3. /\ DOMAIN c = {"head", "events"} /\ c.head = chain.head + 1
      /\ chain.events \subseteq c.events
      /\ \A e \in c.events : e \in chain.events \/ e.block = chain.head + 1
  BY <1>2 DEF MineBlock
<1> HIDE DEF c
<1>4. ChainFits(c)
  BY <1>2, <1>3 DEF ChainFits
<1>5. ASSUME NEW ids, NEW b \in 0..chain.head, Covers(ids, chain, page.active, b)
      PROVE  Covers(ids, c, page.active, b)
  <2> SUFFICES ASSUME NEW e \in c.events, e.forum = page.active,
                      e.block \in b - lookbackBlocks .. b
               PROVE  e.id \in ids
    BY DEF Covers
  <2>1. e \in chain.events
    BY <1>2, <1>3
  <2> QED
    BY <1>5, <2>1 DEF Covers
<1>6. CursorFits(c, page)
  BY <1>2, <1>3, <1>5 DEF Complete, KnowsChain, CursorFits
<1>7. ASSUME NEW d \in deltas, d.forum = page.active PROVE DeltaKnows(c, page, d)
  <2>1. DeltaKnows(chain, page, d) /\ d.step \in {"head", "logs", "texts", "indexing", "saving"}
    BY <1>7 DEF Complete, KnowsChain, DeltasKnow, Apart, DeltasFit, DeltaFits
  <2>2. /\ d.from \in 1..chain.head
        /\ d.step # "head" => d.safe \in d.from + 1 .. chain.head
    BY <2>1 DEF DeltaKnows
  <2>3. /\ page.cursor # 0 /\ OwnKind(page, d.kind)
        /\ d.from \in 1..c.head /\ Covers(DOMAIN page.docs, c, page.active, d.from)
        /\ d.step # "head" => d.safe \in d.from + 1 .. c.head
    BY <1>2, <1>3, <1>5, <2>1, <2>2 DEF DeltaKnows
  <2>4. ASSUME d.step = "texts", NEW e \in c.events, e.forum = page.active,
               e.block \in d.from + 1 .. d.safe
        PROVE  e.id \in DOMAIN page.docs \cup d.ids
    <3>1. d.safe \in d.from + 1 .. chain.head
      BY <2>2, <2>4
    <3>2. e \in chain.events
      BY <1>2, <1>3, <2>2, <2>4, <3>1
    <3> QED
      BY <2>1, <2>4, <3>2 DEF DeltaKnows
  <2>5. d.step = "indexing" => Covers(DOMAIN page.docs, c, page.active, d.safe)
    BY <1>2, <1>5, <2>1, <2>2 DEF DeltaKnows
  <2> QED
    BY <2>3, <2>4, <2>5 DEF DeltaKnows
<1>8. page.token \in DOMAIN syncs => SyncKnows(c, page, syncs[page.token])
  BY <1>2, <1>3 DEF Complete, KnowsChain, SyncKnows
<1> QED
  BY <1>1, <1>4, <1>6, <1>7, <1>8 DEF Complete, KnowsChain, DeltasKnow, c

(* The head without the confirmations is a block. *)
LEMMA SafeHeadIs ==
  ASSUME ChainFits(chain)
  PROVE  SafeHead \in 1..chain.head
<1>1. chain.head \in Nat \ {0} /\ Confirmations \in Nat
  BY SearchBounds DEF ChainFits
<1> QED
  BY <1>1 DEF SafeHead

LEMMA SyncDeltaComplete ==
  ASSUME Apart, Complete, SyncDelta
  PROVE  Complete'
<1>1. page' = [page EXCEPT !.seen = chain.head] /\ UNCHANGED <<chain, syncs, engines, past>>
  BY DEF SyncDelta
<1>2. Stays(page, page') /\ page'.ready = page.ready
  BY <1>1 DEF Stays, Apart, PageFits
<1>3. CASE deltas' = deltas
  BY <1>1, <1>2, <1>3, CompleteStill
<1>4. CASE deltas' # deltas
  <2> DEFINE d == [forum |-> page.forum, kind |-> page.kind, from |-> page.cursor,
                   safe |-> 0, ids |-> {}, job |-> NoJob, step |-> "head"]
  <2>1. page.kind # "backend" /\ page.forum = page.active /\ page.cursor # 0
        /\ deltas' = deltas \cup {d}
    BY <1>4 DEF SyncDelta
  <2>2. d.step = "head" /\ DeltaKnows(chain, page, d)
    <3>1. /\ page.cursor \in 1..chain.head
          /\ Covers(DOMAIN page.docs, chain, page.active, page.cursor)
      BY <2>1 DEF Complete, KnowsChain, CursorFits, ChainFits
    <3> QED
      BY <2>1, <3>1 DEF DeltaKnows, OwnKind
  <2> HIDE DEF d
  <2> QED
    BY <1>1, <1>2, <2>1, <2>2, CompleteStill
<1> QED
  BY <1>3, <1>4

-----------------------------------------------------------------------------
(* The sync of the visit up to where it sets the cursor: there is no delta *)
(* of the forum on screen yet, and nothing is asked of the worker.         *)
LEMMA EarlyComplete ==
  ASSUME Complete, chain' = chain, deltas' = deltas, page.cursor = 0,
         page'.token = page.token, page'.active = page.active, page'.cursor = 0,
         page.token \in DOMAIN syncs', SyncKnows(chain, page', syncs'[page.token]),
         ~past'.broken => ReadyFits(page', syncs')
  PROVE  Complete'
<1>1. ChainFits(chain') /\ CursorFits(chain', page')
  BY DEF Complete, KnowsChain, ChainFits, CursorFits
<1>2. DeltasKnow(chain', page', deltas')
  BY DEF Complete, KnowsChain, DeltasKnow, DeltaKnows
<1>3. ~past'.broken => Served(page', engines', syncs', deltas')
  BY DEF Served
<1> QED
  BY <1>1, <1>2, <1>3 DEF Complete, KnowsChain

(* The sync that was not superseded is the one of the visit.               *)
LEMMA CurrentSync ==
  ASSUME Apart, Complete, NEW t \in DOMAIN syncs, ~IsStale(t)
  PROVE  /\ t = page.token /\ page.token \in DOMAIN syncs
         /\ SyncKnows(chain, page, syncs[t])
         /\ SyncFits(t, syncs[t], page.token, page.active)
  BY DEF IsStale, Complete, KnowsChain, Apart, SyncsFit

(* One that was superseded and ends is not looked at. *)
LEMMA SupersededComplete ==
  ASSUME Complete, NEW t \in DOMAIN syncs, IsStale(t), syncs' = Without(t),
         UNCHANGED <<chain, deltas, engines>>, past'.broken = past.broken,
         Stays(page, page'), page'.ready = page.ready
  PROVE  Complete'
<1>1. /\ page.token \in DOMAIN syncs' <=> page.token \in DOMAIN syncs
      /\ page.token \in DOMAIN syncs => syncs'[page.token] = syncs[page.token]
  BY DEF IsStale, Without, Restrict
<1> QED
  BY <1>1, CompleteStill

LEMMA BailComplete ==
  ASSUME Complete, NEW t \in DOMAIN syncs, Bail(t)
  PROVE  Complete'
<1>1. Stays(page, page') /\ page'.ready = page.ready
  BY DEF Bail, Stays
<1> QED
  BY <1>1, SupersededComplete DEF Bail

LEMMA LoadForumEmbeddingsComplete ==
  ASSUME Apart, Complete, NEW t \in DOMAIN syncs, LoadForumEmbeddings(t)
  PROVE  Complete'
<1>1. /\ syncs[t].step = "vectors" /\ ~IsStale(t)
      /\ syncs' = [syncs EXCEPT ![t].step = "load"]
      /\ UNCHANGED <<chain, deltas, past>>
  BY DEF LoadForumEmbeddings, Go
<1>2. /\ t = page.token /\ SyncKnows(chain, page, syncs[t])
      /\ SyncFits(t, syncs[t], page.token, page.active)
  BY <1>1, CurrentSync
<1>3. page.cursor = 0
  BY <1>1, <1>2 DEF SyncKnows, Early
<1>4. /\ page'.token = page.token /\ page'.active = page.active /\ page'.cursor = 0
      /\ page'.kind = page.kind /\ page'.ready = page.ready
  BY <1>3 DEF LoadForumEmbeddings, Apart, PageFits
<1>5. t \in DOMAIN syncs' /\ syncs'[t] = [syncs[t] EXCEPT !.step = "load"]
  BY <1>1
<1>6. syncs'[t].step = "load" /\ syncs'[t].kind = syncs[t].kind
  BY <1>2, <1>5 DEF SyncFits
<1>7. SyncKnows(chain, page', syncs'[t])
  BY <1>2, <1>4, <1>6 DEF SyncKnows, Early, OwnKind
<1>8. ~past'.broken => ReadyFits(page', syncs')
  BY <1>1, <1>2, <1>3, <1>4 DEF Complete, Served, ReadyFits
<1> QED
  BY <1>1, <1>2, <1>3, <1>4, <1>5, <1>7, <1>8, EarlyComplete

(* The documents of IndexedDB are shown before the chain has been read,    *)
(* with no cursor.                                                         *)
LEMMA LoadForumIndexComplete ==
  ASSUME Apart, Complete, NEW t \in DOMAIN syncs, LoadForumIndex(t)
  PROVE  Complete'
<1> DEFINE docs == store[syncs[t].forum].docs
<1>1. /\ syncs[t].step = "load" /\ ~IsStale(t)
      /\ UNCHANGED <<chain, deltas, past>>
  BY DEF LoadForumIndex
<1>2. /\ t = page.token /\ SyncKnows(chain, page, syncs[t])
      /\ SyncFits(t, syncs[t], page.token, page.active)
  BY <1>1, CurrentSync
<1>3. page.cursor = 0
  BY <1>1, <1>2 DEF SyncKnows, Early
<1>4. ~past'.broken => ReadyFits(page, syncs) /\ ~page.ready
  BY <1>1, <1>2, <1>3 DEF Complete, Served, ReadyFits
<1>5. CASE docs = NoDocs
  <2>1. syncs' = [syncs EXCEPT ![t].step = "head"] /\ UNCHANGED page
    BY <1>5 DEF LoadForumIndex, Go
  <2>2. t \in DOMAIN syncs' /\ syncs'[t] = [syncs[t] EXCEPT !.step = "head"]
    BY <2>1
  <2>3. syncs'[t].step = "head" /\ syncs'[t].kind = syncs[t].kind
    BY <1>2, <2>2 DEF SyncFits
  <2>4. SyncKnows(chain, page', syncs'[t])
    <3>1. page'.cursor = 0 /\ page'.kind = page.kind
      BY <1>3, <2>1
    <3>2. OwnKind(page, syncs[t].kind)
      BY <1>2 DEF SyncKnows
    <3> QED
      BY <2>3, <3>1, <3>2 DEF SyncKnows, Early, OwnKind
  <2>5. ~past'.broken => ReadyFits(page', syncs')
    BY <1>4, <2>1 DEF ReadyFits
  <2> QED
    BY <1>1, <1>2, <1>3, <2>1, <2>2, <2>4, <2>5, EarlyComplete
<1>6. CASE docs # NoDocs
  <2> DEFINE job == Job(syncs[t].kind, syncs[t].forum, docs, TRUE, page.vectors)
  <2>1. /\ page' = [page EXCEPT !.docs = docs]
        /\ syncs' = [syncs EXCEPT ![t].step = "hydrating", ![t].job = job]
    BY <1>6 DEF LoadForumIndex, Await
  <2>2. job # NoJob
    BY <1>6 DEF Job, NoJob
  <2> HIDE DEF job, docs
  <2>3. /\ page'.token = page.token /\ page'.active = page.active /\ page'.cursor = 0
        /\ page'.kind = page.kind /\ page'.ready = page.ready
    BY <1>3, <2>1 DEF Apart, PageFits
  <2>4. t \in DOMAIN syncs' /\ syncs'[t] = [syncs[t] EXCEPT !.step = "hydrating", !.job = job]
    BY <2>1
  <2>5. /\ syncs'[t].step = "hydrating" /\ syncs'[t].kind = syncs[t].kind
        /\ syncs'[t].job = job
    BY <1>2, <2>4 DEF SyncFits
  <2>6. SyncKnows(chain, page', syncs'[t])
    BY <1>2, <2>2, <2>3, <2>5 DEF SyncKnows, Early, OwnKind
  <2>7. ~past'.broken => ReadyFits(page', syncs')
    BY <1>4, <2>3 DEF ReadyFits
  <2> QED
    BY <1>1, <1>2, <1>3, <2>3, <2>4, <2>6, <2>7, EarlyComplete
<1> QED
  BY <1>5, <1>6

(* The index of them makes the page ready; the sync remembers it by its    *)
(* request until it sets the cursor.                                       *)
LEMMA HydratedComplete ==
  ASSUME Apart, Complete, NEW t \in DOMAIN syncs, Hydrated(t)
  PROVE  Complete'
<1> DEFINE job == syncs[t].job
           vectors == Captured(job)
           model == Extractor(job.missing)
<1>1. /\ syncs[t].step = "hydrating" /\ UNCHANGED <<chain, deltas, past>>
      /\ page' = [page EXCEPT !.vectors = vectors, !.ready = @ \/ ~IsStale(t),
                              !.model = model]
  BY DEF Hydrated
<1> HIDE DEF vectors, model
<1>2. /\ page'.token = page.token /\ page'.active = page.active
      /\ page'.cursor = page.cursor /\ page'.kind = page.kind
      /\ page'.docs = page.docs
      /\ page'.ready = (page.ready \/ ~IsStale(t)) /\ page.ready \in BOOLEAN
  BY <1>1 DEF Apart, PageFits
<1>3. CASE IsStale(t)
  <2>1. syncs' = Without(t) /\ engines' = AfterWorker(syncs[t].kind, syncs[t].forum, job)
    BY <1>3 DEF Hydrated
  <2>2. engines' = engines
    <3>1. syncs[t].kind = "lexical"
      BY <1>1, <1>3, SyncIs DEF Apart
    <3> QED
      BY <2>1, <3>1 DEF AfterWorker
  <2>3. Stays(page, page') /\ page'.ready = page.ready
    BY <1>2, <1>3 DEF Stays
  <2> QED
    BY <1>1, <1>3, <2>1, <2>2, <2>3, SupersededComplete
<1>4. CASE ~IsStale(t)
  <2>1. syncs' = [syncs EXCEPT ![t].step = "head"]
    BY <1>4 DEF Hydrated, Go
  <2>2. /\ t = page.token /\ SyncKnows(chain, page, syncs[t])
        /\ SyncFits(t, syncs[t], page.token, page.active)
    BY <1>4, CurrentSync
  <2>3. page.cursor = 0 /\ job # NoJob
    BY <1>1, <2>2 DEF SyncKnows, Early
  <2>4. t \in DOMAIN syncs' /\ syncs'[t] = [syncs[t] EXCEPT !.step = "head"]
    BY <2>1
  <2>5. /\ syncs'[t].step = "head" /\ syncs'[t].kind = syncs[t].kind /\ syncs'[t].job = job
    BY <2>2, <2>4 DEF SyncFits
  <2>6. SyncKnows(chain, page', syncs'[t])
    BY <1>2, <2>2, <2>3, <2>5 DEF SyncKnows, Early, OwnKind
  <2>7. ReadyFits(page', syncs')
    BY <1>2, <2>2, <2>3, <2>4, <2>5 DEF ReadyFits
  <2> QED
    BY <1>1, <1>2, <2>2, <2>3, <2>4, <2>6, <2>7, EarlyComplete
<1> QED
  BY <1>3, <1>4

LEMMA ReadHeadComplete ==
  ASSUME Apart, Complete, NEW t \in DOMAIN syncs, ReadHead(t)
  PROVE  Complete'
<1>1. /\ syncs[t].step = "head" /\ ~IsStale(t)
      /\ syncs' = [syncs EXCEPT ![t].step = "ranked", ![t].safe = SafeHead]
      /\ UNCHANGED <<chain, page, deltas, past>>
  BY DEF ReadHead
<1>2. /\ t = page.token /\ SyncKnows(chain, page, syncs[t])
      /\ SyncFits(t, syncs[t], page.token, page.active)
  BY <1>1, CurrentSync
<1>3. page.cursor = 0
  BY <1>1, <1>2 DEF SyncKnows, Early
<1>4. t \in DOMAIN syncs' /\ syncs'[t] = [syncs[t] EXCEPT !.step = "ranked", !.safe = SafeHead]
  BY <1>1
<1>5. /\ syncs'[t].step = "ranked" /\ syncs'[t].kind = syncs[t].kind
      /\ syncs'[t].safe = SafeHead /\ syncs'[t].job = syncs[t].job
  BY <1>2, <1>4 DEF SyncFits
<1>6. SafeHead \in 1..chain.head
  BY SafeHeadIs DEF Complete, KnowsChain
<1>7. SyncKnows(chain, page', syncs'[t])
  BY <1>1, <1>2, <1>5, <1>6 DEF SyncKnows, Early, OwnKind
<1>8. ~past'.broken => ReadyFits(page', syncs')
  BY <1>1, <1>2, <1>3, <1>4, <1>5 DEF Complete, Served, ReadyFits
<1> QED
  BY <1>1, <1>2, <1>3, <1>4, <1>7, <1>8, EarlyComplete

(* The ranked list is remembered with the head that was read. *)
LEMMA ReadRankedComplete ==
  ASSUME Apart, Complete, NEW t \in DOMAIN syncs, ReadRanked(t)
  PROVE  Complete'
<1> DEFINE ids == RankedStatements(syncs[t].forum)
<1>1. /\ syncs[t].step = "ranked" /\ ~IsStale(t)
      /\ syncs' = [syncs EXCEPT ![t].step = "reads", ![t].ranked = ids]
      /\ UNCHANGED <<chain, page, deltas, past>>
  BY DEF ReadRanked
<1> HIDE DEF ids
<1>2. /\ t = page.token /\ SyncKnows(chain, page, syncs[t])
      /\ SyncFits(t, syncs[t], page.token, page.active)
  BY <1>1, CurrentSync
<1>3. page.cursor = 0
  BY <1>1, <1>2 DEF SyncKnows, Early
<1>4. t \in DOMAIN syncs' /\ syncs'[t] = [syncs[t] EXCEPT !.step = "reads", !.ranked = ids]
  BY <1>1
<1>5. /\ syncs'[t].step = "reads" /\ syncs'[t].kind = syncs[t].kind
      /\ syncs'[t].safe = syncs[t].safe /\ syncs'[t].job = syncs[t].job
  BY <1>2, <1>4 DEF SyncFits
<1>6. SyncKnows(chain, page', syncs'[t])
  BY <1>1, <1>2, <1>5 DEF SyncKnows, Early, OwnKind
<1>7. ~past'.broken => ReadyFits(page', syncs')
  BY <1>1, <1>2, <1>3, <1>4, <1>5 DEF Complete, Served, ReadyFits
<1> QED
  BY <1>1, <1>2, <1>3, <1>4, <1>6, <1>7, EarlyComplete

-----------------------------------------------------------------------------
(* A window of the logs begins no later than the blocks it is read for. *)
LEMMA RoundedDown ==
  ASSUME NEW x \in Nat, NEW w \in Nat, w > 0
  PROVE  (x \div w) * w \in Int /\ (x \div w) * w <= x
<1> DEFINE q == x \div w
<1>1. q \in Nat
  OBVIOUS
<1>2. w * q <= x
  OBVIOUS
<1> HIDE DEF q
<1>3. q * w = w * q
  BY <1>1
<1> QED
  BY <1>1, <1>2, <1>3 DEF q

(* What the sync has read covers the window it searches. *)
LEMMA WindowIsRead ==
  ASSUME ChainFits(chain), NEW f, NEW safe \in 1..chain.head, NEW more
  PROVE  Covers(more \cup EngagedStatementIds(f, WindowStart(safe), safe), chain, f, safe)
<1> DEFINE start == WindowStart(safe)
           first == (start \div Window) * Window
<1>1. /\ Window \in Nat /\ Window > 0 /\ lookbackBlocks \in Nat /\ safe \in Nat
      /\ chain.head \in Nat
  BY SearchBounds DEF ChainFits
<1>2. start \in Nat /\ start <= safe /\ (start > 0 => start = safe - lookbackBlocks)
      /\ (start = 0 => safe <= lookbackBlocks \/ safe - lookbackBlocks <= 0)
  BY <1>1 DEF WindowStart
<1>3. first \in Int /\ first <= start
  <2> HIDE DEF start
  <2> QED
    BY <1>1, <1>2, RoundedDown
<1>4. EngagedStatementIds(f, start, safe)
        = {e.id : e \in {x \in chain.events :
             x.forum = f /\ x.block >= first /\ x.block <= safe}}
  BY <1>1, <1>2 DEF EngagedStatementIds
<1> HIDE DEF first
<1> SUFFICES ASSUME NEW e \in chain.events, e.forum = f,
                    e.block \in safe - lookbackBlocks .. safe
             PROVE  e.id \in EngagedStatementIds(f, start, safe)
  BY DEF Covers
<1>5. e.block \in Nat /\ e.block >= 1 /\ e.block <= safe /\ e.block >= safe - lookbackBlocks
  BY <1>1 DEF ChainFits
<1>6. e.block >= start
  <2> HIDE DEF start
  <2> QED
    BY <1>1, <1>2, <1>5
<1> HIDE DEF start
<1>7. e.block >= first
  BY <1>2, <1>3, <1>5, <1>6
<1> QED
  BY <1>4, <1>5, <1>7

(* A delta that goes on from where the page was covered covers what it     *)
(* reads.                                                                  *)
LEMMA DeltaIsRead ==
  ASSUME ChainFits(chain), NEW f, NEW from \in 1..chain.head,
         NEW safe \in from + 1 .. chain.head, NEW ids, Covers(ids, chain, f, from),
         NEW more, \A e \in chain.events :
                     e.forum = f /\ e.block \in from + 1 .. safe => e.id \in ids \cup more
  PROVE  Covers(ids \cup more, chain, f, safe)
<1> SUFFICES ASSUME NEW e \in chain.events, e.forum = f,
                    e.block \in safe - lookbackBlocks .. safe
             PROVE  e.id \in ids \cup more
  BY DEF Covers
<1>1. /\ lookbackBlocks \in Nat /\ from \in Nat /\ safe \in Nat /\ from < safe
      /\ e.block \in Nat
  BY SearchBounds DEF ChainFits
<1>2. CASE e.block <= from
  <2>1. e.block \in from - lookbackBlocks .. from
    BY <1>1, <1>2
  <2> QED
    BY <2>1 DEF Covers
<1>3. CASE e.block > from
  <2>1. e.block \in from + 1 .. safe
    BY <1>1, <1>3
  <2> QED
    BY <2>1
<1> QED
  BY <1>1, <1>2, <1>3

(* All events of the blocks a delta reads are among what it finds.         *)
LEMMA EngagedSince ==
  ASSUME ChainFits(chain), NEW f, NEW from \in 1..chain.head,
         NEW safe \in from + 1 .. chain.head
  PROVE  \A e \in chain.events : e.forum = f /\ e.block \in from + 1 .. safe =>
            e.id \in EngagedStatementIds(f, from + 1, safe)
<1> DEFINE start == from + 1
           first == (start \div Window) * Window
<1>1. /\ Window \in Nat /\ Window > 0 /\ safe \in Nat /\ start \in Nat /\ start <= safe
      /\ chain.head \in Nat
  BY SearchBounds DEF ChainFits
<1> HIDE DEF start
<1>2. first \in Int /\ first <= start
  BY <1>1, RoundedDown
<1>3. EngagedStatementIds(f, start, safe)
        = {e.id : e \in {x \in chain.events :
             x.forum = f /\ x.block >= first /\ x.block <= safe}}
  BY <1>1 DEF EngagedStatementIds
<1> HIDE DEF first
<1>4. ASSUME NEW e \in chain.events, e.forum = f, e.block \in start .. safe
      PROVE  e.id \in EngagedStatementIds(f, start, safe)
  <2>1. e.block >= first /\ e.block <= safe
    BY <1>1, <1>2, <1>4
  <2> QED
    BY <1>3, <1>4, <2>1
<1> QED
  BY <1>4 DEF start

(* The cursor is set when the window has been read, and all documents are  *)
(* owed by the worker.                                                     *)
LEMMA ReadChainComplete ==
  ASSUME Apart, Complete, NEW t \in DOMAIN syncs, ReadChain(t)
  PROVE  Complete'
<1> DEFINE f == syncs[t].forum
           kind == syncs[t].kind
           safe == syncs[t].safe
           merged == StatementsByIds(f,
             syncs[t].ranked \cup EngagedStatementIds(f, WindowStart(safe), safe))
<1>1. /\ syncs[t].step = "reads" /\ ~IsStale(t) /\ UNCHANGED <<chain, deltas, past>>
      /\ page' = [page EXCEPT !.docs = merged, !.cursor = safe]
  BY DEF ReadChain
<1>2. PICK replace \in BOOLEAN : replace /\
        \E job :
        /\ job = Job(kind, f, merged, replace, page.vectors)
        /\ engines' = Index(kind, f, merged, replace, page.vectors)
        /\ syncs' = [syncs EXCEPT ![t].step = "indexing", ![t].job = job]
  BY DEF ReadChain, Await
<1>3. PICK job :
        /\ job = Job(kind, f, merged, replace, page.vectors)
        /\ engines' = Index(kind, f, merged, replace, page.vectors)
        /\ syncs' = [syncs EXCEPT ![t].step = "indexing", ![t].job = job]
  BY <1>2
<1>4. /\ t = page.token /\ SyncKnows(chain, page, syncs[t])
      /\ SyncFits(t, syncs[t], page.token, page.active)
      /\ f = page.active /\ f \in Forums /\ kind \in Engines
  BY <1>1, CurrentSync, SyncIs DEF Apart
<1>5. page.cursor = 0 /\ safe \in 1..chain.head /\ OwnKind(page, kind)
  BY <1>1, <1>4 DEF SyncKnows, Early
<1>6. ChainFits(chain)
  BY DEF Complete, KnowsChain
<1>7. OfForum(f, merged) /\ Covers(DOMAIN merged, chain, f, safe)
  <2> HIDE DEF safe, f
  <2> QED
    BY <1>5, <1>6, StatementsFit, WindowIsRead
<1> HIDE DEF merged, safe, f, kind
<1>8. /\ page'.token = page.token /\ page'.active = page.active
      /\ page'.cursor = safe /\ page'.kind = page.kind /\ page'.docs = merged
  BY <1>1 DEF Apart, PageFits
<1>9. t \in DOMAIN syncs' /\ syncs'[t] = [syncs[t] EXCEPT !.step = "indexing", !.job = job]
  BY <1>3
<1>10. /\ syncs'[t].step = "indexing" /\ syncs'[t].kind = kind /\ syncs'[t].job = job
  BY <1>4, <1>9 DEF SyncFits, kind
<1>11. CursorFits(chain, page') /\ ChainFits(chain)
  <2>1. safe \in 0..chain.head
    BY <1>5
  <2> QED
    BY <1>4, <1>6, <1>7, <1>8, <2>1 DEF CursorFits
<1>12. SyncKnows(chain, page', syncs'[t])
  <2>1. page'.cursor # 0
    BY <1>5, <1>6, <1>8 DEF ChainFits
  <2> QED
    BY <1>5, <1>8, <1>10, <2>1 DEF SyncKnows, Early, OwnKind
<1>13. \A d \in deltas : d.forum # page.active
  BY <1>5 DEF Complete, KnowsChain, DeltasKnow, DeltaKnows
<1>14. DeltasKnow(chain, page', deltas)
  BY <1>8, <1>13 DEF DeltasKnow
<1>15. Served(page', engines', syncs', deltas)
  <2>1. ReadyFits(page', syncs')
    BY <1>5, <1>8 DEF ReadyFits
  <2>2. ASSUME page'.kind # "backend"
        PROVE  WorkerKnows(page', engines', Waiting(page', syncs', deltas))
    <3>1. page'.kind = kind
      BY <1>5, <1>8, <2>2 DEF OwnKind
    <3>2. f \in DOMAIN engines'[kind].of /\ EngineKnows(merged, kind, {job}, engines'[kind].of[f])
      <4>1. OfForum(f, page.vectors) /\ EnginesFit(engines)
        BY <1>4 DEF Apart, PageFits
      <4>2. PICK new : new = engines'
        OBVIOUS
      <4>3. f \in DOMAIN new[kind].of /\ EngineKnows(merged, kind, {job}, new[kind].of[f])
        BY <1>2, <1>3, <1>4, <1>7, <4>1, <4>2, WorkerStarts
      <4> QED
        BY <4>2, <4>3
    <3>3. Waiting(page', syncs', deltas) = {job}
      <4>1. {u \in DOMAIN syncs' : u = page'.token /\ syncs'[u].step = "indexing"} = {t}
        BY <1>4, <1>8, <1>9, <1>10
      <4>2. {x \in deltas : x.forum = page'.active /\ x.step = "indexing"} = {}
        BY <1>8, <1>13
      <4> QED
        BY <1>10, <4>1, <4>2 DEF Waiting
    <3> QED
      BY <1>4, <1>8, <3>1, <3>2, <3>3 DEF WorkerKnows
  <2> QED
    BY <2>1, <2>2 DEF Served
<1> QED
  BY <1>1, <1>4, <1>8, <1>9, <1>11, <1>12, <1>14, <1>15 DEF Complete, KnowsChain
(* The answer to the request of the sync, with the cursor set. *)
LEMMA IndexedComplete ==
  ASSUME Apart, Complete, NEW t \in DOMAIN syncs, Indexed(t)
  PROVE  Complete'
<1> DEFINE job == syncs[t].job
           kind == syncs[t].kind
           vectors == Captured(job)
           model == Extractor(job.missing)
<1>1. /\ syncs[t].step = "indexing" /\ UNCHANGED <<chain, deltas, past>>
      /\ engines' = AfterWorker(kind, syncs[t].forum, job)
      /\ page' = [page EXCEPT !.vectors = vectors, !.model = model]
  BY DEF Indexed
<1> HIDE DEF vectors, model
<1>2. Stays(page, page') /\ page'.ready = page.ready /\ page'.kind = page.kind
  BY <1>1 DEF Stays, Apart, PageFits
<1>3. CASE IsStale(t)
  <2>1. syncs' = Without(t)
    BY <1>3 DEF Indexed
  <2>2. engines' = engines
    <3>1. kind = "lexical"
      BY <1>1, <1>3, SyncIs DEF Apart
    <3> QED
      BY <1>1, <3>1 DEF AfterWorker
  <2> QED
    BY <1>1, <1>2, <1>3, <2>1, <2>2, SupersededComplete
<1>4. CASE ~IsStale(t)
  <2> DEFINE f == syncs[t].forum
             rest == {x.job : x \in {y \in deltas : y.forum = page.active /\ y.step = "indexing"}}
  <2>1. syncs' = [syncs EXCEPT ![t].step = "saving", ![t].job = NoJob]
    BY <1>4 DEF Indexed
  <2>2. /\ t = page.token /\ SyncKnows(chain, page, syncs[t])
        /\ SyncFits(t, syncs[t], page.token, page.active)
        /\ f = page.active /\ f \in Forums /\ kind \in Engines /\ JobOf(kind, f, job)
    BY <1>4, CurrentSync, SyncIs DEF Apart
  <2>3. page.cursor # 0 /\ OwnKind(page, kind)
    BY <1>1, <2>2 DEF SyncKnows, Early
  <2>4. /\ t \in DOMAIN syncs'
        /\ syncs'[t] = [syncs[t] EXCEPT !.step = "saving", !.job = NoJob]
    BY <2>1
  <2>5. syncs'[t].step = "saving" /\ syncs'[t].kind = kind
    BY <2>2, <2>4 DEF SyncFits
  <2>6. page'.cursor # 0 /\ page'.token = page.token /\ page'.active = page.active
        /\ page'.docs = page.docs /\ page'.cursor = page.cursor
    BY <1>2, <2>3 DEF Stays
  <2>7. KnowsChain(chain, page, syncs, deltas)
    BY DEF Complete
  <2> HIDE DEF f, kind, job, rest
  <2>8. SyncKnows(chain, page', syncs'[t])
    <3>1. OwnKind(page', kind)
      BY <1>2, <2>3 DEF OwnKind
    <3> QED
      BY <2>5, <2>6, <3>1 DEF SyncKnows, Early
  <2>9. CursorFits(chain, page')
    BY <2>6, <2>7 DEF KnowsChain, CursorFits
  <2>10. DeltasKnow(chain, page', deltas)
    BY <1>2, <2>6, <2>7, DeltaKnowsStill DEF KnowsChain, DeltasKnow
  <2>11. ASSUME ~past.broken
         PROVE  Served(page', engines', syncs', deltas)
    <3>1. ReadyFits(page', syncs')
      BY <2>6 DEF ReadyFits
    <3>2. ASSUME page'.kind # "backend"
          PROVE  WorkerKnows(page', engines', Waiting(page', syncs', deltas))
      <4>1. page'.kind = kind /\ page.kind = kind /\ page.kind # "backend"
        BY <1>2, <2>3, <3>2 DEF OwnKind
      <4>2. WorkerKnows(page, engines, Waiting(page, syncs, deltas))
        BY <2>3, <2>11, <4>1 DEF Complete, Served
      <4>3. Waiting(page, syncs, deltas) = {job} \cup rest
        <5>1. {u \in DOMAIN syncs : u = page.token /\ syncs[u].step = "indexing"} = {t}
          BY <1>1, <2>2
        <5> QED
          BY <5>1 DEF Waiting, job, rest
      <4>4. Waiting(page', syncs', deltas) = rest
        <5>1. {u \in DOMAIN syncs' : u = page'.token /\ syncs'[u].step = "indexing"} = {}
          BY <2>2, <2>5, <2>6
        <5> QED
          BY <2>6, <5>1 DEF Waiting, rest
      <4>5. PICK new : new = engines'
        OBVIOUS
      <4>6. /\ f \in DOMAIN engines[kind].of /\ EnginesFit(engines)
            /\ EngineKnows(page.docs, kind, {job} \cup rest, engines[kind].of[f])
        BY <2>2, <4>1, <4>2, <4>3 DEF WorkerKnows, Apart
      <4>7. new = AfterWorker(kind, f, job)
        BY <1>1, <4>5 DEF f
      <4>8. f \in DOMAIN new[kind].of /\ EngineKnows(page.docs, kind, rest, new[kind].of[f])
        BY <2>2, <4>6, <4>7, WorkerAnswers
      <4> QED
        BY <2>2, <2>6, <4>1, <4>4, <4>5, <4>8 DEF WorkerKnows
    <3> QED
      BY <3>1, <3>2 DEF Served
  <2> QED
    BY <1>1, <2>2, <2>6, <2>7, <2>8, <2>9, <2>10, <2>11 DEF Complete, KnowsChain
<1> QED
  BY <1>3, <1>4

(* The sync ends with the page ready.                                      *)
LEMMA SavedComplete ==
  ASSUME Apart, Complete, NEW t \in DOMAIN syncs, Saved(t)
  PROVE  Complete'
<1>1. /\ syncs[t].step = "saving" /\ syncs' = Without(t)
      /\ page' = [page EXCEPT !.ready = TRUE, !.indexing = @ /\ IsStale(t)]
      /\ UNCHANGED <<chain, deltas, engines, past>>
  BY DEF Saved
<1>2. ~IsStale(t)
  BY <1>1, SyncIs DEF Apart
<1>3. t = page.token /\ SyncKnows(chain, page, syncs[t])
  BY <1>2, CurrentSync
<1>4. page.cursor # 0
  BY <1>1, <1>3 DEF SyncKnows, Early
<1>5. Stays(page, page') /\ page'.kind = page.kind
  BY <1>1 DEF Stays, Apart, PageFits
<1>6. page.token \notin DOMAIN syncs'
  BY <1>1, <1>3 DEF Without, Restrict
<1>7. KnowsChain(chain', page', syncs', deltas')
  BY <1>1, <1>5, <1>6, KnownStill DEF Complete
<1>8. ASSUME ~past'.broken PROVE Served(page', engines', syncs', deltas')
  <2>1. ReadyFits(page', syncs')
    BY <1>4, <1>5 DEF ReadyFits, Stays
  <2>2. ASSUME page'.kind # "backend"
        PROVE  WorkerKnows(page', engines', Waiting(page', syncs', deltas'))
    <3>1. WorkerKnows(page, engines, Waiting(page, syncs, deltas))
      BY <1>1, <1>4, <1>5, <1>8, <2>2 DEF Complete, Served
    <3>2. Waiting(page', syncs', deltas') = Waiting(page, syncs, deltas)
      <4>1. {u \in DOMAIN syncs : u = page.token /\ syncs[u].step = "indexing"} = {}
        BY <1>1, <1>3
      <4>2. {u \in DOMAIN syncs' : u = page'.token /\ syncs'[u].step = "indexing"} = {}
        BY <1>5, <1>6 DEF Stays
      <4> QED
        BY <1>1, <1>5, <4>1, <4>2 DEF Waiting, Stays
    <3> QED
      BY <1>1, <1>5, <3>1, <3>2 DEF WorkerKnows, Stays
  <2> QED
    BY <2>1, <2>2 DEF Served
<1> QED
  BY <1>7, <1>8 DEF Complete

(* A sync that is given up: the visit's leaves the index for broken. *)
LEMMA SyncEndsComplete ==
  ASSUME Apart, Complete, NEW t \in DOMAIN syncs, NEW model, SyncEnds(t, model),
         IsStale(t) => past'.broken = past.broken,
         ~IsStale(t) => past'.broken
  PROVE  Complete'
<1>1. /\ syncs' = Without(t)
      /\ page' = [page EXCEPT !.indexing = @ /\ IsStale(t), !.model = model]
      /\ UNCHANGED <<chain, deltas, engines>>
  BY DEF SyncEnds
<1>2. Stays(page, page') /\ page'.ready = page.ready
  BY <1>1 DEF Stays, Apart, PageFits
<1>3. CASE IsStale(t)
  BY <1>1, <1>2, <1>3, SupersededComplete
<1>4. CASE ~IsStale(t)
  <2>1. page.token \notin DOMAIN syncs'
    BY <1>1, <1>4 DEF IsStale, Without, Restrict
  <2>2. KnowsChain(chain', page', syncs', deltas')
    BY <1>1, <1>2, <2>1, KnownStill DEF Complete
  <2> QED
    BY <1>4, <2>2 DEF Complete
<1> QED
  BY <1>3, <1>4

(* A failure of the visit's sync is the only one that counts.              *)
LEMMA SyncGivenUpComplete ==
  ASSUME Apart, PastFits, Complete, NEW t \in DOMAIN syncs, SyncFails(t) \/ SyncHasNoModel(t)
  PROVE  Complete'
<1>1. /\ \E model : SyncEnds(t, model)
      /\ \/ past' = [past EXCEPT !.failures = @ + 1, !.broken = @ \/ ~IsStale(t)]
         \/ past' = [past EXCEPT !.broken = @ \/ ~IsStale(t)]
  BY DEF SyncFails, SyncHasNoModel, Broken
<1>2. past'.broken = (past.broken \/ ~IsStale(t)) /\ past.broken \in BOOLEAN
  BY <1>1 DEF PastFits
<1> QED
  BY <1>1, <1>2, SyncEndsComplete

(* All steps of a sync.                                                    *)
LEMMA SyncStepComplete ==
  ASSUME Apart, PastFits, Complete, NEW t \in DOMAIN syncs, SyncStep(t) \/ SyncFails(t)
  PROVE  Complete'
  BY BailComplete, LoadForumEmbeddingsComplete, LoadForumIndexComplete, HydratedComplete,
     ReadHeadComplete, ReadRankedComplete, ReadChainComplete, IndexedComplete, SavedComplete, SyncGivenUpComplete
  DEF SyncStep

-----------------------------------------------------------------------------
(* A delta.                                                                *)

(* The cursor and the documents of the visit only go on. *)
LEMMA KnownFurther ==
  ASSUME Complete, chain' = chain, syncs' = syncs, page.cursor # 0, page'.cursor # 0,
         page'.token = page.token, page'.active = page.active, page'.kind = page.kind,
         DOMAIN page.docs \subseteq DOMAIN page'.docs, CursorFits(chain, page'),
         \A x \in deltas' : x.forum = page.active => x \in deltas \/ DeltaKnows(chain, page', x)
  PROVE  KnowsChain(chain', page', syncs', deltas')
<1>1. /\ ChainFits(chain) /\ DeltasKnow(chain, page, deltas)
      /\ page.token \in DOMAIN syncs => SyncKnows(chain, page, syncs[page.token])
  BY DEF Complete, KnowsChain
<1>2. ASSUME NEW x \in deltas', x.forum = page.active
      PROVE  DeltaKnows(chain, page', x)
  <2>1. CASE x \in deltas
    <3>1. DeltaKnows(chain, page, x)
      BY <1>1, <1>2, <2>1 DEF DeltasKnow
    <3>2. DeltaKnows(chain, page', x)
      BY <3>1, DeltaKnowsStill
    <3> QED
      BY <3>2
  <2> QED
    BY <1>2, <2>1
<1>3. page.token \in DOMAIN syncs => SyncKnows(chain, page', syncs[page.token])
  BY <1>1 DEF SyncKnows, OwnKind
<1> QED
  BY <1>1, <1>2, <1>3 DEF KnowsChain, DeltasKnow

(* A delta of the forum on screen knows where it began.                    *)
LEMMA DeltaOfForum ==
  ASSUME Apart, Complete, NEW d \in deltas, SameForum(d)
  PROVE  /\ DeltaFits(d, page.active) /\ DeltaKnows(chain, page, d)
         /\ d.forum = page.active /\ page.active \in Forums /\ d.kind \in Engines
  BY DeltaIs DEF SameForum, Apart, Complete, KnowsChain, DeltasKnow

(* One that is dropped before it has asked anything of the worker, or      *)
(* that is not of the forum on screen.                                     *)
LEMMA DropComplete ==
  ASSUME Complete, NEW d \in deltas, deltas' = deltas \ {d},
         d.step # "indexing" \/ ~SameForum(d),
         UNCHANGED <<chain, syncs, engines>>, past'.broken = past.broken,
         Stays(page, page'), page'.ready = page.ready
  PROVE  Complete'
  BY CompleteStill DEF SameForum

(* It reads up to the head without the confirmations, if that is further.  *)
LEMMA DeltaHeadComplete ==
  ASSUME Apart, Complete, NEW d \in deltas, DeltaHead(d)
  PROVE  Complete'
<1>1. /\ d.step = "head" /\ UNCHANGED <<chain, page, syncs, engines, past>>
      /\ Stays(page, page') /\ page'.ready = page.ready
  BY DEF DeltaHead, Stays
<1>2. CASE SafeHead <= d.from \/ ~SameForum(d)
  <2>1. deltas' = deltas \ {d}
    BY <1>2 DEF DeltaHead, Drop
  <2> QED
    BY <1>1, <2>1, DropComplete
<1>3. CASE ~(SafeHead <= d.from \/ ~SameForum(d))
  <2> DEFINE next == [d EXCEPT !.step = "logs", !.safe = SafeHead]
  <2>1. deltas' = (deltas \ {d}) \cup {next}
    BY <1>3 DEF DeltaHead, Become
  <2>2. DeltaFits(d, page.active) /\ DeltaKnows(chain, page, d)
    BY <1>3, DeltaOfForum
  <2>3. /\ next.step = "logs" /\ next.safe = SafeHead /\ next.from = d.from
        /\ next.kind = d.kind
    BY <2>2 DEF DeltaFits
  <2>4. SafeHead \in d.from + 1 .. chain.head
    <3>1. SafeHead \in 1..chain.head /\ chain.head \in Nat
      BY SafeHeadIs DEF Complete, KnowsChain, ChainFits
    <3>2. d.from \in 1..chain.head
      BY <2>2 DEF DeltaKnows
    <3> QED
      BY <1>3, <3>1, <3>2
  <2> HIDE DEF next
  <2>5. DeltaKnows(chain, page, next)
    BY <2>2, <2>3, <2>4 DEF DeltaKnows
  <2> QED
    BY <1>1, <2>1, <2>3, <2>5, CompleteStill
<1> QED
  BY <1>2, <1>3

(* Without a new statement the cursor moves on at once.                    *)
LEMMA DeltaLogsComplete ==
  ASSUME Apart, Complete, NEW d \in deltas, DeltaLogs(d)
  PROVE  Complete'
<1> DEFINE read == EngagedStatementIds(d.forum, d.from + 1, d.safe)
           new == read \ DOMAIN page.docs
<1>1. d.step = "logs" /\ UNCHANGED <<chain, syncs, engines, past>>
  BY DEF DeltaLogs
<1>2. CASE ~SameForum(d)
  <2>1. deltas' = deltas \ {d} /\ Stays(page, page') /\ page'.ready = page.ready
    BY <1>2 DEF DeltaLogs, Drop, Stays
  <2> QED
    BY <1>1, <2>1, DropComplete
<1>3. CASE SameForum(d)
  <2>1. /\ DeltaFits(d, page.active) /\ DeltaKnows(chain, page, d) /\ d.forum = page.active
        /\ ChainFits(chain)
    BY <1>3, DeltaOfForum DEF Complete, KnowsChain
  <2>2. /\ d.from \in 1..chain.head /\ d.safe \in d.from + 1 .. chain.head
        /\ page.cursor # 0 /\ Covers(DOMAIN page.docs, chain, page.active, d.from)
    BY <1>1, <2>1 DEF DeltaKnows
  <2>3. \A e \in chain.events : e.forum = page.active /\ e.block \in d.from + 1 .. d.safe
                                  => e.id \in read
    BY <2>1, <2>2, EngagedSince
  <2> HIDE DEF read
  <2>4. \A e \in chain.events : e.forum = page.active /\ e.block \in d.from + 1 .. d.safe
                                  => e.id \in DOMAIN page.docs \cup new
    BY <2>3
  <2>5. CASE new = {}
    <3>1. deltas' = deltas \ {d} /\ page' = [page EXCEPT !.cursor = d.safe]
      BY <1>3, <2>5 DEF DeltaLogs, Drop, read
    <3>2. /\ page'.token = page.token /\ page'.active = page.active
          /\ page'.kind = page.kind /\ page'.docs = page.docs /\ page'.ready = page.ready
          /\ page'.cursor = d.safe
      BY <3>1 DEF Apart, PageFits
    <3>3. d.safe \in 0..chain.head /\ d.safe # 0
      BY <2>1, <2>2 DEF ChainFits
    <3>4. Covers(DOMAIN page.docs, chain, page.active, d.safe)
      <4>1. Covers(DOMAIN page.docs \cup new, chain, page.active, d.safe)
        <5> HIDE DEF new
        <5> QED
          BY <2>1, <2>2, <2>4, DeltaIsRead
      <4>2. DOMAIN page.docs \cup new = DOMAIN page.docs
        BY <2>5
      <4> QED
        BY <4>1, <4>2
    <3>5. CursorFits(chain, page')
      BY <3>2, <3>3, <3>4 DEF CursorFits
    <3>6. KnowsChain(chain', page', syncs', deltas')
      BY <1>1, <2>2, <3>1, <3>2, <3>3, <3>5, KnownFurther
    <3>7. ASSUME ~past'.broken PROVE Served(page', engines', syncs', deltas')
      <4>1. ReadyFits(page', syncs')
        BY <3>2, <3>3 DEF ReadyFits
      <4>2. {x \in deltas' : x.forum = page.active /\ x.step = "indexing"}
              = {x \in deltas : x.forum = page.active /\ x.step = "indexing"}
        BY <1>1, <3>1
      <4>3. Waiting(page', syncs', deltas') = Waiting(page, syncs, deltas)
        BY <1>1, <3>2, <4>2 DEF Waiting
      <4>4. page.kind # "backend" => WorkerKnows(page, engines, Waiting(page, syncs, deltas))
        BY <1>1, <2>2, <3>7 DEF Complete, Served
      <4>5. page'.kind # "backend"
              => WorkerKnows(page', engines', Waiting(page', syncs', deltas'))
        BY <1>1, <3>2, <4>3, <4>4 DEF WorkerKnows
      <4> QED
        BY <4>1, <4>5 DEF Served
    <3> QED
      BY <3>6, <3>7 DEF Complete
  <2>6. CASE new # {}
    <3> DEFINE next == [d EXCEPT !.step = "texts", !.ids = new]
    <3>1. deltas' = (deltas \ {d}) \cup {next} /\ page' = page
      BY <1>3, <2>6 DEF DeltaLogs, Become, read
    <3> HIDE DEF new
    <3>2. /\ next.step = "texts" /\ next.safe = d.safe /\ next.from = d.from
          /\ next.kind = d.kind /\ next.ids = new
      BY <2>1 DEF DeltaFits
    <3> HIDE DEF next
    <3>3. DeltaKnows(chain, page, next)
      BY <1>1, <2>1, <2>4, <3>2 DEF DeltaKnows
    <3>4. Stays(page, page') /\ page'.ready = page.ready
      BY <3>1 DEF Stays
    <3> QED
      BY <1>1, <3>1, <3>2, <3>3, <3>4, CompleteStill
  <2> QED
    BY <2>5, <2>6
<1> QED
  BY <1>2, <1>3

(* With one, the documents are added before the worker is asked to index   *)
(* them, and the cursor stays.                                             *)
LEMMA DeltaTextsComplete ==
  ASSUME Apart, Complete, NEW d \in deltas, DeltaTexts(d)
  PROVE  Complete'
<1> DEFINE docs == StatementsByIds(d.forum, d.ids)
           all == Adding(docs, page.docs)
<1>1. d.step = "texts" /\ UNCHANGED <<chain, syncs, past>>
  BY DEF DeltaTexts
<1>2. CASE ~SameForum(d)
  <2>1. /\ deltas' = deltas \ {d} /\ engines' = engines
        /\ Stays(page, page') /\ page'.ready = page.ready
    BY <1>2 DEF DeltaTexts, Drop, Stays
  <2> QED
    BY <1>1, <2>1, DropComplete
<1>3. CASE SameForum(d)
  <2>1. PICK replace \in BOOLEAN :
          /\ ~replace
          /\ page' = [page EXCEPT !.docs = all]
          /\ \E job :
             /\ job = Job(d.kind, d.forum, docs, replace, NoDocs)
             /\ engines' = Index(d.kind, d.forum, docs, replace, NoDocs)
             /\ deltas' = (deltas \ {d}) \cup {[d EXCEPT !.step = "indexing", !.job = job]}
    BY <1>3 DEF DeltaTexts, Become
  <2>2. PICK job :
          /\ job = Job(d.kind, d.forum, docs, replace, NoDocs)
          /\ engines' = Index(d.kind, d.forum, docs, replace, NoDocs)
          /\ deltas' = (deltas \ {d}) \cup {[d EXCEPT !.step = "indexing", !.job = job]}
    BY <2>1
  <2> DEFINE next == [d EXCEPT !.step = "indexing", !.job = job]
  <2>3. /\ DeltaFits(d, page.active) /\ DeltaKnows(chain, page, d) /\ d.forum = page.active
        /\ ChainFits(chain) /\ page.active \in Forums /\ d.kind \in Engines
    BY <1>3, DeltaOfForum DEF Complete, KnowsChain
  <2>4. /\ d.from \in 1..chain.head /\ d.safe \in d.from + 1 .. chain.head
        /\ page.cursor # 0 /\ Covers(DOMAIN page.docs, chain, page.active, d.from)
        /\ \A e \in chain.events : e.forum = page.active /\ e.block \in d.from + 1 .. d.safe
                                     => e.id \in DOMAIN page.docs \cup d.ids
        /\ OwnKind(page, d.kind)
    BY <1>1, <2>3 DEF DeltaKnows
  <2>5. /\ OfForum(d.forum, docs) /\ DOMAIN docs = d.ids
        /\ DOMAIN all = d.ids \cup DOMAIN page.docs
    <3>1. OfForum(d.forum, docs) /\ DOMAIN docs = d.ids
      BY StatementsFit
    <3> HIDE DEF docs
    <3>2. DOMAIN all = DOMAIN docs \cup DOMAIN page.docs
      BY AddingDomain
    <3> QED
      BY <3>1, <3>2
  <2> HIDE DEF docs, all
  <2>6. /\ page'.token = page.token /\ page'.active = page.active
        /\ page'.kind = page.kind /\ page'.docs = all /\ page'.ready = page.ready
        /\ page'.cursor = page.cursor
    BY <2>1 DEF Apart, PageFits
  <2>7. /\ next.step = "indexing" /\ next.safe = d.safe /\ next.from = d.from
        /\ next.kind = d.kind /\ next.job = job /\ next.forum = d.forum
    BY <2>3 DEF DeltaFits
  <2>8. deltas' = (deltas \ {d}) \cup {next}
    BY <2>2
  <2> HIDE DEF next
  <2>9. Covers(DOMAIN all, chain, page.active, d.safe)
    <3>1. Covers(DOMAIN page.docs \cup d.ids, chain, page.active, d.safe)
      BY <2>3, <2>4, DeltaIsRead
    <3>2. DOMAIN all = DOMAIN page.docs \cup d.ids
      BY <2>5
    <3> QED
      BY <3>1, <3>2
  <2>10. CursorFits(chain, page')
    <3>1. CursorFits(chain, page)
      BY DEF Complete, KnowsChain
    <3> QED
      BY <2>5, <2>6, <3>1 DEF CursorFits, Covers
  <2>11. DeltaKnows(chain, page', next)
    <3>1. Covers(DOMAIN all, chain, page.active, d.from)
      BY <2>4, <2>5 DEF Covers
    <3>2. OwnKind(page', d.kind)
      BY <2>4, <2>6 DEF OwnKind
    <3> QED
      BY <2>4, <2>6, <2>7, <2>9, <3>1, <3>2 DEF DeltaKnows
  <2>12. KnowsChain(chain', page', syncs', deltas')
    BY <1>1, <2>4, <2>5, <2>6, <2>8, <2>10, <2>11, KnownFurther
  <2>13. ASSUME ~past'.broken PROVE Served(page', engines', syncs', deltas')
    <3>1. ReadyFits(page', syncs')
      BY <2>4, <2>6 DEF ReadyFits
    <3>2. ASSUME page'.kind # "backend"
          PROVE  WorkerKnows(page', engines', Waiting(page', syncs', deltas'))
      <4> DEFINE waiting == Waiting(page, syncs, deltas)
      <4>1. page.kind = d.kind /\ page.kind # "backend"
        BY <2>4, <2>6, <3>2 DEF OwnKind
      <4>2. WorkerKnows(page, engines, waiting)
        BY <1>1, <2>4, <2>13, <4>1 DEF Complete, Served
      <4>3. Waiting(page', syncs', deltas') = waiting \cup {job}
        <5>1. {x \in deltas' : x.forum = page.active /\ x.step = "indexing"}
                = {x \in deltas : x.forum = page.active /\ x.step = "indexing"} \cup {next}
          BY <1>1, <2>3, <2>7, <2>8
        <5> QED
          BY <1>1, <2>6, <2>7, <5>1 DEF Waiting
      <4> HIDE DEF waiting
      <4>4. PICK new : new = engines'
        OBVIOUS
      <4>5. /\ page.active \in DOMAIN engines[d.kind].of /\ EnginesFit(engines)
            /\ EngineKnows(page.docs, d.kind, waiting, engines[d.kind].of[page.active])
        BY <4>1, <4>2 DEF WorkerKnows, Apart
      <4>6. /\ new = Index(d.kind, page.active, docs, replace, NoDocs)
            /\ job = Job(d.kind, page.active, docs, replace, NoDocs)
        BY <2>2, <2>3, <4>4
      <4>7. /\ page.active \in DOMAIN new[d.kind].of
            /\ EngineKnows(Adding(docs, page.docs), d.kind, waiting \cup {job},
                           new[d.kind].of[page.active])
        BY <2>1, <2>3, <2>5, <4>5, <4>6, WorkerTakes
      <4> QED
        BY <2>6, <4>1, <4>3, <4>4, <4>7 DEF WorkerKnows, all
    <3> QED
      BY <3>1, <3>2 DEF Served
  <2> QED
    BY <2>12, <2>13 DEF Complete
<1> QED
  BY <1>2, <1>3

(* When the worker has answered, the cursor moves to where the delta read  *)
(* to.                                                                     *)
LEMMA DeltaIndexedComplete ==
  ASSUME Apart, Complete, NEW d \in deltas, DeltaIndexed(d)
  PROVE  Complete'
<1> DEFINE vectors == Captured(d.job)
           model == Extractor(d.job.missing)
           next == [d EXCEPT !.step = "saving", !.job = NoJob]
<1>1. /\ d.step = "indexing" /\ UNCHANGED <<chain, syncs, past>>
      /\ engines' = AfterWorker(d.kind, d.forum, d.job)
      /\ page' = [page EXCEPT !.vectors = vectors, !.cursor = d.safe, !.model = model]
      /\ deltas' = (deltas \ {d}) \cup {next}
  BY DEF DeltaIndexed, Become
<1> HIDE DEF vectors, model
<1>2. SameForum(d)
  BY <1>1, DeltaIs DEF SameForum, Apart
<1>3. /\ DeltaFits(d, page.active) /\ DeltaKnows(chain, page, d) /\ d.forum = page.active
      /\ ChainFits(chain) /\ page.active \in Forums /\ d.kind \in Engines
      /\ JobOf(d.kind, page.active, d.job)
  BY <1>2, DeltaOfForum DEF Complete, KnowsChain, DeltaFits
<1>4. /\ d.from \in 1..chain.head /\ d.safe \in d.from + 1 .. chain.head
      /\ page.cursor # 0 /\ OwnKind(page, d.kind)
      /\ Covers(DOMAIN page.docs, chain, page.active, d.from)
      /\ Covers(DOMAIN page.docs, chain, page.active, d.safe)
  BY <1>1, <1>3 DEF DeltaKnows
<1>5. d.safe \in 0..chain.head /\ d.safe # 0
  BY <1>3, <1>4 DEF ChainFits
<1>6. /\ page'.token = page.token /\ page'.active = page.active
      /\ page'.kind = page.kind /\ page'.docs = page.docs /\ page'.ready = page.ready
      /\ page'.cursor = d.safe
  BY <1>1 DEF Apart, PageFits
<1>7. /\ next.step = "saving" /\ next.safe = d.safe /\ next.from = d.from
      /\ next.kind = d.kind
  BY <1>3 DEF DeltaFits
<1> HIDE DEF next
<1>8. CursorFits(chain, page')
  BY <1>4, <1>5, <1>6 DEF CursorFits
<1>9. DeltaKnows(chain, page', next)
  <2>1. OwnKind(page', d.kind)
    BY <1>4, <1>6 DEF OwnKind
  <2> QED
    BY <1>4, <1>5, <1>6, <1>7, <2>1 DEF DeltaKnows
<1>10. KnowsChain(chain', page', syncs', deltas')
  BY <1>1, <1>4, <1>5, <1>6, <1>8, <1>9, KnownFurther
<1>11. ASSUME ~past'.broken PROVE Served(page', engines', syncs', deltas')
  <2>1. ReadyFits(page', syncs')
    BY <1>5, <1>6 DEF ReadyFits
  <2>2. ASSUME page'.kind # "backend"
        PROVE  WorkerKnows(page', engines', Waiting(page', syncs', deltas'))
    <3> DEFINE waiting == Waiting(page, syncs, deltas)
               rest == Waiting(page', syncs', deltas')
    <3>1. page.kind = d.kind /\ page.kind # "backend"
      BY <1>4, <1>6, <2>2 DEF OwnKind
    <3>2. WorkerKnows(page, engines, waiting)
      BY <1>1, <1>4, <1>11, <3>1 DEF Complete, Served
    <3>3. d.job \in waiting /\ rest \subseteq waiting /\ waiting \subseteq rest \cup {d.job}
      <4>1. {x \in deltas' : x.forum = page.active /\ x.step = "indexing"}
              = {x \in deltas : x.forum = page.active /\ x.step = "indexing"} \ {d}
        BY <1>1, <1>7
      <4>2. d \in {x \in deltas : x.forum = page.active /\ x.step = "indexing"}
        BY <1>1, <1>3
      <4> QED
        BY <1>1, <1>6, <4>1, <4>2 DEF Waiting
    <3> HIDE DEF waiting
    <3>4. PICK new : new = engines'
      OBVIOUS
    <3> HIDE DEF rest
    <3>5. PICK left : left = rest /\ left \subseteq waiting /\ waiting \subseteq left \cup {d.job}
      BY <3>3
    <3>6. /\ page.active \in DOMAIN engines[d.kind].of /\ EnginesFit(engines)
          /\ EngineKnows(page.docs, d.kind, waiting, engines[d.kind].of[page.active])
      BY <3>1, <3>2 DEF WorkerKnows, Apart
    <3>7. new = AfterWorker(d.kind, page.active, d.job)
      BY <1>1, <1>3, <3>4
    <3>8. /\ page.active \in DOMAIN new[d.kind].of
          /\ EngineKnows(page.docs, d.kind, left, new[d.kind].of[page.active])
      <4>1. page.active \in Forums /\ d.kind \in Engines /\ JobOf(d.kind, page.active, d.job)
        BY <1>3
      <4>2. d.job \in waiting
        BY <3>3
      <4> QED
        BY ONLY <3>5, <3>6, <3>7, <4>1, <4>2, WorkerAnswers
    <3> QED
      BY <1>6, <3>1, <3>4, <3>5, <3>8 DEF WorkerKnows, rest
  <2> QED
    BY <2>1, <2>2 DEF Served
<1> QED
  BY <1>10, <1>11 DEF Complete

(* What is saved afterwards is not looked at.                              *)
LEMMA DeltaSavedComplete ==
  ASSUME Complete, NEW d \in deltas, DeltaSaved(d)
  PROVE  Complete'
<1>1. /\ d.step = "saving" /\ deltas' = deltas \ {d}
      /\ UNCHANGED <<chain, page, syncs, engines, past>>
      /\ Stays(page, page') /\ page'.ready = page.ready
  BY DEF DeltaSaved, Drop, Stays
<1> QED
  BY <1>1, DropComplete

(* One that is given up leaves the index for broken if the worker has its  *)
(* documents.                                                              *)
LEMMA DeltaGivenUpComplete ==
  ASSUME Apart, PastFits, Complete, NEW d \in deltas, DeltaFails(d) \/ DeltaHasNoModel(d)
  PROVE  Complete'
<1>1. /\ deltas' = deltas \ {d} /\ UNCHANGED <<chain, syncs, engines>>
      /\ page' = page \/ \E model : page' = [page EXCEPT !.model = model]
  BY DEF DeltaFails, DeltaHasNoModel, Drop
<1>2. Stays(page, page') /\ page'.ready = page.ready
  BY <1>1 DEF Stays, Apart, PageFits
<1>3. (past'.broken = past.broken /\ d.step # "indexing") \/ past'.broken
  BY DEF DeltaFails, DeltaHasNoModel, Broken, PastFits
<1>4. CASE past'.broken = past.broken /\ d.step # "indexing"
  BY <1>1, <1>2, <1>4, DropComplete
<1>5. CASE past'.broken
  <2>1. KnowsChain(chain', page', syncs', deltas')
    BY <1>1, <1>2, KnownStill DEF Complete
  <2> QED
    BY <1>5, <2>1 DEF Complete
<1> QED
  BY <1>3, <1>4, <1>5

(* All steps of a delta.                                                   *)
LEMMA DeltaStepComplete ==
  ASSUME Apart, PastFits, Complete, NEW d \in deltas, DeltaStep(d) \/ DeltaFails(d)
  PROVE  Complete'
  BY DeltaHeadComplete, DeltaLogsComplete, DeltaTextsComplete, DeltaIndexedComplete,
     DeltaSavedComplete, DeltaGivenUpComplete
  DEF DeltaStep

-----------------------------------------------------------------------------
(* All together.                                                           *)
LEMMA CompleteNext ==
  ASSUME ApartInv, CompleteInv, [SearchNext]_searchVars
  PROVE  CompleteInv'
<1>1. CASE UNCHANGED searchVars
  BY <1>1 DEF searchVars, CompleteInv, Complete
<1>2. CASE SearchNext
  <2>1. PastFits /\ PastFits' /\ (past.crossed => past'.crossed)
    BY <1>2, PastGoesOn DEF ApartInv
  <2> SUFFICES ASSUME ~past'.crossed PROVE Complete'
    BY DEF CompleteInv
  <2>2. /\ Apart /\ Complete /\ past.crossed \in BOOLEAN
        /\ DOMAIN past = {"failures", "broken", "crossed"}
    BY <2>1 DEF PastFits, ApartInv, CompleteInv
  <2> QED
    BY <1>2, <2>1, <2>2, SelectForumComplete, SelectKindComplete, ReloadComplete,
       MineBlockComplete, SyncDeltaComplete, SearchComplete, SyncStepComplete,
       DeltaStepComplete
    DEF SearchNext, SomeDelta
<1> QED
  BY <1>1, <1>2

(* At the start there is nothing.                                          *)
LEMMA CompleteInit == SearchInit => CompleteInv
<1> SUFFICES ASSUME SearchInit PROVE Complete
  BY DEF CompleteInv
<1> USE DEF SearchInit
<1>1. ChainFits(chain)
  BY DEF ChainFits
<1>2. CursorFits(chain, page)
  BY DEF CursorFits
<1>3. DeltasKnow(chain, page, deltas) /\ page.token \notin DOMAIN syncs
  BY DEF DeltasKnow
<1>4. Served(page, engines, syncs, deltas)
  BY DEF Served, ReadyFits
<1> QED
  BY <1>1, <1>2, <1>3, <1>4 DEF Complete, KnowsChain

(* The strengthened invariant. *)
THEOREM CompleteInvariant == SearchSpec => []CompleteInv
<1>1. ApartInv /\ CompleteInv /\ [SearchNext]_searchVars => CompleteInv'
  BY CompleteNext
<1> QED
  BY <1>1, CompleteInit, ApartInvariant, PTL DEF SearchSpec

(* The cursor never runs ahead of the documents, and when the page says    *)
(* that the index is ready, the worker has all documents of it and no      *)
(* others, unless that is being done or the worker failed.                 *)
THEOREM IndexAlwaysComplete == SearchSpec => []IndexIsComplete
<1>1. CompleteInv => IndexIsComplete
  <2> SUFFICES ASSUME CompleteInv PROVE IndexIsComplete
    OBVIOUS
  <2>1. CursorIsCovered
    BY DEF CursorIsCovered, CompleteInv, Complete, KnowsChain, CursorFits, Covers
  <2>2. ReadyMeansIndexed
    <3> SUFFICES ASSUME page.ready, page.kind # "backend", page.forum = page.active,
                        ~past.crossed, ~past.broken,
                        \A t \in DOMAIN syncs : syncs[t].job = NoJob,
                        \A d \in deltas : d.job = NoJob
                 PROVE  /\ page.forum \in DOMAIN engines[page.kind].of
                        /\ DOMAIN page.docs
                             = DOMAIN engines[page.kind].of[page.forum].entries
      BY DEF ReadyMeansIndexed
    <3> DEFINE waiting == Waiting(page, syncs, deltas)
    <3>1. ReadyFits(page, syncs) /\ (page.cursor # 0 => WorkerKnows(page, engines, waiting))
      BY DEF CompleteInv, Complete, Served
    <3>2. page.cursor # 0
      BY <3>1 DEF ReadyFits
    <3>3. waiting \subseteq {NoJob}
      BY DEF Waiting
    <3> HIDE DEF waiting
    <3>4. DOMAIN NoJob.docs = {}
      BY NothingFits DEF NoJob
    <3>5. /\ page.active \in DOMAIN engines[page.kind].of
          /\ EngineKnows(page.docs, page.kind, waiting, engines[page.kind].of[page.active])
      BY <3>1, <3>2 DEF WorkerKnows
    <3> QED
      BY <3>3, <3>4, <3>5 DEF EngineKnows
  <2> QED
    BY <2>1, <2>2 DEF IndexIsComplete
<1> QED
  BY <1>1, CompleteInvariant, PTL

=============================================================================
