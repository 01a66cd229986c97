-------------------------------- MODULE Indexer --------------------------------
(***************************************************************************)
(* The indexer of the backend (indexer.py): it polls the chain for the     *)
(* events of several forums, writes them to Meilisearch in batches of      *)
(* blocks, one coroutine per forum, persists the next block to index, and  *)
(* deletes documents without recent engagement.  Requests fail, Meilisearch *)
(* reports failed tasks, and the process dies and is started again.        *)
(*                                                                         *)
(* A block's number is also its timestamp, and the clock is the head's.    *)
(* The number of coroutines that outlive an error is small; two of them in *)
(* the same place are counted as one.                                      *)
(***************************************************************************)
EXTENDS Integers, Sequences, FiniteSets, FiniteSetsExt

CONSTANTS
    Statements,     \* of all forums
    ForumOf,        \* the forum of a statement
    None,
    BatchSize,      \* _INDEX_RANGE_BATCH_SIZE
    Lookback,       \* _MAX_STARTUP_LOOKBACK_SECONDS
    MaxAge,         \* eviction_max_age_seconds
    MaxHead,        \* bound on the chain
    MaxFailures,    \* bound on failing requests and tasks
    MaxCrashes      \* bound on restarts

ASSUME IndexerBounds ==
    /\ {BatchSize, MaxHead} \subseteq Nat \ {0}
    /\ {Lookback, MaxAge, MaxFailures, MaxCrashes} \subseteq Nat
    /\ None \notin Nat

VARIABLES
    head,       \* the latest block
    events,     \* StatementAdded and StatementEngaged
    index,      \* the documents: a partial function on Statements
    stored,     \* the persisted nextBlockToIndex
    process,    \* run_indexers: its state, its cursors
    jobs,       \* the coroutines _index_forum_block_range
    history     \* what the properties refer to

vars == <<head, events, index, stored, process, jobs, history>>

Blocks == 1 .. MaxHead
IndexedForums == {ForumOf[s] : s \in Statements}
Started == [at |-> "connecting", memory |-> None, cursor |-> None, target |-> None]

TypeOK ==
    /\ head \in 0 .. MaxHead
    /\ events \subseteq [block : Blocks, kind : {"added", "engaged"}, statement : Statements]
    /\ DOMAIN index \subseteq Statements
    /\ \A s \in DOMAIN index : index[s] \in [text : BOOLEAN, lastEngagement : Blocks]
    /\ stored \in {None} \cup 0 .. MaxHead + 1
    /\ process.at \in {"connecting", "polling", "gathering"}
    /\ jobs \subseteq [forum : IndexedForums, from : 0 .. MaxHead, to : 0 .. MaxHead,
                       step : {"added", "engaged"}, awaited : BOOLEAN]

Init ==
    /\ head = 0 /\ events = {} /\ index = <<>> /\ stored = None
    /\ process = Started /\ jobs = {}
    /\ history = [skipped |-> {}, evicted |-> {}, lost |-> {},
                  repeated |-> FALSE, failures |-> 0, crashes |-> 0]

----------------------------------------------------------------------------
(* The chain: at most one event in a block.                                *)
Added(s) == \E e \in events : e.statement = s /\ e.kind = "added"

Mine ==
    /\ head < MaxHead
    /\ head' = head + 1
    /\ events' \in {events} \cup
         {events \cup {[block |-> head + 1, statement |-> s,
                        kind |-> IF Added(s) THEN "engaged" ELSE "added"]} : s \in Statements}
    /\ UNCHANGED <<index, stored, process, jobs, history>>

----------------------------------------------------------------------------
(* Starting.  Reading the persisted cursor takes any answer but the        *)
(* document for its absence.                                               *)
LookbackBlock == IF head > Lookback THEN head - Lookback ELSE 0

InitialCursor(persisted) ==
    Min({head + 1, IF persisted = None \/ persisted < LookbackBlock
                   THEN LookbackBlock ELSE persisted})

Fails == history.failures < MaxFailures
OneFailure == [history EXCEPT !.failures = @ + 1]

\* A failure after which blocks may be indexed again that were persisted as done.
Setback == [OneFailure EXCEPT !.repeated = TRUE]

Connect ==
    /\ process.at = "connecting"
    /\ \E persisted \in IF Fails THEN {stored, None} ELSE {stored} :
         LET cursor == IF process.memory # None THEN process.memory
                       ELSE InitialCursor(persisted)
             before == IF stored = None THEN 0 ELSE stored
         IN  /\ process' = [process EXCEPT !.at = "polling", !.memory = cursor]
             /\ history' = [(IF persisted = stored THEN history ELSE Setback)
                 EXCEPT !.skipped = IF process.memory # None THEN @
                                    ELSE @ \cup before .. cursor - 1]
    /\ UNCHANGED <<head, events, index, stored, jobs>>

----------------------------------------------------------------------------
(* A round: batch after batch up to the head seen at its start.            *)
\* A slip: engagements are written before the documents they belong to.
EngagedFirst == <<"engaged", "added">>

\* The order in which the two kinds of events of a batch are written.
WriteOrder == <<"added", "engaged">>

BatchEnd(p) == Min({p.cursor + BatchSize - 1, p.target})

Batch(p) ==
    {[forum |-> f, from |-> p.cursor, to |-> BatchEnd(p), step |-> WriteOrder[1],
      awaited |-> TRUE] : f \in IndexedForums}

\* A slip: a round begins only once another block is on top of the next one.
BehindOfMany == process.memory < head

Behind == process.memory <= head

Poll ==
    /\ process.at = "polling" /\ Behind
    /\ LET p == [process EXCEPT !.at = "gathering", !.cursor = process.memory, !.target = head]
       IN  process' = p /\ jobs' = jobs \cup Batch(p)
    /\ UNCHANGED <<head, events, index, stored, history>>

\* An exception reaches run_indexers, which connects again after a while.  The
\* coroutines that gather was waiting for go on without it.
Raise(remaining) ==
    /\ process' = [Started EXCEPT !.memory = process.memory]
    /\ jobs' = {[j EXCEPT !.awaited = FALSE] : j \in remaining}

(* gather returns: the cursor moves past the batch and is persisted, which *)
(* may fail with a message in the log or with an exception.                *)
Persist(next, persisted) ==
    LET p == [process EXCEPT !.cursor = next]
    IN  /\ stored' = persisted
        /\ IF next <= process.target
           THEN process' = p /\ jobs' = jobs \cup Batch(p)
           ELSE /\ process' = [Started EXCEPT !.at = "polling", !.memory = next]
                /\ UNCHANGED jobs

\* A slip: the cursor moves past everything the round is about.
AfterRound == process.target + 1

AfterBatch == BatchEnd(process) + 1

Gathered ==
    /\ process.at = "gathering"
    /\ \A j \in jobs : ~j.awaited
    /\ \/ Persist(AfterBatch, AfterBatch) /\ UNCHANGED history
       \/ Fails /\ Persist(AfterBatch, stored) /\ history' = OneFailure
       \/ /\ Fails /\ history' = Setback
          /\ stored' \in {stored, AfterBatch}
          /\ Raise(jobs)
    /\ UNCHANGED <<head, events, index>>

----------------------------------------------------------------------------
(* One forum's part of a batch: added statements replace documents,        *)
(* engagements update or create them.                                      *)
InRange(j, kind) ==
    {e \in events : /\ e.kind = kind /\ ForumOf[e.statement] = j.forum
                    /\ e.block \in j.from .. j.to}

Documents(j) ==
    LET found == InRange(j, j.step)
        touched == {e.statement : e \in found}
    IN  [s \in DOMAIN index \cup touched |->
          IF s \notin touched THEN index[s]
          ELSE [text |-> j.step = "added" \/ (s \in DOMAIN index /\ index[s].text),
                lastEngagement |-> Max({e.block : e \in {x \in found : x.statement = s}})]]

Advance(j) ==
    jobs' = (jobs \ {j}) \cup (IF j.step = WriteOrder[1] THEN {[j EXCEPT !.step = WriteOrder[2]]} ELSE {})

Write(j) ==
    /\ index' = Documents(j)
    /\ Advance(j)
    /\ UNCHANGED <<process, history>>

\* The task fails at Meilisearch; a message is logged and nothing is stored.
WriteFails(j) ==
    /\ Fails /\ InRange(j, j.step) # {}
    /\ Advance(j)
    /\ history' = [OneFailure EXCEPT !.lost = @ \cup InRange(j, j.step)]
    /\ UNCHANGED <<index, process>>

\* A request fails or times out; what it asked for may have been done.
RequestFails(j) ==
    /\ Fails
    /\ index' \in {index, Documents(j)}
    /\ IF j.awaited THEN Raise(jobs \ {j}) ELSE jobs' = jobs \ {j} /\ UNCHANGED process
    /\ history' = Setback

IndexForumBlockRange(j) ==
    /\ Write(j) \/ WriteFails(j) \/ RequestFails(j)
    /\ UNCHANGED <<head, events, stored>>

----------------------------------------------------------------------------
(* The eviction loop, and the end of the process.                          *)
Stale(s) == index[s].lastEngagement < head - MaxAge

Evict ==
    /\ \E s \in DOMAIN index : Stale(s)
    /\ LET stale == {s \in DOMAIN index : Stale(s)}
       IN  /\ index' = [s \in DOMAIN index \ stale |-> index[s]]
           /\ history' = [history EXCEPT !.evicted = @ \cup stale]
    /\ UNCHANGED <<head, events, stored, process, jobs>>

Crash ==
    /\ process # Started /\ history.crashes < MaxCrashes
    /\ process' = Started /\ jobs' = {}
    /\ history' = [history EXCEPT !.crashes = @ + 1]
    /\ UNCHANGED <<head, events, index, stored>>

Next ==
    \/ Mine \/ Connect \/ Poll \/ Gathered \/ Evict \/ Crash
    \/ \E j \in jobs : IndexForumBlockRange(j)

(* The process is started again, connects, polls, and what it awaits is    *)
(* answered.  Nothing is assumed of the chain or of the eviction loop.     *)
Awaited == {j \in jobs : j.awaited}

Spec ==
    /\ Init /\ [][Next]_vars
    /\ WF_vars(Connect) /\ WF_vars(Poll) /\ WF_vars(Gathered)
    /\ WF_vars(\E j \in Awaited : IndexForumBlockRange(j))

----------------------------------------------------------------------------
(* Properties *)

(***************************************************************************)
(* What lies below the persisted cursor has been indexed, whatever failed, *)
(* was repeated or crashed: a statement added there is in the index with   *)
(* its text, unless it was evicted, its task was reported as failed (which *)
(* is only logged), or the block was left out by the startup lookback.     *)
(***************************************************************************)
NothingIsSkipped ==
    stored # None =>
        \A e \in events :
            (e.kind = "added" /\ e.block < stored) =>
                \/ e.block \in history.skipped
                \/ e.statement \in history.evicted \/ e \in history.lost
                \/ e.statement \in DOMAIN index /\ index[e.statement].text

(***************************************************************************)
(* Every statement of the chain can be searched in the end, with the same  *)
(* exceptions: no error, crash or restart stops the indexer for good.      *)
(***************************************************************************)
EventuallySearchable ==
    \A s \in Statements :
        Added(s) ~> \/ s \in DOMAIN index /\ index[s].text
                    \/ s \in history.evicted
                    \/ \E e \in events :
                          /\ e.statement = s /\ e.kind = "added"
                          /\ e \in history.lost \/ e.block \in history.skipped

(***************************************************************************)
(* A document's last engagement is not behind what the persisted cursor    *)
(* covers, or the statement would be evicted while people still engage     *)
(* with it: a crash repeats at most the batch that was not persisted.      *)
(* Excepted is the time after an exception, when a round is repeated from  *)
(* its start although later batches were persisted (indexer.py:697-722).   *)
(***************************************************************************)
EngagementIsKept ==
    stored # None =>
        \A e \in events :
            (e.block < stored /\ e.statement \in DOMAIN index) =>
                \/ e.block \in history.skipped \/ e \in history.lost
                \/ history.repeated
                \/ index[e.statement].lastEngagement >= e.block
=============================================================================
