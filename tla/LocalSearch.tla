------------------------------ MODULE LocalSearch ------------------------------
(***************************************************************************)
(* The search index a browser keeps of the forum it shows                  *)
(* (state/LocalSearch.tsx and localSearch/): a full sync per visit of a    *)
(* forum or choice of an engine, a delta per block after it, one index per *)
(* forum in the worker of each engine (lexical: MiniSearch, hybrid: Orama  *)
(* with sentence vectors), and what IndexedDB keeps of both.               *)
(*                                                                         *)
(* The statements of every forum are numbered from the same Ids, as on the *)
(* chain; a document or a vector is the forum whose text it was made from, *)
(* so a map from ids to forums says both what an index holds and whether   *)
(* it is the right text.  Blocks are counted from 1.  Every await of the   *)
(* code is a place where another action may come in between.               *)
(***************************************************************************)
EXTENDS Integers, FiniteSets, Sequences, SequencesExt

CONSTANTS
    Forums,
    Unvisited,      \* no forum
    Ids,
    Ranked,         \* the ids that make it to their forum's ranked list
    Kinds,          \* engines the member can choose
    Confirmations,  \* CONFIRMATION_BLOCKS
    lookbackBlocks,
    Window,         \* GETLOGS_WINDOW_BLOCKS
    MaxIndexes,     \* MAX_FORUM_INDEXES
    LastBlock,      \* bound on the chain
    MaxRestarts,    \* bound on full syncs
    MaxDeltas,      \* bound on deltas at a time
    MaxErrors       \* bound on failing requests

ASSUME SearchBounds ==
    /\ Ranked \subseteq Ids
    /\ Forums # {} /\ Unvisited \notin Forums
    /\ Kinds \subseteq {"lexical", "hybrid", "backend"}
    /\ {Confirmations, lookbackBlocks, MaxErrors} \subseteq Nat
    /\ {Window, MaxIndexes, LastBlock, MaxRestarts, MaxDeltas} \subseteq Nat \ {0}

VARIABLES
    chain,      \* the head and the StatementEngaged events
    page,       \* the provider's refs and state
    syncs,      \* the full syncs under way, by token
    deltas,     \* the deltas under way
    engines,    \* the indexes in the two workers
    store,      \* IndexedDB
    past        \* what the properties refer to

searchVars == <<chain, page, syncs, deltas, engines, store, past>>

NoDocs == <<>>      \* the map of nothing

----------------------------------------------------------------------------
(* What is read from the chain (localSearch/chain.ts)                      *)

Exist(f) == {e.id : e \in {x \in chain.events : x.forum = f}}

RankedStatements(f) == Exist(f) \cap Ranked

\* A slip: the last block is left out.
EngagedBefore(f, from, to) ==
    IF to < from THEN {}
    ELSE {e.id : e \in {x \in chain.events :
            x.forum = f /\ x.block >= (from \div Window) * Window /\ x.block < to}}

\* Log windows begin at a multiple of Window, so some blocks before `from` are
\* scanned as well.
EngagedStatementIds(f, from, to) ==
    IF to < from THEN {}
    ELSE {e.id : e \in {x \in chain.events :
            x.forum = f /\ x.block >= (from \div Window) * Window /\ x.block <= to}}

SafeHead == IF chain.head > Confirmations THEN chain.head - Confirmations ELSE chain.head

WindowStart(safe) == IF safe > lookbackBlocks THEN safe - lookbackBlocks ELSE 0

StatementsByIds(f, ids) == [id \in ids |-> f]

----------------------------------------------------------------------------
(* The workers                                                             *)

EmptyIndex == NoDocs

NewEngine == [born |-> page.token, vectors |-> NoDocs, entries |-> EmptyIndex]

\* Of two maps, what the second one adds to the first.
Adding(known, more) ==
    [x \in DOMAIN known \cup DOMAIN more |-> IF x \in DOMAIN known THEN known[x] ELSE more[x]]

\* The worker takes an index request: the engine is found or made, is the most
\* recent one, and the one that was not used for longest makes room.
LruAfter(kind, f) ==
    LET lru   == engines[kind].lru
        order == Append(IF f \in ToSet(lru)
                        THEN RemoveAt(lru, CHOOSE i \in DOMAIN lru : lru[i] = f) ELSE lru, f)
    IN  IF Len(order) > MaxIndexes THEN Tail(order) ELSE order

EngineOf(kind, f) ==
    IF f \in DOMAIN engines[kind].of THEN engines[kind].of[f] ELSE NewEngine

WithEngine(kind, f, engine) ==
    LET order == LruAfter(kind, f)
    IN  [engines EXCEPT ![kind] =
            [lru |-> order,
             of |-> [g \in ToSet(order) |-> IF g = f THEN engine ELSE engines[kind].of[g]]]]

Entries(docs, vectors) == [id \in DOMAIN docs |-> [text |-> docs[id], vector |-> vectors[id]]]

\* The lexical worker is done with a request before it takes the next one.
LexicalIndex(f, docs, replace) ==
    LET known == IF replace THEN EmptyIndex ELSE EngineOf("lexical", f).entries
    IN  WithEngine("lexical", f,
            [EngineOf("lexical", f) EXCEPT !.entries = Adding(Entries(docs, docs), known)])

\* The hybrid worker clears and seeds the engine at once, and then awaits the
\* vectors it has not got.
HybridBegin(f, replace, seeds) ==
    LET engine == EngineOf("hybrid", f)
    IN  WithEngine("hybrid", f,
            IF replace THEN [engine EXCEPT !.vectors = seeds, !.entries = EmptyIndex]
            ELSE [engine EXCEPT !.vectors = Adding(@, seeds)])

Missing(f, docs, replace, seeds) ==
    {id \in DOMAIN docs :
        id \notin DOMAIN seeds \cup
                  (IF replace THEN {} ELSE DOMAIN EngineOf("hybrid", f).vectors)}

\* The model that makes vectors is loaded when the first one is needed.  The
\* promise of it is kept, so that a load that failed is not tried again before
\* the page is loaded again.
CanEmbed(missing) == missing = {} \/ page.model # "failed"

Extractor(missing) == IF missing # {} /\ page.model = "none" THEN "loaded" ELSE page.model

\* What the worker does with them, if the engine has not been evicted.
HybridEnd(f, job) ==
    IF f \notin DOMAIN engines.hybrid.of THEN engines
    ELSE IF engines.hybrid.of[f].born # job.born THEN engines
    ELSE LET engine  == engines.hybrid.of[f]
             vectors == Adding(Restrict(job.docs, job.missing), engine.vectors)
             fresh   == {id \in DOMAIN job.docs :
                            id \in DOMAIN vectors /\ id \notin DOMAIN engine.entries}
         IN  [engines EXCEPT !.hybrid.of[f] =
                [engine EXCEPT !.vectors = vectors,
                    !.entries = Adding(@, Entries(Restrict(job.docs, fresh), vectors))]]

\* A request as the page remembers it while it awaits the answer.
Job(kind, f, docs, replace, seeds) ==
    [docs |-> docs,
     missing |-> IF kind = "hybrid" THEN Missing(f, docs, replace, seeds) ELSE {},
     born |-> IF kind = "hybrid" THEN EngineOf("hybrid", f).born ELSE 0]

NoJob == [docs |-> NoDocs, missing |-> {}, born |-> 0]

Index(kind, f, docs, replace, seeds) ==
    IF kind = "hybrid" THEN HybridBegin(f, replace, seeds) ELSE LexicalIndex(f, docs, replace)

----------------------------------------------------------------------------
(* State                                                                   *)

SearchInit ==
    /\ chain = [head |-> 1, events |-> {}]
    /\ page = [forum |-> CHOOSE f \in Forums : TRUE, kind |-> "backend", seen |-> 1,
               token |-> 0, active |-> Unvisited, docs |-> NoDocs, vectors |-> NoDocs,
               cursor |-> 0, ready |-> FALSE, indexing |-> FALSE, model |-> "none"]
    /\ syncs = <<>>
    /\ deltas = {}
    /\ engines = [k \in {"lexical", "hybrid"} |-> [lru |-> <<>>, of |-> <<>>]]
    /\ store = [f \in Forums |-> [docs |-> NoDocs, vectors |-> NoDocs]]
    /\ past = [failures |-> 0, broken |-> FALSE, crossed |-> FALSE]

Without(t) == Restrict(syncs, DOMAIN syncs \ {t})

\* A restart for forum f comes at a time when something is awaited whose rest
\* does not ask whether the page has gone on to something else.
Crosses(f) ==
    \/ \E t \in DOMAIN syncs :
          \/ syncs[t].step = "saving"
          \/ syncs[t].kind = "hybrid" /\ syncs[t].step \in {"hydrating", "indexing"}
    \/ \E d \in deltas : d.forum = f \/ d.step \in {"indexing", "saving"}

\* A full sync that has just begun.
Began(token, f, kind) ==
    [t \in {token} |->
        [forum |-> f, kind |-> kind, safe |-> 0, ranked |-> {}, job |-> NoJob,
         step |-> IF kind = "hybrid" THEN "vectors" ELSE "load"]]

\* The effect at the head of the provider: a new token, everything empty, and
\* a full sync from the start.
Restart(f, kind) ==
    /\ page.token < MaxRestarts
    /\ page' = [page EXCEPT !.forum = f, !.kind = kind, !.token = @ + 1, !.active = f,
                            !.docs = NoDocs, !.vectors = NoDocs, !.cursor = 0,
                            !.ready = FALSE, !.indexing = TRUE]
    /\ syncs' = Adding(syncs, Began(page.token + 1, f, kind))
    /\ past' = [past EXCEPT !.crossed = @ \/ Crosses(f), !.broken = FALSE]
    /\ UNCHANGED <<chain, deltas, engines, store>>

\* With the hosted search the effect does nothing: no delta starts, but what is
\* under way goes on.
SelectForum(f) ==
    /\ f # page.forum
    /\ IF page.kind # "backend" THEN Restart(f, page.kind)
       ELSE /\ page' = [page EXCEPT !.forum = f]
            /\ UNCHANGED <<chain, syncs, deltas, engines, store, past>>

SelectKind(kind) ==
    /\ kind # page.kind
    /\ IF kind # "backend" THEN Restart(page.forum, kind)
       ELSE /\ page' = [page EXCEPT !.kind = kind]
            /\ UNCHANGED <<chain, syncs, deltas, engines, store, past>>

\* The page is loaded again: only IndexedDB is left, and the sync starts over.
Reload ==
    /\ page.token > 0 /\ page.token < MaxRestarts
    /\ page' = [page EXCEPT !.token = @ + 1, !.docs = NoDocs, !.vectors = NoDocs,
                            !.cursor = 0, !.ready = FALSE, !.indexing = page.kind # "backend",
                            !.active = IF page.kind = "backend" THEN Unvisited ELSE page.forum,
                            !.seen = chain.head, !.model = "none"]
    /\ syncs' = IF page.kind = "backend" THEN <<>>
                ELSE Began(page.token + 1, page.forum, page.kind)
    /\ deltas' = {}
    /\ engines' = [k \in {"lexical", "hybrid"} |-> [lru |-> <<>>, of |-> <<>>]]
    /\ past' = [past EXCEPT !.broken = FALSE]
    /\ UNCHANGED <<chain, store>>

\* A block is mined, with a statement that is engaged in it or without.
MineBlock ==
    /\ chain.head < LastBlock
    /\ \/ chain' = [chain EXCEPT !.head = @ + 1]
       \/ \E f \in Forums, id \in Ids :
            chain' = [head |-> chain.head + 1,
                      events |-> chain.events \cup
                          {[forum |-> f, id |-> id, block |-> chain.head + 1]}]
    /\ UNCHANGED <<page, syncs, deltas, engines, store, past>>

----------------------------------------------------------------------------
(* The full sync                                                           *)

IsStale(t) == t # page.token

Go(t, step) == syncs' = [syncs EXCEPT ![t].step = step]

Await(t, step, docs) ==
    LET f == syncs[t].forum  kind == syncs[t].kind
    IN  /\ engines' = Index(kind, f, docs, TRUE, page.vectors)
        /\ syncs' = [syncs EXCEPT ![t].step = step,
                        ![t].job = Job(kind, f, docs, TRUE, page.vectors)]

Bail(t) ==
    /\ IsStale(t)
    /\ syncs[t].step \in {"vectors", "load", "head", "ranked", "reads"}
    /\ syncs' = Without(t)
    /\ UNCHANGED <<chain, page, deltas, engines, store, past>>

LoadForumEmbeddings(t) ==
    /\ syncs[t].step = "vectors" /\ ~IsStale(t)
    /\ page' = [page EXCEPT !.vectors = Adding(store[syncs[t].forum].vectors, @)]
    /\ Go(t, "load")
    /\ UNCHANGED <<chain, deltas, engines, store, past>>

LoadForumIndex(t) ==
    /\ syncs[t].step = "load" /\ ~IsStale(t)
    /\ LET docs == store[syncs[t].forum].docs
       IN  IF docs = NoDocs
           THEN Go(t, "head") /\ UNCHANGED <<page, engines>>
           ELSE /\ page' = [page EXCEPT !.docs = docs]
                /\ Await(t, "hydrating", docs)
    /\ UNCHANGED <<chain, deltas, store, past>>

\* The vectors that the worker made are kept whatever has happened meanwhile.
Captured(job) == Adding(Restrict(job.docs, job.missing), page.vectors)

AfterWorker(kind, f, job) == IF kind = "hybrid" THEN HybridEnd(f, job) ELSE engines

Hydrated(t) ==
    /\ syncs[t].step = "hydrating" /\ CanEmbed(syncs[t].job.missing)
    /\ engines' = AfterWorker(syncs[t].kind, syncs[t].forum, syncs[t].job)
    /\ page' = [page EXCEPT !.vectors = Captured(syncs[t].job), !.ready = @ \/ ~IsStale(t),
                            !.model = Extractor(syncs[t].job.missing)]
    /\ IF IsStale(t) THEN syncs' = Without(t) ELSE Go(t, "head")
    /\ UNCHANGED <<chain, deltas, store, past>>

ReadHead(t) ==
    /\ syncs[t].step = "head" /\ ~IsStale(t)
    /\ syncs' = [syncs EXCEPT ![t].step = "ranked", ![t].safe = SafeHead]
    /\ UNCHANGED <<chain, page, deltas, engines, store, past>>

\* The ranked list, which may have grown since the head was read.
ReadRanked(t) ==
    /\ syncs[t].step = "ranked" /\ ~IsStale(t)
    /\ syncs' = [syncs EXCEPT ![t].step = "reads", ![t].ranked = RankedStatements(syncs[t].forum)]
    /\ UNCHANGED <<chain, page, deltas, engines, store, past>>

\* The events of the window and their texts, which no later block changes, and
\* what is done with them: the map and the cursor are set before the index is.
ReadChain(t) ==
    /\ syncs[t].step = "reads" /\ ~IsStale(t)
    /\ LET f == syncs[t].forum  safe == syncs[t].safe
           merged == StatementsByIds(f,
                syncs[t].ranked \cup EngagedStatementIds(f, WindowStart(safe), safe))
       IN  /\ page' = [page EXCEPT !.docs = merged, !.cursor = safe]
           /\ Await(t, "indexing", merged)
    /\ UNCHANGED <<chain, deltas, store, past>>

Indexed(t) ==
    /\ syncs[t].step = "indexing" /\ CanEmbed(syncs[t].job.missing)
    /\ engines' = AfterWorker(syncs[t].kind, syncs[t].forum, syncs[t].job)
    /\ page' = [page EXCEPT !.vectors = Captured(syncs[t].job),
                            !.model = Extractor(syncs[t].job.missing)]
    /\ IF IsStale(t) THEN syncs' = Without(t) /\ UNCHANGED store
       ELSE /\ syncs' = [syncs EXCEPT ![t].step = "saving", ![t].job = NoJob]
            /\ store' = [store EXCEPT ![syncs[t].forum].docs = syncs[t].job.docs]
    /\ UNCHANGED <<chain, deltas, past>>

\* What is persisted of the vectors: those of the documents the page has now.
Persistable == Restrict(page.vectors, DOMAIN page.vectors \cap DOMAIN page.docs)

VectorsSaved(kind, f) ==
    IF kind = "hybrid" /\ Persistable # NoDocs
    THEN [store EXCEPT ![f].vectors = Persistable] ELSE store

Saved(t) ==
    /\ syncs[t].step = "saving"
    /\ store' = VectorsSaved(syncs[t].kind, syncs[t].forum)
    /\ page' = [page EXCEPT !.ready = TRUE, !.indexing = @ /\ IsStale(t)]
    /\ syncs' = Without(t)
    /\ UNCHANGED <<chain, deltas, engines, past>>

\* The network and the hybrid worker fail now and then, but not for ever.
MayFail == past.failures < MaxErrors

Broken(broken) == past' = [past EXCEPT !.failures = @ + 1, !.broken = @ \/ broken]

\* What a failing request for vectors leaves of the model: another error, or
\* the load itself that failed.
ModelAfter(missing) ==
    IF missing # {} /\ page.model = "none" THEN {"loaded", "failed"} ELSE {page.model}

\* The sync is over, and only another restart begins a new one.
SyncEnds(t, model) ==
    /\ syncs' = Without(t)
    /\ page' = [page EXCEPT !.indexing = @ /\ IsStale(t), !.model = model]
    /\ UNCHANGED <<chain, deltas, engines, store>>

\* A read of the chain or the worker fails.
SyncFails(t) ==
    /\ MayFail
    /\ \/ syncs[t].step \in {"head", "ranked", "reads"} /\ ~IsStale(t)
       \/ syncs[t].step \in {"hydrating", "indexing"} /\ syncs[t].kind = "hybrid"
    /\ \E model \in ModelAfter(syncs[t].job.missing) : SyncEnds(t, model)
    /\ Broken(~IsStale(t))

\* A model whose load failed earlier is awaited again.
SyncHasNoModel(t) ==
    /\ ~CanEmbed(syncs[t].job.missing)
    /\ SyncEnds(t, page.model)
    /\ past' = [past EXCEPT !.broken = @ \/ ~IsStale(t)]

----------------------------------------------------------------------------
(* The delta                                                               *)

\* There are always later blocks with nothing in them, which are not counted:
\* as long as the cursor is behind they are noticed as well.
LaterBlock == page.cursor \in 1 .. SafeHead - 1 /\ deltas = {}

\* useBlockSync: a new block number has been noticed.
SyncDelta ==
    /\ page.seen < chain.head \/ LaterBlock
    /\ page' = [page EXCEPT !.seen = chain.head]
    /\ IF page.kind # "backend" /\ page.forum = page.active /\ page.cursor # 0
       THEN /\ Cardinality(deltas) < MaxDeltas
            /\ deltas' = deltas \cup
                  {[forum |-> page.forum, kind |-> page.kind, from |-> page.cursor,
                    safe |-> 0, ids |-> {}, job |-> NoJob, step |-> "head"]}
       ELSE UNCHANGED deltas
    /\ UNCHANGED <<chain, syncs, engines, store, past>>

Become(d, next) == deltas' = (deltas \ {d}) \cup {next}
Drop(d) == deltas' = deltas \ {d}

\* A slip: what the page shows is not compared after the texts have come.
AnyForum(d) == TRUE

SameForum(d) == d.forum = page.active

DeltaHead(d) ==
    /\ d.step = "head"
    /\ IF SafeHead <= d.from \/ ~SameForum(d) THEN Drop(d)
       ELSE Become(d, [d EXCEPT !.step = "logs", !.safe = SafeHead])
    /\ UNCHANGED <<chain, page, syncs, engines, store, past>>

\* A slip: the cursor moves on before the texts have come.
DeltaLogsMovingOn(d) ==
    /\ d.step = "logs"
    /\ LET new == EngagedStatementIds(d.forum, d.from + 1, d.safe) \ DOMAIN page.docs
       IN  IF ~SameForum(d) THEN Drop(d) /\ UNCHANGED page
           ELSE /\ page' = [page EXCEPT !.cursor = d.safe]
                /\ IF new = {} THEN Drop(d)
                   ELSE Become(d, [d EXCEPT !.step = "texts", !.ids = new])
    /\ UNCHANGED <<chain, syncs, engines, store, past>>

DeltaLogs(d) ==
    /\ d.step = "logs"
    /\ LET new == EngagedStatementIds(d.forum, d.from + 1, d.safe) \ DOMAIN page.docs
       IN  IF ~SameForum(d) THEN Drop(d) /\ UNCHANGED page
           ELSE IF new = {} THEN Drop(d) /\ page' = [page EXCEPT !.cursor = d.safe]
           ELSE Become(d, [d EXCEPT !.step = "texts", !.ids = new]) /\ UNCHANGED page
    /\ UNCHANGED <<chain, syncs, engines, store, past>>

DeltaTexts(d) ==
    /\ d.step = "texts"
    /\ LET docs == StatementsByIds(d.forum, d.ids)
       IN  IF ~SameForum(d) THEN Drop(d) /\ UNCHANGED <<page, engines>>
           ELSE /\ page' = [page EXCEPT !.docs = Adding(docs, @)]
                /\ engines' = Index(d.kind, d.forum, docs, FALSE, NoDocs)
                /\ Become(d, [d EXCEPT !.step = "indexing",
                                !.job = Job(d.kind, d.forum, docs, FALSE, NoDocs)])
    /\ UNCHANGED <<chain, syncs, store, past>>

\* From here on the page is not looked at any more.
DeltaIndexed(d) ==
    /\ d.step = "indexing" /\ CanEmbed(d.job.missing)
    /\ engines' = AfterWorker(d.kind, d.forum, d.job)
    /\ page' = [page EXCEPT !.vectors = Captured(d.job), !.cursor = d.safe,
                            !.model = Extractor(d.job.missing)]
    /\ store' = [store EXCEPT ![d.forum].docs = page.docs]
    /\ Become(d, [d EXCEPT !.step = "saving", !.job = NoJob])
    /\ UNCHANGED <<chain, syncs, past>>

DeltaSaved(d) ==
    /\ d.step = "saving"
    /\ store' = VectorsSaved(d.kind, d.forum)
    /\ Drop(d)
    /\ UNCHANGED <<chain, page, syncs, engines, past>>

\* Of the requests of a delta only the worker's leaves something undone that
\* the next delta does not do again.
DeltaFails(d) ==
    /\ MayFail
    /\ \/ d.step \in {"head", "logs", "texts"}
       \/ d.step = "indexing" /\ d.kind = "hybrid"
    /\ Drop(d)
    /\ \E model \in ModelAfter(d.job.missing) : page' = [page EXCEPT !.model = model]
    /\ Broken(d.step = "indexing")
    /\ UNCHANGED <<chain, syncs, engines, store>>

DeltaHasNoModel(d) ==
    /\ ~CanEmbed(d.job.missing)
    /\ Drop(d)
    /\ past' = [past EXCEPT !.broken = TRUE]
    /\ UNCHANGED <<chain, page, syncs, engines, store>>

----------------------------------------------------------------------------
(* Searching                                                               *)

\* Words are looked up in what has been indexed ...
LexicalHits(f) == DOMAIN engines.lexical.of[f].entries

\* ... and so are vectors, once the query has been made into one.
HybridHits(f) == DOMAIN engines.hybrid.of[f].entries

\* The ids a search of forum f can answer with; none while the worker has no
\* index of f.
Hits(kind, f) ==
    IF f \notin DOMAIN engines[kind].of THEN {}
    ELSE IF kind = "hybrid" THEN HybridHits(f) ELSE LexicalHits(f)

\* A search makes the index of the forum the most recently used one; one by
\* meaning (similar) loads the model, which may fail.
Search ==
    /\ page.kind # "backend"
    /\ page.forum \in DOMAIN engines[page.kind].of
    /\ engines' = [engines EXCEPT ![page.kind].lru = LruAfter(page.kind, page.forum)]
    /\ \/ UNCHANGED <<page, past>>
       \/ /\ page.kind = "hybrid" /\ page.model = "none"
          /\ \/ page' = [page EXCEPT !.model = "loaded"] /\ UNCHANGED past
             \/ MayFail /\ page' = [page EXCEPT !.model = "failed"] /\ Broken(FALSE)
    /\ UNCHANGED <<chain, syncs, deltas, store>>

----------------------------------------------------------------------------

SyncStep(t) ==
    \/ Bail(t) \/ LoadForumEmbeddings(t) \/ LoadForumIndex(t) \/ Hydrated(t)
    \/ ReadHead(t) \/ ReadRanked(t) \/ ReadChain(t) \/ Indexed(t) \/ Saved(t)
    \/ SyncHasNoModel(t)

DeltaStep(d) ==
    \/ DeltaHead(d) \/ DeltaLogs(d) \/ DeltaTexts(d) \/ DeltaIndexed(d) \/ DeltaSaved(d)
    \/ DeltaHasNoModel(d)

\* One action for all deltas, so that fairness can be stated of it.
SomeDelta == \E d \in deltas : DeltaStep(d)

SearchNext ==
    \/ \E f \in Forums : SelectForum(f)
    \/ \E kind \in Kinds : SelectKind(kind)
    \/ Reload \/ MineBlock \/ SyncDelta \/ SomeDelta \/ Search
    \/ \E t \in DOMAIN syncs : SyncStep(t) \/ SyncFails(t)
    \/ \E d \in deltas : DeltaFails(d)

\* What is asked of the network, of a worker and of IndexedDB is answered, and
\* the block number is polled.  Nobody has to mine, to browse or to fail.
SearchSpec ==
    /\ SearchInit /\ [][SearchNext]_searchVars
    /\ WF_searchVars(SyncDelta)
    /\ WF_searchVars(SomeDelta)
    /\ \A t \in 1 .. MaxRestarts : WF_searchVars(t \in DOMAIN syncs /\ SyncStep(t))

----------------------------------------------------------------------------
(* Properties                                                              *)

OfForum(f, docs) == Range(docs) \subseteq {f}

EngineIsOf(f, engine) ==
    /\ OfForum(f, engine.vectors)
    /\ \A id \in DOMAIN engine.entries :
          engine.entries[id].text = f /\ engine.entries[id].vector = f

\* Whatever is kept for a forum, in memory, in a worker or in IndexedDB, was
\* made from that forum's statements.
NothingMixed ==
    /\ page.active \in Forums =>
          OfForum(page.active, page.docs) /\ OfForum(page.active, page.vectors)
    /\ \A f \in Forums :
          /\ OfForum(f, store[f].docs) /\ OfForum(f, store[f].vectors)
          /\ \A k \in DOMAIN engines :
                f \in DOMAIN engines[k].of => EngineIsOf(f, engines[k].of[f])

\* "Increments on every full sync so stale async steps can bail out"
\* (LocalSearch.tsx:116): an index never takes up another forum's texts or
\* vectors, however forums and engines are switched while syncs are awaited.  It
\* does not hold of a delta or an embedding that is awaited across a switch.
StaleStepsBail == NothingMixed

\* The same, unless a restart came while a worker's answer was awaited whose
\* rest does not ask whether the page has gone on.
ForumsAreKeptApart == ~past.crossed => NothingMixed

\* The cursor never runs ahead of the documents: all statements that were
\* engaged in a block of the window up to it are among them.
CursorIsCovered ==
    page.cursor # 0 /\ ~past.crossed =>
        \A e \in chain.events :
            e.forum = page.active /\ e.block \in page.cursor - lookbackBlocks .. page.cursor =>
                e.id \in DOMAIN page.docs

\* "Whether the current forum's index is ready to be queried" (57-58): when it
\* says so, the worker has an index of the forum on screen, with each document
\* the page counts as indexed, unless that is being done or the worker failed.
ReadyMeansIndexed ==
    page.ready /\ page.kind # "backend" /\ page.forum = page.active
        /\ ~past.crossed /\ ~past.broken
        /\ (\A t \in DOMAIN syncs : syncs[t].job = NoJob)
        /\ (\A d \in deltas : d.job = NoJob) =>
    /\ page.forum \in DOMAIN engines[page.kind].of
    /\ DOMAIN page.docs = DOMAIN engines[page.kind].of[page.forum].entries

\* What the page believes of the window and of the worker is so.
IndexIsComplete == CursorIsCovered /\ ReadyMeansIndexed

\* A search of the forum on screen can find the statement.
Found(id) == page.kind # "backend" /\ id \in Hits(page.kind, page.forum)

\* It was engaged in a confirmed block of the window that is searched.
Wanted(id) ==
    /\ page.kind # "backend"
    /\ \E e \in chain.events :
          /\ e.forum = page.forum /\ e.id = id
          /\ e.block \in WindowStart(SafeHead) .. chain.head - Confirmations

\* A statement that was engaged is found sooner or later, as long as the page
\* stays on its forum and its engine, and neither the full sync nor the worker
\* has failed; a failed delta is made good by the next one.
EngagedIsFound ==
    \A id \in Ids :
        []<>(Wanted(id) /\ ~past.broken /\ ~past.crossed => Found(id))

\* "Leave any hydrated index in place; a later block-sync retries"
\* (LocalSearch.tsx:251): the same although the full sync failed.  It does not
\* hold: a block sync returns while no full sync has set the cursor (271).
FailedSyncIsRetried ==
    \A id \in Ids : []<>(Wanted(id) /\ ~past.crossed => Found(id))
==============================================================================
