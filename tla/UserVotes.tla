------------------------------ MODULE UserVotes ------------------------------
(***************************************************************************)
(* One member's browser tab: the provider of the support state around      *)
(* CommitReducer (state/UserVotes.tsx), the block synchronisation it uses  *)
(* (hooks/useBlockSync.ts) and the two modals that open over a commit      *)
(* (CommitSupportModal.tsx, OutdatedChangesModal.tsx), against the member's *)
(* account on chain, the wallet and the browser's local storage.           *)
(***************************************************************************)
EXTENDS CommitReducer, FiniteSets, Sequences

CONSTANTS
    Forums,         \* the forums a member can switch between
    HomeForum,      \* the forum each edit is made in
    MaxCommits,     \* transactions this tab sends
    MaxForeign,     \* transactions the member sends from another device
    MaxReloads,     \* reloads of the page
    MaxSwitches     \* from forum to forum

ASSUME VotesBounds ==
    /\ HomeForum \in [Edits -> Forums] /\ None \notin Forums
    /\ None \notin [staged : SUBSET Edits, baseline : Int]
    /\ None \notin [hash : Int, submittedFrom : Int]
    /\ {MaxCommits, MaxForeign, MaxReloads, MaxSwitches} \subseteq Nat
    /\ 1 .. MaxCommits \subseteq Hashes
    /\ 0 .. MaxCommits + MaxForeign \subseteq Clocks

VARIABLES
    walletKind,   \* "external": a hash comes back when the transaction is
                  \* sent; "smart": when it has been included
    forum,        \* the selected forum (state/Forum.tsx)
    chain,        \* per forum the account's clock; per edit how often it was
                  \* applied
    txs,          \* the calls of the wallet: what commitChanges asked it to
                  \* send, what came of that, and whether the page awaits it
    client,       \* the reducer's state
    page,         \* the rest of what a reload loses
    storage,      \* what the two keys of local storage hold, per forum
    history       \* what the properties refer to

vars == <<walletKind, forum, chain, txs, client, page, storage, history>>

Queries == {"support", "lastUpdated"}

Page == [keyKnown : BOOLEAN,          \* chainFingerprint has been fetched
         restored : {None} \cup Forums, \* the forum of restoredKeyRef
         queue    : [staged : {None} \cup [staged : SUBSET Edits, baseline : MaybeClock],
                     pending : {None} \cup [hash : Hashes, submittedFrom : MaybeClock]],
         head     : {"unseen", "current", "behind"},   \* prevBlockNumber
         fetching : SUBSET Queries,
         data     : [Queries -> MaybeClock],
         receipt  : Hashes \cup {Undefined}]   \* processedReceiptRef

FreshPage ==
    [keyKnown |-> FALSE, restored |-> None,
     queue |-> [staged |-> None, pending |-> None],
     head |-> "unseen", fetching |-> Queries,
     data |-> [q \in Queries |-> Undefined], receipt |-> Undefined]

(* What a member does, or the code lets happen, after which an edit may be *)
(* applied twice, be lost, or not be recognised:                           *)
(*   dismissed  the error over a commit that may still land, or whose hash *)
(*              is yet to come, was closed                                 *)
(*   kept       outdated changes were kept                                 *)
(*   unsaved    a reload came before local storage held what it should     *)
(*   early      an edit was staged before the stored ones were restored,   *)
(*              or before the clock of a forum just selected was read      *)
(*   late       a pending commit was restored after the first sync, so no  *)
(*              later one need differ from it                              *)
(*   carried    another forum was selected while something was staged,     *)
(*              stored or being sent                                       *)
(*   revived    the first sync confirmed a commit that landed during a     *)
(*              reload, and then its edits were restored                   *)
Excuses == {"dismissed", "unsaved", "kept", "early", "late", "revived", "carried"}

Init ==
    /\ walletKind \in {"external", "smart"}
    /\ forum \in Forums
    /\ chain = [clock |-> [f \in Forums |-> 0],
                applied |-> [e \in Edits |-> 0]]
    /\ txs = <<>>
    /\ client = InitialState
    /\ page = FreshPage
    /\ storage = [f \in Forums |-> [staged |-> None, pending |-> None]]
    /\ history = [made |-> {}, dropped |-> {}, excuses |-> {}, reloads |-> 0,
                  foreign |-> 0, switches |-> 0]

----------------------------------------------------------------------------
(* Rendering.  A dispatch renders the provider, whose effects then bring   *)
(* local storage in line with the state.  An effect that restores runs     *)
(* before the one that saves, but what it restores is only dispatched: the *)
(* saving effect still sees the state before (queue holds the dispatch).   *)

SavedStaged(s) ==
    IF StagedHasContent(s) THEN [staged |-> s.staged, baseline |-> s.baseline]
                           ELSE None
SavedPending(s) ==
    IF s.pendingTx # Undefined /\ s.submittedFrom # Undefined
    THEN [hash |-> s.pendingTx, submittedFrom |-> s.submittedFrom] ELSE None

\* A slip: the pending commit is not written to storage.
SavedWithoutPending(s, p, f) ==
    IF ~p.keyKnown THEN storage
    ELSE [storage EXCEPT
            ![f].staged = IF s.staged = None THEN @ ELSE SavedStaged(s),
            ![f].pending = None]

\* A slip: what is staged is saved before the first sync has let it be restored.
SavedFromTheStart(s, p, f) ==
    IF ~p.keyKnown THEN storage
    ELSE [storage EXCEPT ![f].staged = SavedStaged(s),
                         ![f].pending = SavedPending(s)]

Saved(s, p, f) ==
    IF ~p.keyKnown THEN storage
    ELSE [storage EXCEPT
            ![f].staged = IF s.staged = None THEN @ ELSE SavedStaged(s),
            ![f].pending = SavedPending(s)]

WithRestore(s, p, f) ==
    IF p.keyKnown /\ p.restored # f /\ s.staged # None
    THEN [p EXCEPT !.restored = f, !.queue.staged = storage[f].staged]
    ELSE p

RenderIn(s, p, f) ==
    /\ client' = s
    /\ page' = WithRestore(s, p, f)
    /\ storage' = Saved(s, p, f)

Render(s, p) == RenderIn(s, p, forum)

(* A wallet call may still bring something to the chain. *)
Outgoing == \E h \in DOMAIN txs : txs[h].fate \in {"asked", "sent"}

Idle == page.queue = [staged |-> None, pending |-> None]

\* The fingerprint of the chain arrives: the keys of local storage are known.
KeyArrives ==
    /\ ~page.keyKnown
    /\ Render(client, [page EXCEPT !.keyKnown = TRUE, !.queue.pending = storage[forum].pending])
    /\ history' = [history EXCEPT !.excuses = @ \cup
          IF client.staged # None /\ storage[forum].pending # None
          THEN {"late"} ELSE {}]
    /\ UNCHANGED <<walletKind, forum, chain, txs>>

\* The dispatches the restoring effects made.
RunQueue ==
    /\ ~Idle
    /\ LET q == page.queue
           s == IF q.staged = None THEN client ELSE RestoreStaged(client, q.staged)
           t == IF q.pending = None THEN s ELSE RestorePendingCommit(s, q.pending)
       IN  Render(t, [page EXCEPT !.queue = FreshPage.queue])
    /\ history' = [history EXCEPT !.excuses = @ \cup
          IF client.status = "confirmed" THEN {"revived"} ELSE {}]
    /\ UNCHANGED <<walletKind, forum, chain, txs>>

\* Another forum is selected.  The provider stays mounted: its queries and its
\* keys of local storage are the new forum's, the reducer's state is not.
SelectForum(f) ==
    /\ Idle
    /\ f # forum /\ history.switches < MaxSwitches
    /\ forum' = f
    /\ RenderIn(client, [page EXCEPT !.fetching = Queries,
                                    !.data = FreshPage.data,
                                    !.queue.pending = IF page.keyKnown
                                        THEN storage[f].pending ELSE @], f)
    /\ history' = [history EXCEPT !.switches = @ + 1, !.excuses = @ \cup
          IF \/ StagedHasContent(client) \/ client.status # "idle" \/ Outgoing
             \/ storage[forum] # [staged |-> None, pending |-> None]
          THEN {"carried"} ELSE {}]
    /\ UNCHANGED <<walletKind, chain, txs>>

----------------------------------------------------------------------------
(* Block synchronisation.  refetch is called when the block number moves   *)
(* past the first one seen; an answer that changes the data is dispatched  *)
(* once all queries have answered for the first time.                      *)

SeeBlock(p) ==
    [p EXCEPT !.head = "current",
              !.fetching = IF p.head = "behind" THEN Queries ELSE @]

Poll ==
    /\ Idle
    /\ page.head # "current"
    /\ page' = SeeBlock(page)
    /\ UNCHANGED <<walletKind, forum, chain, txs, client, storage, history>>

\* A slip: only a new clock makes the page take over what it has read.
DataChangedByClock(data) == data["lastUpdated"] # page.data["lastUpdated"]

DataChanged(data) == data # page.data

Answer(q) ==
    LET p == [page EXCEPT !.fetching = @ \ {q}, !.data[q] = chain.clock[forum]]
        complete == \A r \in Queries : p.data[r] # Undefined
    IN  /\ Idle
        /\ q \in page.fetching
        /\ IF complete /\ DataChanged(p.data)
           THEN Render(SyncOnChainState(client, p.data["support"],
                                        p.data["lastUpdated"]), p)
           ELSE page' = p /\ UNCHANGED <<client, storage>>
        /\ UNCHANGED <<walletKind, forum, chain, txs, history>>

\* The receipt of the watched transaction.
Receipt ==
    /\ Idle
    /\ client.pendingTx # Undefined
    /\ page.receipt # client.pendingTx
    /\ txs[client.pendingTx].fate # "sent"
    /\ LET p == [page EXCEPT !.receipt = client.pendingTx]
       IN  IF txs[client.pendingTx].fate = "reverted"
           THEN Render(CommitReverted(client), p)
           ELSE page' = SeeBlock(p) /\ UNCHANGED <<client, storage>>
    /\ UNCHANGED <<walletKind, forum, chain, txs, history>>

\* A slip: the time is only kept until the wallet has answered.
TimeoutOfApproval ==
    /\ Idle
    /\ client.status = "awaiting-approval"
    /\ Render(CommitError(client), page)
    /\ UNCHANGED <<walletKind, forum, chain, txs, history>>

Timeout ==
    /\ Idle
    /\ client.status \in InFlight
    /\ Render(CommitError(client), page)
    /\ UNCHANGED <<walletKind, forum, chain, txs, history>>

----------------------------------------------------------------------------
(* The member.  A modal covers the page while a commit is not idle and     *)
(* while the changes are outdated.                                         *)

PageUsable ==
    /\ Idle
    /\ page.data["support"] # Undefined
    /\ client.staged # None /\ client.status = "idle" /\ ~client.isOutdated

Stage(e) ==
    /\ PageUsable
    /\ e \notin history.made /\ HomeForum[e] = forum
    /\ Render(StageEdit(client, e), page)
    /\ history' = [history EXCEPT !.made = @ \cup {e}, !.excuses = @ \cup
          IF page.keyKnown /\ page.data["lastUpdated"] # Undefined THEN {} ELSE {"early"}]
    /\ UNCHANGED <<walletKind, forum, chain, txs>>

Unstage(e) ==
    /\ PageUsable
    /\ e \in client.staged
    /\ Render(UnstageEdit(client, e), page)
    /\ history' = [history EXCEPT !.dropped = @ \cup {e}]
    /\ UNCHANGED <<walletKind, forum, chain, txs>>

Drop ==
    history' = [history EXCEPT !.dropped = @ \cup client.staged]

ResetChanges ==
    /\ PageUsable
    /\ StagedHasContent(client)
    /\ Render(ClearStaged(client), page)
    /\ Drop
    /\ UNCHANGED <<walletKind, forum, chain, txs>>

AbandonChanges ==
    /\ Idle
    /\ client.isOutdated
    /\ Render(ClearStaged(client), page)
    /\ Drop
    /\ UNCHANGED <<walletKind, forum, chain, txs>>

KeepChanges ==
    /\ Idle
    /\ client.isOutdated
    /\ Render(KeepOutdatedChanges(client), page)
    /\ history' = [history EXCEPT !.excuses = @ \cup {"kept"}]
    /\ UNCHANGED <<walletKind, forum, chain, txs>>

\* The edits the page holds, or will restore from local storage.
Kept == (IF client.staged = None THEN {} ELSE client.staged)
            \cup (IF page.queue.staged = None THEN {} ELSE page.queue.staged.staged)
            \cup UNION {storage[f].staged.staged : f \in {g \in Forums \ {page.restored} :
                                                           storage[g].staged # None}}

\* A wallet call that may still bring its edits to the chain, has brought them
\* there while the page still holds them, or has yet to return a hash.
Outstanding(tx) ==
    \/ tx.fate \in {"asked", "sent"}
    \/ tx.awaited
    \/ tx.fate = "landed" /\ Kept \cap tx.edits # {}

\* A slip: the modal can be clicked away while the commit is being sent.
DismissibleAlways == Terminal \cup InFlight

\* The modal over a commit is closed by the member, or by itself on "confirmed".
Dismissible == Terminal

CloseModal ==
    /\ Idle
    /\ client.status \in Dismissible
    /\ Render(ResetCommitStatus(client), page)
    /\ history' = [history EXCEPT !.excuses = @ \cup
          IF client.status = "error" /\ (\E h \in DOMAIN txs : Outstanding(txs[h])) THEN {"dismissed"} ELSE {}]
    /\ UNCHANGED <<walletKind, forum, chain, txs>>

CommitChanges ==
    /\ PageUsable
    /\ StagedHasContent(client)
    /\ Len(txs) < MaxCommits
    /\ Render(BeginCommit(client, walletKind), page)
    /\ txs' = Append(txs, [edits |-> client.staged, forum |-> forum,
                          fate |-> "asked", awaited |-> TRUE])
    /\ UNCHANGED <<walletKind, forum, chain, history>>

----------------------------------------------------------------------------
(* The wallet and the chain.  A block the page has not seen leaves its     *)
(* head behind; whatever is included is in a new block.                    *)

Send(h) ==
    /\ txs[h].fate = "asked"
    /\ txs' = [txs EXCEPT ![h].fate = "sent"]
    /\ UNCHANGED <<walletKind, forum, chain, client, page, storage, history>>

\* The call returns the hash: at once, or when the transaction is included.
HasHash(tx) ==
    tx.fate \in {"landed", "reverted"} \cup
               (IF walletKind = "smart" THEN {} ELSE {"sent"})

Submitted(h) ==
    /\ Idle
    /\ txs[h].awaited
    /\ HasHash(txs[h])
    /\ Render(CommitSubmitted(client, h), page)
    /\ txs' = [txs EXCEPT ![h].awaited = FALSE]
    /\ UNCHANGED <<walletKind, forum, chain, history>>

\* The call throws: the member rejected it, or it failed before it was sent.
Refused(h) ==
    /\ Idle
    /\ txs[h].awaited
    /\ txs[h].fate = "asked"
    /\ \E s \in {CommitCancelled(client), CommitError(client)} : Render(s, page)
    /\ txs' = [txs EXCEPT ![h].awaited = FALSE, ![h].fate = "refused"]
    /\ UNCHANGED <<walletKind, forum, chain, history>>

NewBlock ==
    page' = [page EXCEPT !.head = IF @ = "unseen" THEN @ ELSE "behind"]

EmptyBlock ==
    /\ NewBlock
    /\ UNCHANGED <<walletKind, forum, chain, txs, client, storage, history>>

\* A transaction this tab has sent is included.  An external wallet hands the
\* hash over before that.
Include(h) ==
    /\ txs[h].fate = "sent"
    /\ walletKind = "smart" \/ ~txs[h].awaited
    /\ NewBlock
    /\ \E fate \in {"landed", "reverted"} :
          /\ txs' = [txs EXCEPT ![h].fate = fate]
          /\ chain' = IF fate = "reverted" THEN chain
                      ELSE [clock |-> [chain.clock EXCEPT ![txs[h].forum] = @ + 1],
                            applied |-> [e \in Edits |->
                                IF e \in txs[h].edits THEN chain.applied[e] + 1
                                                      ELSE chain.applied[e]]]
    /\ UNCHANGED <<walletKind, forum, client, storage, history>>

\* The same member acts from another device.
ActElsewhere ==
    /\ history.foreign < MaxForeign
    /\ NewBlock
    /\ chain' = [chain EXCEPT !.clock[forum] = @ + 1]
    /\ history' = [history EXCEPT !.foreign = @ + 1]
    /\ UNCHANGED <<walletKind, forum, txs, client, storage>>

Reload ==
    /\ history.reloads < MaxReloads
    /\ client' = InitialState
    /\ page' = FreshPage
    /\ txs' = [h \in DOMAIN txs |-> [txs[h] EXCEPT !.awaited = FALSE]]
    /\ history' = [history EXCEPT !.reloads = @ + 1, !.excuses = @ \cup
          IF ~Idle \/ ~page.keyKnown \/ \E h \in DOMAIN txs : txs[h].awaited
          THEN {"unsaved"} ELSE {}]
    /\ UNCHANGED <<walletKind, forum, chain, storage>>

Next ==
    \/ KeyArrives \/ RunQueue \/ Poll \/ Receipt \/ Timeout
    \/ \E q \in Queries : Answer(q)
    \/ \E e \in Edits : Stage(e) \/ Unstage(e)
    \/ ResetChanges \/ AbandonChanges \/ KeepChanges
    \/ CloseModal \/ CommitChanges
    \/ \E h \in DOMAIN txs : Send(h) \/ Submitted(h) \/ Refused(h) \/ Include(h)
    \/ \E f \in Forums : SelectForum(f)
    \/ EmptyBlock \/ ActElsewhere \/ Reload

(***************************************************************************)
(* Fairness.  The page's own steps happen: the fingerprint is fetched,     *)
(* queued dispatches run, the head is polled, queries and the receipt      *)
(* answer, the timer expires, a wallet call that has a hash returns it;    *)
(* and the chain makes blocks.  Nobody has to press a button, and no       *)
(* transaction has to be included.                                         *)
(***************************************************************************)
Fairness ==
    /\ WF_vars(KeyArrives) /\ WF_vars(RunQueue) /\ WF_vars(Poll)
    /\ WF_vars(Receipt) /\ WF_vars(Timeout) /\ WF_vars(EmptyBlock)
    /\ \A h \in Hashes : WF_vars(h \in DOMAIN txs /\ Submitted(h))
    /\ \A q \in Queries : WF_vars(Answer(q))

Spec == Init /\ [][Next]_vars /\ Fairness

----------------------------------------------------------------------------
(* Properties *)

TypeOK ==
    /\ walletKind \in {"external", "smart"}
    /\ client \in UserSupportState
    /\ page \in Page
    /\ chain.clock \in [Forums -> Clocks]
    /\ history.excuses \subseteq Excuses

\* An edit the member made once is applied to the account at most once, however
\* commits, reloads, timeouts and syncs interleave: what has landed is never
\* still offered for another commit (SYNC_ONCHAIN_STATE and the persisted
\* pending commit).  Excepted are the cases the code leaves to the member or
\* does not handle, which history.excuses names.
AppliedOnce ==
    \A e \in Edits : chain.applied[e] > 1 => history.excuses # {}

\* An edit that was made and not dropped is on the chain, or the page holds it
\* or will restore it from local storage ("no work lost", UserVotes.tsx:635).
NoLostWork ==
    \A e \in history.made :
        \/ e \in Kept \cup history.dropped
        \/ chain.applied[e] > 0
        \/ history.foreign > 0
        \/ history.excuses # {}

\* A commit is reported as confirmed only if a transaction of this tab landed,
\* or the member acted elsewhere meanwhile: the clock is all the code looks at.
ConfirmedMeansLanded ==
    client.status = "confirmed" =>
        \/ history.foreign > 0
        \/ \E h \in DOMAIN txs : txs[h].fate = "landed"

\* The dialog about outdated changes opens only when the member has acted
\* elsewhere ("a landed commit never looks outdated", UserVotes.tsx:486-488).  It does
\* not hold when a smart wallet reports the hash after the landing was synced.
OutdatedMeansForeign == client.isOutdated => history.foreign > 0

\* When a commit is confirmed nothing of it is staged any more ("Our submitted
\* commit landed: clear staged silently and confirm", UserVotes.tsx:468).  It does
\* not hold after a reload: the saved edits come back (UserVotes.tsx:1058-1079).
ConfirmedIsCleared ==
    client.status = "confirmed" => ~StagedHasContent(client)

\* A commit does not stay in flight for ever: the spinner ends, if only by the
\* timer (UserVotes.tsx:1176-1199).
SpinnerEnds == client.status \in InFlight ~> client.status \notin InFlight

\* A transaction the page watches and that has landed is eventually taken for
\* landed: its edits are no longer staged.  This holds for a wallet that hands
\* the hash over before the inclusion.
LandedIsRecognised ==
    \A h \in Hashes :
        (/\ h \in DOMAIN txs /\ walletKind = "external"
         /\ txs[h].fate = "landed" /\ client.pendingTx = h)
        ~> \/ h \in DOMAIN txs /\ Kept \cap txs[h].edits = {}
           \/ history.excuses # {}

\* Once nothing changes any more, the page shows the account as it is, the
\* supports and the clock of the same moment.
CatchesUp ==
    <>[](/\ client.lastUpdated = chain.clock[forum]
         /\ client.support = chain.clock[forum])
=============================================================================
