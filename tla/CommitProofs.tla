---------------------------- MODULE CommitProofs ----------------------------
(***************************************************************************)
(* Commits, first as the votes provider sees them and then as writes       *)
(* through the wallet.                                                     *)
(*                                                                         *)
(* What the votes provider guarantees for every set of edits and forums,   *)
(* any number of commits, reloads and changes of forum: an edit counts at  *)
(* most once, no work is lost, and a commit is confirmed only if one has   *)
(* landed or the member acted elsewhere.                                   *)
(*                                                                         *)
(* The invariant, IInv, has three layers.  Shape and Synced hold of every  *)
(* state: what the records are, and that the reducer's state, the data of  *)
(* the page and the wallet calls that are awaited fit.  PlainInv holds     *)
(* while nothing has been excused: the edits the page holds or will        *)
(* restore are in one place (Restoring), and every call that has them and  *)
(* may still land, or has, is one the page tracks (Tracking).  OwnClock    *)
(* and NotLost hold while, besides, nobody acts elsewhere: a clock that    *)
(* has passed the one a commit was submitted from means that it landed.    *)
(***************************************************************************)
EXTENDS UserVotes, ContractWrites, Induction

Known == Nat \cup {Undefined}

Fates == {"asked", "sent", "refused", "landed", "reverted"}
Txs == [edits : SUBSET Edits, forum : Forums, fate : Fates, awaited : BOOLEAN]

Clients ==
    [lastUpdated : Known, support : Known, staged : {None} \cup SUBSET Edits,
     baseline : Known, status : CommitStatus, pendingTx : Known,
     submittedFrom : Known, isOutdated : BOOLEAN]

SavedEdits == [staged : SUBSET Edits, baseline : Nat]
SavedCommits == [hash : Nat, submittedFrom : Nat]
Records == [staged : {None} \cup SavedEdits, pending : {None} \cup SavedCommits]

Pages == [keyKnown : BOOLEAN, restored : {None} \cup Forums, queue : Records,
          head : {"unseen", "current", "behind"}, fetching : SUBSET Queries,
          data : [Queries -> Known], receipt : Known]

Histories == [made : SUBSET Edits, dropped : SUBSET Edits, excuses : SUBSET Excuses,
              reloads : Nat, foreign : Nat, switches : Nat]

(* What kind of value each variable has. *)
Shape ==
    /\ walletKind \in {"external", "smart"} /\ forum \in Forums
    /\ chain \in [clock : [Forums -> Nat], applied : [Edits -> Nat]]
    /\ txs \in Seq(Txs) /\ client \in Clients /\ page \in Pages
    /\ storage \in [Forums -> Records] /\ history \in Histories

(* Nothing is saved; nothing is excused; nobody acted elsewhere; every query *)
(* has answered; the clock of the forum, and the one the page has seen.      *)
Nothing == [staged |-> None, pending |-> None]
Plain == history.excuses = {}
Alone == history.foreign = 0
Complete == \A q \in Queries : page.data[q] # Undefined
Clock == chain.clock[forum]
Seen == page.data["lastUpdated"]

(* What every action of the reducer leaves: a state that has been synced has *)
(* clocks, and a commit that is watched has both its hash and its clock.     *)
GoodClient(s) ==
    /\ s \in Clients
    /\ s.staged # None => s.lastUpdated # Undefined /\ s.baseline # Undefined
    /\ s.pendingTx # Undefined <=> s.submittedFrom # Undefined
    /\ s.pendingTx # Undefined => s.status \in {"pending-confirmation", "error"}
    /\ s.isOutdated => s.staged # None

(* A state whose page has all its data was synced with them. *)
Fits(s, p) ==
    /\ (\A q \in Queries : p.data[q] # Undefined) =>
         s.lastUpdated = p.data["lastUpdated"] /\ s.staged # None
    /\ s.staged = None => p.restored = None /\ p.queue.staged = None

(* The state fits its page, and a wallet call is awaited by a synced page. *)
Synced ==
    /\ GoodClient(client) /\ Fits(client, page)
    /\ page.keyKnown /\ client.staged # None => page.restored = forum
    /\ client.staged = None => \A h \in DOMAIN txs : ~txs[h].awaited

(* What was saved is either still to be restored or is what the state holds, *)
(* and nothing is saved of another forum.                                    *)
Restoring ==
    /\ ~page.keyKnown =>
         /\ page.restored = None /\ Idle
         /\ client.staged \in {None, {}} /\ client.status = "idle"
         /\ \A h \in DOMAIN txs : ~txs[h].awaited
    /\ page.queue.staged # None => client.staged = {}
    /\ page.queue.pending # None => client.staged = None /\ client.status = "idle"
    /\ client.staged # None /\ ~Complete =>
         client.staged = {} /\ client.status = "idle" /\ Idle /\ storage[forum] = Nothing
    /\ page.keyKnown /\ Idle =>
         /\ storage[forum].pending = SavedPending(client)
         /\ client.staged # None => storage[forum].staged = SavedStaged(client)
    /\ \A f \in Forums \ {forum} : storage[f] = Nothing
    /\ client.isOutdated => StagedHasContent(client)

(* The commit the page watches, or will once it has restored what it saved. *)
Watch ==
    IF client.pendingTx # Undefined
    THEN [hash |-> client.pendingTx, submittedFrom |-> client.submittedFrom]
    ELSE IF page.queue.pending # None THEN page.queue.pending
    ELSE IF page.keyKnown THEN None ELSE storage[forum].pending

(* A call is tracked while its hash is awaited or watched.  It conflicts with *)
(* the edits that are kept if it may still bring one of them to the chain, or *)
(* has.                                                                       *)
Tracked(h) == txs[h].awaited \/ (Watch # None /\ Watch.hash = h)
Live(tx) == tx.fate \in {"asked", "sent", "landed"}
Conflict(h) == Live(txs[h]) /\ Kept \cap txs[h].edits # {}

(* Only the last call is awaited, by a commit that watches nothing yet. *)
Awaiting ==
    \A h \in DOMAIN txs : txs[h].awaited =>
        /\ h = Len(txs) /\ client.status \in InFlight \cup {"error"}
        /\ Watch = None /\ client.staged # None

(* No call conflicts untracked, except one that was confirmed while saved     *)
(* edits have yet to be restored; a tracked call has all edits that are kept. *)
Tracking ==
    \A h \in DOMAIN txs :
        /\ Conflict(h) => Tracked(h) \/ (client.status = "confirmed" /\ ~Idle)
        /\ Tracked(h) => Kept \subseteq txs[h].edits

(* Only what was made is kept or in a call. *)
Made ==
    /\ Kept \subseteq history.made
    /\ \A h \in DOMAIN txs : txs[h].edits \subseteq history.made

(* No edit is in two calls that may land or have. *)
Disjoint ==
    \A h, i \in DOMAIN txs :
        h # i /\ Live(txs[h]) /\ Live(txs[i]) => txs[h].edits \cap txs[i].edits = {}

(* What counts on the chain is what has landed. *)
Applied ==
    /\ \A h \in DOMAIN txs : txs[h].fate = "landed" =>
         \A e \in txs[h].edits : chain.applied[e] > 0
    /\ \A e \in Edits : chain.applied[e] > 0 =>
         \E h \in DOMAIN txs : txs[h].fate = "landed" /\ e \in txs[h].edits

(* The clock the edits that are kept are based on. *)
HeldSince ==
    IF page.queue.staged # None THEN page.queue.staged.baseline
    ELSE IF page.restored # forum /\ storage[forum].staged # None
         THEN storage[forum].staged.baseline
    ELSE IF Complete THEN client.baseline ELSE Undefined

(* A clock that has moved on; a call that landed and whose edits are kept *)
(* still; no call that may yet land.                                      *)
Past(clock, since) == since # Undefined /\ clock > since
Unrecognised == \E h \in DOMAIN txs : txs[h].fate = "landed" /\ Conflict(h)
NothingOut == \A h \in DOMAIN txs : txs[h].fate \notin {"asked", "sent"}

(* The clock moves only by the calls of this tab: when it passes the one a *)
(* commit or the edits started from, the call has landed.                  *)
OwnClock ==
    /\ \A h \in DOMAIN txs : txs[h].fate \in {"asked", "sent"} =>
         Tracked(h) /\ txs[h].edits # {} /\ txs[h].edits \subseteq Kept
    /\ Watch # None /\ Clock > Watch.submittedFrom =>
         Watch.hash \in DOMAIN txs /\ txs[Watch.hash].fate = "landed"
    /\ Past(Clock, Seen) \/ Past(Clock, HeldSince) => Unrecognised
    /\ Seen <= Clock
    /\ Past(Seen, HeldSince) => Clock <= Seen
    /\ Watch # None /\ Seen > Watch.submittedFrom => Clock <= Seen
    /\ client.isOutdated => NothingOut /\ Clock <= Seen

(* What was made and not dropped is kept or counts. *)
NotLost == \A e \in history.made : e \in Kept \cup history.dropped \/ chain.applied[e] > 0

(* While nothing has landed and nobody acted elsewhere, every clock in use *)
(* is the first one.                                                       *)
Calm == Alone /\ \A h \in DOMAIN txs : txs[h].fate # "landed"

First == {0, Undefined}

(* Neither the page nor what is saved has seen another clock. *)
Untouched(s, p) ==
    /\ s.status # "confirmed" /\ s.submittedFrom \in First /\ s.lastUpdated \in First
    /\ \A q \in Queries : p.data[q] \in First
    /\ p.queue.pending # None => p.queue.pending.submittedFrom = 0

Unsubmitted ==
    \A f \in Forums : storage[f].pending # None => storage[f].pending.submittedFrom = 0

Quiet ==
    Calm => /\ \A f \in Forums : chain.clock[f] = 0
            /\ Unsubmitted /\ Untouched(client, page)

(* No edit counts twice.  This and the rest hold while nothing is excused. *)
Once == \A e \in Edits : chain.applied[e] <= 1
PlainInv == Restoring /\ Awaiting /\ Tracking /\ Made /\ Disjoint /\ Once

(* The inductive invariant. *)
IInv ==
    /\ Shape /\ Synced /\ Applied /\ Quiet
    /\ Plain => PlainInv
    /\ Plain /\ Alone => OwnClock /\ NotLost
-----------------------------------------------------------------------------
(* No value that is in use is one of those that mean there is none. *)
LEMMA NoneIsNothing ==
  /\ Undefined \in Int /\ Undefined \notin Nat
  /\ None \notin SUBSET Edits /\ None \notin Forums
  /\ None \notin SavedEdits /\ None \notin SavedCommits
<1>1. SavedEdits \subseteq [staged : SUBSET Edits, baseline : Int]
  BY DEF SavedEdits
<1>2. SavedCommits \subseteq [hash : Int, submittedFrom : Int]
  BY DEF SavedCommits
<1> QED
  BY <1>1, <1>2, EditsAssumption, VotesBounds DEF Undefined

(* The state a page starts with is one the reducer can be in. *)
LEMMA InitialClient == GoodClient(InitialState)
BY DEF InitialState, GoodClient, Clients, Known, CommitStatus, InFlight, Terminal

(* A page that has just been loaded knows and holds nothing. *)
LEMMA FreshPageIs ==
  /\ FreshPage \in Pages /\ ~FreshPage.keyKnown /\ FreshPage.restored = None
  /\ FreshPage.queue = Nothing
  /\ \A q \in Queries : FreshPage.data[q] = Undefined
<1>1. [q \in Queries |-> Undefined] \in [Queries -> Known]
  BY DEF Known
<1> QED
  BY <1>1 DEF FreshPage, Pages, Records, Nothing, Known

(* SYNC_ONCHAIN_STATE, when the commit has landed and when it has not. *)
LEMMA SyncLanded ==
  ASSUME NEW s, GoodClient(s), NEW support \in Nat, NEW clock \in Nat,
         OurCommitLanded(s, clock)
  PROVE  LET t == SyncOnChainState(s, support, clock)
         IN  /\ GoodClient(t)
             /\ t.lastUpdated = clock /\ t.baseline = clock
             /\ t.staged = {} /\ t.status = "confirmed" /\ ~t.isOutdated
             /\ t.pendingTx = Undefined /\ t.submittedFrom = Undefined
<1> DEFINE r == [lastUpdated |-> clock, support |-> support, staged |-> {},
                 baseline |-> clock, status |-> "confirmed", pendingTx |-> Undefined,
                 submittedFrom |-> Undefined, isOutdated |-> FALSE]
           r1 == Reconciled(s, clock)
           r2 == [r1 EXCEPT !.support = support, !.lastUpdated = clock]
<1>1. s \in Clients
  BY DEF GoodClient
<1>2. r1 = [s EXCEPT !.staged = {}, !.submittedFrom = Undefined,
                     !.pendingTx = Undefined, !.isOutdated = FALSE,
                     !.status = "confirmed"]
  BY DEF Reconciled
<1>3. /\ r1 \in Clients /\ r1.staged = {} /\ r1.submittedFrom = Undefined
      /\ r1.pendingTx = Undefined /\ r1.isOutdated = FALSE /\ r1.status = "confirmed"
  BY <1>1, <1>2 DEF Clients, Known, CommitStatus, Terminal
<1> HIDE DEF r1
<1>4. /\ r2 \in Clients /\ r2.staged = {} /\ r2.submittedFrom = Undefined
      /\ r2.pendingTx = Undefined /\ r2.isOutdated = FALSE /\ r2.status = "confirmed"
      /\ r2.lastUpdated = clock
  BY <1>3 DEF Clients, Known
<1>5. SyncOnChainState(s, support, clock)
        = [r2 EXCEPT !.baseline = IF StagedHasContent(r2) THEN @ ELSE clock]
  BY DEF SyncOnChainState, r1
<1>6. ~StagedHasContent(r2)
  BY <1>4 DEF StagedHasContent
<1>7. SyncOnChainState(s, support, clock) = [r2 EXCEPT !.baseline = clock]
  BY <1>5, <1>6
<1> HIDE DEF r2
<1> QED
  BY <1>4, <1>7, NoneIsNothing DEF GoodClient, Clients, Known

(* SYNC_ONCHAIN_STATE while the commit has not landed: only the baseline  *)
(* of a state without edits moves, and edits may turn out to be outdated. *)
LEMMA SyncNotLanded ==
  ASSUME NEW s, GoodClient(s), NEW support \in Nat, NEW clock \in Nat,
         ~OurCommitLanded(s, clock)
  PROVE  LET t == SyncOnChainState(s, support, clock)
         IN  /\ GoodClient(t)
             /\ t.lastUpdated = clock
             /\ t.staged = (IF s.staged = None THEN {} ELSE s.staged)
             /\ t.baseline = IF StagedHasContent(s) THEN s.baseline ELSE clock
             /\ t.status = s.status
             /\ t.isOutdated <=> (s.isOutdated \/ ChangedElsewhere(s, clock))
             /\ t.pendingTx = s.pendingTx /\ t.submittedFrom = s.submittedFrom
<1> DEFINE staged == IF s.staged = None THEN {} ELSE s.staged
           r1 == Reconciled(s, clock)
           r2 == [r1 EXCEPT !.support = support, !.lastUpdated = clock]
           outdated == s.isOutdated \/ ChangedElsewhere(s, clock)
<1>1. s \in Clients
  BY DEF GoodClient
<1>2. r1 = [s EXCEPT !.staged = staged, !.isOutdated = outdated]
  BY DEF Reconciled
<1>3. staged \in SUBSET Edits /\ outdated \in BOOLEAN
  BY <1>1 DEF Clients
<1> HIDE DEF staged, outdated
<1>4. /\ r1 \in Clients /\ r1.staged = staged /\ r1.isOutdated = outdated
      /\ r1.submittedFrom = s.submittedFrom /\ r1.baseline = s.baseline
      /\ r1.pendingTx = s.pendingTx /\ r1.status = s.status
  BY <1>1, <1>2, <1>3 DEF Clients
<1> HIDE DEF r1
<1>5. /\ r2 \in Clients /\ r2.staged = staged /\ r2.isOutdated = outdated
      /\ r2.submittedFrom = s.submittedFrom /\ r2.baseline = s.baseline
      /\ r2.pendingTx = s.pendingTx /\ r2.status = s.status
      /\ r2.lastUpdated = clock
  BY <1>4 DEF Clients, Known
<1> DEFINE base == IF StagedHasContent(s) THEN s.baseline ELSE clock
<1>6. SyncOnChainState(s, support, clock) = [r2 EXCEPT !.baseline = base]
  <2>1. StagedHasContent(r2) <=> StagedHasContent(s)
    BY <1>5, <1>3, NoneIsNothing DEF StagedHasContent, staged
  <2> QED
    BY <1>5, <2>1 DEF SyncOnChainState, r1
<1>7. base \in Known /\ base # Undefined
  <2>1. StagedHasContent(s) => s.staged # None
    BY DEF StagedHasContent
  <2> QED
    BY <1>1, <2>1, NoneIsNothing DEF GoodClient, Clients, Known
<1> HIDE DEF r2, base
<1> DEFINE t == [r2 EXCEPT !.baseline = base]
<1>8. /\ t \in Clients
      /\ t.baseline = base /\ t.staged = staged /\ t.isOutdated = outdated
      /\ t.submittedFrom = s.submittedFrom /\ t.pendingTx = s.pendingTx
      /\ t.status = s.status /\ t.lastUpdated = clock
  BY <1>5, <1>7 DEF Clients
<1>9. staged # None
  BY <1>3, NoneIsNothing
<1>10. SyncOnChainState(s, support, clock) = t
  BY <1>6
<1> HIDE DEF t
<1>11. GoodClient(t)
  BY <1>7, <1>8, <1>9, NoneIsNothing DEF GoodClient
<1> QED
  BY <1>8, <1>10, <1>11 DEF staged, base, outdated

(* An edit comes, goes, or everything staged goes. *)
LEMMA EditsChange ==
  ASSUME NEW s, GoodClient(s), s.staged # None, NEW staged \in SUBSET Edits
  PROVE  LET t == [s EXCEPT !.staged = staged]
         IN  /\ GoodClient(t)
             /\ t.staged = staged /\ t.lastUpdated = s.lastUpdated
             /\ t.baseline = s.baseline /\ t.status = s.status
             /\ t.pendingTx = s.pendingTx /\ t.submittedFrom = s.submittedFrom
             /\ t.isOutdated = s.isOutdated
<1> DEFINE t == [s EXCEPT !.staged = staged]
<1>1. s \in Clients
  BY DEF GoodClient
<1>2. /\ t \in Clients
      /\ t.staged = staged /\ t.lastUpdated = s.lastUpdated
      /\ t.baseline = s.baseline /\ t.status = s.status
      /\ t.pendingTx = s.pendingTx /\ t.submittedFrom = s.submittedFrom
      /\ t.isOutdated = s.isOutdated
  BY <1>1 DEF Clients
<1> HIDE DEF t
<1>3. GoodClient(t)
  BY <1>2, NoneIsNothing DEF GoodClient
<1> QED
  BY <1>2, <1>3 DEF t

(* CLEAR_STAGED leaves no edits, on the clock that was synced. *)
LEMMA ClearedIs ==
  ASSUME NEW s, GoodClient(s), s.staged # None
  PROVE  LET t == ClearStaged(s)
         IN  /\ GoodClient(t)
             /\ t.staged = {} /\ t.lastUpdated = s.lastUpdated
             /\ t.baseline = s.lastUpdated /\ t.status = s.status
             /\ t.pendingTx = s.pendingTx /\ t.submittedFrom = s.submittedFrom
             /\ ~t.isOutdated
<1> DEFINE t == ClearStaged(s)
<1>1. s \in Clients
  BY DEF GoodClient
<1>2. /\ t \in Clients
      /\ t.staged = {} /\ t.lastUpdated = s.lastUpdated
      /\ t.baseline = s.lastUpdated /\ t.status = s.status
      /\ t.pendingTx = s.pendingTx /\ t.submittedFrom = s.submittedFrom
      /\ t.isOutdated = FALSE
  BY <1>1 DEF Clients, ClearStaged
<1> HIDE DEF t
<1>3. GoodClient(t)
  BY <1>2 DEF GoodClient
<1> QED
  BY <1>2, <1>3 DEF t

(* KEEP_OUTDATED_CHANGES keeps the edits. *)
LEMMA KeptOutdatedIs ==
  ASSUME NEW s, GoodClient(s), s.staged # None
  PROVE  LET t == KeepOutdatedChanges(s)
         IN  /\ GoodClient(t) /\ t.staged = s.staged /\ t.lastUpdated = s.lastUpdated
             /\ t.status = s.status /\ t.submittedFrom = s.submittedFrom
<1> DEFINE t == KeepOutdatedChanges(s)
<1>1. s \in Clients
  BY DEF GoodClient
<1>2. /\ t \in Clients
      /\ t.staged = s.staged /\ t.lastUpdated = s.lastUpdated
      /\ t.baseline = s.lastUpdated /\ t.status = s.status
      /\ t.pendingTx = s.pendingTx /\ t.submittedFrom = s.submittedFrom
  BY <1>1 DEF Clients, KeepOutdatedChanges
<1> HIDE DEF t
<1>3. GoodClient(t)
  BY <1>2 DEF GoodClient
<1> QED
  BY <1>2, <1>3 DEF t

(* A commit begins, or its timer expires: only the status changes. *)
LEMMA StatusChange ==
  ASSUME NEW s, GoodClient(s), NEW status \in CommitStatus,
         s.pendingTx # Undefined => status \in {"pending-confirmation", "error"}
  PROVE  LET t == [s EXCEPT !.status = status]
         IN  /\ GoodClient(t)
             /\ t.staged = s.staged /\ t.lastUpdated = s.lastUpdated
             /\ t.baseline = s.baseline /\ t.status = status
             /\ t.pendingTx = s.pendingTx /\ t.submittedFrom = s.submittedFrom
             /\ t.isOutdated = s.isOutdated
<1> DEFINE t == [s EXCEPT !.status = status]
<1>1. s \in Clients
  BY DEF GoodClient
<1>2. /\ t \in Clients
      /\ t.staged = s.staged /\ t.lastUpdated = s.lastUpdated
      /\ t.baseline = s.baseline /\ t.status = status
      /\ t.pendingTx = s.pendingTx /\ t.submittedFrom = s.submittedFrom
      /\ t.isOutdated = s.isOutdated
  BY <1>1 DEF Clients
<1> HIDE DEF t
<1>3. GoodClient(t)
  BY <1>2 DEF GoodClient
<1> QED
  BY <1>2, <1>3 DEF t

(* COMMIT_REVERTED, COMMIT_CANCELLED and COMMIT_RESET. *)
LEMMA StoppedIs ==
  ASSUME NEW s, GoodClient(s), NEW status \in CommitStatus
  PROVE  LET t == StopWatching(s, status)
         IN  /\ GoodClient(t)
             /\ t.staged = s.staged /\ t.lastUpdated = s.lastUpdated
             /\ t.baseline = s.baseline /\ t.status = status
             /\ t.pendingTx = Undefined /\ t.submittedFrom = Undefined
             /\ t.isOutdated = s.isOutdated
<1> DEFINE t == StopWatching(s, status)
<1>1. s \in Clients
  BY DEF GoodClient
<1>2. /\ t \in Clients
      /\ t.staged = s.staged /\ t.lastUpdated = s.lastUpdated
      /\ t.baseline = s.baseline /\ t.status = status
      /\ t.pendingTx = Undefined /\ t.submittedFrom = Undefined
      /\ t.isOutdated = s.isOutdated
  BY <1>1 DEF Clients, StopWatching, Known
<1> HIDE DEF t
<1>3. GoodClient(t)
  BY <1>1, <1>2 DEF GoodClient
<1> QED
  BY <1>2, <1>3 DEF t

(* COMMIT_SUBMITTED watches the hash, from the clock that was synced. *)
LEMMA SubmittedIs ==
  ASSUME NEW s, GoodClient(s), NEW hash \in Nat, s.staged # None
  PROVE  LET t == CommitSubmitted(s, hash)
         IN  /\ GoodClient(t)
             /\ t.staged = s.staged /\ t.lastUpdated = s.lastUpdated
             /\ t.baseline = s.baseline /\ t.status = "pending-confirmation"
             /\ t.pendingTx = hash /\ t.submittedFrom = s.lastUpdated
             /\ ~t.isOutdated
<1> DEFINE t == CommitSubmitted(s, hash)
<1>1. s \in Clients /\ s.lastUpdated # Undefined
  BY DEF GoodClient
<1>2. /\ t \in Clients
      /\ t.staged = s.staged /\ t.lastUpdated = s.lastUpdated
      /\ t.baseline = s.baseline /\ t.status = "pending-confirmation"
      /\ t.pendingTx = hash /\ t.submittedFrom = s.lastUpdated
      /\ t.isOutdated = FALSE
  BY <1>1 DEF Clients, CommitSubmitted, Known, CommitStatus, InFlight
<1> HIDE DEF t
<1>3. GoodClient(t)
  BY <1>1, <1>2, NoneIsNothing DEF GoodClient
<1> QED
  BY <1>2, <1>3 DEF t

(* RESTORE_PENDING_COMMIT watches the saved hash, from the saved clock. *)
LEMMA RestoredCommitIs ==
  ASSUME NEW s, GoodClient(s), NEW saved \in SavedCommits
  PROVE  LET t == RestorePendingCommit(s, saved)
         IN  /\ GoodClient(t)
             /\ t.staged = s.staged /\ t.lastUpdated = s.lastUpdated
             /\ t.baseline = s.baseline /\ t.status = "pending-confirmation"
             /\ t.pendingTx = saved.hash /\ t.submittedFrom = saved.submittedFrom
             /\ t.isOutdated = s.isOutdated
<1> DEFINE t == RestorePendingCommit(s, saved)
<1>1. s \in Clients /\ saved.hash \in Nat /\ saved.submittedFrom \in Nat
  BY DEF GoodClient, SavedCommits
<1>2. /\ t \in Clients
      /\ t.staged = s.staged /\ t.lastUpdated = s.lastUpdated
      /\ t.baseline = s.baseline /\ t.status = "pending-confirmation"
      /\ t.pendingTx = saved.hash /\ t.submittedFrom = saved.submittedFrom
      /\ t.isOutdated = s.isOutdated
  BY <1>1 DEF Clients, RestorePendingCommit, Known, CommitStatus, InFlight
<1> HIDE DEF t
<1>3. GoodClient(t)
  BY <1>1, <1>2, NoneIsNothing DEF GoodClient
<1> QED
  BY <1>2, <1>3 DEF t

(* RESTORE_STAGED puts the saved edits back, with their own baseline. *)
LEMMA RestoredEditsIs ==
  ASSUME NEW s, GoodClient(s), NEW saved \in SavedEdits, s.staged # None
  PROVE  LET t == RestoreStaged(s, saved)
         IN  /\ GoodClient(t)
             /\ t.staged = saved.staged /\ t.lastUpdated = s.lastUpdated
             /\ t.baseline = saved.baseline /\ t.status = s.status
             /\ t.pendingTx = s.pendingTx /\ t.submittedFrom = s.submittedFrom
             /\ t.isOutdated = s.isOutdated
<1> DEFINE t == [s EXCEPT !.staged = saved.staged, !.baseline = saved.baseline]
<1>1. /\ s \in Clients /\ saved.staged \in SUBSET Edits
      /\ saved.baseline \in Nat /\ saved.baseline # Undefined
  BY NoneIsNothing DEF GoodClient, SavedEdits
<1>2. RestoreStaged(s, saved) = t
  BY <1>1 DEF RestoreStaged
<1>3. /\ t \in Clients
      /\ t.staged = saved.staged /\ t.lastUpdated = s.lastUpdated
      /\ t.baseline = saved.baseline /\ t.status = s.status
      /\ t.pendingTx = s.pendingTx /\ t.submittedFrom = s.submittedFrom
      /\ t.isOutdated = s.isOutdated
  BY <1>1 DEF Clients, Known
<1> HIDE DEF t
<1>4. GoodClient(t)
  BY <1>1, <1>3, NoneIsNothing DEF GoodClient
<1> QED
  BY <1>2, <1>3, <1>4

-----------------------------------------------------------------------------
(* What an effect of rendering writes. *)
LEMMA SavedIs ==
  ASSUME NEW s, GoodClient(s)
  PROVE  /\ SavedStaged(s) \in {None} \cup SavedEdits
         /\ SavedPending(s) \in {None} \cup SavedCommits
         /\ ~StagedHasContent(s) => SavedStaged(s) = None
         /\ StagedHasContent(s) =>
              /\ SavedStaged(s) # None
              /\ SavedStaged(s).staged = s.staged /\ SavedStaged(s).baseline = s.baseline
         /\ s.pendingTx = Undefined => SavedPending(s) = None
         /\ s.pendingTx # Undefined =>
              SavedPending(s) = [hash |-> s.pendingTx, submittedFrom |-> s.submittedFrom]
<1>1. s \in Clients
  BY DEF GoodClient
<1>2. CASE StagedHasContent(s)
  <2>1. s.staged \in SUBSET Edits /\ s.baseline \in Nat
    BY <1>1, <1>2 DEF GoodClient, Clients, Known, StagedHasContent
  <2>2. [staged |-> s.staged, baseline |-> s.baseline] \in SavedEdits
    BY <2>1 DEF SavedEdits
  <2>3. SavedStaged(s) = [staged |-> s.staged, baseline |-> s.baseline]
    BY <1>2 DEF SavedStaged
  <2>4. /\ SavedStaged(s) \in SavedEdits /\ SavedStaged(s) # None
        /\ SavedStaged(s).staged = s.staged /\ SavedStaged(s).baseline = s.baseline
    BY <2>2, <2>3, NoneIsNothing
  <2>5. /\ SavedPending(s) \in {None} \cup SavedCommits
        /\ s.pendingTx = Undefined => SavedPending(s) = None
        /\ s.pendingTx # Undefined =>
             SavedPending(s) = [hash |-> s.pendingTx, submittedFrom |-> s.submittedFrom]
    BY <1>1 DEF GoodClient, Clients, Known, SavedCommits, SavedPending
  <2> QED
    BY <1>2, <2>4, <2>5
<1>3. CASE ~StagedHasContent(s)
  <2>1. SavedStaged(s) = None
    BY <1>3 DEF SavedStaged
  <2>2. /\ SavedPending(s) \in {None} \cup SavedCommits
        /\ s.pendingTx = Undefined => SavedPending(s) = None
        /\ s.pendingTx # Undefined =>
             SavedPending(s) = [hash |-> s.pendingTx, submittedFrom |-> s.submittedFrom]
    BY <1>1 DEF GoodClient, Clients, Known, SavedCommits, SavedPending
  <2> QED
    BY <1>3, <2>1, <2>2
<1> QED
  BY <1>2, <1>3

(* A render runs the effects: it saves what the state holds, unless the *)
(* forum's edits have yet to be restored, which it then queues.         *)
LEMMA Rendered ==
  ASSUME Shape, NEW s, GoodClient(s), NEW p \in Pages, NEW f \in Forums,
         RenderIn(s, p, f)
  PROVE  /\ client' = s /\ page' \in Pages
         /\ page'.keyKnown = p.keyKnown /\ page'.data = p.data
         /\ page'.queue.pending = p.queue.pending
         /\ IF p.keyKnown /\ p.restored # f /\ s.staged # None
            THEN page'.restored = f /\ page'.queue.staged = storage[f].staged
            ELSE page' = p
         /\ storage' \in [Forums -> Records]
         /\ \A g \in Forums \ {f} : storage'[g] = storage[g]
         /\ ~p.keyKnown => storage' = storage
         /\ p.keyKnown =>
              /\ storage'[f].pending = SavedPending(s)
              /\ storage'[f].staged =
                   IF s.staged = None THEN storage[f].staged ELSE SavedStaged(s)
<1>1. /\ client' = s /\ page' = WithRestore(s, p, f) /\ storage' = Saved(s, p, f)
      /\ storage \in [Forums -> Records] /\ storage[f] \in Records
  BY DEF RenderIn, Shape
<1>2. /\ SavedStaged(s) \in {None} \cup SavedEdits
      /\ SavedPending(s) \in {None} \cup SavedCommits
  BY SavedIs
<1> DEFINE staged == storage[f].staged
<1>3. staged \in {None} \cup SavedEdits
  BY <1>1 DEF Records
<1>4. /\ page' \in Pages
      /\ page'.keyKnown = p.keyKnown /\ page'.data = p.data
      /\ page'.queue.pending = p.queue.pending
      /\ IF p.keyKnown /\ p.restored # f /\ s.staged # None
         THEN page'.restored = f /\ page'.queue.staged = storage[f].staged
         ELSE page' = p
  <2>1. CASE p.keyKnown /\ p.restored # f /\ s.staged # None
    <3> DEFINE q == [p.queue EXCEPT !.staged = staged]
               r == [p EXCEPT !.restored = f, !.queue = q]
    <3>1. page' = r
      BY <1>1, <2>1 DEF WithRestore
    <3>2. p.queue \in Records
      BY DEF Pages
    <3>3. q \in Records /\ q.staged = staged /\ q.pending = p.queue.pending
      BY <1>3, <3>2 DEF Records
    <3> HIDE DEF q, staged
    <3>4. /\ r \in Pages /\ r.restored = f /\ r.queue = q
          /\ r.keyKnown = p.keyKnown /\ r.data = p.data
      BY <3>3 DEF Pages
    <3> QED
      BY <2>1, <3>1, <3>3, <3>4 DEF staged
  <2>2. CASE ~(p.keyKnown /\ p.restored # f /\ s.staged # None)
    BY <1>1, <2>2 DEF WithRestore
  <2> QED
    BY <2>1, <2>2
<1>5. CASE p.keyKnown
  <2> DEFINE record == [staged |-> IF s.staged = None THEN staged ELSE SavedStaged(s),
                        pending |-> SavedPending(s)]
             r1 == [storage[f] EXCEPT !.staged = IF s.staged = None THEN @ ELSE SavedStaged(s)]
             r2 == [r1 EXCEPT !.pending = SavedPending(s)]
  <2>1. record \in Records
    BY <1>2, <1>3 DEF Records
  <2>2. r1 = [staged |-> IF s.staged = None THEN staged ELSE SavedStaged(s),
              pending |-> storage[f].pending]
    BY <1>1 DEF Records
  <2>3. r2 = record
    <3> HIDE DEF r1
    <3> QED
      BY <2>2
  <2>4. storage' = [storage EXCEPT ![f] = r2]
    BY <1>1, <1>5 DEF Saved
  <2>5. storage' = [storage EXCEPT ![f] = record]
    BY <2>3, <2>4
  <2>6. /\ record.pending = SavedPending(s)
        /\ record.staged = IF s.staged = None THEN staged ELSE SavedStaged(s)
    OBVIOUS
  <2> HIDE DEF record, r1, r2
  <2> QED
    BY <1>1, <1>4, <1>5, <2>1, <2>5, <2>6
<1>6. CASE ~p.keyKnown
  <2>1. storage' = storage
    BY <1>1, <1>6 DEF Saved
  <2> QED
    BY <1>1, <1>4, <1>6, <2>1
<1> QED
  BY <1>5, <1>6

(* Rendering a state that fits the page leaves one that does. *)
LEMMA RenderedSynced ==
  ASSUME Shape, NEW s, GoodClient(s), NEW p \in Pages, Fits(s, p),
         RenderIn(s, p, forum'), forum' \in Forums,
         s.staged = None => \A h \in DOMAIN txs' : ~txs'[h].awaited
  PROVE  /\ client' \in Clients /\ page' \in Pages /\ storage' \in [Forums -> Records]
         /\ Synced'
<1>1. /\ client' = s /\ page' \in Pages /\ storage' \in [Forums -> Records]
      /\ page'.keyKnown = p.keyKnown /\ page'.data = p.data
      /\ IF p.keyKnown /\ p.restored # forum' /\ s.staged # None
         THEN page'.restored = forum' /\ page'.queue.staged = storage[forum'].staged
         ELSE page' = p
  BY Rendered
<1>2. Fits(s, page')
  BY <1>1 DEF Fits
<1>3. s \in Clients
  BY DEF GoodClient
<1> QED
  BY <1>1, <1>2, <1>3 DEF Synced, GoodClient

-----------------------------------------------------------------------------
(* The shape of every state.  First the steps that render nothing. *)
LEMMA PageMoves ==
  ASSUME Shape, Synced, NEW head \in {"unseen", "current", "behind"},
         NEW fetching \in SUBSET Queries, NEW receipt \in Known,
         NEW data \in [Queries -> Known]
  PROVE  LET p == [page EXCEPT !.head = head, !.fetching = fetching,
                               !.receipt = receipt, !.data = data]
         IN  /\ p \in Pages /\ p.data = data
             /\ p.keyKnown = page.keyKnown /\ p.restored = page.restored
             /\ p.queue = page.queue
BY DEF Shape, Pages

(* A block that the page notices changes nothing it holds. *)
LEMMA SeenBlock ==
  ASSUME NEW p \in Pages
  PROVE  /\ SeeBlock(p) \in Pages /\ SeeBlock(p).data = p.data
         /\ SeeBlock(p).keyKnown = p.keyKnown /\ SeeBlock(p).restored = p.restored
         /\ SeeBlock(p).queue = p.queue
BY DEF SeeBlock, Pages

(* A new block changes nothing the page holds either. *)
LEMMA NewBlockIs ==
  ASSUME Shape, NewBlock
  PROVE  /\ page' \in Pages /\ page'.data = page.data
         /\ page'.keyKnown = page.keyKnown /\ page'.restored = page.restored
         /\ page'.queue = page.queue
BY DEF NewBlock, Pages, Shape

(* A page that still holds what it held. *)
LEMMA SyncedStays ==
  ASSUME Synced, client' = client, forum' = forum, page'.data = page.data,
         page'.keyKnown = page.keyKnown, page'.restored = page.restored,
         page'.queue = page.queue, DOMAIN txs' = DOMAIN txs,
         \A h \in DOMAIN txs : txs'[h].awaited => txs[h].awaited
  PROVE  Synced'
BY DEF Synced, Fits, GoodClient

(* One call moves on, the others stay. *)
LEMMA TxChanges ==
  ASSUME Shape, NEW h \in DOMAIN txs, NEW fate \in Fates, NEW awaited \in BOOLEAN,
         \/ txs' = [txs EXCEPT ![h].fate = fate] /\ awaited = txs[h].awaited
         \/ txs' = [txs EXCEPT ![h].awaited = awaited] /\ fate = txs[h].fate
         \/ txs' = [txs EXCEPT ![h].awaited = awaited, ![h].fate = fate]
  PROVE  /\ txs' \in Seq(Txs) /\ DOMAIN txs' = DOMAIN txs /\ Len(txs') = Len(txs)
         /\ txs'[h].fate = fate /\ txs'[h].awaited = awaited
         /\ txs'[h].edits = txs[h].edits /\ txs'[h].forum = txs[h].forum
         /\ \A i \in DOMAIN txs \ {h} : txs'[i] = txs[i]
<1> DEFINE tx == txs[h]
           moved == [edits |-> tx.edits, forum |-> tx.forum, fate |-> fate, awaited |-> awaited]
<1>1. txs \in Seq(Txs) /\ tx \in Txs
  BY DEF Shape
<1>2. /\ moved \in Txs /\ moved.fate = fate /\ moved.awaited = awaited
      /\ moved.edits = tx.edits /\ moved.forum = tx.forum
  BY <1>1 DEF Txs
<1>3. txs' = [txs EXCEPT ![h] = moved]
  <2>1. ASSUME txs' = [txs EXCEPT ![h].fate = fate], awaited = tx.awaited
        PROVE  txs' = [txs EXCEPT ![h] = moved]
    <3>1. [tx EXCEPT !.fate = fate] = moved
      BY <1>1, <2>1 DEF Txs
    <3> QED
      BY <2>1, <3>1
  <2>2. ASSUME txs' = [txs EXCEPT ![h].awaited = awaited], fate = tx.fate
        PROVE  txs' = [txs EXCEPT ![h] = moved]
    <3>1. [tx EXCEPT !.awaited = awaited] = moved
      BY <1>1, <2>2 DEF Txs
    <3> QED
      BY <2>2, <3>1
  <2>3. ASSUME txs' = [txs EXCEPT ![h].awaited = awaited, ![h].fate = fate]
        PROVE  txs' = [txs EXCEPT ![h] = moved]
    <3> DEFINE tx1 == [tx EXCEPT !.awaited = awaited]
               txs1 == [txs EXCEPT ![h] = tx1]
    <3>1. tx1 = [edits |-> tx.edits, forum |-> tx.forum, fate |-> tx.fate, awaited |-> awaited]
      BY <1>1 DEF Txs
    <3>2. [tx1 EXCEPT !.fate = fate] = moved
      <4> HIDE DEF tx1
      <4> QED
        BY <3>1
    <3>3. txs1[h] = tx1
      BY <1>1
    <3>4. txs' = [txs1 EXCEPT ![h] = [tx1 EXCEPT !.fate = fate]]
      BY <2>3, <3>3
    <3> HIDE DEF tx1, moved
    <3> QED
      BY <1>1, <3>2, <3>4
  <2> QED
    BY <2>1, <2>2, <2>3
<1> HIDE DEF moved
<1> QED
  BY <1>1, <1>2, <1>3

(* What is written down about the past. *)
LEMMA ExcusesGrow ==
  ASSUME Shape, NEW more \in SUBSET Excuses
  PROVE  LET next == [history EXCEPT !.excuses = @ \cup more]
         IN  /\ next \in Histories /\ next.excuses = history.excuses \cup more
             /\ next.made = history.made /\ next.dropped = history.dropped
             /\ next.foreign = history.foreign
BY DEF Shape, Histories

(* The steps that at most note an excuse. *)
LEMMA ExcuseNoted ==
  ASSUME Shape, KeyArrives \/ RunQueue \/ CloseModal \/ KeepChanges
  PROVE  /\ history' \in Histories /\ history'.made = history.made
         /\ history'.dropped = history.dropped /\ history'.foreign = history.foreign
         /\ history.excuses \subseteq history'.excuses
<1>1. \E more \in SUBSET Excuses : history' = [history EXCEPT !.excuses = @ \cup more]
  <2>1. {{"late"}, {"revived"}, {"kept"}, {"dismissed"}, {}} \subseteq SUBSET Excuses
    BY DEF Excuses
  <2>2. CASE KeyArrives
    BY <2>1, <2>2 DEF KeyArrives
  <2>3. CASE RunQueue
    BY <2>1, <2>3 DEF RunQueue
  <2>4. CASE CloseModal
    BY <2>1, <2>4 DEF CloseModal
  <2>5. CASE KeepChanges
    BY <2>1, <2>5 DEF KeepChanges
  <2> QED
    BY <2>2, <2>3, <2>4, <2>5
<1> QED
  BY <1>1, ExcusesGrow

(* Staging notes the edit, and an excuse if it comes too early. *)
LEMMA StageNoted ==
  ASSUME Shape, NEW e \in Edits, Stage(e)
  PROVE  /\ history' \in Histories /\ history'.made = history.made \cup {e}
         /\ history'.dropped = history.dropped /\ history'.foreign = history.foreign
         /\ history'.excuses = history.excuses \cup
              IF page.keyKnown /\ page.data["lastUpdated"] # Undefined THEN {} ELSE {"early"}
<1> DEFINE made == history.made \cup {e}
           more == IF page.keyKnown /\ page.data["lastUpdated"] # Undefined
                   THEN {} ELSE {"early"}
<1>1. made \in SUBSET Edits /\ more \in SUBSET Excuses
  BY DEF Shape, Histories, Excuses
<1>2. history' = [history EXCEPT !.made = made, !.excuses = @ \cup more]
  BY DEF Stage
<1> HIDE DEF made, more
<1>3. /\ history' \in Histories /\ history'.made = made
      /\ history'.dropped = history.dropped /\ history'.foreign = history.foreign
      /\ history'.excuses = history.excuses \cup more
  BY <1>1, <1>2 DEF Shape, Histories
<1> QED
  BY <1>3 DEF made, more

(* What the member drops is noted. *)
LEMMA DropNoted ==
  ASSUME Shape, NEW dropped \in SUBSET Edits,
         history' = [history EXCEPT !.dropped = @ \cup dropped]
  PROVE  /\ history' \in Histories /\ history'.made = history.made
         /\ history'.dropped = history.dropped \cup dropped
         /\ history'.foreign = history.foreign /\ history'.excuses = history.excuses
BY DEF Shape, Histories

(* Leaving a forum with edits or a commit under way is noted. *)
LEMMA SelectNoted ==
  ASSUME Shape, NEW f \in Forums, SelectForum(f)
  PROVE  /\ history' \in Histories /\ history'.made = history.made
         /\ history'.dropped = history.dropped /\ history'.foreign = history.foreign
         /\ history'.excuses = history.excuses \cup
              IF \/ StagedHasContent(client) \/ client.status # "idle" \/ Outgoing
                 \/ storage[forum] # Nothing
              THEN {"carried"} ELSE {}
<1> DEFINE more == IF \/ StagedHasContent(client) \/ client.status # "idle" \/ Outgoing
                      \/ storage[forum] # Nothing
                   THEN {"carried"} ELSE {}
           n == history.switches + 1
<1>1. more \in SUBSET Excuses
  BY DEF Excuses
<1>2. n \in Nat
  BY DEF Shape, Histories
<1>3. history' = [history EXCEPT !.switches = n, !.excuses = @ \cup more]
  BY DEF SelectForum, Nothing
<1> HIDE DEF more, n
<1>4. /\ history' \in Histories /\ history'.made = history.made
      /\ history'.dropped = history.dropped /\ history'.foreign = history.foreign
      /\ history'.excuses = history.excuses \cup more
  BY <1>1, <1>2, <1>3 DEF Shape, Histories
<1> QED
  BY <1>4 DEF more

(* Acting elsewhere is counted. *)
LEMMA ForeignNoted ==
  ASSUME Shape, ActElsewhere
  PROVE  /\ history' \in Histories /\ history'.made = history.made
         /\ history'.dropped = history.dropped /\ history'.excuses = history.excuses
         /\ history'.foreign # 0
<1> DEFINE n == history.foreign + 1
<1>1. n \in Nat \ {0} /\ history' = [history EXCEPT !.foreign = n]
  BY DEF Shape, Histories, ActElsewhere
<1> HIDE DEF n
<1> QED
  BY <1>1 DEF Shape, Histories

(* The pages that the steps render. *)
LEMMA PageKeyed ==
  ASSUME Shape, NEW pending \in {None} \cup SavedCommits
  PROVE  LET p == [page EXCEPT !.keyKnown = TRUE, !.queue.pending = pending]
         IN  /\ p \in Pages /\ p.keyKnown /\ p.restored = page.restored
             /\ p.data = page.data
             /\ p.queue.staged = page.queue.staged /\ p.queue.pending = pending
<1> DEFINE q == [page.queue EXCEPT !.pending = pending]
<1>1. page \in Pages /\ page.queue \in Records
  BY DEF Shape, Pages
<1>2. q \in Records /\ q.staged = page.queue.staged /\ q.pending = pending
  BY <1>1 DEF Records
<1> HIDE DEF q
<1> DEFINE p == [page EXCEPT !.keyKnown = TRUE, !.queue = q]
<1>3. /\ p \in Pages /\ p.restored = page.restored
      /\ p.data = page.data /\ p.queue = q
  BY <1>1, <1>2 DEF Pages
<1>4. p.keyKnown
  BY <1>1 DEF Pages
<1>5. [page EXCEPT !.keyKnown = TRUE, !.queue.pending = pending] = p
  <2> DEFINE p1 == [page EXCEPT !.keyKnown = TRUE]
  <2>1. p1.queue = page.queue
    BY <1>1 DEF Pages
  <2>2. [page EXCEPT !.keyKnown = TRUE, !.queue.pending = pending]
          = [p1 EXCEPT !.queue = [p1.queue EXCEPT !.pending = pending]]
    BY <1>1 DEF Pages
  <2> QED
    BY <2>1, <2>2 DEF q
<1> QED
  BY <1>2, <1>3, <1>4, <1>5

(* The queue of dispatches is emptied. *)
LEMMA PageDequeued ==
  ASSUME Shape
  PROVE  LET p == [page EXCEPT !.queue = FreshPage.queue]
         IN  /\ p \in Pages /\ p.keyKnown = page.keyKnown
             /\ p.restored = page.restored
             /\ p.data = page.data /\ p.queue = Nothing
<1>1. Nothing \in Records /\ FreshPage.queue = Nothing
  BY DEF Nothing, Records, FreshPage
<1>2. page \in Pages
  BY DEF Shape
<1> HIDE DEF Nothing
<1>3. LET p == [page EXCEPT !.queue = Nothing]
      IN  /\ p \in Pages /\ p.keyKnown = page.keyKnown
          /\ p.restored = page.restored
          /\ p.data = page.data /\ p.queue = Nothing
  BY <1>1, <1>2 DEF Pages
<1> QED
  BY <1>1, <1>3

Answered(q) == [page EXCEPT !.fetching = @ \ {q}, !.data[q] = Clock]

(* The answer to a query is the clock of the forum. *)
LEMMA PageAnswered ==
  ASSUME Shape, NEW q \in Queries
  PROVE  /\ Answered(q) \in Pages /\ Answered(q).keyKnown = page.keyKnown
         /\ Answered(q).restored = page.restored
         /\ Answered(q).queue = page.queue
         /\ Answered(q).data[q] = Clock
         /\ \A r \in Queries \ {q} : Answered(q).data[r] = page.data[r]
<1> DEFINE data == [page.data EXCEPT ![q] = Clock]
<1>1. page \in Pages /\ page.data \in [Queries -> Known] /\ Clock \in Nat
  BY DEF Shape, Pages, Clock
<1>2. /\ data \in [Queries -> Known] /\ data[q] = Clock
      /\ \A r \in Queries \ {q} : data[r] = page.data[r]
  BY <1>1 DEF Known
<1> HIDE DEF data
<1> DEFINE p == [page EXCEPT !.fetching = @ \ {q}, !.data = data]
<1>3. /\ p \in Pages /\ p.keyKnown = page.keyKnown /\ p.restored = page.restored
      /\ p.queue = page.queue /\ p.data = data
  BY <1>1, <1>2 DEF Pages
<1>4. Answered(q) = p
  BY <1>1 DEF Answered, data, Pages
<1> QED
  BY <1>2, <1>3, <1>4

(* A page that changes its forum has no data of the new one. *)
LEMMA PageSelected ==
  ASSUME Shape, NEW pending \in {None} \cup SavedCommits
  PROVE  LET p == [page EXCEPT !.fetching = Queries, !.data = FreshPage.data,
                               !.queue.pending = pending]
         IN  /\ p \in Pages /\ p.keyKnown = page.keyKnown
             /\ p.restored = page.restored
             /\ \A q \in Queries : p.data[q] = Undefined
             /\ p.queue.staged = page.queue.staged /\ p.queue.pending = pending
<1> DEFINE q == [page.queue EXCEPT !.pending = pending]
           data == FreshPage.data
<1>1. page \in Pages /\ page.queue \in Records
  BY DEF Shape, Pages
<1>2. q \in Records /\ q.staged = page.queue.staged /\ q.pending = pending
  BY <1>1 DEF Records
<1>3. data \in [Queries -> Known] /\ \A r \in Queries : data[r] = Undefined
  BY FreshPageIs DEF Pages
<1> DEFINE p1 == [page EXCEPT !.fetching = Queries, !.data = data]
           p == [p1 EXCEPT !.queue = q]
<1>4. /\ p1 \in Pages /\ p1.queue = page.queue /\ p1.keyKnown = page.keyKnown
      /\ p1.restored = page.restored /\ p1.data = data
  BY <1>1, <1>3 DEF Pages
<1>5. [page EXCEPT !.fetching = Queries, !.data = FreshPage.data,
                   !.queue.pending = pending] = p
  BY <1>1, <1>4
<1> HIDE DEF q, data, p1
<1>6. /\ p \in Pages /\ p.keyKnown = page.keyKnown /\ p.restored = page.restored
      /\ p.queue = q /\ p.data = data
  BY <1>2, <1>4 DEF Pages
<1> QED
  BY <1>2, <1>3, <1>5, <1>6

(* A step that renders leaves a state of the right shape. *)
LEMMA ShapeOfRender ==
  ASSUME Shape, NEW s, GoodClient(s), NEW p \in Pages, Fits(s, p),
         RenderIn(s, p, forum'), forum' \in Forums,
         s.staged = None => \A h \in DOMAIN txs' : ~txs'[h].awaited,
         UNCHANGED <<walletKind, chain>>,
         txs' \in Seq(Txs), history' \in Histories
  PROVE  Shape' /\ Synced'
<1>1. /\ client' \in Clients /\ page' \in Pages /\ storage' \in [Forums -> Records]
      /\ Synced'
  BY RenderedSynced
<1> QED
  BY <1>1 DEF Shape

(* A page that is rendered as it is still fits its data. *)
LEMMA FitsStill ==
  ASSUME Synced, NEW s, NEW p, s.lastUpdated = client.lastUpdated,
         s.staged = None <=> client.staged = None, p.data = page.data,
         p.restored = page.restored, p.queue.staged \in {None, page.queue.staged}
  PROVE  Fits(s, p)
BY DEF Synced, Fits

(* A step that renders the page as it is. *)
LEMMA ShapeOfPlainRender ==
  ASSUME Shape, Synced, NEW s, GoodClient(s), Render(s, page),
         s.lastUpdated = client.lastUpdated, s.staged = None <=> client.staged = None,
         s.staged = None => \A h \in DOMAIN txs' : ~txs'[h].awaited,
         UNCHANGED <<walletKind, forum, chain>>,
         txs' \in Seq(Txs), history' \in Histories
  PROVE  Shape' /\ Synced'
<1>1. Fits(s, page)
  BY FitsStill
<1>2. page \in Pages /\ forum' \in Forums /\ RenderIn(s, page, forum')
  BY DEF Shape, Render
<1> QED
  BY <1>1, <1>2, ShapeOfRender

(* A step that renders nothing. *)
LEMMA ShapeUnrendered ==
  ASSUME Shape, Synced, UNCHANGED <<walletKind, forum, client, storage>>,
         chain' \in [clock : [Forums -> Nat], applied : [Edits -> Nat]],
         page' \in Pages, page'.data = page.data,
         page'.keyKnown = page.keyKnown, page'.restored = page.restored,
         page'.queue = page.queue, txs' \in Seq(Txs), DOMAIN txs' = DOMAIN txs,
         \A h \in DOMAIN txs : txs'[h].awaited => txs[h].awaited,
         history' \in Histories
  PROVE  Shape' /\ Synced'
<1>1. Synced'
  BY SyncedStays
<1> QED
  BY <1>1 DEF Shape

-----------------------------------------------------------------------------
(* The steps one by one, each leaving a state of the right shape that fits *)
(* its page: first the fingerprint that names the records of this browser. *)
LEMMA KeyArrivesShape ==
  ASSUME Shape, Synced, KeyArrives
  PROVE  Shape' /\ Synced'
<1> DEFINE pending == storage[forum].pending
           p == [page EXCEPT !.keyKnown = TRUE, !.queue.pending = pending]
<1>1. Render(client, p) /\ UNCHANGED <<walletKind, forum, chain, txs>>
  BY DEF KeyArrives
<1>2. pending \in {None} \cup SavedCommits
  BY DEF Shape, Records
<1>3. /\ p \in Pages /\ p.restored = page.restored /\ p.data = page.data
      /\ p.queue.staged = page.queue.staged
  BY <1>2, PageKeyed
<1> HIDE DEF p
<1>4. Fits(client, p)
  BY <1>3, FitsStill
<1>5. history' \in Histories
  BY ExcusesGrow DEF KeyArrives, Excuses
<1>6. GoodClient(client) /\ (client.staged = None => \A h \in DOMAIN txs' : ~txs'[h].awaited)
  BY <1>1 DEF Synced
<1>7. forum' \in Forums /\ RenderIn(client, p, forum') /\ txs' \in Seq(Txs)
  BY <1>1 DEF Render, Shape
<1> QED
  BY <1>1, <1>3, <1>4, <1>5, <1>6, <1>7, ShapeOfRender

(* The dispatches of the restoring effects, one after the other. *)
Restored ==
  LET q == page.queue
      s == IF q.staged = None THEN client ELSE RestoreStaged(client, q.staged)
  IN  IF q.pending = None THEN s ELSE RestorePendingCommit(s, q.pending)

(* The state once the queued dispatches have run. *)
LEMMA RestoredIs ==
  ASSUME Shape, Synced
  PROVE  LET q == page.queue
         IN  /\ GoodClient(Restored)
             /\ Restored.lastUpdated = client.lastUpdated
             /\ Restored.isOutdated = client.isOutdated
             /\ Restored.staged = (IF q.staged = None THEN client.staged ELSE q.staged.staged)
             /\ Restored.baseline = (IF q.staged = None THEN client.baseline
                                    ELSE q.staged.baseline)
             /\ IF q.pending = None
                THEN /\ Restored.status = client.status
                     /\ Restored.pendingTx = client.pendingTx
                     /\ Restored.submittedFrom = client.submittedFrom
                ELSE /\ Restored.status = "pending-confirmation"
                     /\ Restored.pendingTx = q.pending.hash
                     /\ Restored.submittedFrom = q.pending.submittedFrom
             /\ Restored.staged = None <=> client.staged = None
<1> DEFINE q == page.queue
           s == IF q.staged = None THEN client ELSE RestoreStaged(client, q.staged)
<1>1. /\ GoodClient(client) /\ q \in Records
      /\ q.staged # None => q.staged \in SavedEdits /\ client.staged # None
      /\ q.pending # None => q.pending \in SavedCommits
  BY DEF Shape, Synced, Fits, Pages, Records
<1>2. /\ GoodClient(s)
      /\ s.lastUpdated = client.lastUpdated /\ s.isOutdated = client.isOutdated
      /\ s.staged = (IF q.staged = None THEN client.staged ELSE q.staged.staged)
      /\ s.baseline = (IF q.staged = None THEN client.baseline ELSE q.staged.baseline)
      /\ s.status = client.status /\ s.pendingTx = client.pendingTx
      /\ s.submittedFrom = client.submittedFrom
  <2>1. CASE q.staged = None
    BY <1>1, <2>1
  <2>2. CASE q.staged # None
    BY <1>1, <2>2, RestoredEditsIs
  <2> QED
    BY <2>1, <2>2
<1>3. Restored = IF q.pending = None THEN s ELSE RestorePendingCommit(s, q.pending)
  BY DEF Restored
<1>4. s.staged = None <=> client.staged = None
  BY <1>1, <1>2, NoneIsNothing DEF SavedEdits
<1> HIDE DEF s
<1>5. CASE q.pending = None
  BY <1>2, <1>3, <1>4, <1>5
<1>6. CASE q.pending # None
  BY <1>1, <1>2, <1>3, <1>4, <1>6, RestoredCommitIs
<1> QED
  BY <1>5, <1>6

(* The queued dispatches run. *)
LEMMA RunQueueShape ==
  ASSUME Shape, Synced, RunQueue
  PROVE  Shape' /\ Synced'
<1> DEFINE p == [page EXCEPT !.queue = FreshPage.queue]
<1>1. Render(Restored, p) /\ UNCHANGED <<walletKind, forum, chain, txs>>
  BY DEF RunQueue, Restored
<1>2. /\ p \in Pages /\ p.restored = page.restored /\ p.data = page.data
      /\ p.queue.staged = None
  BY PageDequeued DEF Nothing
<1>3. /\ GoodClient(Restored) /\ Restored.lastUpdated = client.lastUpdated
      /\ Restored.staged = None <=> client.staged = None
  BY RestoredIs
<1> HIDE DEF p
<1>4. Fits(Restored, p)
  BY <1>2, <1>3, FitsStill
<1>5. history' \in Histories
  BY ExcusesGrow DEF RunQueue, Excuses
<1>6. Restored.staged = None => \A h \in DOMAIN txs' : ~txs'[h].awaited
  BY <1>1, <1>3 DEF Synced
<1>7. forum' \in Forums /\ RenderIn(Restored, p, forum') /\ txs' \in Seq(Txs)
  BY <1>1 DEF Render, Shape
<1> QED
  BY <1>1, <1>2, <1>3, <1>4, <1>5, <1>6, <1>7, ShapeOfRender

(* The member goes to another forum. *)
LEMMA SelectForumShape ==
  ASSUME Shape, Synced, NEW f \in Forums, SelectForum(f)
  PROVE  Shape' /\ Synced'
<1> DEFINE pending == IF page.keyKnown THEN storage[f].pending ELSE page.queue.pending
           p == [page EXCEPT !.fetching = Queries, !.data = FreshPage.data,
                             !.queue.pending = pending]
<1>1. page.queue \in Records /\ storage[f] \in Records
  BY DEF Shape, Pages
<1>2. RenderIn(client, p, f) /\ forum' = f /\ UNCHANGED <<walletKind, chain, txs>>
  BY DEF SelectForum
<1>3. pending \in {None} \cup SavedCommits
  BY <1>1 DEF Records
<1> HIDE DEF pending
<1>4. /\ p \in Pages /\ p.restored = page.restored
      /\ \A q \in Queries : p.data[q] = Undefined
      /\ p.queue.staged = page.queue.staged
  BY <1>3, PageSelected
<1> HIDE DEF p
<1>5. Fits(client, p)
  BY <1>4 DEF Synced, Fits, Queries
<1>6. history' \in Histories
  BY SelectNoted
<1>7. GoodClient(client) /\ (client.staged = None => \A h \in DOMAIN txs' : ~txs'[h].awaited)
  BY <1>2 DEF Synced
<1>8. txs' \in Seq(Txs)
  BY <1>2 DEF Shape
<1> QED
  BY <1>2, <1>4, <1>5, <1>6, <1>7, <1>8, ShapeOfRender

(* A query answers, and the last one to do so syncs the state. *)
LEMMA AnswerShape ==
  ASSUME Shape, Synced, NEW q \in Queries, Answer(q)
  PROVE  Shape' /\ Synced'
<1> DEFINE p == Answered(q)
           complete == \A r \in Queries : p.data[r] # Undefined
           s == SyncOnChainState(client, p.data["support"], p.data["lastUpdated"])
<1>1. /\ p \in Pages /\ p.keyKnown = page.keyKnown
      /\ p.restored = page.restored /\ p.queue = page.queue
      /\ p.data[q] = Clock
      /\ \A r \in Queries \ {q} : p.data[r] = page.data[r]
  BY PageAnswered
<1>2. /\ UNCHANGED <<walletKind, forum, chain, txs, history>>
      /\ IF complete /\ DataChanged(p.data) THEN Render(s, p)
         ELSE page' = p /\ UNCHANGED <<client, storage>>
  BY DEF Answer, Answered, Clock
<1>3. GoodClient(client)
  BY DEF Synced
<1> HIDE DEF p
<1>4. CASE complete /\ DataChanged(p.data)
  <2>1. p.data["support"] \in Nat /\ p.data["lastUpdated"] \in Nat
    BY <1>1, <1>4 DEF Pages, Queries, Known
  <2>2. /\ GoodClient(s) /\ s.lastUpdated = p.data["lastUpdated"]
        /\ s.staged = {} \/ s.staged = client.staged
        /\ s.staged # None
    <3>1. client.staged \in {None} \cup SUBSET Edits /\ {} # None
      BY <1>3, NoneIsNothing DEF GoodClient, Clients
    <3>2. CASE OurCommitLanded(client, p.data["lastUpdated"])
      BY <1>3, <2>1, <3>1, <3>2, SyncLanded
    <3>3. CASE ~OurCommitLanded(client, p.data["lastUpdated"])
      BY <1>3, <2>1, <3>1, <3>3, SyncNotLanded
    <3> QED
      BY <3>2, <3>3
  <2> HIDE DEF s
  <2>3. Fits(s, p)
    BY <2>2 DEF Fits
  <2> QED
    BY <1>1, <1>2, <1>4, <2>2, <2>3, ShapeOfRender DEF Render, Shape
<1>5. CASE ~(complete /\ DataChanged(p.data))
  <2>1. page' = p /\ UNCHANGED <<client, storage>>
    BY <1>2, <1>5
  <2>2. Shape'
    BY <1>1, <1>2, <2>1 DEF Shape
  <2>3. Fits(client, p)
    <3>1. CASE complete
      <4>1. p.data = page.data
        BY <1>5, <3>1 DEF DataChanged
      <4> QED
        BY <1>1, <4>1 DEF Synced, Fits
    <3>2. CASE ~complete
      BY <1>1, <3>2 DEF Synced, Fits
    <3> QED
      BY <3>1, <3>2
  <2>4. Synced'
    BY <1>1, <1>2, <2>1, <2>3 DEF Synced, GoodClient, Fits
  <2> QED
    BY <2>2, <2>4
<1> QED
  BY <1>4, <1>5

(* The receipt of the watched hash arrives. *)
LEMMA ReceiptShape ==
  ASSUME Shape, Synced, Receipt
  PROVE  Shape' /\ Synced'
<1> DEFINE p == [page EXCEPT !.receipt = client.pendingTx]
<1>1. client.pendingTx \in Known /\ GoodClient(client)
  BY DEF Synced, GoodClient, Clients
<1>2. /\ p \in Pages /\ p.data = page.data /\ p.keyKnown = page.keyKnown
      /\ p.restored = page.restored /\ p.queue = page.queue
  BY <1>1 DEF Shape, Pages
<1>3. /\ UNCHANGED <<walletKind, forum, chain, txs, history>>
      /\ \/ Render(CommitReverted(client), p)
         \/ page' = SeeBlock(p) /\ UNCHANGED <<client, storage>>
  BY DEF Receipt
<1> HIDE DEF p
<1>4. CASE Render(CommitReverted(client), p)
  <2>1. /\ GoodClient(CommitReverted(client))
        /\ CommitReverted(client).staged = client.staged
        /\ CommitReverted(client).lastUpdated = client.lastUpdated
    BY <1>1, StoppedIs DEF CommitReverted, CommitStatus, Terminal
  <2>2. Fits(CommitReverted(client), p)
    BY <1>2, <2>1, FitsStill
  <2>3. CommitReverted(client).staged = None => \A h \in DOMAIN txs' : ~txs'[h].awaited
    BY <1>3, <2>1 DEF Synced
  <2> QED
    BY <1>2, <1>3, <1>4, <2>1, <2>2, <2>3, ShapeOfRender DEF Render, Shape
<1>5. CASE page' = SeeBlock(p) /\ UNCHANGED <<client, storage>>
  <2>1. /\ page' \in Pages /\ page'.data = page.data /\ page'.keyKnown = page.keyKnown
        /\ page'.restored = page.restored /\ page'.queue = page.queue
    BY <1>2, <1>5, SeenBlock
  <2> QED
    BY <1>3, <1>5, <2>1, ShapeUnrendered DEF Shape
<1> QED
  BY <1>3, <1>4, <1>5

(* What the member does with the staged edits, and with the modals. *)
LEMMA MemberShape ==
  ASSUME Shape, Synced,
         \/ \E e \in Edits : Stage(e) \/ Unstage(e)
         \/ ResetChanges \/ AbandonChanges \/ KeepChanges \/ CloseModal
  PROVE  Shape' /\ Synced'
<1>1. GoodClient(client) /\ client \in Clients /\ txs \in Seq(Txs)
  BY DEF Synced, GoodClient, Shape
<1>2. UNCHANGED <<walletKind, forum, chain, txs>>
  BY DEF Stage, Unstage, ResetChanges, AbandonChanges, KeepChanges, CloseModal
<1>3. client.staged = None => \A h \in DOMAIN txs : ~txs[h].awaited
  BY DEF Synced
<1>4. client.staged # None => client.staged \in SUBSET Edits
  BY <1>1 DEF Clients
<1>5. \A staged \in SUBSET Edits : staged # None
  BY NoneIsNothing
<1>6. ASSUME NEW e \in Edits, Stage(e) PROVE Shape' /\ Synced'
  <2> DEFINE staged == client.staged \cup {e}
  <2>1. client.staged # None /\ Render([client EXCEPT !.staged = staged], page)
    BY <1>6 DEF Stage, PageUsable, StageEdit
  <2>2. staged \in SUBSET Edits
    BY <1>4, <2>1
  <2>3. history' \in Histories
    BY <1>6, StageNoted
  <2> HIDE DEF staged
  <2>4. /\ GoodClient([client EXCEPT !.staged = staged])
        /\ [client EXCEPT !.staged = staged].staged # None
        /\ [client EXCEPT !.staged = staged].lastUpdated = client.lastUpdated
    BY <1>1, <1>5, <2>1, <2>2, EditsChange
  <2> QED
    BY <1>1, <1>2, <1>3, <2>1, <2>3, <2>4, ShapeOfPlainRender
<1>7. ASSUME NEW dropped \in SUBSET Edits,
             history' = [history EXCEPT !.dropped = @ \cup dropped]
      PROVE  history' \in Histories
  BY <1>7, DropNoted
<1>8. ASSUME NEW e \in Edits, Unstage(e) PROVE Shape' /\ Synced'
  <2> DEFINE staged == client.staged \ {e}
  <2>1. client.staged # None /\ Render([client EXCEPT !.staged = staged], page)
    BY <1>8 DEF Unstage, PageUsable, UnstageEdit
  <2>2. staged \in SUBSET Edits
    BY <1>4, <2>1
  <2>3. history' \in Histories
    BY <1>7, <1>8 DEF Unstage
  <2> HIDE DEF staged
  <2>4. /\ GoodClient([client EXCEPT !.staged = staged])
        /\ [client EXCEPT !.staged = staged].staged # None
        /\ [client EXCEPT !.staged = staged].lastUpdated = client.lastUpdated
    BY <1>1, <1>5, <2>1, <2>2, EditsChange
  <2> QED
    BY <1>1, <1>2, <1>3, <2>1, <2>3, <2>4, ShapeOfPlainRender
<1>9. ASSUME ResetChanges \/ (AbandonChanges /\ client.staged # None)
      PROVE  Shape' /\ Synced'
  <2>1. client.staged # None /\ Render(ClearStaged(client), page)
    BY <1>9 DEF ResetChanges, AbandonChanges, PageUsable
  <2>2. history' \in Histories
    BY <1>4, <1>7, <1>9, <2>1 DEF ResetChanges, AbandonChanges, Drop
  <2>3. /\ GoodClient(ClearStaged(client)) /\ ClearStaged(client).staged # None
        /\ ClearStaged(client).lastUpdated = client.lastUpdated
    BY <1>1, <1>5, <2>1, ClearedIs
  <2> QED
    BY <1>1, <1>2, <1>3, <2>1, <2>2, <2>3, ShapeOfPlainRender
<1>10. ASSUME KeepChanges, client.staged # None PROVE Shape' /\ Synced'
  <2>1. Render(KeepOutdatedChanges(client), page)
    BY <1>10 DEF KeepChanges
  <2>2. history' \in Histories
    BY <1>10, ExcusesGrow DEF KeepChanges, Excuses
  <2>3. /\ GoodClient(KeepOutdatedChanges(client))
        /\ KeepOutdatedChanges(client).staged # None
        /\ KeepOutdatedChanges(client).lastUpdated = client.lastUpdated
    BY <1>1, <1>10, KeptOutdatedIs
  <2> QED
    BY <1>1, <1>2, <1>3, <1>10, <2>1, <2>2, <2>3, ShapeOfPlainRender
<1>11. ASSUME CloseModal PROVE Shape' /\ Synced'
  <2>1. Render(ResetCommitStatus(client), page)
    BY <1>11 DEF CloseModal
  <2>2. history' \in Histories
    BY <1>11, ExcusesGrow DEF CloseModal, Excuses
  <2>3. /\ GoodClient(ResetCommitStatus(client))
        /\ ResetCommitStatus(client).staged = client.staged
        /\ ResetCommitStatus(client).lastUpdated = client.lastUpdated
    BY <1>1, StoppedIs DEF ResetCommitStatus, CommitStatus
  <2> QED
    BY <1>1, <1>2, <1>3, <2>1, <2>2, <2>3, ShapeOfPlainRender
<1>12. client.isOutdated => client.staged # None
  BY <1>1 DEF GoodClient
<1> QED
  BY <1>6, <1>8, <1>9, <1>10, <1>11, <1>12 DEF AbandonChanges, KeepChanges

(* The timer, and the calls of the wallet. *)
NewCall == [edits |-> client.staged, forum |-> forum, fate |-> "asked", awaited |-> TRUE]

(* A commit adds one call, which is awaited, after the others. *)
LEMMA CallAdded ==
  ASSUME Shape, client.staged # None, txs' = Append(txs, NewCall)
  PROVE  /\ txs' \in Seq(Txs) /\ DOMAIN txs = 1..Len(txs) /\ Len(txs) \in Nat
         /\ Len(txs') = Len(txs) + 1 /\ DOMAIN txs' = 1..(Len(txs) + 1)
         /\ txs'[Len(txs) + 1] = NewCall
         /\ \A h \in DOMAIN txs : txs'[h] = txs[h]
<1>1. NewCall \in Txs /\ txs \in Seq(Txs)
  BY DEF NewCall, Txs, Fates, Shape, Clients
<1> QED
  BY <1>1

(* A commit of the staged edits. *)
LEMMA CommitShape ==
  ASSUME Shape, Synced,
         \/ Timeout \/ CommitChanges
         \/ \E h \in DOMAIN txs : Submitted(h) \/ Refused(h)
  PROVE  Shape' /\ Synced'
<1>1. GoodClient(client) /\ client \in Clients /\ txs \in Seq(Txs) /\ history \in Histories
  BY DEF Synced, GoodClient, Shape
<1>2. UNCHANGED <<walletKind, forum, chain, history>>
  BY DEF Timeout, CommitChanges, Submitted, Refused
<1>3. client.staged = None => \A h \in DOMAIN txs : ~txs[h].awaited
  BY DEF Synced
<1>4. ASSUME Timeout PROVE Shape' /\ Synced'
  <2> DEFINE s == CommitError(client)
  <2>1. Render(s, page) /\ txs' = txs
    BY <1>4 DEF Timeout
  <2>2. GoodClient(s) /\ s.staged = client.staged /\ s.lastUpdated = client.lastUpdated
    BY <1>1, StatusChange DEF CommitError, CommitStatus, Terminal
  <2> HIDE DEF s
  <2> QED
    BY <1>1, <1>2, <1>3, <2>1, <2>2, ShapeOfPlainRender
<1>5. ASSUME CommitChanges PROVE Shape' /\ Synced'
  <2> DEFINE s == BeginCommit(client, walletKind)
             status == IF walletKind = "external" THEN "awaiting-approval"
                                                  ELSE "pending-confirmation"
  <2>1. Render(s, page) /\ txs' = Append(txs, NewCall)
    BY <1>5 DEF CommitChanges, NewCall
  <2>2. client.staged # None /\ client.pendingTx = Undefined
    BY <1>1, <1>5 DEF CommitChanges, PageUsable, GoodClient
  <2>3. txs' \in Seq(Txs)
    BY <2>1, <2>2, CallAdded
  <2>4. status \in CommitStatus /\ s = [client EXCEPT !.status = status]
    BY DEF CommitStatus, InFlight, BeginCommit
  <2> HIDE DEF status
  <2>5. GoodClient(s) /\ s.staged = client.staged /\ s.lastUpdated = client.lastUpdated
    BY <1>1, <2>2, <2>4, StatusChange
  <2> HIDE DEF s
  <2> QED
    BY <1>1, <1>2, <2>1, <2>2, <2>3, <2>5, ShapeOfPlainRender
<1>6. ASSUME NEW h \in DOMAIN txs, Submitted(h) PROVE Shape' /\ Synced'
  <2> DEFINE s == CommitSubmitted(client, h)
  <2>1. Render(s, page) /\ txs' = [txs EXCEPT ![h].awaited = FALSE] /\ txs[h].awaited
    BY <1>6 DEF Submitted
  <2>2. client.staged # None /\ h \in Nat
    BY <1>1, <1>3, <2>1
  <2>3. txs' \in Seq(Txs)
    <3>1. txs[h] \in Txs
      BY <1>1
    <3>2. txs[h].fate \in Fates
      BY <3>1 DEF Txs
    <3> QED
      BY <2>1, <3>2, TxChanges
  <2>4. GoodClient(s) /\ s.staged = client.staged /\ s.lastUpdated = client.lastUpdated
    BY <1>1, <2>2, SubmittedIs
  <2> HIDE DEF s
  <2> QED
    BY <1>1, <1>2, <2>1, <2>2, <2>3, <2>4, ShapeOfPlainRender
<1>7. ASSUME NEW h \in DOMAIN txs, Refused(h) PROVE Shape' /\ Synced'
  <2>1. /\ txs' = [txs EXCEPT ![h].awaited = FALSE, ![h].fate = "refused"]
        /\ txs[h].awaited
    BY <1>7 DEF Refused
  <2>2. PICK s \in {CommitCancelled(client), CommitError(client)} : Render(s, page)
    BY <1>7 DEF Refused
  <2>3. client.staged # None
    BY <1>3, <2>1
  <2>4. txs' \in Seq(Txs)
    BY <2>1, TxChanges DEF Fates
  <2>5. GoodClient(s) /\ s.staged = client.staged /\ s.lastUpdated = client.lastUpdated
    <3>1. CASE s = CommitCancelled(client)
      BY <1>1, <3>1, StoppedIs DEF CommitCancelled, CommitStatus, Terminal
    <3>2. CASE s = CommitError(client)
      BY <1>1, <3>2, StatusChange DEF CommitError, CommitStatus, Terminal
    <3> QED
      BY <2>2, <3>1, <3>2
  <2> QED
    BY <1>1, <1>2, <2>2, <2>3, <2>4, <2>5, ShapeOfPlainRender
<1> QED
  BY <1>4, <1>5, <1>6, <1>7

(* The chain, other devices, and the page as it polls and reloads. *)
LEMMA IncludedIs ==
  ASSUME Shape, NEW h \in DOMAIN txs, Include(h)
  PROVE  /\ txs[h].fate = "sent"
         /\ txs' \in Seq(Txs) /\ DOMAIN txs' = DOMAIN txs /\ Len(txs') = Len(txs)
         /\ txs'[h].awaited = txs[h].awaited
         /\ txs'[h].edits = txs[h].edits
         /\ \A i \in DOMAIN txs \ {h} : txs'[i] = txs[i]
         /\ chain' \in [clock : [Forums -> Nat], applied : [Edits -> Nat]]
         /\ \/ txs'[h].fate = "reverted" /\ chain' = chain
            \/ /\ txs'[h].fate = "landed"
               /\ \A f \in Forums :
                    chain'.clock[f] = IF f = txs[h].forum THEN chain.clock[f] + 1
                                                          ELSE chain.clock[f]
               /\ \A e \in Edits :
                    chain'.applied[e] = IF e \in txs[h].edits THEN chain.applied[e] + 1
                                                              ELSE chain.applied[e]
<1>1. /\ txs[h].fate = "sent" /\ txs[h] \in Txs
      /\ chain.clock \in [Forums -> Nat] /\ chain.applied \in [Edits -> Nat]
      /\ chain \in [clock : [Forums -> Nat], applied : [Edits -> Nat]]
  BY DEF Include, Shape
<1>2. PICK fate \in {"landed", "reverted"} :
        /\ txs' = [txs EXCEPT ![h].fate = fate]
        /\ chain' = IF fate = "reverted" THEN chain
                    ELSE [clock |-> [chain.clock EXCEPT ![txs[h].forum] = @ + 1],
                          applied |-> [e \in Edits |->
                              IF e \in txs[h].edits THEN chain.applied[e] + 1
                                                    ELSE chain.applied[e]]]
  BY DEF Include
<1>3. /\ txs' \in Seq(Txs) /\ DOMAIN txs' = DOMAIN txs /\ Len(txs') = Len(txs)
      /\ txs'[h].fate = fate /\ txs'[h].awaited = txs[h].awaited
      /\ txs'[h].edits = txs[h].edits
      /\ \A i \in DOMAIN txs \ {h} : txs'[i] = txs[i]
  <2>1. fate \in Fates /\ txs[h].awaited \in BOOLEAN
    BY <1>1 DEF Fates, Txs
  <2> QED
    BY <1>2, <2>1, TxChanges
<1>4. CASE fate = "reverted"
  BY <1>1, <1>2, <1>3, <1>4
<1>5. CASE fate = "landed"
  <2> DEFINE clock == [chain.clock EXCEPT ![txs[h].forum] = @ + 1]
             applied == [e \in Edits |-> IF e \in txs[h].edits THEN chain.applied[e] + 1
                                                               ELSE chain.applied[e]]
  <2>1. chain' = [clock |-> clock, applied |-> applied]
    BY <1>2, <1>5
  <2>2. /\ clock \in [Forums -> Nat]
        /\ \A f \in Forums : clock[f] = IF f = txs[h].forum THEN chain.clock[f] + 1
                                                            ELSE chain.clock[f]
    BY <1>1 DEF Txs
  <2>3. /\ applied \in [Edits -> Nat]
        /\ \A e \in Edits : applied[e] = IF e \in txs[h].edits THEN chain.applied[e] + 1
                                                               ELSE chain.applied[e]
    BY <1>1
  <2> HIDE DEF clock, applied
  <2> QED
    BY <1>1, <1>3, <1>5, <2>1, <2>2, <2>3
<1> QED
  BY <1>4, <1>5

(* The steps of the chain and of the wallet's other devices. *)
LEMMA ChainShape ==
  ASSUME Shape, Synced,
         \/ EmptyBlock \/ ActElsewhere \/ Poll
         \/ \E h \in DOMAIN txs : Send(h) \/ Include(h)
  PROVE  Shape' /\ Synced'
<1>1. /\ txs \in Seq(Txs) /\ history \in Histories /\ page \in Pages
      /\ chain \in [clock : [Forums -> Nat], applied : [Edits -> Nat]]
  BY DEF Shape
<1>2. CASE EmptyBlock
  BY <1>1, <1>2, NewBlockIs, ShapeUnrendered DEF EmptyBlock
<1>3. CASE Poll
  BY <1>1, <1>3, SeenBlock, ShapeUnrendered DEF Poll
<1>4. CASE ActElsewhere
  <2>1. history' \in Histories
    BY <1>4, ForeignNoted
  <2>2. chain' \in [clock : [Forums -> Nat], applied : [Edits -> Nat]]
    <3> DEFINE clock == [chain.clock EXCEPT ![forum] = @ + 1]
    <3>1. chain.clock \in [Forums -> Nat] /\ forum \in Forums
      BY DEF Shape
    <3>2. clock \in [Forums -> Nat]
      BY <3>1
    <3>3. chain' = [chain EXCEPT !.clock = clock]
      BY <1>4 DEF ActElsewhere
    <3> HIDE DEF clock
    <3> QED
      BY <1>1, <3>2, <3>3
  <2> QED
    BY <1>1, <1>4, <2>1, <2>2, NewBlockIs, ShapeUnrendered DEF ActElsewhere
<1>5. ASSUME NEW h \in DOMAIN txs, Send(h) PROVE Shape' /\ Synced'
  <2>1. txs' = [txs EXCEPT ![h].fate = "sent"]
    BY <1>5 DEF Send
  <2>2. /\ txs' \in Seq(Txs) /\ DOMAIN txs' = DOMAIN txs
        /\ txs'[h].awaited = txs[h].awaited
        /\ \A i \in DOMAIN txs \ {h} : txs'[i] = txs[i]
    <3>1. txs[h] \in Txs
      BY <1>1
    <3>2. txs[h].awaited \in BOOLEAN /\ "sent" \in Fates
      BY <3>1 DEF Txs, Fates
    <3> QED
      BY <2>1, <3>2, TxChanges
  <2> QED
    BY <1>1, <1>5, <2>2, ShapeUnrendered DEF Send
<1>6. ASSUME NEW h \in DOMAIN txs, Include(h) PROVE Shape' /\ Synced'
  BY <1>1, <1>6, IncludedIs, NewBlockIs, ShapeUnrendered DEF Include
<1> QED
  BY <1>2, <1>3, <1>4, <1>5, <1>6

(* A reload awaits nothing any more and may note an excuse. *)
LEMMA ReloadIs ==
  ASSUME Shape, Reload
  PROVE  /\ txs' \in Seq(Txs) /\ DOMAIN txs' = DOMAIN txs /\ Len(txs') = Len(txs)
         /\ \A h \in DOMAIN txs : /\ ~txs'[h].awaited
                                  /\ txs'[h].fate = txs[h].fate
                                  /\ txs'[h].edits = txs[h].edits
         /\ history' \in Histories /\ history'.made = history.made
         /\ history'.dropped = history.dropped /\ history'.foreign = history.foreign
         /\ history'.excuses = history.excuses \cup
              IF ~Idle \/ ~page.keyKnown \/ \E h \in DOMAIN txs : txs[h].awaited
              THEN {"unsaved"} ELSE {}
<1>1. txs \in Seq(Txs) /\ history \in Histories
  BY DEF Shape
<1> DEFINE quiet(h) == [edits |-> txs[h].edits, forum |-> txs[h].forum,
                        fate |-> txs[h].fate, awaited |-> FALSE]
           more == IF ~Idle \/ ~page.keyKnown \/ \E h \in DOMAIN txs : txs[h].awaited
                   THEN {"unsaved"} ELSE {}
           n == history.reloads + 1
<1>2. ASSUME NEW h \in DOMAIN txs
      PROVE  quiet(h) \in Txs /\ [txs[h] EXCEPT !.awaited = FALSE] = quiet(h)
  <2>1. txs[h] \in Txs
    BY <1>1
  <2>2. quiet(h) \in Txs
    BY <2>1 DEF Txs
  <2>3. \A v : [txs[h] EXCEPT !.awaited = v]
                 = [edits |-> txs[h].edits, forum |-> txs[h].forum,
                    fate |-> txs[h].fate, awaited |-> v]
    BY <2>1 DEF Txs
  <2> QED
    BY <2>2, <2>3, Zenon
<1>3. /\ txs' = [h \in DOMAIN txs |-> [txs[h] EXCEPT !.awaited = FALSE]]
      /\ history' = [history EXCEPT !.reloads = n, !.excuses = @ \cup more]
  BY DEF Reload
<1>4. n \in Nat /\ more \in SUBSET Excuses
  BY <1>1 DEF Histories, Excuses
<1>5. /\ history' \in Histories /\ history'.made = history.made
      /\ history'.dropped = history.dropped /\ history'.foreign = history.foreign
      /\ history'.excuses = history.excuses \cup more
  <2> HIDE DEF n, more
  <2> QED
    BY <1>1, <1>3, <1>4 DEF Histories
<1>6. /\ txs' \in Seq(Txs) /\ DOMAIN txs' = DOMAIN txs /\ Len(txs') = Len(txs)
      /\ \A h \in DOMAIN txs : txs'[h] = quiet(h)
  <2>1. DOMAIN txs' = DOMAIN txs /\ \A h \in DOMAIN txs : txs'[h] = quiet(h) /\ quiet(h) \in Txs
    BY <1>2, <1>3
  <2>2. txs' = [h \in 1..Len(txs) |-> txs'[h]] /\ DOMAIN txs = 1..Len(txs) /\ Len(txs) \in Nat
    BY <1>1, <1>3
  <2> HIDE DEF quiet
  <2> QED
    BY <2>1, <2>2
<1> QED
  BY <1>5, <1>6

(* A reload starts with a fresh page. *)
LEMMA ReloadShape ==
  ASSUME Shape, Synced, Reload
  PROVE  Shape' /\ Synced'
<1>1. /\ client' = InitialState /\ page' = FreshPage
      /\ UNCHANGED <<walletKind, forum, chain, storage>>
  BY DEF Reload
<1>2. /\ txs' \in Seq(Txs) /\ DOMAIN txs' = DOMAIN txs
      /\ \A h \in DOMAIN txs : ~txs'[h].awaited
      /\ history' \in Histories
  BY ReloadIs
<1>3. GoodClient(client') /\ client' \in Clients /\ client'.staged = None
  BY <1>1, InitialClient DEF GoodClient, InitialState
<1>4. Fits(client', page') /\ ~page'.keyKnown /\ page' \in Pages
  BY <1>1, <1>3, FreshPageIs DEF Fits, Nothing, Queries
<1>5. Synced'
  BY <1>2, <1>3, <1>4 DEF Synced, Fits, GoodClient
<1> QED
  BY <1>1, <1>2, <1>3, <1>4, <1>5 DEF Shape

(* Every step leaves a state of the right shape that fits its page. *)
LEMMA ShapeNext ==
  ASSUME Shape, Synced, [Next]_vars
  PROVE  Shape' /\ Synced'
<1>1. CASE UNCHANGED vars
  BY <1>1 DEF vars, Shape, Synced, GoodClient, Fits
<1> QED
  BY <1>1, KeyArrivesShape, RunQueueShape, SelectForumShape, AnswerShape, ReceiptShape,
     MemberShape, CommitShape, ChainShape, ReloadShape DEF Next

-----------------------------------------------------------------------------
(* While nothing has happened, no clock has moved: nothing is confirmed. *)
LEMMA CalmBefore ==
  ASSUME Shape, [Next]_vars, Calm'
  PROVE  Calm /\ chain'.clock = chain.clock
<1>1. history \in Histories /\ history.foreign \in Nat /\ txs \in Seq(Txs)
  BY DEF Shape, Histories
<1>2. CASE UNCHANGED vars
  BY <1>2 DEF vars, Calm, Alone
<1>3. ASSUME UNCHANGED <<chain, txs>>, history'.foreign = history.foreign
      PROVE  Calm /\ chain'.clock = chain.clock
  BY <1>3 DEF Calm, Alone
<1>4. ASSUME KeyArrives \/ RunQueue \/ CloseModal \/ KeepChanges
      PROVE  history'.foreign = history.foreign
  BY <1>4, ExcuseNoted
<1>6. ASSUME NEW e \in Edits, Stage(e) \/ Unstage(e) PROVE history'.foreign = history.foreign
  <2>1. Unstage(e) => history'.foreign = history.foreign
    BY <1>1 DEF Unstage, Histories
  <2> QED
    BY <1>6, <2>1, StageNoted
<1>7. ASSUME ResetChanges \/ AbandonChanges PROVE history'.foreign = history.foreign
  BY <1>1, <1>7 DEF ResetChanges, AbandonChanges, Drop, Histories
<1>8. ASSUME NEW f \in Forums, SelectForum(f) PROVE history'.foreign = history.foreign
  BY <1>8, SelectNoted
<1>9. ASSUME CommitChanges PROVE Calm /\ chain'.clock = chain.clock
  <2>1. client.staged # None /\ txs' = Append(txs, NewCall) /\ UNCHANGED <<chain, history>>
    BY <1>9 DEF CommitChanges, PageUsable, NewCall
  <2>2. \A h \in DOMAIN txs : h \in DOMAIN txs' /\ txs'[h] = txs[h]
    BY <2>1, CallAdded
  <2> QED
    BY <2>1, <2>2 DEF Calm, Alone
<1>10. ASSUME NEW h \in DOMAIN txs, Send(h) \/ Submitted(h) \/ Refused(h)
       PROVE  Calm /\ chain'.clock = chain.clock
  <2>1. /\ UNCHANGED <<chain, history>>
        /\ \/ txs' = [txs EXCEPT ![h].fate = "sent"] /\ txs[h].fate = "asked"
           \/ txs' = [txs EXCEPT ![h].awaited = FALSE]
           \/ /\ txs' = [txs EXCEPT ![h].awaited = FALSE, ![h].fate = "refused"]
              /\ txs[h].fate = "asked"
    BY <1>10 DEF Send, Submitted, Refused
  <2>2. txs[h] \in Txs
    BY <1>1
  <2>3. /\ txs[h].fate \in Fates /\ txs[h].awaited \in BOOLEAN
        /\ {"sent", "refused"} \subseteq Fates
    BY <2>2 DEF Txs, Fates
  <2>4. /\ DOMAIN txs' = DOMAIN txs
        /\ txs'[h].fate = txs[h].fate \/ txs[h].fate = "asked"
        /\ \A i \in DOMAIN txs \ {h} : txs'[i] = txs[i]
    BY <2>1, <2>3, TxChanges
  <2> QED
    BY <2>1, <2>4 DEF Calm, Alone
<1>11. ASSUME NEW h \in DOMAIN txs, Include(h) PROVE Calm /\ chain'.clock = chain.clock
  BY <1>11, IncludedIs DEF Calm, Alone, Include
<1>12. ~ActElsewhere
  BY ForeignNoted DEF Calm, Alone
<1>13. ASSUME Reload PROVE Calm /\ chain'.clock = chain.clock
  BY <1>13, ReloadIs DEF Calm, Alone, Reload
<1>14. ASSUME \/ Poll \/ Receipt \/ Timeout \/ EmptyBlock
              \/ \E q \in Queries : Answer(q)
       PROVE  Calm /\ chain'.clock = chain.clock
  <2>1. UNCHANGED <<chain, txs, history>>
    BY <1>14 DEF Poll, Receipt, Timeout, EmptyBlock, Answer
  <2> QED
    BY <1>3, <2>1
<1>15. ASSUME \/ KeyArrives \/ RunQueue \/ CloseModal \/ KeepChanges
              \/ ResetChanges \/ AbandonChanges
              \/ \E e \in Edits : Stage(e) \/ Unstage(e)
              \/ \E f \in Forums : SelectForum(f)
       PROVE  UNCHANGED <<chain, txs>>
  BY <1>15 DEF KeyArrives, RunQueue, CloseModal, KeepChanges, ResetChanges,
               AbandonChanges, Stage, Unstage, SelectForum
<1> QED
  BY <1>2, <1>3, <1>4, <1>6, <1>7, <1>8, <1>9, <1>10, <1>11, <1>12, <1>13,
     <1>14, <1>15 DEF Next

(* A render of a state whose clocks are the first leaves such a page. *)
LEMMA RenderQuiet ==
  ASSUME Shape, NEW s, GoodClient(s), NEW p \in Pages, NEW f \in Forums,
         RenderIn(s, p, f), Untouched(s, p), Unsubmitted
  PROVE  Untouched(client', page') /\ Unsubmitted'
<1>1. /\ client' = s /\ page'.data = p.data /\ page'.queue.pending = p.queue.pending
      /\ \A g \in Forums \ {f} : storage'[g] = storage[g]
      /\ ~p.keyKnown => storage' = storage
      /\ p.keyKnown => storage'[f].pending = SavedPending(s)
  BY Rendered
<1>2. SavedPending(s) # None => SavedPending(s).submittedFrom = 0
  BY SavedIs DEF GoodClient, Untouched, First
<1> QED
  BY <1>1, <1>2 DEF Untouched, Unsubmitted

(* The page's own steps move nothing while nothing has happened. *)
LEMMA PageStaysQuiet ==
  ASSUME Shape, Synced, Quiet, Calm,
         \/ KeyArrives \/ RunQueue \/ Receipt \/ Timeout
         \/ \E q \in Queries : Answer(q)
         \/ \E f \in Forums : SelectForum(f)
  PROVE  Untouched(client', page') /\ Unsubmitted'
<1>1. /\ GoodClient(client) /\ page \in Pages /\ page.queue \in Records
      /\ Untouched(client, page) /\ Unsubmitted
      /\ \A f \in Forums : chain.clock[f] = 0 /\ storage[f] \in Records
      /\ forum \in Forums /\ Undefined \notin Nat
  BY NoneIsNothing DEF Synced, Shape, Pages, Quiet
<1>2. CASE KeyArrives
  <2> DEFINE pending == storage[forum].pending
             p == [page EXCEPT !.keyKnown = TRUE, !.queue.pending = pending]
  <2>1. pending \in {None} \cup SavedCommits
    BY <1>1 DEF Records
  <2>2. pending # None => pending.submittedFrom = 0
    BY <1>1 DEF Unsubmitted
  <2>3. RenderIn(client, p, forum)
    BY <1>2 DEF KeyArrives, Render
  <2> HIDE DEF pending
  <2>4. p \in Pages /\ p.data = page.data /\ p.queue.pending = pending
    BY <2>1, PageKeyed
  <2> HIDE DEF p
  <2>5. Untouched(client, p)
    BY <1>1, <2>2, <2>4 DEF Untouched
  <2> QED
    BY <1>1, <2>3, <2>4, <2>5, RenderQuiet
<1>3. CASE RunQueue
  <2> DEFINE p == [page EXCEPT !.queue = FreshPage.queue]
  <2>1. RenderIn(Restored, p, forum)
    BY <1>3 DEF RunQueue, Restored, Render
  <2>2. p \in Pages /\ p.data = page.data /\ p.queue.pending = None
    BY PageDequeued DEF Nothing
  <2> HIDE DEF p
  <2>3. GoodClient(Restored) /\ Untouched(Restored, p)
    BY <1>1, <2>2, RestoredIs DEF Untouched, First
  <2> QED
    BY <1>1, <2>1, <2>2, <2>3, RenderQuiet
<1>4. ASSUME NEW f \in Forums, SelectForum(f)
      PROVE  Untouched(client', page') /\ Unsubmitted'
  <2> DEFINE pending == IF page.keyKnown THEN storage[f].pending ELSE page.queue.pending
             p == [page EXCEPT !.fetching = Queries, !.data = FreshPage.data,
                               !.queue.pending = pending]
  <2>1. pending \in {None} \cup SavedCommits
    BY <1>1 DEF Records
  <2>2. pending # None => pending.submittedFrom = 0
    BY <1>1 DEF Unsubmitted, Untouched
  <2>3. RenderIn(client, p, f)
    BY <1>4 DEF SelectForum
  <2> HIDE DEF pending
  <2>4. /\ p \in Pages /\ \A q \in Queries : p.data[q] = Undefined
        /\ p.queue.pending = pending
    BY <2>1, PageSelected
  <2> HIDE DEF p
  <2>5. Untouched(client, p)
    BY <1>1, <2>2, <2>4 DEF Untouched, First
  <2> QED
    BY <1>1, <2>3, <2>4, <2>5, RenderQuiet
<1>5. ASSUME NEW q \in Queries, Answer(q)
      PROVE  Untouched(client', page') /\ Unsubmitted'
  <2> DEFINE p == Answered(q)
             complete == \A r \in Queries : p.data[r] # Undefined
             s == SyncOnChainState(client, p.data["support"], p.data["lastUpdated"])
  <2>1. IF complete /\ DataChanged(p.data) THEN Render(s, p)
        ELSE page' = p /\ UNCHANGED <<client, storage>>
    BY <1>5 DEF Answer, Answered, Clock
  <2>2. /\ p \in Pages /\ p.queue = page.queue /\ p.data[q] = 0
        /\ \A r \in Queries \ {q} : p.data[r] = page.data[r]
    BY <1>1, PageAnswered DEF Clock
  <2> HIDE DEF p
  <2>3. Untouched(client, p)
    BY <1>1, <2>2 DEF Untouched, First
  <2>4. CASE complete /\ DataChanged(p.data)
    <3>1. p.data["support"] \in Nat /\ p.data["lastUpdated"] \in Nat
      BY <2>2, <2>4 DEF Pages, Queries, Known
    <3>2. ~OurCommitLanded(client, p.data["lastUpdated"])
      BY <2>3, <3>1 DEF OurCommitLanded, Untouched, First, Queries, Undefined
    <3>3. /\ GoodClient(s) /\ s.lastUpdated = p.data["lastUpdated"]
          /\ s.status = client.status /\ s.submittedFrom = client.submittedFrom
      BY <1>1, <3>1, <3>2, SyncNotLanded
    <3> HIDE DEF s
    <3>4. Untouched(s, p) /\ RenderIn(s, p, forum)
      BY <2>1, <2>3, <2>4, <3>3 DEF Untouched, Render, Queries
    <3> QED
      BY <1>1, <2>2, <3>3, <3>4, RenderQuiet
  <2>5. CASE ~(complete /\ DataChanged(p.data))
    BY <1>1, <2>1, <2>3, <2>5 DEF Unsubmitted
  <2> QED
    BY <2>4, <2>5
<1>6. CASE Receipt
  <2> DEFINE p == [page EXCEPT !.receipt = client.pendingTx]
  <2>1. client.pendingTx \in Known
    BY <1>1 DEF GoodClient, Clients
  <2>2. p \in Pages /\ p.data = page.data /\ p.queue = page.queue
    BY <1>1, <2>1 DEF Pages
  <2>3. \/ RenderIn(CommitReverted(client), p, forum)
        \/ page' = SeeBlock(p) /\ UNCHANGED <<client, storage>>
    BY <1>6 DEF Receipt, Render
  <2> HIDE DEF p
  <2>4. /\ GoodClient(CommitReverted(client)) /\ CommitReverted(client).status = "error"
        /\ CommitReverted(client).lastUpdated = client.lastUpdated
        /\ CommitReverted(client).submittedFrom = Undefined
    BY <1>1, StoppedIs DEF CommitReverted, CommitStatus, Terminal
  <2>5. Untouched(CommitReverted(client), p) /\ Untouched(client, p)
    BY <1>1, <2>2, <2>4 DEF Untouched, First
  <2>6. CASE RenderIn(CommitReverted(client), p, forum)
    BY <1>1, <2>2, <2>4, <2>5, <2>6, RenderQuiet
  <2>7. CASE page' = SeeBlock(p) /\ UNCHANGED <<client, storage>>
    BY <1>1, <2>2, <2>5, <2>7, SeenBlock DEF Untouched, Unsubmitted
  <2> QED
    BY <2>3, <2>6, <2>7
<1>7. CASE Timeout
  <2>1. RenderIn(CommitError(client), page, forum)
    BY <1>7 DEF Timeout, Render
  <2>2. /\ GoodClient(CommitError(client)) /\ CommitError(client).status = "error"
        /\ CommitError(client).lastUpdated = client.lastUpdated
        /\ CommitError(client).submittedFrom = client.submittedFrom
    BY <1>1, StatusChange DEF CommitError, CommitStatus, Terminal
  <2>3. Untouched(CommitError(client), page)
    BY <1>1, <2>2 DEF Untouched
  <2> QED
    BY <1>1, <2>1, <2>2, <2>3, RenderQuiet
<1> QED
  BY <1>2, <1>3, <1>4, <1>5, <1>6, <1>7
(* A step of the member, or the answer to one, that renders the page as it is. *)
LEMMA MemberStaysQuiet ==
  ASSUME Shape, Synced, Quiet, Calm,
         \/ \E e \in Edits : Stage(e) \/ Unstage(e)
         \/ ResetChanges \/ AbandonChanges \/ KeepChanges
         \/ CloseModal \/ CommitChanges
         \/ \E h \in DOMAIN txs : Submitted(h) \/ Refused(h)
  PROVE  Untouched(client', page') /\ Unsubmitted'
<1>1. /\ GoodClient(client) /\ client \in Clients /\ page \in Pages /\ forum \in Forums
      /\ Untouched(client, page) /\ Unsubmitted
      /\ client.staged # None => client.staged \in SUBSET Edits
  BY DEF Synced, Shape, Quiet, GoodClient, Clients
<1>2. ASSUME NEW s, GoodClient(s), RenderIn(s, page, forum),
             s.status # "confirmed", s.lastUpdated = client.lastUpdated,
             s.submittedFrom \in {Undefined, client.submittedFrom, client.lastUpdated}
      PROVE  Untouched(client', page') /\ Unsubmitted'
  <2>1. Untouched(s, page)
    BY <1>1, <1>2 DEF Untouched, First
  <2> QED
    BY <1>1, <1>2, <2>1, RenderQuiet
<1>3. ASSUME NEW staged \in SUBSET Edits, client.staged # None,
             RenderIn([client EXCEPT !.staged = staged], page, forum)
      PROVE  Untouched(client', page') /\ Unsubmitted'
  <2> DEFINE s == [client EXCEPT !.staged = staged]
  <2>1. /\ GoodClient(s) /\ s.status = client.status
        /\ s.lastUpdated = client.lastUpdated /\ s.submittedFrom = client.submittedFrom
    BY <1>1, <1>3, EditsChange
  <2> HIDE DEF s
  <2>2. RenderIn(s, page, forum)
    BY <1>3 DEF s
  <2> QED
    BY <1>1, <1>2, <2>1, <2>2 DEF Untouched
<1>4. ASSUME NEW e \in Edits, Stage(e)
      PROVE  Untouched(client', page') /\ Unsubmitted'
  <2>1. /\ client.staged # None /\ client.staged \cup {e} \in SUBSET Edits
        /\ RenderIn([client EXCEPT !.staged = client.staged \cup {e}], page, forum)
    BY <1>1, <1>4 DEF Stage, PageUsable, StageEdit, Render
  <2> QED
    BY <1>3, <2>1
<1>5. ASSUME NEW e \in Edits, Unstage(e)
      PROVE  Untouched(client', page') /\ Unsubmitted'
  <2>1. /\ client.staged # None /\ client.staged \ {e} \in SUBSET Edits
        /\ RenderIn([client EXCEPT !.staged = client.staged \ {e}], page, forum)
    BY <1>1, <1>5 DEF Unstage, PageUsable, UnstageEdit, Render
  <2> QED
    BY <1>3, <2>1
<1>6. ASSUME ResetChanges \/ AbandonChanges
      PROVE  Untouched(client', page') /\ Unsubmitted'
  <2>1. client.staged # None /\ RenderIn(ClearStaged(client), page, forum)
    BY <1>1, <1>6 DEF ResetChanges, AbandonChanges, PageUsable, Render, GoodClient
  <2>2. /\ GoodClient(ClearStaged(client))
        /\ ClearStaged(client).lastUpdated = client.lastUpdated
        /\ ClearStaged(client).submittedFrom = client.submittedFrom
        /\ ClearStaged(client).status = client.status
    BY <1>1, <2>1, ClearedIs
  <2> QED
    BY <1>1, <1>2, <2>1, <2>2 DEF Untouched
<1>7. CASE KeepChanges
  <2>1. client.staged # None /\ RenderIn(KeepOutdatedChanges(client), page, forum)
    BY <1>1, <1>7 DEF KeepChanges, Render, GoodClient
  <2>2. /\ GoodClient(KeepOutdatedChanges(client))
        /\ KeepOutdatedChanges(client).lastUpdated = client.lastUpdated
        /\ KeepOutdatedChanges(client).submittedFrom = client.submittedFrom
        /\ KeepOutdatedChanges(client).status = client.status
    BY <1>1, <2>1, KeptOutdatedIs
  <2> QED
    BY <1>1, <1>2, <2>1, <2>2 DEF Untouched
<1>8. ASSUME NEW status \in CommitStatus \ {"confirmed"},
             RenderIn(StopWatching(client, status), page, forum)
      PROVE  Untouched(client', page') /\ Unsubmitted'
  <2> DEFINE s == StopWatching(client, status)
  <2>1. /\ GoodClient(s) /\ s.status = status
        /\ s.lastUpdated = client.lastUpdated /\ s.submittedFrom = Undefined
    BY <1>1, StoppedIs
  <2> HIDE DEF s
  <2>2. RenderIn(s, page, forum)
    BY <1>8 DEF s
  <2> QED
    BY <1>2, <2>1, <2>2
<1>9. ASSUME NEW status \in CommitStatus \ {"confirmed"},
             client.pendingTx # Undefined => status \in {"pending-confirmation", "error"},
             RenderIn([client EXCEPT !.status = status], page, forum)
      PROVE  Untouched(client', page') /\ Unsubmitted'
  <2> DEFINE s == [client EXCEPT !.status = status]
  <2>1. /\ GoodClient(s) /\ s.status = status
        /\ s.lastUpdated = client.lastUpdated /\ s.submittedFrom = client.submittedFrom
    BY <1>1, <1>9, StatusChange
  <2> HIDE DEF s
  <2>2. RenderIn(s, page, forum)
    BY <1>9 DEF s
  <2> QED
    BY <1>2, <2>1, <2>2
<1>10. CASE CloseModal
  BY <1>8, <1>10 DEF CloseModal, Render, ResetCommitStatus, CommitStatus
<1>11. CASE CommitChanges
  <2> DEFINE status == IF walletKind = "external" THEN "awaiting-approval"
                                                  ELSE "pending-confirmation"
  <2>1. /\ client.pendingTx = Undefined
        /\ RenderIn([client EXCEPT !.status = status], page, forum)
    BY <1>1, <1>11 DEF CommitChanges, PageUsable, GoodClient, BeginCommit, Render
  <2>2. status \in CommitStatus \ {"confirmed"}
    BY DEF CommitStatus, InFlight
  <2> HIDE DEF status
  <2> QED
    BY <1>9, <2>1, <2>2
<1>12. ASSUME NEW h \in DOMAIN txs, Submitted(h)
       PROVE  Untouched(client', page') /\ Unsubmitted'
  <2>1. RenderIn(CommitSubmitted(client, h), page, forum)
    BY <1>12 DEF Submitted, Render
  <2>2. client.staged # None /\ h \in Nat
    BY <1>12 DEF Synced, Submitted, Shape
  <2>3. /\ GoodClient(CommitSubmitted(client, h))
        /\ CommitSubmitted(client, h).lastUpdated = client.lastUpdated
        /\ CommitSubmitted(client, h).submittedFrom = client.lastUpdated
        /\ CommitSubmitted(client, h).status = "pending-confirmation"
    BY <1>1, <2>2, SubmittedIs
  <2> QED
    BY <1>2, <2>1, <2>3
<1>13. ASSUME NEW h \in DOMAIN txs, Refused(h)
       PROVE  Untouched(client', page') /\ Unsubmitted'
  <2>1. \/ RenderIn(StopWatching(client, "cancelled"), page, forum)
        \/ RenderIn([client EXCEPT !.status = "error"], page, forum)
    BY <1>13 DEF Refused, Render, CommitCancelled, CommitError
  <2>2. {"cancelled", "error"} \subseteq CommitStatus \ {"confirmed"}
    BY DEF CommitStatus, Terminal
  <2> QED
    BY <1>8, <1>9, <2>1, <2>2
<1> QED
  BY <1>4, <1>5, <1>6, <1>7, <1>10, <1>11, <1>12, <1>13

(* While nothing has landed and nobody acted elsewhere, no step makes a *)
(* commit look confirmed.                                               *)
LEMMA QuietNext ==
  ASSUME Shape, Synced, Quiet, [Next]_vars
  PROVE  Quiet'
<1> SUFFICES ASSUME Calm'
             PROVE  /\ \A f \in Forums : chain'.clock[f] = 0
                    /\ Untouched(client', page') /\ Unsubmitted'
  BY DEF Quiet
<1>1. Calm /\ chain'.clock = chain.clock
  BY CalmBefore
<1>2. \A f \in Forums : chain'.clock[f] = 0
  BY <1>1 DEF Quiet
<1>3. Untouched(client, page) /\ Unsubmitted
  BY <1>1 DEF Quiet
<1>4. CASE UNCHANGED vars
  BY <1>2, <1>3, <1>4 DEF vars, Untouched, Unsubmitted
<1>5. ASSUME \/ Poll \/ EmptyBlock \/ ActElsewhere
             \/ \E h \in DOMAIN txs : Send(h) \/ Include(h)
      PROVE  Untouched(client', page') /\ Unsubmitted'
  <2>1. /\ client' = client /\ storage' = storage
        /\ page' = page \/ page' = SeeBlock(page) \/ NewBlock
    BY <1>5 DEF Poll, EmptyBlock, ActElsewhere, Send, Include
  <2>2. page'.data = page.data /\ page'.queue = page.queue
    BY <2>1, SeenBlock, NewBlockIs DEF Shape
  <2> QED
    BY <1>3, <2>1, <2>2 DEF Untouched, Unsubmitted
<1>6. CASE Reload
  <2>1. client' = InitialState /\ page' = FreshPage /\ storage' = storage
    BY <1>6 DEF Reload
  <2> QED
    BY <1>2, <1>3, <2>1, FreshPageIs
    DEF Untouched, Unsubmitted, InitialState, First, Nothing
<1>7. ASSUME \/ KeyArrives \/ RunQueue \/ Receipt \/ Timeout
             \/ \E q \in Queries : Answer(q)
             \/ \E f \in Forums : SelectForum(f)
      PROVE  Untouched(client', page') /\ Unsubmitted'
  BY <1>1, <1>7, PageStaysQuiet
<1>8. ASSUME \/ \E e \in Edits : Stage(e) \/ Unstage(e)
             \/ ResetChanges \/ AbandonChanges \/ KeepChanges
             \/ CloseModal \/ CommitChanges
             \/ \E h \in DOMAIN txs : Submitted(h) \/ Refused(h)
      PROVE  Untouched(client', page') /\ Unsubmitted'
  BY <1>1, <1>8, MemberStaysQuiet
<1> QED
  BY <1>2, <1>4, <1>5, <1>6, <1>7, <1>8 DEF Next

(* A run starts that way. *)
LEMMA InitShape == Init => Shape /\ Synced /\ Quiet
<1> SUFFICES ASSUME Init PROVE Shape /\ Synced /\ Quiet
  OBVIOUS
<1>1. /\ walletKind \in {"external", "smart"} /\ forum \in Forums
      /\ chain = [clock |-> [f \in Forums |-> 0], applied |-> [e \in Edits |-> 0]]
      /\ txs = <<>> /\ client = InitialState /\ page = FreshPage
      /\ storage = [f \in Forums |-> Nothing]
      /\ history = [made |-> {}, dropped |-> {}, excuses |-> {}, reloads |-> 0,
                    foreign |-> 0, switches |-> 0]
  BY DEF Init, Nothing
<1>2. Shape
  <2>1. history \in Histories /\ txs \in Seq(Txs)
    BY <1>1 DEF Histories
  <2>2. chain \in [clock : [Forums -> Nat], applied : [Edits -> Nat]]
    BY <1>1
  <2>3. storage \in [Forums -> Records]
    BY <1>1 DEF Nothing, Records
  <2> QED
    BY <1>1, <2>1, <2>2, <2>3, InitialClient, FreshPageIs DEF Shape, GoodClient
<1>3. Synced
  <2>1. client.staged = None /\ ~page.keyKnown
    BY <1>1, FreshPageIs DEF InitialState
  <2> QED
    BY <1>1, <2>1, InitialClient, FreshPageIs DEF Synced, Fits, Nothing, Queries
<1>4. Quiet
  BY <1>1, FreshPageIs DEF Quiet, Untouched, Unsubmitted, Nothing, First, InitialState
<1> QED
  BY <1>2, <1>3, <1>4

(* A commit is reported as confirmed only if a transaction of this tab has *)
(* landed or the member acted elsewhere: with neither, no clock has moved, *)
(* and SYNC_ONCHAIN_STATE never finds one past that of the submission.     *)
THEOREM ConfirmedAlwaysLanded == Spec => []ConfirmedMeansLanded
<1>1. Shape /\ Synced /\ Quiet /\ [Next]_vars => (Shape /\ Synced /\ Quiet)'
  BY ShapeNext, QuietNext
<1>2. Shape => history.foreign \in Nat
  BY DEF Shape, Histories
<1>3. Shape /\ Quiet => ConfirmedMeansLanded
  BY <1>2 DEF Quiet, Calm, Alone, Untouched, ConfirmedMeansLanded
<1> QED
  BY <1>1, <1>3, InitShape, PTL DEF Spec
-----------------------------------------------------------------------------
(* An edit counts on the chain just when a call that has it has landed. *)
LEMMA AppliedNext ==
  ASSUME Shape, Synced, Applied, [Next]_vars
  PROVE  Applied'
<1>1. CASE UNCHANGED <<txs, chain>>
  BY <1>1 DEF Applied
<1>2. CASE CommitChanges
  <2>1. client.staged # None /\ txs' = Append(txs, NewCall) /\ chain' = chain
    BY <1>2 DEF CommitChanges, PageUsable, NewCall
  <2>2. /\ DOMAIN txs = 1..Len(txs) /\ Len(txs) \in Nat /\ DOMAIN txs' = 1..(Len(txs) + 1)
        /\ txs'[Len(txs) + 1] = NewCall /\ \A h \in DOMAIN txs : txs'[h] = txs[h]
    BY <2>1, CallAdded
  <2> QED
    BY <2>1, <2>2 DEF Applied, NewCall
<1>3. ASSUME NEW h \in DOMAIN txs, Send(h) \/ Submitted(h) \/ Refused(h)
      PROVE  Applied'
  <2>1. /\ chain' = chain
        /\ \/ txs' = [txs EXCEPT ![h].fate = "sent"] /\ txs[h].fate = "asked"
           \/ txs' = [txs EXCEPT ![h].awaited = FALSE]
           \/ /\ txs' = [txs EXCEPT ![h].awaited = FALSE, ![h].fate = "refused"]
              /\ txs[h].fate = "asked"
    BY <1>3 DEF Send, Submitted, Refused
  <2>2. txs[h] \in Txs
    BY DEF Shape
  <2>3. /\ txs[h].fate \in Fates /\ txs[h].awaited \in BOOLEAN
        /\ {"sent", "refused"} \subseteq Fates
    BY <2>2 DEF Txs, Fates
  <2>4. /\ DOMAIN txs' = DOMAIN txs /\ txs'[h].edits = txs[h].edits
        /\ txs'[h].fate = txs[h].fate
           \/ (txs[h].fate = "asked" /\ txs'[h].fate \in {"sent", "refused"})
        /\ \A i \in DOMAIN txs \ {h} : txs'[i] = txs[i]
    BY <2>1, <2>3, TxChanges
  <2> QED
    BY <2>1, <2>4 DEF Applied
<1>4. ASSUME NEW h \in DOMAIN txs, Include(h) PROVE Applied'
  <2>1. \A i \in DOMAIN txs : txs[i].edits \subseteq Edits
    <3>1. \A i \in DOMAIN txs : txs[i] \in Txs
      BY DEF Shape
    <3> QED
      BY <3>1 DEF Txs
  <2>2. \A e \in Edits : chain.applied[e] \in Nat
    BY DEF Shape
  <2>3. /\ txs[h].fate = "sent" /\ DOMAIN txs' = DOMAIN txs /\ txs'[h].edits = txs[h].edits
        /\ \A i \in DOMAIN txs \ {h} : txs'[i] = txs[i]
    BY <1>4, IncludedIs
  <2>4. CASE txs'[h].fate = "reverted" /\ chain' = chain
    BY <2>3, <2>4 DEF Applied
  <2>5. CASE /\ txs'[h].fate = "landed"
             /\ \A e \in Edits :
                  chain'.applied[e] = IF e \in txs[h].edits THEN chain.applied[e] + 1
                                                            ELSE chain.applied[e]
    <3>1. \A e \in Edits : chain'.applied[e] > 0 <=> e \in txs[h].edits \/ chain.applied[e] > 0
      BY <2>2, <2>5
    <3>2. \A i \in DOMAIN txs :
            txs'[i].edits = txs[i].edits /\ (txs'[i].fate = "landed" <=> i = h \/ txs[i].fate = "landed")
      BY <2>3, <2>5
    <3> QED
      BY <2>1, <2>3, <3>1, <3>2 DEF Applied
  <2> QED
    BY <1>4, <2>4, <2>5, IncludedIs
<1>5. CASE ActElsewhere
  <2>1. txs' = txs /\ chain'.applied = chain.applied
    BY <1>5 DEF ActElsewhere, Shape
  <2> QED
    BY <2>1 DEF Applied
<1>6. CASE Reload
  BY <1>6, ReloadIs DEF Applied, Reload
<1> QED
  BY <1>1, <1>2, <1>3, <1>4, <1>5, <1>6
  DEF Next, vars, KeyArrives, RunQueue, Poll, Receipt, Timeout, Answer, Stage, Unstage,
      ResetChanges, AbandonChanges, KeepChanges, CloseModal, SelectForum, EmptyBlock

(* What is excused stays excused, and nobody acts elsewhere and then did not. *)
LEMMA PastStays ==
  ASSUME Shape, [Next]_vars
  PROVE  (Plain' => Plain) /\ (Alone' => Alone)
<1>1. history \in Histories /\ history.foreign \in Nat
  BY DEF Shape, Histories
<1>2. CASE history' = history
  BY <1>2 DEF Plain, Alone
<1>3. CASE KeyArrives \/ RunQueue \/ CloseModal \/ KeepChanges
  BY <1>3, ExcuseNoted DEF Plain, Alone
<1>4. ASSUME NEW e \in Edits, Stage(e) PROVE (Plain' => Plain) /\ (Alone' => Alone)
  BY <1>4, StageNoted DEF Plain, Alone
<1>5. ASSUME NEW dropped, history' = [history EXCEPT !.dropped = dropped]
      PROVE  (Plain' => Plain) /\ (Alone' => Alone)
  BY <1>1, <1>5 DEF Histories, Plain, Alone
<1>6. ASSUME NEW f \in Forums, SelectForum(f) PROVE (Plain' => Plain) /\ (Alone' => Alone)
  BY <1>6, SelectNoted DEF Plain, Alone
<1>7. CASE ActElsewhere
  BY <1>7, ForeignNoted DEF Plain, Alone
<1>8. CASE Reload
  BY <1>8, ReloadIs DEF Plain, Alone
<1> QED
  BY <1>2, <1>3, <1>4, <1>5, <1>6, <1>7, <1>8
  DEF Next, vars, Poll, Receipt, Timeout, Answer, Unstage, ResetChanges,
      AbandonChanges, Drop, CommitChanges, Send, Submitted, Refused, Include, EmptyBlock

-----------------------------------------------------------------------------
(* Where the edits are that the page holds or will restore. *)
(* What is saved of the forum, and the one place where the kept edits are. *)
Stored == IF storage[forum].staged = None THEN {} ELSE storage[forum].staged.staged

Held ==
    IF page.restored = None THEN Stored
    ELSE IF page.queue.staged # None THEN page.queue.staged.staged ELSE client.staged

Placed ==
    /\ Kept = Held /\ Kept \in SUBSET Edits
    /\ page.restored = None \/ (page.restored = forum /\ client.staged # None)
    /\ page.restored = None <=> ~page.keyKnown \/ client.staged = None

(* The edits that are kept are in one place: the state, the queue or the *)
(* record of the forum.                                                  *)
LEMMA KeptIs == Shape /\ Synced /\ Restoring => Placed
<1> SUFFICES ASSUME Shape, Synced, Restoring PROVE Placed
  OBVIOUS
<1> DEFINE others == {g \in Forums \ {page.restored} : storage[g].staged # None}
<1>1. /\ forum \in Forums /\ None \notin Forums
      /\ client.staged \in {None} \cup SUBSET Edits
      /\ page.queue.staged \in {None} \cup SavedEdits
      /\ storage[forum].staged \in {None} \cup SavedEdits
  BY NoneIsNothing DEF Shape, Clients, Pages, Records
<1>2. /\ page.restored = None \/ (page.restored = forum /\ client.staged # None)
      /\ page.restored = None <=> ~page.keyKnown \/ client.staged = None
  BY <1>1 DEF Synced, Fits, Restoring
<1>3. \A g \in Forums \ {forum} : storage[g].staged = None
  BY DEF Restoring, Nothing
<1>4. CASE page.restored = None
  <2>1. others = IF storage[forum].staged = None THEN {} ELSE {forum}
    BY <1>1, <1>3, <1>4
  <2>2. UNION {storage[f].staged.staged : f \in others} = Stored
    BY <2>1 DEF Stored
  <2>3. client.staged \in {None, {}} /\ page.queue.staged = None
    BY <1>2, <1>4 DEF Synced, Fits, Restoring, Idle
  <2> QED
    BY <1>1, <1>2, <1>4, <2>2, <2>3 DEF Kept, Held, Placed, Stored, SavedEdits
<1>5. CASE page.restored = forum /\ client.staged # None
  <2>1. others = {}
    BY <1>3, <1>5
  <2>2. UNION {storage[f].staged.staged : f \in others} = {}
    BY <2>1
  <2>3. page.queue.staged # None => client.staged = {}
    BY DEF Restoring
  <2> QED
    BY <1>1, <1>2, <1>5, <2>2, <2>3 DEF Kept, Held, Placed, SavedEdits
<1> QED
  BY <1>2, <1>4, <1>5

(* The same after the step. *)
LEMMA KeptIsNext == Shape' /\ Synced' /\ Restoring' => Placed'
BY KeptIs, PTL

(* An idle page that has its key renders: what it keeps, watches and is *)
(* based on is what the state rendered says.                            *)
LEMMA RenderKeeps ==
  ASSUME Shape, Synced, Restoring, Shape', Synced', Idle, page.keyKnown,
         client.staged # None => Complete,
         NEW s, GoodClient(s), s.staged = None <=> client.staged = None,
         s.isOutdated => StagedHasContent(s),
         NEW p \in Pages, p.keyKnown = page.keyKnown, p.restored = page.restored,
         p.queue = page.queue, p.data = page.data,
         RenderIn(s, p, forum), forum' = forum
  PROVE  /\ Restoring' /\ client' = s /\ Idle' /\ page'.data = page.data
         /\ client.staged # None =>
              Kept = client.staged /\ HeldSince = client.baseline
         /\ Kept' = IF s.staged = None THEN Kept ELSE s.staged
         /\ HeldSince' = IF s.staged = None THEN HeldSince ELSE s.baseline
         /\ Watch = IF client.pendingTx = Undefined THEN None
                    ELSE [hash |-> client.pendingTx, submittedFrom |-> client.submittedFrom]
         /\ Watch' = IF s.pendingTx = Undefined THEN None
                     ELSE [hash |-> s.pendingTx, submittedFrom |-> s.submittedFrom]
<1>1. Placed
  BY KeptIs
<1>2. /\ client' = s /\ page'.keyKnown /\ page'.data = page.data
      /\ page'.restored = page.restored /\ page'.queue = page.queue
      /\ \A g \in Forums \ {forum} : storage'[g] = storage[g]
      /\ storage'[forum].pending = SavedPending(s)
      /\ storage'[forum].staged =
           IF s.staged = None THEN storage[forum].staged ELSE SavedStaged(s)
  <2>1. page.restored # forum => s.staged = None
    BY <1>1 DEF Placed
  <2>2. /\ client' = s /\ page'.keyKnown = p.keyKnown /\ page'.data = p.data
        /\ IF p.keyKnown /\ p.restored # forum /\ s.staged # None
           THEN page'.restored = forum /\ page'.queue.staged = storage[forum].staged
           ELSE page' = p
        /\ \A g \in Forums \ {forum} : storage'[g] = storage[g]
        /\ p.keyKnown =>
             /\ storage'[forum].pending = SavedPending(s)
             /\ storage'[forum].staged =
                  IF s.staged = None THEN storage[forum].staged ELSE SavedStaged(s)
    <3>1. forum \in Forums
      BY DEF Shape
    <3> QED
      BY <3>1, Rendered
  <2> QED
    BY <2>1, <2>2
<1>3. Idle' /\ Complete' = Complete
  BY <1>2 DEF Idle, Complete
<1>4. Restoring'
  BY <1>2, <1>3 DEF Restoring, Idle
<1>5. Placed'
  BY <1>4, KeptIsNext
<1>6. Kept' = IF s.staged = None THEN Kept ELSE s.staged
  BY <1>1, <1>2, <1>3, <1>5 DEF Placed, Held, Stored, Idle
<1>7. client.staged # None => Kept = client.staged /\ HeldSince = client.baseline
  BY <1>1 DEF Placed, Held, Idle, HeldSince
<1>8. HeldSince' = IF s.staged = None THEN HeldSince ELSE s.baseline
  BY <1>1, <1>2, <1>3, <1>5 DEF Placed, HeldSince, Idle, Synced, Fits, Complete
<1> QED
  BY <1>2, <1>3, <1>4, <1>6, <1>7, <1>8 DEF Watch, Idle
-----------------------------------------------------------------------------
(* What holds of the edits as long as nothing is to be excused, and what *)
(* holds of the clocks as long as nobody acts elsewhere.                  *)
LEMMA ClocksAre ==
  Shape /\ Synced =>
    /\ Clock \in Nat /\ Seen \in Known /\ HeldSince \in Known
    /\ Watch \in {None} \cup SavedCommits
    /\ Watch # None => Watch.hash \in Nat /\ Watch.submittedFrom \in Nat
    /\ Known = Nat \cup {-1} /\ Undefined = -1
    /\ client.pendingTx # Undefined => Watch # None
<1> SUFFICES ASSUME Shape, Synced
             PROVE  /\ Clock \in Nat /\ Seen \in Known /\ HeldSince \in Known
                    /\ Watch \in {None} \cup SavedCommits
                    /\ Watch # None => Watch.hash \in Nat /\ Watch.submittedFrom \in Nat
                    /\ Known = Nat \cup {-1} /\ Undefined = -1
                    /\ client.pendingTx # Undefined => Watch # None
  OBVIOUS
<1>1. page.queue \in Records /\ storage[forum] \in Records /\ client \in Clients
  BY DEF Shape, Pages
<1>2. Known = Nat \cup {-1} /\ Undefined = -1
  BY DEF Known, Undefined
<1>3. Clock \in Nat /\ Seen \in Known
  BY DEF Shape, Clock, Seen, Pages, Queries
<1>4. HeldSince \in Known
  BY <1>1, <1>2 DEF HeldSince, Records, SavedEdits, Clients
<1>5. client.pendingTx # Undefined =>
        [hash |-> client.pendingTx, submittedFrom |-> client.submittedFrom] \in SavedCommits
  BY <1>1 DEF Synced, GoodClient, Clients, Known, SavedCommits
<1>6. Watch \in {None} \cup SavedCommits /\ (client.pendingTx # Undefined => Watch # None)
  BY <1>1, <1>5, NoneIsNothing DEF Watch, Records
<1>7. Watch # None => Watch.hash \in Nat /\ Watch.submittedFrom \in Nat
  BY <1>6 DEF SavedCommits
<1> QED
  BY <1>2, <1>3, <1>4, <1>6, <1>7

(* A page that can be used watches nothing and holds nothing that is, or *)
(* may come, on the chain.                                                *)
LEMMA FreeToCommit ==
  ASSUME Shape, Synced, PlainInv, PageUsable, page.keyKnown
  PROVE  /\ Watch = None
         /\ \A h \in DOMAIN txs : ~txs[h].awaited /\ ~Conflict(h)
         /\ OwnClock => NothingOut /\ ~Past(Clock, Seen) /\ ~Past(Clock, HeldSince)
<1>1. client.status = "idle" /\ Idle
  BY DEF PageUsable
<1>2. Watch = None
  BY <1>1 DEF Watch, Idle, Synced, GoodClient
<1>3. \A h \in DOMAIN txs : ~txs[h].awaited
  BY <1>1 DEF PlainInv, Awaiting, InFlight
<1>4. \A h \in DOMAIN txs : ~Conflict(h)
  BY <1>1, <1>2, <1>3 DEF PlainInv, Tracking, Tracked
<1>5. OwnClock => NothingOut
  BY <1>2, <1>3 DEF OwnClock, NothingOut, Tracked
<1> QED
  BY <1>2, <1>3, <1>4, <1>5 DEF OwnClock, Unrecognised

(* Edits that come and go on such a page. *)
LEMMA FreePlain ==
  ASSUME Shape, Synced, Shape', Synced', PlainInv, PageUsable, page.keyKnown,
         Restoring', UNCHANGED <<txs, chain, forum>>, page'.data = page.data,
         Watch' = None, ~client'.isOutdated,
         history.made \subseteq history'.made, Kept' \subseteq history'.made,
         \A h \in DOMAIN txs : Kept' \cap txs[h].edits \subseteq Kept,
         HeldSince' \in {HeldSince, Seen}
  PROVE  PlainInv' /\ (OwnClock => OwnClock')
<1>1. /\ \A h \in DOMAIN txs : ~txs[h].awaited /\ ~Conflict(h)
      /\ OwnClock => NothingOut /\ ~Past(Clock, Seen) /\ ~Past(Clock, HeldSince)
  BY FreeToCommit
<1>2. \A h \in DOMAIN txs : ~Conflict(h)'
  BY <1>1 DEF Conflict
<1>3. \A h \in DOMAIN txs : ~Tracked(h)'
  BY <1>1 DEF Tracked
<1>4. PlainInv'
  <2>1. Awaiting'
    BY <1>1 DEF Awaiting
  <2>2. Tracking'
    BY <1>2, <1>3 DEF Tracking
  <2>3. Made' /\ Disjoint' /\ Once'
    BY DEF PlainInv, Made, Disjoint, Once, Live
  <2> QED
    BY <2>1, <2>2, <2>3 DEF PlainInv
<1>5. ASSUME OwnClock PROVE OwnClock'
  <2>1. Clock' = Clock /\ Seen' = Seen
    BY DEF Clock, Seen
  <2>2. Clock \in Nat /\ Seen \in Known /\ HeldSince \in Known /\ Known = Nat \cup {-1}
    BY ClocksAre
  <2>3. Seen <= Clock /\ NothingOut
    BY <1>1, <1>5 DEF OwnClock
  <2>4. ~Past(Clock', Seen') /\ ~Past(Clock', HeldSince') /\ ~Past(Seen', HeldSince')
    BY <1>1, <1>5, <2>1, <2>2, <2>3 DEF Past
  <2>5. NothingOut'
    BY <2>3 DEF NothingOut
  <2> QED
    BY <2>1, <2>3, <2>4, <2>5 DEF OwnClock, NothingOut
<1> QED
  BY <1>4, <1>5

(* An edit is staged or unstaged, or all are reset. *)
LEMMA EditsPlain ==
  ASSUME Shape, Synced, Shape', Synced', PlainInv, Plain',
         \/ \E e \in Edits : Stage(e) \/ Unstage(e)
         \/ ResetChanges
  PROVE  PlainInv' /\ (OwnClock /\ NotLost => OwnClock' /\ NotLost')
<1>1. /\ GoodClient(client) /\ client \in Clients /\ page \in Pages /\ Restoring
      /\ UNCHANGED <<walletKind, forum, chain, txs>> /\ PageUsable
      /\ client.staged \in SUBSET Edits /\ ~client.isOutdated /\ client.staged # None
      /\ history.made \subseteq Edits /\ client.status = "idle" /\ Idle
      /\ client.pendingTx = Undefined
  BY DEF Shape, Synced, PlainInv, GoodClient, Clients, Histories, Stage, Unstage,
         ResetChanges, PageUsable
<1>2. ASSUME NEW s, GoodClient(s), RenderIn(s, page, forum), s.staged # None,
             s.pendingTx = Undefined, ~s.isOutdated, page.keyKnown, Complete
      PROVE  /\ Restoring' /\ page'.data = page.data /\ Watch' = None
             /\ Kept = client.staged /\ Kept' = s.staged /\ client' = s
             /\ HeldSince = client.baseline /\ HeldSince' = s.baseline
  BY <1>1, <1>2, RenderKeeps
<1>3. ASSUME NEW staged \in SUBSET Edits, page.keyKnown, Complete,
             RenderIn([client EXCEPT !.staged = staged], page, forum)
      PROVE  /\ Restoring' /\ page'.data = page.data /\ Watch' = None
             /\ Kept = client.staged /\ Kept' = staged /\ ~client'.isOutdated
             /\ HeldSince' = HeldSince
  <2> DEFINE s == [client EXCEPT !.staged = staged]
  <2>1. /\ GoodClient(s) /\ s.staged = staged /\ s.baseline = client.baseline
        /\ s.pendingTx = Undefined /\ ~s.isOutdated
    BY <1>1, EditsChange
  <2>2. RenderIn(s, page, forum) /\ s.staged # None
    BY <1>3, <2>1, NoneIsNothing
  <2> HIDE DEF s
  <2> QED
    BY <1>2, <1>3, <2>1, <2>2
<1>4. StagedHasContent(client) => page.keyKnown /\ Complete
  BY <1>1 DEF Restoring, StagedHasContent
<1>5. \A h \in DOMAIN txs : txs[h].edits \subseteq history.made
  BY DEF PlainInv, Made
<1>6. ASSUME NEW e \in Edits, Stage(e)
      PROVE  PlainInv' /\ (OwnClock /\ NotLost => OwnClock' /\ NotLost')
  <2>1. page.keyKnown /\ page.data["lastUpdated"] # Undefined
    BY <1>6, StageNoted DEF Plain
  <2>2. Complete
    BY <2>1, <1>6 DEF Complete, Stage, PageUsable, Queries
  <2>3. history'.made = history.made \cup {e} /\ history'.dropped = history.dropped
    BY <1>6, StageNoted
  <2>4. /\ Restoring' /\ page'.data = page.data /\ Watch' = None
        /\ Kept = client.staged /\ Kept' = client.staged \cup {e} /\ ~client'.isOutdated
        /\ HeldSince' = HeldSince
    <3> DEFINE staged == client.staged \cup {e}
    <3>1. staged \in SUBSET Edits /\ RenderIn([client EXCEPT !.staged = staged], page, forum)
      BY <1>1, <1>6 DEF Stage, StageEdit, Render
    <3> HIDE DEF staged
    <3>2. /\ Restoring' /\ page'.data = page.data /\ Watch' = None
          /\ Kept = client.staged /\ Kept' = staged /\ ~client'.isOutdated
          /\ HeldSince' = HeldSince
      BY <1>3, <2>1, <2>2, <3>1
    <3> QED
      BY <3>2 DEF staged
  <2>5. e \notin history.made /\ Kept \subseteq history.made
    BY <1>6 DEF Stage, PlainInv, Made
  <2>6. PlainInv' /\ (OwnClock => OwnClock')
    BY <1>1, <1>5, <2>1, <2>3, <2>4, <2>5, FreePlain
  <2> QED
    BY <1>1, <2>3, <2>4, <2>6 DEF NotLost
<1>7. ASSUME NEW e \in Edits, Unstage(e)
      PROVE  PlainInv' /\ (OwnClock /\ NotLost => OwnClock' /\ NotLost')
  <2>1. e \in client.staged
    BY <1>7 DEF Unstage
  <2>2. page.keyKnown /\ Complete
    BY <1>1, <1>4, <2>1 DEF StagedHasContent
  <2>3. history'.made = history.made /\ history'.dropped = history.dropped \cup {e}
    BY <1>7, DropNoted DEF Unstage
  <2>4. /\ Restoring' /\ page'.data = page.data /\ Watch' = None
        /\ Kept = client.staged /\ Kept' = client.staged \ {e} /\ ~client'.isOutdated
        /\ HeldSince' = HeldSince
    <3> DEFINE staged == client.staged \ {e}
    <3>1. staged \in SUBSET Edits /\ RenderIn([client EXCEPT !.staged = staged], page, forum)
      BY <1>1, <1>7 DEF Unstage, UnstageEdit, Render
    <3> HIDE DEF staged
    <3>2. /\ Restoring' /\ page'.data = page.data /\ Watch' = None
          /\ Kept = client.staged /\ Kept' = staged /\ ~client'.isOutdated
          /\ HeldSince' = HeldSince
      BY <1>3, <2>2, <3>1
    <3> QED
      BY <3>2 DEF staged
  <2>5. Kept \subseteq history.made
    BY DEF PlainInv, Made
  <2>6. PlainInv' /\ (OwnClock => OwnClock')
    BY <1>1, <2>2, <2>3, <2>4, <2>5, FreePlain
  <2> QED
    BY <1>1, <2>3, <2>4, <2>6 DEF NotLost
<1>8. CASE ResetChanges
  <2>1. page.keyKnown /\ Complete
    BY <1>4, <1>8 DEF ResetChanges
  <2>2. history'.made = history.made /\ history'.dropped = history.dropped \cup client.staged
    BY <1>1, <1>8, DropNoted DEF ResetChanges, Drop
  <2>3. /\ Restoring' /\ page'.data = page.data /\ Watch' = None
        /\ Kept = client.staged /\ Kept' = {} /\ ~client'.isOutdated
        /\ HeldSince' = Seen
    <3> DEFINE s == ClearStaged(client)
    <3>1. /\ GoodClient(s) /\ s.staged = {} /\ s.baseline = client.lastUpdated
          /\ s.pendingTx = Undefined /\ ~s.isOutdated
      BY <1>1, ClearedIs
    <3>2. RenderIn(s, page, forum) /\ s.staged # None
      BY <1>8, <3>1, NoneIsNothing DEF ResetChanges, Render
    <3>3. client.lastUpdated = Seen
      BY <2>1 DEF Synced, Fits, Complete, Seen
    <3> HIDE DEF s
    <3> QED
      BY <1>2, <2>1, <3>1, <3>2, <3>3
  <2>4. PlainInv' /\ (OwnClock => OwnClock')
    BY <1>1, <2>1, <2>2, <2>3, FreePlain
  <2> QED
    BY <1>1, <2>2, <2>3, <2>4 DEF NotLost
<1> QED
  BY <1>6, <1>7, <1>8

(* Outdated edits are abandoned. *)
LEMMA AbandonPlain ==
  ASSUME Shape, Synced, Shape', Synced', PlainInv, AbandonChanges
  PROVE  PlainInv' /\ (OwnClock /\ NotLost => OwnClock' /\ NotLost')
<1> DEFINE s == ClearStaged(client)
<1>1. /\ GoodClient(client) /\ client \in Clients /\ page \in Pages /\ Restoring
      /\ UNCHANGED <<walletKind, forum, chain, txs>> /\ Idle /\ client.isOutdated
      /\ history \in Histories /\ Render(s, page) /\ Drop
  BY DEF Shape, Synced, PlainInv, AbandonChanges, GoodClient
<1>2. client.staged # None /\ page.keyKnown /\ Complete /\ client.staged \in SUBSET Edits
  BY <1>1 DEF Restoring, StagedHasContent, Clients
<1>3. /\ GoodClient(s) /\ s.staged = {} /\ s.baseline = client.lastUpdated
      /\ s.status = client.status /\ s.pendingTx = client.pendingTx
      /\ s.submittedFrom = client.submittedFrom /\ ~s.isOutdated
  BY <1>1, <1>2, ClearedIs
<1> HIDE DEF s
<1>4. /\ Restoring' /\ client' = s /\ page'.data = page.data
      /\ Kept = client.staged /\ Kept' = {} /\ HeldSince' = client.lastUpdated
      /\ Watch' = Watch
  <2>1. s.staged # None /\ RenderIn(s, page, forum)
    BY <1>1, <1>3, NoneIsNothing DEF Render
  <2>2. /\ client.staged # None => Complete
        /\ s.staged = None <=> client.staged = None
        /\ s.isOutdated => StagedHasContent(s)
    BY <1>2, <1>3, <2>1
  <2>3. /\ Restoring' /\ client' = s /\ page'.data = page.data
        /\ Kept = client.staged /\ Kept' = s.staged /\ HeldSince' = s.baseline
        /\ Watch = IF client.pendingTx = Undefined THEN None
                   ELSE [hash |-> client.pendingTx, submittedFrom |-> client.submittedFrom]
        /\ Watch' = IF s.pendingTx = Undefined THEN None
                    ELSE [hash |-> s.pendingTx, submittedFrom |-> s.submittedFrom]
    BY <1>1, <1>2, <1>3, <2>1, <2>2, RenderKeeps
  <2> QED
    BY <1>3, <2>3
<1>5. history'.made = history.made /\ history'.dropped = history.dropped \cup client.staged
  BY <1>1, <1>2, DropNoted DEF Drop
<1>6. PlainInv'
  <2>1. Awaiting'
    BY <1>1, <1>2, <1>3, <1>4, NoneIsNothing DEF PlainInv, Awaiting
  <2>2. Tracking' /\ Made' /\ Disjoint' /\ Once'
    BY <1>1, <1>4, <1>5 DEF PlainInv, Tracking, Conflict, Made, Disjoint, Once, Live
  <2> QED
    BY <1>4, <2>1, <2>2 DEF PlainInv
<1>7. ASSUME OwnClock, NotLost PROVE OwnClock' /\ NotLost'
  <2>1. NothingOut /\ Clock <= Seen
    BY <1>1, <1>7 DEF OwnClock
  <2>2. Clock' = Clock /\ Seen' = Seen /\ NothingOut' /\ HeldSince' = Seen
    BY <1>1, <1>2, <1>4, <2>1 DEF Clock, Seen, NothingOut, Synced, Fits, Complete
  <2>3. Clock \in Nat /\ Seen \in Known /\ Known = Nat \cup {-1}
    BY ClocksAre
  <2>4. ~Past(Clock', Seen') /\ ~Past(Clock', HeldSince') /\ ~Past(Seen', HeldSince')
    BY <2>1, <2>2, <2>3 DEF Past
  <2>5. OwnClock'
    BY <1>1, <1>3, <1>4, <1>7, <2>1, <2>2, <2>4 DEF OwnClock, NothingOut
  <2>6. NotLost'
    BY <1>1, <1>4, <1>5, <1>7 DEF NotLost
  <2> QED
    BY <2>5, <2>6
<1> QED
  BY <1>6, <1>7

(* At most one call is tracked, and on an idle page a call that conflicts is. *)
LEMMA OneTracked ==
  ASSUME Awaiting, NEW h \in DOMAIN txs, NEW i \in DOMAIN txs, Tracked(h), Tracked(i)
  PROVE  h = i
BY DEF Awaiting, Tracked

(* A commit begins with everything that is staged. *)
LEMMA CommitPlain ==
  ASSUME Shape, Synced, Shape', Synced', PlainInv, CommitChanges
  PROVE  PlainInv' /\ (OwnClock /\ NotLost => OwnClock' /\ NotLost')
<1> DEFINE s == BeginCommit(client, walletKind)
           n == Len(txs) + 1
<1>1. /\ GoodClient(client) /\ client \in Clients /\ page \in Pages /\ Restoring
      /\ UNCHANGED <<walletKind, forum, chain, history>> /\ PageUsable /\ Idle
      /\ ~client.isOutdated /\ client.staged # None /\ client.staged # {}
      /\ client.status = "idle" /\ client.pendingTx = Undefined
      /\ Render(s, page) /\ txs' = Append(txs, NewCall)
  BY DEF Shape, Synced, PlainInv, CommitChanges, GoodClient, PageUsable,
         StagedHasContent, NewCall
<1>2. page.keyKnown /\ Complete /\ client.staged \in SUBSET Edits
  BY <1>1 DEF Restoring, Clients
<1>3. /\ GoodClient(s) /\ s.staged = client.staged /\ s.baseline = client.baseline
      /\ s.status \in InFlight /\ s.pendingTx = Undefined /\ ~s.isOutdated
  <2> DEFINE status == IF walletKind = "external" THEN "awaiting-approval"
                                                  ELSE "pending-confirmation"
  <2>1. status \in CommitStatus /\ status \in InFlight /\ s = [client EXCEPT !.status = status]
    BY DEF CommitStatus, InFlight, BeginCommit
  <2> HIDE DEF status, s
  <2> QED
    BY <1>1, <2>1, StatusChange
<1> HIDE DEF s
<1>4. /\ Restoring' /\ client' = s /\ page'.data = page.data
      /\ Kept = client.staged /\ Kept' = client.staged
      /\ HeldSince' = HeldSince /\ Watch' = None
  BY <1>1, <1>2, <1>3, RenderKeeps DEF Render
<1>5. /\ \A h \in DOMAIN txs : ~txs[h].awaited /\ ~Conflict(h)
      /\ OwnClock => NothingOut /\ ~Past(Clock, Seen) /\ ~Past(Clock, HeldSince)
  BY <1>1, <1>2, FreeToCommit
<1>6. /\ DOMAIN txs' = DOMAIN txs \cup {n} /\ n \notin DOMAIN txs /\ Len(txs') = n
      /\ txs'[n].edits = client.staged /\ txs'[n].fate = "asked" /\ txs'[n].awaited
      /\ \A h \in DOMAIN txs : txs'[h] = txs[h]
  BY <1>1, CallAdded DEF NewCall
<1> HIDE DEF n
<1>7. \A h \in DOMAIN txs : ~Conflict(h)' /\ ~Tracked(h)'
  BY <1>4, <1>5, <1>6 DEF Conflict, Tracked
<1>8. PlainInv'
  <2>1. Awaiting'
    BY <1>1, <1>3, <1>4, <1>5, <1>6 DEF Awaiting
  <2>2. Tracking'
    BY <1>4, <1>6, <1>7 DEF Tracking, Tracked
  <2>3. Made'
    BY <1>1, <1>4, <1>6 DEF PlainInv, Made
  <2>4. Disjoint'
    <3>1. \A h \in DOMAIN txs : Live(txs[h]) => client.staged \cap txs[h].edits = {}
      BY <1>4, <1>5 DEF Conflict
    <3> QED
      BY <1>6, <3>1 DEF PlainInv, Disjoint, Live
  <2>5. Once'
    BY <1>1 DEF PlainInv, Once
  <2> QED
    BY <1>4, <2>1, <2>2, <2>3, <2>4, <2>5 DEF PlainInv
<1>9. ASSUME OwnClock, NotLost PROVE OwnClock' /\ NotLost'
  <2>1. Clock' = Clock /\ Seen' = Seen /\ Seen <= Clock
    BY <1>1, <1>4, <1>9 DEF Clock, Seen, OwnClock
  <2>2. Clock \in Nat /\ Seen \in Known /\ HeldSince \in Known /\ Known = Nat \cup {-1}
    BY ClocksAre
  <2>3. ~Past(Clock', Seen') /\ ~Past(Clock', HeldSince') /\ ~Past(Seen', HeldSince')
    BY <1>4, <1>5, <1>9, <2>1, <2>2 DEF Past
  <2>4. \A h \in DOMAIN txs' : txs'[h].fate \in {"asked", "sent"} => h = n
    BY <1>5, <1>6, <1>9 DEF NothingOut
  <2>5. OwnClock'
    BY <1>1, <1>3, <1>4, <1>6, <2>1, <2>3, <2>4 DEF OwnClock, Tracked
  <2>6. NotLost'
    BY <1>1, <1>4, <1>9 DEF NotLost
  <2> QED
    BY <2>5, <2>6
<1> QED
  BY <1>8, <1>9
-----------------------------------------------------------------------------
(* Steps that leave alone what is kept: who is tracked is what changes. *)
CallsStand ==
    /\ DOMAIN txs' = DOMAIN txs /\ Len(txs') = Len(txs)
    /\ \A h \in DOMAIN txs :
         /\ txs'[h].edits = txs[h].edits
         /\ Live(txs'[h]) => Live(txs[h])
         /\ txs'[h].awaited => txs[h].awaited

SameCalls ==
    /\ CallsStand
    /\ \A h \in DOMAIN txs :
         /\ txs'[h].fate = "landed" <=> txs[h].fate = "landed"
         /\ txs'[h].fate \in {"asked", "sent"} => txs[h].fate \in {"asked", "sent"}

Followed ==
    \A h \in DOMAIN txs :
       /\ Tracked(h)' => Tracked(h)
       /\ Conflict(h) /\ Live(txs'[h]) =>
            Tracked(h)' \/ (client'.status = "confirmed" /\ ~Idle')

(* A step that keeps the edits, moves calls on and stops tracking none that *)
(* may still bring a kept edit to the chain.                                *)
LEMMA KeepsPlain ==
  ASSUME PlainInv, Restoring', Awaiting', Kept' = Kept, history'.made = history.made,
         Once', CallsStand, Followed
  PROVE  PlainInv'
<1>1. /\ DOMAIN txs' = DOMAIN txs
      /\ \A h \in DOMAIN txs :
           /\ txs'[h].edits = txs[h].edits
           /\ Live(txs'[h]) => Live(txs[h])
           /\ Conflict(h)' => Conflict(h) /\ Live(txs'[h])
  BY DEF CallsStand, Conflict, Live
<1>2. Tracking'
  BY <1>1 DEF PlainInv, Tracking, Followed
<1>3. Made'
  BY <1>1 DEF PlainInv, Made
<1>4. Disjoint'
  BY <1>1 DEF PlainInv, Disjoint, Live
<1> QED
  BY <1>2, <1>3, <1>4 DEF PlainInv

(* A step that moves no clock and sends no call. *)
LEMMA KeepsOwn ==
  ASSUME Shape, Synced, OwnClock, NotLost, Kept' = Kept, chain' = chain, forum' = forum,
         page'.data = page.data, HeldSince' \in {HeldSince, Undefined},
         client'.isOutdated => client.isOutdated, history'.made = history.made,
         history'.dropped = history.dropped, SameCalls,
         \A h \in DOMAIN txs : txs'[h].fate \in {"asked", "sent"} => Tracked(h)',
         \/ Watch' \in {None, Watch}
         \/ /\ Watch'.submittedFrom = Seen
            /\ Clock > Seen => Watch'.hash \in DOMAIN txs /\ txs[Watch'.hash].fate = "landed"
  PROVE  OwnClock' /\ NotLost'
<1>1. /\ DOMAIN txs' = DOMAIN txs
      /\ \A h \in DOMAIN txs :
           /\ txs'[h].edits = txs[h].edits
           /\ txs'[h].fate = "landed" <=> txs[h].fate = "landed"
           /\ txs'[h].fate \in {"asked", "sent"} => txs[h].fate \in {"asked", "sent"}
  BY DEF SameCalls, CallsStand
<1>2. Clock' = Clock /\ Seen' = Seen
  BY DEF Clock, Seen
<1>3. Unrecognised => Unrecognised'
  BY <1>1 DEF Unrecognised, Conflict, Live
<1>4. NothingOut => NothingOut'
  BY <1>1 DEF NothingOut
<1>5. Clock \in Nat /\ Seen \in Known
  BY ClocksAre
<1>6. Past(Clock', Seen') => Unrecognised'
  BY <1>2, <1>3 DEF OwnClock
<1>7. Past(Clock', HeldSince') => Unrecognised'
  BY <1>2, <1>3 DEF OwnClock, Past
<1>8. Past(Seen', HeldSince') => Clock' <= Seen'
  BY <1>2 DEF OwnClock, Past
<1>9. Watch' # None /\ Clock' > Watch'.submittedFrom =>
        Watch'.hash \in DOMAIN txs' /\ txs'[Watch'.hash].fate = "landed"
  BY <1>1, <1>2 DEF OwnClock
<1>10. Watch' # None /\ Seen' > Watch'.submittedFrom => Clock' <= Seen'
  <2>1. CASE Watch' \in {None, Watch}
    BY <1>2, <2>1 DEF OwnClock
  <2>2. CASE Watch'.submittedFrom = Seen
    BY <1>2, <1>5, <2>2, ClocksAre
  <2> QED
    BY <2>1, <2>2
<1>11. \A h \in DOMAIN txs' : txs'[h].fate \in {"asked", "sent"} =>
         Tracked(h)' /\ txs'[h].edits # {} /\ txs'[h].edits \subseteq Kept'
  BY <1>1 DEF OwnClock
<1>12. Seen' <= Clock' /\ (client'.isOutdated => NothingOut' /\ Clock' <= Seen')
  BY <1>2, <1>4 DEF OwnClock
<1>13. NotLost'
  BY DEF NotLost
<1> QED
  BY <1>6, <1>7, <1>8, <1>9, <1>10, <1>11, <1>12, <1>13 DEF OwnClock

(* Calls that stay are the same calls. *)
LEMMA CallsStay ==
  ASSUME txs' = txs
  PROVE  SameCalls
BY DEF SameCalls, CallsStand

(* The timer, the receipt of a reverted call, the wallet's answers, and the *)
(* modal that is closed.                                                     *)
LEMMA WatchedPlain ==
  ASSUME Shape, Synced, Shape', Synced', PlainInv, Plain',
         \/ Timeout \/ CloseModal
         \/ Receipt /\ txs[client.pendingTx].fate = "reverted"
         \/ \E h \in DOMAIN txs : Submitted(h) \/ Refused(h)
  PROVE  PlainInv' /\ (OwnClock /\ NotLost => OwnClock' /\ NotLost')
<1>1. /\ GoodClient(client) /\ client \in Clients /\ page \in Pages /\ Restoring
      /\ Awaiting /\ UNCHANGED <<forum, chain>> /\ Idle
      /\ history'.made = history.made /\ history'.dropped = history.dropped
      /\ txs \in Seq(Txs) /\ \A h \in DOMAIN txs : txs[h].awaited \in BOOLEAN
  <2>1. history'.made = history.made /\ history'.dropped = history.dropped
    BY ExcuseNoted DEF Timeout, CloseModal, Receipt, Submitted, Refused
  <2>2. \A h \in DOMAIN txs : txs[h] \in Txs
    BY DEF Shape
  <2> QED
    BY <2>1, <2>2 DEF Shape, Synced, PlainInv, GoodClient, Timeout, CloseModal, Receipt,
                      Submitted, Refused, Txs
<1>2. \A h \in DOMAIN txs : Conflict(h) => Tracked(h)
  BY <1>1 DEF PlainInv, Tracking
<1>3. ASSUME page.keyKnown, client.staged # None => Complete,
             NEW s, GoodClient(s), s.staged = client.staged, s.baseline = client.baseline,
             s.isOutdated => client.isOutdated,
             NEW p \in Pages, p.keyKnown = page.keyKnown, p.restored = page.restored,
             p.queue = page.queue, p.data = page.data, RenderIn(s, p, forum)
      PROVE  /\ Restoring' /\ client' = s /\ Idle' /\ page'.data = page.data
             /\ Kept' = Kept /\ HeldSince' = HeldSince
             /\ client'.isOutdated => client.isOutdated
             /\ Watch = IF client.pendingTx = Undefined THEN None
                   ELSE [hash |-> client.pendingTx, submittedFrom |-> client.submittedFrom]
             /\ Watch' = IF s.pendingTx = Undefined THEN None
                   ELSE [hash |-> s.pendingTx, submittedFrom |-> s.submittedFrom]
  <2>1. /\ s.isOutdated => StagedHasContent(s)
        /\ s.staged = None <=> client.staged = None
    BY <1>1, <1>3 DEF Restoring, StagedHasContent
  <2>2. /\ Restoring' /\ client' = s /\ Idle' /\ page'.data = page.data
        /\ client.staged # None => Kept = client.staged /\ HeldSince = client.baseline
        /\ Kept' = IF s.staged = None THEN Kept ELSE s.staged
        /\ HeldSince' = IF s.staged = None THEN HeldSince ELSE s.baseline
        /\ Watch = IF client.pendingTx = Undefined THEN None
                   ELSE [hash |-> client.pendingTx, submittedFrom |-> client.submittedFrom]
        /\ Watch' = IF s.pendingTx = Undefined THEN None
                    ELSE [hash |-> s.pendingTx, submittedFrom |-> s.submittedFrom]
    BY <1>1, <1>3, <2>1, RenderKeeps
  <2> QED
    BY <1>3, <2>2
<1>4. client.status # "idle" => page.keyKnown /\ (client.staged # None => Complete)
  BY <1>1 DEF Restoring
<1>5. ASSUME Restoring', Awaiting', Idle', Kept' = Kept, HeldSince' = HeldSince,
             page'.data = page.data, client'.isOutdated => client.isOutdated,
             SameCalls,
             \A h \in DOMAIN txs : (Tracked(h)' => Tracked(h))
                                /\ (Conflict(h) /\ Live(txs'[h]) => Tracked(h)'),
             OwnClock => \A h \in DOMAIN txs :
                           txs'[h].fate \in {"asked", "sent"} => Tracked(h)',
             OwnClock =>
               \/ Watch' \in {None, Watch}
               \/ /\ Watch'.submittedFrom = Seen
                  /\ Clock > Seen => /\ Watch'.hash \in DOMAIN txs
                                     /\ txs[Watch'.hash].fate = "landed"
      PROVE  PlainInv' /\ (OwnClock /\ NotLost => OwnClock' /\ NotLost')
  <2>1. Followed
    BY <1>5 DEF Followed
  <2>2. Once' /\ CallsStand
    BY <1>1, <1>5 DEF PlainInv, Once, SameCalls
  <2>3. PlainInv'
    BY <1>1, <1>5, <2>1, <2>2, KeepsPlain
  <2> QED
    BY <1>1, <1>5, <2>3, KeepsOwn
<1>6. CASE Timeout
  <2> DEFINE s == CommitError(client)
  <2>1. /\ GoodClient(s) /\ s.staged = client.staged /\ s.baseline = client.baseline
        /\ s.status = "error" /\ s.pendingTx = client.pendingTx
        /\ s.submittedFrom = client.submittedFrom /\ s.isOutdated = client.isOutdated
    BY <1>1, StatusChange DEF CommitError, CommitStatus, Terminal
  <2>2. RenderIn(s, page, forum) /\ client.status # "idle" /\ txs' = txs
    BY <1>6 DEF Timeout, Render, InFlight
  <2> HIDE DEF s
  <2>3. /\ Restoring' /\ client' = s /\ Idle' /\ page'.data = page.data
        /\ Kept' = Kept /\ HeldSince' = HeldSince
        /\ client'.isOutdated => client.isOutdated /\ Watch' = Watch
    BY <1>1, <1>3, <1>4, <2>1, <2>2
  <2>4. Watch' = Watch
    BY <1>1, <1>3, <1>4, <2>1, <2>2
  <2>5. SameCalls
    BY <2>2, CallsStay
  <2>6. Awaiting'
    BY <1>1, <2>1, <2>2, <2>3, <2>4 DEF Awaiting
  <2>7. \A h \in DOMAIN txs : Tracked(h)' <=> Tracked(h)
    BY <2>2, <2>4 DEF Tracked
  <2> QED
    BY <1>2, <1>5, <2>2, <2>3, <2>4, <2>5, <2>6, <2>7 DEF OwnClock
<1>7. CASE CloseModal
  <2> DEFINE s == ResetCommitStatus(client)
  <2>1. /\ GoodClient(s) /\ s.staged = client.staged /\ s.baseline = client.baseline
        /\ s.pendingTx = Undefined /\ s.isOutdated = client.isOutdated
    BY <1>1, StoppedIs DEF ResetCommitStatus, CommitStatus
  <2>2. /\ RenderIn(s, page, forum) /\ client.status \in Terminal
        /\ client.status # "idle" /\ txs' = txs
    BY <1>7 DEF CloseModal, Render, Dismissible, Terminal
  <2> HIDE DEF s
  <2>3. /\ Restoring' /\ client' = s /\ Idle' /\ page'.data = page.data
        /\ Kept' = Kept /\ HeldSince' = HeldSince
        /\ client'.isOutdated => client.isOutdated
    BY <1>1, <1>3, <1>4, <2>1, <2>2
  <2>4. Watch' = None /\ (client.pendingTx = Undefined => Watch = None)
    BY <1>1, <1>3, <1>4, <2>1, <2>2
  <2>5. SameCalls
    BY <2>2, CallsStay
  <2>6. client.status = "error" => \A h \in DOMAIN txs : ~Outstanding(txs[h])
    <3>1. history'.excuses = {}
      BY DEF Plain
    <3>2. history'.excuses = history.excuses \cup
            IF client.status = "error" /\ (\E h \in DOMAIN txs : Outstanding(txs[h]))
            THEN {"dismissed"} ELSE {}
      <4> DEFINE more == IF client.status = "error" /\ (\E h \in DOMAIN txs : Outstanding(txs[h]))
                         THEN {"dismissed"} ELSE {}
      <4>1. more \in SUBSET Excuses
        BY DEF Excuses
      <4>2. history' = [history EXCEPT !.excuses = @ \cup more]
        BY <1>7 DEF CloseModal
      <4> HIDE DEF more
      <4>3. history'.excuses = history.excuses \cup more
        BY <4>1, <4>2, ExcusesGrow
      <4> QED
        BY <4>3 DEF more
    <3> QED
      BY <3>1, <3>2
  <2>7. \A h \in DOMAIN txs : ~txs[h].awaited /\ ~Conflict(h)
    <3>1. CASE client.status = "error"
      BY <2>6, <3>1 DEF Outstanding, Conflict, Live
    <3>2. CASE client.status # "error"
      <4>1. Watch = None /\ \A h \in DOMAIN txs : ~txs[h].awaited
        BY <1>1, <2>2, <2>4, <3>2 DEF GoodClient, Awaiting, Terminal, InFlight
      <4> QED
        BY <1>2, <4>1 DEF Tracked
    <3> QED
      BY <3>1, <3>2
  <2>8. OwnClock => \A h \in DOMAIN txs : txs[h].fate \notin {"asked", "sent"}
    <3>1. CASE client.status = "error"
      BY <2>6, <3>1 DEF Outstanding
    <3>2. CASE client.status # "error"
      <4>1. Watch = None
        BY <1>1, <2>2, <2>4, <3>2 DEF GoodClient, Terminal
      <4> QED
        BY <2>7, <4>1 DEF OwnClock, Tracked
    <3> QED
      BY <3>1, <3>2
  <2>9. Awaiting'
    BY <2>2, <2>7 DEF Awaiting
  <2>10. \A h \in DOMAIN txs : ~Tracked(h)'
    BY <2>2, <2>4, <2>7 DEF Tracked
  <2> QED
    BY <1>5, <2>2, <2>3, <2>4, <2>5, <2>7, <2>8, <2>9, <2>10
<1>8. CASE Receipt /\ txs[client.pendingTx].fate = "reverted"
  <2> DEFINE s == CommitReverted(client)
             p == [page EXCEPT !.receipt = client.pendingTx]
  <2>1. /\ GoodClient(s) /\ s.staged = client.staged /\ s.baseline = client.baseline
        /\ s.pendingTx = Undefined /\ s.isOutdated = client.isOutdated
    BY <1>1, StoppedIs DEF CommitReverted, CommitStatus, Terminal
  <2>2. /\ RenderIn(s, p, forum) /\ client.pendingTx # Undefined /\ txs' = txs
    BY <1>8 DEF Receipt, Render
  <2>3. /\ p \in Pages /\ p.data = page.data /\ p.keyKnown = page.keyKnown
        /\ p.restored = page.restored /\ p.queue = page.queue
    <3>1. client.pendingTx \in Known
      BY <1>1 DEF Clients
    <3> QED
      BY <1>1, <3>1 DEF Pages
  <2>4. client.status # "idle"
    BY <1>1, <2>2 DEF GoodClient
  <2> HIDE DEF s, p
  <2>5. /\ Restoring' /\ client' = s /\ Idle' /\ page'.data = page.data
        /\ Kept' = Kept /\ HeldSince' = HeldSince
        /\ client'.isOutdated => client.isOutdated
    BY <1>1, <1>3, <1>4, <2>1, <2>2, <2>3, <2>4
  <2>6. /\ Watch' = None /\ Watch # None
        /\ Watch = [hash |-> client.pendingTx, submittedFrom |-> client.submittedFrom]
    <3>1. Watch # None
      BY <2>2, ClocksAre
    <3> QED
      BY <1>1, <1>3, <1>4, <2>1, <2>2, <2>3, <2>4, <3>1
  <2>7. SameCalls
    BY <2>2, CallsStay
  <2>8. \A h \in DOMAIN txs : ~txs[h].awaited /\ (Tracked(h) => txs[h].fate = "reverted")
    BY <1>1, <1>8, <2>6 DEF Awaiting, Tracked
  <2>9. Awaiting'
    BY <2>2, <2>8 DEF Awaiting
  <2>10. \A h \in DOMAIN txs : ~Tracked(h)'
    BY <2>2, <2>6, <2>8 DEF Tracked
  <2>11. \A h \in DOMAIN txs : ~Conflict(h)
    BY <1>2, <2>8 DEF Conflict, Live
  <2>12. OwnClock => \A h \in DOMAIN txs : txs[h].fate \notin {"asked", "sent"}
    BY <2>8 DEF OwnClock
  <2> QED
    BY <1>5, <2>2, <2>5, <2>6, <2>7, <2>9, <2>10, <2>11, <2>12
<1>9. ASSUME NEW h \in DOMAIN txs, Submitted(h)
      PROVE  PlainInv' /\ (OwnClock /\ NotLost => OwnClock' /\ NotLost')
  <2> DEFINE s == CommitSubmitted(client, h)
  <2>1. txs[h].awaited /\ RenderIn(s, page, forum)
    BY <1>9 DEF Submitted, Render
  <2>2. /\ h = Len(txs) /\ client.status # "idle" /\ Watch = None /\ client.staged # None
        /\ h \in Nat
    BY <1>1, <2>1 DEF Awaiting, InFlight
  <2>3. /\ GoodClient(s) /\ s.staged = client.staged /\ s.baseline = client.baseline
        /\ s.pendingTx = h /\ s.submittedFrom = client.lastUpdated /\ ~s.isOutdated
        /\ s.status = "pending-confirmation"
    BY <1>1, <2>2, SubmittedIs
  <2> HIDE DEF s
  <2>4. /\ Restoring' /\ client' = s /\ Idle' /\ page'.data = page.data
        /\ Kept' = Kept /\ HeldSince' = HeldSince
        /\ client'.isOutdated => client.isOutdated
    BY <1>1, <1>3, <1>4, <2>1, <2>2, <2>3
  <2>5. Watch' = [hash |-> h, submittedFrom |-> client.lastUpdated]
    BY <1>1, <1>3, <1>4, <2>1, <2>2, <2>3, NoneIsNothing
  <2>6. /\ DOMAIN txs' = DOMAIN txs /\ Len(txs') = Len(txs) /\ ~txs'[h].awaited
        /\ txs'[h].fate = txs[h].fate /\ txs'[h].edits = txs[h].edits
        /\ \A i \in DOMAIN txs \ {h} : txs'[i] = txs[i]
    <3>1. txs' = [txs EXCEPT ![h].awaited = FALSE] /\ txs[h] \in Txs
      BY <1>1, <1>9 DEF Submitted
    <3>2. txs[h].fate \in Fates
      BY <3>1 DEF Txs
    <3> QED
      BY <3>1, <3>2, TxChanges
  <2>7. SameCalls
    BY <2>1, <2>6 DEF SameCalls, CallsStand, Live
  <2>8. \A i \in DOMAIN txs : Tracked(i) <=> i = h
    BY <1>1, <2>1, <2>2 DEF Tracked, Awaiting
  <2>9. \A i \in DOMAIN txs : ~txs'[i].awaited
    BY <2>2, <2>6, <2>8 DEF Tracked
  <2>10. Watch' # None
    <3>1. client.lastUpdated \in Nat
      BY <1>1, <2>2 DEF GoodClient, Clients, Known
    <3>2. [hash |-> h, submittedFrom |-> client.lastUpdated] \in SavedCommits
      BY <2>2, <3>1 DEF SavedCommits
    <3> QED
      BY <2>5, <3>2, NoneIsNothing
  <2>11. \A i \in DOMAIN txs : Tracked(i)' <=> i = h
    BY <2>5, <2>6, <2>9, <2>10 DEF Tracked
  <2>12. Awaiting'
    BY <2>6, <2>9 DEF Awaiting
  <2>13. client.lastUpdated = Seen
    BY <1>4, <2>2 DEF Synced, Fits, Complete, Seen
  <2>14. ASSUME OwnClock
         PROVE  /\ \A i \in DOMAIN txs : txs'[i].fate \in {"asked", "sent"} => Tracked(i)'
                /\ Watch'.submittedFrom = Seen
                /\ Clock > Seen => Watch'.hash \in DOMAIN txs /\ txs[Watch'.hash].fate = "landed"
    <3>1. \A i \in DOMAIN txs : txs'[i].fate \in {"asked", "sent"} => Tracked(i)'
      BY <2>6, <2>8, <2>11, <2>14 DEF OwnClock
    <3>2. Past(Clock, Seen) => txs[h].fate = "landed"
      BY <1>2, <2>8, <2>14 DEF OwnClock, Unrecognised
    <3>3. Seen # Undefined
      BY <1>1, <2>2, <2>13 DEF GoodClient
    <3> QED
      BY <2>5, <2>13, <3>1, <3>2, <3>3 DEF Past
  <2> QED
    BY <1>2, <1>5, <2>4, <2>7, <2>8, <2>11, <2>12, <2>14
<1>10. ASSUME NEW h \in DOMAIN txs, Refused(h)
       PROVE  PlainInv' /\ (OwnClock /\ NotLost => OwnClock' /\ NotLost')
  <2>1. PICK s \in {CommitCancelled(client), CommitError(client)} : RenderIn(s, page, forum)
    BY <1>10 DEF Refused, Render
  <2>2. txs[h].awaited
    BY <1>10 DEF Refused
  <2>3. /\ client.status # "idle" /\ Watch = None
        /\ \A i \in DOMAIN txs : Tracked(i) <=> i = h
    BY <1>1, <2>2 DEF Awaiting, InFlight, Tracked
  <2>4. client.pendingTx = Undefined
    BY <2>3, ClocksAre
  <2>5. /\ GoodClient(s) /\ s.staged = client.staged /\ s.baseline = client.baseline
        /\ s.pendingTx = Undefined /\ s.isOutdated = client.isOutdated
    <3>1. CASE s = CommitCancelled(client)
      BY <1>1, <3>1, StoppedIs DEF CommitCancelled, CommitStatus, Terminal
    <3>2. CASE s = CommitError(client)
      BY <1>1, <2>4, <3>2, StatusChange DEF CommitError, CommitStatus, Terminal
    <3> QED
      BY <2>1, <3>1, <3>2
  <2>6. /\ Restoring' /\ client' = s /\ Idle' /\ page'.data = page.data
        /\ Kept' = Kept /\ HeldSince' = HeldSince
        /\ client'.isOutdated => client.isOutdated
    BY <1>1, <1>3, <1>4, <2>1, <2>3, <2>5
  <2>7. Watch' = None
    BY <1>1, <1>3, <1>4, <2>1, <2>3, <2>5
  <2>8. /\ DOMAIN txs' = DOMAIN txs /\ Len(txs') = Len(txs) /\ ~txs'[h].awaited
        /\ txs[h].fate = "asked" /\ txs'[h].fate = "refused" /\ txs'[h].edits = txs[h].edits
        /\ \A i \in DOMAIN txs \ {h} : txs'[i] = txs[i]
    BY <1>10, TxChanges DEF Refused, Fates
  <2>9. SameCalls
    BY <2>2, <2>8 DEF SameCalls, CallsStand, Live
  <2>10. \A i \in DOMAIN txs : ~txs'[i].awaited /\ ~Tracked(i)'
    BY <2>3, <2>7, <2>8 DEF Tracked
  <2>11. Awaiting'
    BY <2>8, <2>10 DEF Awaiting
  <2>12. \A i \in DOMAIN txs : ~(Conflict(i) /\ Live(txs'[i]))
    BY <1>2, <2>3, <2>8 DEF Live
  <2>13. OwnClock => \A i \in DOMAIN txs : txs'[i].fate \notin {"asked", "sent"}
    BY <2>3, <2>8 DEF OwnClock
  <2> QED
    BY <1>5, <2>6, <2>7, <2>9, <2>10, <2>11, <2>12, <2>13
<1> QED
  BY <1>6, <1>7, <1>8, <1>9, <1>10
(* Steps that render nothing. *)
LEMMA UnrenderedKeeps ==
  ASSUME Shape, Synced, PlainInv, UNCHANGED <<forum, client, storage>>,
         page'.data = page.data, page'.keyKnown = page.keyKnown,
         page'.restored = page.restored, page'.queue = page.queue, CallsStand
  PROVE  /\ Restoring' /\ Kept' = Kept /\ Watch' = Watch /\ HeldSince' = HeldSince
         /\ Awaiting'
         /\ (\A h \in DOMAIN txs : txs'[h].awaited = txs[h].awaited) =>
              Followed /\ \A h \in DOMAIN txs : Tracked(h)' <=> Tracked(h)
<1>1. Idle' = Idle /\ Complete' = Complete
  BY DEF Idle, Complete
<1>2. Restoring'
  BY <1>1 DEF PlainInv, Restoring, CallsStand
<1>3. Kept' = Kept /\ Watch' = Watch /\ HeldSince' = HeldSince
  BY <1>1 DEF Kept, Watch, HeldSince
<1>4. Awaiting'
  BY <1>3 DEF PlainInv, Awaiting, CallsStand
<1>5. ASSUME \A h \in DOMAIN txs : txs'[h].awaited = txs[h].awaited
      PROVE  Followed /\ \A h \in DOMAIN txs : Tracked(h)' <=> Tracked(h)
  BY <1>1, <1>3, <1>5 DEF Followed, Tracked, PlainInv, Tracking
<1> QED
  BY <1>2, <1>3, <1>4, <1>5

(* A call that is on its way can be followed, and nothing else conflicts. *)
LEMMA NothingElseLanded ==
  ASSUME Shape, Synced, PlainInv, OwnClock, NEW h \in DOMAIN txs,
         txs[h].fate \in {"asked", "sent"}
  PROVE  Tracked(h) /\ ~Unrecognised /\ ~client.isOutdated
<1>1. Tracked(h)
  BY DEF OwnClock
<1>2. client.status # "confirmed" \/ Idle
  <2>1. CASE txs[h].awaited
    BY <2>1 DEF PlainInv, Awaiting, InFlight
  <2>2. CASE Watch # None
    <3>1. CASE client.pendingTx # Undefined
      BY <3>1 DEF Synced, GoodClient
    <3>2. CASE page.queue.pending # None \/ ~page.keyKnown
      BY <3>2 DEF PlainInv, Restoring
    <3> QED
      BY <2>2, <3>1, <3>2 DEF Watch
  <2> QED
    BY <1>1, <2>1, <2>2 DEF Tracked
<1>3. ASSUME NEW i \in DOMAIN txs, txs[i].fate = "landed", Conflict(i) PROVE FALSE
  <2>1. Tracked(i)
    BY <1>2, <1>3 DEF PlainInv, Tracking
  <2> QED
    BY <1>1, <1>3, <2>1, OneTracked DEF PlainInv
<1>4. ~client.isOutdated
  BY DEF OwnClock, NothingOut
<1> QED
  BY <1>1, <1>3, <1>4 DEF Unrecognised

(* The steps that render nothing. *)
LEMMA MovedPlain ==
  ASSUME Shape, Synced, Shape', Synced', PlainInv,
         \/ Poll \/ EmptyBlock \/ ActElsewhere
         \/ Receipt /\ txs[client.pendingTx].fate # "reverted"
         \/ \E h \in DOMAIN txs : Send(h)
  PROVE  PlainInv' /\ (OwnClock /\ NotLost /\ Alone' => OwnClock' /\ NotLost')
<1>1. /\ UNCHANGED <<forum, client, storage>> /\ history'.made = history.made
      /\ page'.data = page.data /\ page'.keyKnown = page.keyKnown
      /\ page'.restored = page.restored /\ page'.queue = page.queue
  <2>1. CASE Receipt /\ txs[client.pendingTx].fate # "reverted"
    <3> DEFINE p == [page EXCEPT !.receipt = client.pendingTx]
    <3>1. client.pendingTx \in Known /\ page \in Pages
      BY DEF Shape, Clients
    <3>2. /\ p \in Pages /\ p.data = page.data /\ p.keyKnown = page.keyKnown
          /\ p.restored = page.restored /\ p.queue = page.queue
      BY <3>1 DEF Pages
    <3>3. page' = SeeBlock(p) /\ UNCHANGED <<forum, client, storage, history>>
      BY <2>1 DEF Receipt
    <3> HIDE DEF p
    <3> QED
      BY <3>2, <3>3, SeenBlock
  <2>2. CASE Poll
    BY <2>2, SeenBlock DEF Poll, Shape
  <2>3. CASE ActElsewhere
    BY <2>3, NewBlockIs, ForeignNoted DEF ActElsewhere
  <2>4. CASE EmptyBlock
    BY <2>4, NewBlockIs DEF EmptyBlock
  <2>5. CASE \E h \in DOMAIN txs : Send(h)
    BY <2>5 DEF Send
  <2> QED
    BY <2>1, <2>2, <2>3, <2>4, <2>5
<1>2. /\ SameCalls /\ \A h \in DOMAIN txs : txs'[h].awaited = txs[h].awaited
      /\ chain'.applied = chain.applied
      /\ Alone' => chain' = chain /\ history'.dropped = history.dropped
  <2>1. ASSUME NEW h \in DOMAIN txs, Send(h)
        PROVE  /\ SameCalls /\ \A i \in DOMAIN txs : txs'[i].awaited = txs[i].awaited
               /\ chain' = chain /\ history' = history
    <3>1. txs[h] \in Txs
      BY DEF Shape
    <3>2. /\ txs[h].fate = "asked" /\ txs' = [txs EXCEPT ![h].fate = "sent"]
          /\ txs[h].awaited \in BOOLEAN /\ "sent" \in Fates
          /\ chain' = chain /\ history' = history
      BY <2>1, <3>1 DEF Send, Txs, Fates
    <3>3. /\ DOMAIN txs' = DOMAIN txs /\ Len(txs') = Len(txs)
          /\ txs'[h].fate = "sent" /\ txs'[h].awaited = txs[h].awaited
          /\ txs'[h].edits = txs[h].edits
          /\ \A i \in DOMAIN txs \ {h} : txs'[i] = txs[i]
      BY <3>2, TxChanges
    <3> QED
      BY <3>2, <3>3 DEF SameCalls, CallsStand, Live
  <2>2. CASE ActElsewhere
    <3>1. txs' = txs /\ chain'.applied = chain.applied /\ ~Alone'
      BY <2>2, ForeignNoted DEF ActElsewhere, Shape, Alone
    <3> QED
      BY <3>1, CallsStay
  <2>3. CASE Poll \/ EmptyBlock \/ Receipt
    <3>1. UNCHANGED <<txs, chain, history>>
      BY <2>3 DEF Poll, EmptyBlock, Receipt
    <3> QED
      BY <3>1, CallsStay
  <2> QED
    BY <2>1, <2>2, <2>3
<1>3. /\ Restoring' /\ Kept' = Kept /\ Watch' = Watch /\ HeldSince' = HeldSince
      /\ Awaiting' /\ Followed /\ \A h \in DOMAIN txs : Tracked(h)' <=> Tracked(h)
  BY <1>1, <1>2, UnrenderedKeeps DEF SameCalls
<1>4. Once' /\ CallsStand
  BY <1>2 DEF PlainInv, Once, SameCalls
<1>5. PlainInv'
  BY <1>1, <1>3, <1>4, KeepsPlain
<1>6. ASSUME OwnClock, NotLost, Alone' PROVE OwnClock' /\ NotLost'
  <2>1. \A h \in DOMAIN txs : txs'[h].fate \in {"asked", "sent"} => Tracked(h)'
    BY <1>2, <1>3, <1>6 DEF OwnClock, SameCalls
  <2> QED
    BY <1>1, <1>2, <1>3, <1>6, <2>1, KeepsOwn
<1> QED
  BY <1>5, <1>6

(* A call is included: if it lands, it is the one the page follows. *)
LEMMA IncludePlain ==
  ASSUME Shape, Synced, Shape', Synced', PlainInv, Applied,
         NEW h \in DOMAIN txs, Include(h)
  PROVE  PlainInv' /\ (OwnClock /\ NotLost => OwnClock' /\ NotLost')
<1>1. /\ txs[h].fate = "sent" /\ txs[h] \in Txs
      /\ DOMAIN txs' = DOMAIN txs /\ Len(txs') = Len(txs)
      /\ txs'[h].awaited = txs[h].awaited /\ txs'[h].edits = txs[h].edits
      /\ \A i \in DOMAIN txs \ {h} : txs'[i] = txs[i]
      /\ UNCHANGED <<forum, client, storage, history>>
      /\ page'.data = page.data /\ page'.keyKnown = page.keyKnown
      /\ page'.restored = page.restored /\ page'.queue = page.queue
      /\ txs'[h].fate \in {"landed", "reverted"}
  <2>1. txs[h] \in Txs
    BY DEF Shape
  <2>2. NewBlock /\ UNCHANGED <<forum, client, storage, history>>
    BY DEF Include
  <2> QED
    BY <2>1, <2>2, IncludedIs, NewBlockIs
<1>2. CallsStand /\ \A i \in DOMAIN txs : txs'[i].awaited = txs[i].awaited
  BY <1>1 DEF CallsStand, Live
<1>3. /\ Restoring' /\ Kept' = Kept /\ Watch' = Watch /\ HeldSince' = HeldSince
      /\ Awaiting' /\ Followed /\ \A i \in DOMAIN txs : Tracked(i)' <=> Tracked(i)
  BY <1>1, <1>2, UnrenderedKeeps
<1>4. \A e \in Edits : chain.applied[e] \in Nat
  BY DEF Shape
<1>5. \A e \in txs[h].edits : e \in Edits /\ chain.applied[e] = 0
  <2>1. ASSUME NEW e \in txs[h].edits, chain.applied[e] > 0 PROVE FALSE
    <3>1. PICK i \in DOMAIN txs : txs[i].fate = "landed" /\ e \in txs[i].edits
      BY <1>1, <2>1 DEF Applied, Txs
    <3>2. i # h /\ Live(txs[i]) /\ Live(txs[h])
      BY <1>1, <3>1 DEF Live
    <3> QED
      BY <2>1, <3>1, <3>2 DEF PlainInv, Disjoint
  <2> QED
    BY <1>1, <1>4, <2>1 DEF Txs
<1>6. /\ Once'
      /\ \A e \in Edits : chain.applied[e] > 0 => chain'.applied[e] > 0
  <2>1. CASE chain' = chain
    BY <2>1 DEF PlainInv, Once
  <2>2. CASE \A e \in Edits :
               chain'.applied[e] = IF e \in txs[h].edits THEN chain.applied[e] + 1
                                                         ELSE chain.applied[e]
    BY <1>4, <1>5, <2>2 DEF PlainInv, Once
  <2> QED
    BY <2>1, <2>2, IncludedIs
<1>7. PlainInv'
  BY <1>1, <1>2, <1>3, <1>6, KeepsPlain
<1>8. ASSUME OwnClock, NotLost PROVE OwnClock' /\ NotLost'
  <2>1. Tracked(h) /\ ~Unrecognised /\ ~client.isOutdated
    BY <1>1, <1>8, NothingElseLanded
  <2>2. /\ Clock \in Nat /\ Seen \in Known /\ HeldSince \in Known /\ Known = Nat \cup {-1}
        /\ Watch # None => Watch.submittedFrom \in Nat
    BY ClocksAre
  <2>3. ~Past(Clock, Seen) /\ ~Past(Clock, HeldSince) /\ Seen <= Clock
    BY <1>8, <2>1 DEF OwnClock
  <2>4. Seen' = Seen /\ ~Past(Seen', HeldSince')
    BY <1>1, <1>3, <2>2, <2>3 DEF Seen, Past
  <2>5. Clock' \in Nat /\ Clock' >= Clock
    <3>1. forum \in Forums /\ chain.clock[forum] \in Nat /\ forum' = forum
      BY <1>1 DEF Shape
    <3>2. CASE chain' = chain
      BY <3>1, <3>2 DEF Clock
    <3>3. CASE \A f \in Forums :
                 chain'.clock[f] = IF f = txs[h].forum THEN chain.clock[f] + 1
                                                       ELSE chain.clock[f]
      <4>1. chain'.clock[forum] = chain.clock[forum] + 1 \/ chain'.clock[forum] = chain.clock[forum]
        BY <3>1, <3>3
      <4> QED
        BY <3>1, <4>1 DEF Clock
    <3> QED
      BY <3>2, <3>3, IncludedIs
  <2>6. Watch # None => Watch.hash = h /\ Clock <= Watch.submittedFrom
    <3>1. Watch # None => Watch.hash = h
      BY <2>1 DEF PlainInv, Awaiting, Tracked
    <3> QED
      BY <1>1, <1>8, <2>2, <3>1 DEF OwnClock
  <2>7. Watch' # None => Watch'.submittedFrom = Watch.submittedFrom
                         /\ ~(Seen' > Watch'.submittedFrom) /\ Watch'.hash = h
    BY <1>3, <2>2, <2>3, <2>4, <2>6
  <2>8. \A i \in DOMAIN txs' : txs'[i].fate \in {"asked", "sent"} =>
          Tracked(i)' /\ txs'[i].edits # {} /\ txs'[i].edits \subseteq Kept'
    BY <1>1, <1>3, <1>8 DEF OwnClock
  <2>9. NotLost'
    BY <1>1, <1>3, <1>6, <1>8 DEF NotLost, PlainInv, Made, Shape, Histories
  <2>10. CASE txs'[h].fate = "reverted" /\ chain' = chain
    <3>1. Clock' = Clock
      BY <1>1, <2>10 DEF Clock
    <3>2. ~Past(Clock', Seen') /\ ~Past(Clock', HeldSince') /\ Seen' <= Clock'
      BY <1>3, <2>3, <2>4, <3>1
    <3>3. ~(Watch' # None /\ Clock' > Watch'.submittedFrom)
      BY <1>3, <2>2, <2>6, <3>1
    <3> QED
      BY <1>1, <2>1, <2>4, <2>7, <2>8, <2>9, <3>2, <3>3 DEF OwnClock
  <2>11. CASE txs'[h].fate = "landed"
    <3>1. Unrecognised'
      BY <1>1, <1>3, <1>8, <2>11 DEF Unrecognised, Conflict, Live, OwnClock
    <3>2. Seen' <= Clock'
      BY <2>2, <2>3, <2>4, <2>5
    <3> QED
      BY <1>1, <2>1, <2>4, <2>7, <2>8, <2>9, <2>11, <3>1, <3>2 DEF OwnClock
  <2> QED
    BY <2>10, <2>11, IncludedIs
<1> QED
  BY <1>7, <1>8
-----------------------------------------------------------------------------
(* Restoring what was saved. *)
LEMMA NotExcused ==
  ASSUME Shape, Plain', NEW more \in SUBSET Excuses,
         history' = [history EXCEPT !.excuses = @ \cup more]
  PROVE  more = {} /\ history'.made = history.made /\ history'.dropped = history.dropped
BY ExcusesGrow DEF Plain

(* What is left to show when what is kept, watched and seen stays. *)
LEMMA RestoredPlain ==
  ASSUME Shape, Synced, PlainInv, Restoring', Kept' = Kept, Watch' = Watch,
         UNCHANGED <<forum, chain, txs>>, page'.data = page.data,
         HeldSince' = HeldSince, client'.isOutdated = client.isOutdated,
         history'.made = history.made, history'.dropped = history.dropped,
         client.status # "confirmed",
         \A h \in DOMAIN txs : txs[h].awaited =>
           client'.status = client.status /\ client'.staged # None
  PROVE  PlainInv' /\ (OwnClock /\ NotLost => OwnClock' /\ NotLost')
<1>1. SameCalls /\ CallsStand
  BY CallsStay DEF SameCalls
<1>2. \A h \in DOMAIN txs : Tracked(h)' <=> Tracked(h)
  BY DEF Tracked
<1>3. Awaiting'
  BY DEF PlainInv, Awaiting
<1>4. Followed /\ Once'
  BY <1>2 DEF Followed, PlainInv, Tracking, Once
<1>5. PlainInv'
  BY <1>1, <1>3, <1>4, KeepsPlain
<1>6. ASSUME OwnClock, NotLost PROVE OwnClock' /\ NotLost'
  <2>1. \A h \in DOMAIN txs : txs'[h].fate \in {"asked", "sent"} => Tracked(h)'
    BY <1>2, <1>6 DEF OwnClock
  <2> QED
    BY <1>1, <1>6, <2>1, KeepsOwn
<1> QED
  BY <1>5, <1>6

(* The fingerprint arrives: the saved commit is queued or watched. *)
LEMMA KeyArrivesPlain ==
  ASSUME Shape, Synced, Shape', Synced', PlainInv, Plain', KeyArrives
  PROVE  PlainInv' /\ (OwnClock /\ NotLost => OwnClock' /\ NotLost')
<1> DEFINE pending == storage[forum].pending
           p == [page EXCEPT !.keyKnown = TRUE, !.queue.pending = pending]
<1>1. /\ ~page.keyKnown /\ RenderIn(client, p, forum) /\ Restoring
      /\ UNCHANGED <<walletKind, forum, chain, txs>> /\ GoodClient(client)
      /\ forum \in Forums /\ forum # None /\ storage[forum] \in Records
  BY NoneIsNothing DEF KeyArrives, Render, PlainInv, Synced, Shape
<1>2. /\ page.restored = None /\ page.queue.staged = None /\ page.queue.pending = None
      /\ client.staged \in {None, {}} /\ client.status = "idle" /\ Idle
      /\ client.pendingTx = Undefined /\ \A h \in DOMAIN txs : ~txs[h].awaited
  BY <1>1 DEF Restoring, GoodClient, Idle
<1>3. /\ client.staged = None \/ pending = None
      /\ history'.made = history.made /\ history'.dropped = history.dropped
  <2> DEFINE more == IF client.staged # None /\ pending # None THEN {"late"} ELSE {}
  <2>1. more \in SUBSET Excuses /\ history' = [history EXCEPT !.excuses = @ \cup more]
    BY DEF Excuses, KeyArrives
  <2> HIDE DEF more
  <2>2. more = {} /\ history'.made = history.made /\ history'.dropped = history.dropped
    BY <2>1, NotExcused
  <2> QED
    BY <2>2 DEF more
<1>4. pending \in {None} \cup SavedCommits
  BY <1>1 DEF Records
<1> HIDE DEF pending
<1>5. /\ p \in Pages /\ p.keyKnown /\ p.restored = page.restored /\ p.data = page.data
      /\ p.queue.staged = None /\ p.queue.pending = pending
  BY <1>2, <1>4, PageKeyed
<1> HIDE DEF p
<1>6. /\ client' = client /\ page'.keyKnown /\ page'.data = page.data
      /\ page'.queue.pending = pending
      /\ IF client.staged # None
         THEN page'.restored = forum /\ page'.queue.staged = storage[forum].staged
         ELSE page'.restored = None /\ page'.queue.staged = None
      /\ \A g \in Forums \ {forum} : storage'[g] = storage[g]
      /\ storage'[forum].pending = None /\ storage'[forum] \in Records
      /\ storage'[forum].staged = IF client.staged = None THEN storage[forum].staged ELSE None
  <2>1. SavedPending(client) = None /\ (client.staged # None => SavedStaged(client) = None)
    BY <1>1, <1>2, SavedIs DEF StagedHasContent
  <2>2. /\ client' = client /\ page'.keyKnown = p.keyKnown /\ page'.data = p.data
        /\ page'.queue.pending = p.queue.pending
        /\ IF p.keyKnown /\ p.restored # forum /\ client.staged # None
           THEN page'.restored = forum /\ page'.queue.staged = storage[forum].staged
           ELSE page' = p
        /\ storage' \in [Forums -> Records]
        /\ \A g \in Forums \ {forum} : storage'[g] = storage[g]
        /\ p.keyKnown =>
             /\ storage'[forum].pending = SavedPending(client)
             /\ storage'[forum].staged =
                  IF client.staged = None THEN storage[forum].staged ELSE SavedStaged(client)
    <3>1. /\ GoodClient(client) /\ p \in Pages /\ forum \in Forums
          /\ RenderIn(client, p, forum)
      BY <1>1, <1>5
    <3> QED
      BY <3>1, Rendered
  <2> QED
    BY <1>1, <1>2, <1>5, <2>1, <2>2
<1>7. Complete' = Complete
  BY <1>6 DEF Complete
<1>8. page'.queue \in Records /\ storage'[forum] \in Records
  BY <1>6 DEF Shape, Pages
<1>9. Restoring'
  <2>1. client.staged # None /\ ~Complete =>
          storage[forum].staged = None /\ storage[forum].pending = None
    BY <1>1 DEF Restoring, Nothing
  <2>2. page'.queue.staged = None /\ page'.queue.pending = None => Idle'
    BY <1>8 DEF Idle, Records
  <2>3. storage'[forum].staged = None /\ storage'[forum].pending = None =>
          storage'[forum] = Nothing
    BY <1>8 DEF Nothing, Records
  <2>4. SavedPending(client) = None /\ (client.staged # None => SavedStaged(client) = None)
    BY <1>1, <1>2, SavedIs DEF StagedHasContent
  <2>5. /\ page'.queue.staged # None => client'.staged = {}
        /\ page'.queue.pending # None => client'.staged = None /\ client'.status = "idle"
    BY <1>2, <1>3, <1>6
  <2>6. client'.staged # None /\ ~Complete' =>
          client'.staged = {} /\ client'.status = "idle" /\ Idle' /\ storage'[forum] = Nothing
    BY <1>2, <1>3, <1>6, <1>7, <2>1, <2>2, <2>3 DEF pending
  <2>7. page'.keyKnown /\ Idle' =>
          /\ storage'[forum].pending = SavedPending(client')
          /\ client'.staged # None => storage'[forum].staged = SavedStaged(client')
    BY <1>6, <2>4
  <2> QED
    BY <1>1, <1>6, <2>5, <2>6, <2>7 DEF Restoring
<1>10. Placed /\ Placed'
  BY <1>1, <1>9, KeptIs, KeptIsNext
<1>11. Kept' = Kept
  BY <1>1, <1>2, <1>6, <1>10 DEF Placed, Held, Stored
<1>12. Watch' = Watch
  BY <1>1, <1>2, <1>6 DEF Watch, pending
<1>13. HeldSince' = HeldSince
  BY <1>1, <1>2, <1>6, <1>7 DEF HeldSince
<1> QED
  BY <1>1, <1>2, <1>3, <1>6, <1>9, <1>11, <1>12, <1>13, RestoredPlain

(* The queued dispatches run: what was saved is held again. *)
LEMMA RunQueuePlain ==
  ASSUME Shape, Synced, Shape', Synced', PlainInv, Plain', RunQueue
  PROVE  PlainInv' /\ (OwnClock /\ NotLost => OwnClock' /\ NotLost')
<1> DEFINE p == [page EXCEPT !.queue = FreshPage.queue]
           q == page.queue
<1>1. /\ ~Idle /\ RenderIn(Restored, p, forum) /\ Restoring
      /\ UNCHANGED <<walletKind, forum, chain, txs>> /\ GoodClient(client)
      /\ forum \in Forums /\ forum # None /\ q \in Records
      /\ client.staged \in {None} \cup SUBSET Edits
  BY NoneIsNothing DEF RunQueue, Restored, Render, PlainInv, Synced, Shape, Pages, Clients
<1>2. /\ client.status # "confirmed"
      /\ history'.made = history.made /\ history'.dropped = history.dropped
  <2> DEFINE more == IF client.status = "confirmed" THEN {"revived"} ELSE {}
  <2>1. more \in SUBSET Excuses /\ history' = [history EXCEPT !.excuses = @ \cup more]
    BY DEF Excuses, RunQueue
  <2> HIDE DEF more
  <2>2. more = {} /\ history'.made = history.made /\ history'.dropped = history.dropped
    BY <2>1, NotExcused
  <2> QED
    BY <2>2 DEF more
<1>3. /\ page.keyKnown /\ (client.staged # None => Complete)
      /\ q.staged # None => client.staged = {} /\ q.pending = None
      /\ q.pending # None => client.staged = None /\ client.status = "idle"
      /\ q.staged = None => q.pending # None
      /\ {} # None
  BY <1>1, NoneIsNothing DEF Restoring, Idle, Records
<1>4. /\ GoodClient(Restored) /\ Restored.isOutdated = client.isOutdated
      /\ Restored.staged = (IF q.staged = None THEN client.staged ELSE q.staged.staged)
      /\ Restored.baseline = (IF q.staged = None THEN client.baseline ELSE q.staged.baseline)
      /\ IF q.pending = None
         THEN /\ Restored.status = client.status
              /\ Restored.pendingTx = client.pendingTx
              /\ Restored.submittedFrom = client.submittedFrom
         ELSE /\ Restored.status = "pending-confirmation"
              /\ Restored.pendingTx = q.pending.hash
              /\ Restored.submittedFrom = q.pending.submittedFrom
      /\ Restored.staged = None <=> client.staged = None
  BY RestoredIs
<1>5. /\ p \in Pages /\ p.keyKnown = page.keyKnown /\ p.restored = page.restored
      /\ p.data = page.data /\ p.queue = Nothing
  BY PageDequeued
<1> HIDE DEF p
<1>6. Placed
  BY <1>1, KeptIs
<1>7. /\ client' = Restored /\ page'.keyKnown /\ page'.data = page.data
      /\ page'.queue = Nothing /\ page'.restored = page.restored
      /\ \A g \in Forums \ {forum} : storage'[g] = storage[g]
      /\ storage'[forum].pending = SavedPending(Restored)
      /\ storage'[forum].staged = IF Restored.staged = None THEN storage[forum].staged
                                  ELSE SavedStaged(Restored)
  <2>1. page.restored # forum => Restored.staged = None
    BY <1>3, <1>4, <1>6 DEF Placed
  <2>2. /\ client' = Restored /\ page'.keyKnown = p.keyKnown /\ page'.data = p.data
        /\ IF p.keyKnown /\ p.restored # forum /\ Restored.staged # None
           THEN page'.restored = forum /\ page'.queue.staged = storage[forum].staged
           ELSE page' = p
        /\ \A g \in Forums \ {forum} : storage'[g] = storage[g]
        /\ p.keyKnown =>
             /\ storage'[forum].pending = SavedPending(Restored)
             /\ storage'[forum].staged =
                  IF Restored.staged = None THEN storage[forum].staged ELSE SavedStaged(Restored)
    BY <1>1, <1>4, <1>5, Rendered
  <2> QED
    BY <1>3, <1>5, <2>1, <2>2
<1>8. Complete' = Complete /\ Idle'
  BY <1>7 DEF Complete, Idle, Nothing
<1>9. Restoring'
  <2>1. client'.isOutdated => StagedHasContent(client')
    <3>1. client.isOutdated => client.staged \notin {None, {}}
      BY <1>1 DEF Restoring, StagedHasContent
    <3> QED
      BY <1>3, <1>4, <1>7, <3>1 DEF StagedHasContent
  <2>2. client'.staged # None => Complete'
    BY <1>3, <1>4, <1>7, <1>8
  <2> QED
    BY <1>1, <1>7, <1>8, <2>1, <2>2 DEF Restoring, Nothing
<1>10. Placed'
  BY <1>9, KeptIsNext
<1>11. Kept' = Kept
  BY <1>1, <1>3, <1>4, <1>6, <1>7, <1>10 DEF Placed, Held, Stored, Nothing
<1>12. Watch' = Watch
  <2>1. CASE q.pending = None
    BY <1>3, <1>4, <1>7, <2>1 DEF Watch, Nothing
  <2>2. CASE q.pending # None
    <3>1. client.pendingTx = Undefined /\ q.pending \in SavedCommits
      BY <1>1, <1>3, <2>2 DEF GoodClient, Records
    <3>2. q.pending = [hash |-> q.pending.hash, submittedFrom |-> q.pending.submittedFrom]
          /\ q.pending.hash # Undefined
      BY <3>1, NoneIsNothing DEF SavedCommits
    <3> QED
      BY <1>4, <1>7, <2>2, <3>1, <3>2 DEF Watch
  <2> QED
    BY <2>1, <2>2
<1>13. HeldSince' = HeldSince
  BY <1>1, <1>3, <1>4, <1>6, <1>7, <1>8, <1>10 DEF HeldSince, Placed, Nothing
<1>14. \A h \in DOMAIN txs : txs[h].awaited =>
         client'.status = client.status /\ client'.staged # None
  BY <1>3, <1>4, <1>7 DEF PlainInv, Awaiting
<1> QED
  BY <1>1, <1>2, <1>4, <1>7, <1>9, <1>11, <1>12, <1>13, <1>14, RestoredPlain
(* A forum is selected when nothing of the other one is left. *)
LEMMA SelectForumPlain ==
  ASSUME Shape, Synced, Shape', Synced', PlainInv, Plain', NEW f \in Forums, SelectForum(f)
  PROVE  PlainInv' /\ (OwnClock /\ NotLost => OwnClock' /\ NotLost')
<1> DEFINE pending == IF page.keyKnown THEN storage[f].pending ELSE page.queue.pending
           p == [page EXCEPT !.fetching = Queries, !.data = FreshPage.data,
                             !.queue.pending = pending]
<1>1. /\ Idle /\ f # forum /\ forum' = f /\ RenderIn(client, p, f) /\ Restoring
      /\ UNCHANGED <<walletKind, chain, txs>> /\ GoodClient(client)
      /\ forum \in Forums /\ f # None /\ storage \in [Forums -> Records]
      /\ client.staged \in {None} \cup SUBSET Edits /\ {} # None
  BY NoneIsNothing DEF SelectForum, PlainInv, Synced, Shape, Clients
<1>2. /\ ~StagedHasContent(client) /\ client.status = "idle" /\ ~Outgoing
      /\ storage[forum] = Nothing
      /\ history'.made = history.made /\ history'.dropped = history.dropped
  BY SelectNoted DEF Plain
<1>3. /\ client.staged \in {None, {}} /\ client.pendingTx = Undefined
      /\ page.queue.staged = None /\ page.queue.pending = None
      /\ \A g \in Forums : storage[g] = Nothing
      /\ ~client.isOutdated
  BY <1>1, <1>2 DEF Restoring, GoodClient, StagedHasContent, Idle
<1>4. pending = None /\ pending \in {None} \cup SavedCommits
  BY <1>1, <1>3 DEF Nothing
<1> HIDE DEF pending
<1>5. /\ p \in Pages /\ p.keyKnown = page.keyKnown /\ p.restored = page.restored
      /\ \A q \in Queries : p.data[q] = Undefined
      /\ p.queue.staged = None /\ p.queue.pending = None
  BY <1>3, <1>4, PageSelected
<1> HIDE DEF p
<1>6. Placed
  BY <1>1, KeptIs
<1>7. /\ client' = client /\ page'.keyKnown = page.keyKnown
      /\ \A q \in Queries : page'.data[q] = Undefined
      /\ page'.queue.staged = None /\ page'.queue.pending = None
      /\ page.keyKnown \/ page'.restored = None
      /\ page' \in Pages /\ storage' \in [Forums -> Records]
      /\ \A g \in Forums : storage'[g] = Nothing
  <2>1. SavedPending(client) = None /\ SavedStaged(client) = None
    BY <1>1, <1>2, <1>3, SavedIs
  <2>2. /\ client' = client /\ page' \in Pages
        /\ page'.keyKnown = p.keyKnown /\ page'.data = p.data
        /\ page'.queue.pending = p.queue.pending
        /\ IF p.keyKnown /\ p.restored # f /\ client.staged # None
           THEN page'.restored = f /\ page'.queue.staged = storage[f].staged
           ELSE page' = p
        /\ storage' \in [Forums -> Records]
        /\ \A g \in Forums \ {f} : storage'[g] = storage[g]
        /\ ~p.keyKnown => storage' = storage
        /\ p.keyKnown =>
             /\ storage'[f].pending = SavedPending(client)
             /\ storage'[f].staged =
                  IF client.staged = None THEN storage[f].staged ELSE SavedStaged(client)
    <3>1. GoodClient(client) /\ p \in Pages /\ RenderIn(client, p, f)
      BY <1>1, <1>5
    <3> QED
      BY <3>1, Rendered
  <2>3. storage[f].staged = None
    BY <1>3 DEF Nothing
  <2>4. storage'[f].staged = None /\ storage'[f].pending = None
    BY <1>3, <2>1, <2>2, <2>3 DEF Nothing
  <2>5. storage'[f] = Nothing
    BY <2>2, <2>4 DEF Records, Nothing
  <2>6. ~page.keyKnown => page.restored = None
    BY <1>1 DEF Restoring
  <2> QED
    BY <1>3, <1>5, <2>2, <2>3, <2>5, <2>6
<1>8. Idle' /\ ~Complete'
  <2>1. page'.queue \in Records
    BY <1>7 DEF Pages
  <2> QED
    BY <1>7, <2>1 DEF Idle, Complete, Queries, Records
<1>9. \A h \in DOMAIN txs : ~txs[h].awaited
  BY <1>2 DEF PlainInv, Awaiting, InFlight
<1>10. Restoring'
  <2>1. SavedPending(client) = None /\ SavedStaged(client) = None
    BY <1>1, <1>2, <1>3, SavedIs
  <2>2. \A g \in Forums : storage'[g].pending = None /\ storage'[g].staged = None
    BY <1>7 DEF Nothing
  <2> QED
    BY <1>1, <1>2, <1>3, <1>7, <1>8, <1>9, <2>1, <2>2 DEF Restoring
<1>11. Placed'
  BY <1>10, KeptIsNext
<1>12. Kept' = {} /\ Kept = {}
  <2>1. Stored = {} /\ Stored' = {}
    BY <1>1, <1>3, <1>7 DEF Stored, Nothing
  <2> QED
    BY <1>3, <1>6, <1>7, <1>11, <2>1 DEF Placed, Held
<1>13. Watch' = None
  BY <1>1, <1>3, <1>7 DEF Watch, Nothing
<1>14. HeldSince' = Undefined
  BY <1>1, <1>7, <1>8 DEF HeldSince, Nothing
<1>15. \A h \in DOMAIN txs : ~Tracked(h)' /\ ~Conflict(h)'
  BY <1>1, <1>9, <1>12, <1>13 DEF Tracked, Conflict
<1>16. PlainInv'
  <2>1. Awaiting' /\ Tracking' /\ Made' /\ Disjoint' /\ Once'
    BY <1>1, <1>2, <1>9, <1>12, <1>15
    DEF PlainInv, Awaiting, Tracking, Made, Disjoint, Once, Live
  <2> QED
    BY <1>10, <2>1 DEF PlainInv
<1>17. ASSUME OwnClock, NotLost PROVE OwnClock' /\ NotLost'
  <2>1. \A h \in DOMAIN txs : txs[h].fate \notin {"asked", "sent"}
    BY <1>2 DEF Outgoing
  <2>2. Seen' = Undefined /\ Clock' \in Nat /\ Undefined = -1
    BY <1>1, <1>7 DEF Seen, Clock, Queries, Shape, Undefined
  <2>3. OwnClock'
    BY <1>1, <1>3, <1>7, <1>13, <1>14, <2>1, <2>2 DEF OwnClock, Past
  <2>4. NotLost'
    BY <1>1, <1>2, <1>12, <1>17 DEF NotLost
  <2> QED
    BY <2>3, <2>4
<1> QED
  BY <1>16, <1>17

(* A reload forgets everything but what local storage holds. *)
LEMMA ReloadPlain ==
  ASSUME Shape, Synced, Shape', Synced', PlainInv, Plain', Reload
  PROVE  PlainInv' /\ (OwnClock /\ NotLost => OwnClock' /\ NotLost')
<1>1. /\ client' = InitialState /\ page' = FreshPage
      /\ UNCHANGED <<walletKind, forum, chain, storage>>
      /\ Restoring /\ GoodClient(client) /\ storage[forum] \in Records /\ forum # None
      /\ client.staged \in {None} \cup SUBSET Edits
  BY NoneIsNothing DEF Reload, PlainInv, Synced, Shape, Clients
<1>2. /\ Idle /\ page.keyKnown /\ \A h \in DOMAIN txs : ~txs[h].awaited
      /\ history'.made = history.made /\ history'.dropped = history.dropped
  BY ReloadIs DEF Plain
<1>3. /\ DOMAIN txs' = DOMAIN txs /\ Len(txs') = Len(txs)
      /\ \A h \in DOMAIN txs : /\ ~txs'[h].awaited
                               /\ txs'[h].fate = txs[h].fate
                               /\ txs'[h].edits = txs[h].edits
  BY ReloadIs
<1>4. /\ client'.staged = None /\ client'.status = "idle" /\ client'.pendingTx = Undefined
      /\ ~client'.isOutdated
  BY <1>1 DEF InitialState
<1>5. /\ ~page'.keyKnown /\ page'.restored = None /\ page'.queue = Nothing
      /\ \A q \in Queries : page'.data[q] = Undefined
  BY <1>1, FreshPageIs
<1>6. Idle' /\ ~Complete'
  BY <1>5 DEF Idle, Nothing, Complete, Queries
<1>7. Restoring'
  BY <1>1, <1>3, <1>4, <1>5, <1>6 DEF Restoring, Nothing
<1>8. Placed /\ Placed'
  BY <1>1, <1>7, KeptIs, KeptIsNext
<1>9. /\ storage[forum].pending = SavedPending(client)
      /\ client.staged # None => storage[forum].staged = SavedStaged(client)
      /\ ~StagedHasContent(client) => SavedStaged(client) = None
      /\ StagedHasContent(client) =>
           /\ SavedStaged(client) # None /\ Complete /\ client.staged # None
           /\ SavedStaged(client).staged = client.staged
           /\ SavedStaged(client).baseline = client.baseline
      /\ client.pendingTx = Undefined => SavedPending(client) = None
      /\ client.pendingTx # Undefined => SavedPending(client)
           = [hash |-> client.pendingTx, submittedFrom |-> client.submittedFrom]
  <2>1. StagedHasContent(client) => Complete /\ client.staged # None
    BY <1>1 DEF Restoring, StagedHasContent
  <2>2. /\ storage[forum].pending = SavedPending(client)
        /\ client.staged # None => storage[forum].staged = SavedStaged(client)
    BY <1>1, <1>2 DEF Restoring
  <2> QED
    BY <1>1, <2>1, <2>2, SavedIs
<1>10. Kept' = Kept
  <2>1. Kept' = Stored
    <3>1. Stored' = Stored
      BY <1>1 DEF Stored
    <3> QED
      BY <1>5, <1>8, <3>1 DEF Placed, Held
  <2>2. page.restored = None => Kept = Stored
    BY <1>8 DEF Placed, Held
  <2>3. page.restored # None => Kept = client.staged /\ client.staged # None
    BY <1>2, <1>8 DEF Placed, Held, Idle
  <2>4. client.staged # None => client.staged = Stored
    BY <1>9 DEF Stored, StagedHasContent
  <2> QED
    BY <2>1, <2>2, <2>3, <2>4
<1>11. Watch' = Watch
  BY <1>1, <1>2, <1>4, <1>5, <1>9 DEF Watch, Idle, Nothing
<1>12. HeldSince' \in {HeldSince, Undefined}
  BY <1>1, <1>2, <1>5, <1>6, <1>8, <1>9
  DEF HeldSince, Idle, Nothing, Placed, StagedHasContent
<1>13. SameCalls /\ CallsStand
  BY <1>2, <1>3 DEF SameCalls, CallsStand, Live
<1>14. \A h \in DOMAIN txs : Tracked(h)' <=> Tracked(h)
  BY <1>2, <1>3, <1>11 DEF Tracked
<1>15. PlainInv'
  <2>1. Followed /\ Once' /\ Awaiting'
    BY <1>1, <1>2, <1>3, <1>14 DEF Followed, PlainInv, Tracking, Once, Awaiting
  <2> QED
    BY <1>2, <1>7, <1>10, <1>13, <2>1, KeepsPlain
<1>16. ASSUME OwnClock, NotLost PROVE OwnClock' /\ NotLost'
  <2>1. /\ Clock' = Clock /\ Clock \in Nat /\ Seen' = Undefined /\ Undefined = -1
        /\ HeldSince \in Known /\ Known = Nat \cup {-1}
        /\ Watch # None => Watch.submittedFrom \in Nat
    BY <1>1, <1>5, ClocksAre DEF Clock, Seen, Queries
  <2>2. Unrecognised => Unrecognised'
    BY <1>3, <1>10 DEF Unrecognised, Conflict, Live
  <2>3. ~Past(Clock', Seen') /\ ~Past(Seen', HeldSince') /\ Seen' <= Clock'
    BY <1>12, <2>1 DEF Past
  <2>4. Past(Clock', HeldSince') => Unrecognised'
    BY <1>12, <1>16, <2>1, <2>2 DEF OwnClock, Past
  <2>5. Watch' # None => ~(Seen' > Watch'.submittedFrom)
    BY <1>11, <2>1
  <2>6. Watch' # None /\ Clock' > Watch'.submittedFrom =>
          Watch'.hash \in DOMAIN txs' /\ txs'[Watch'.hash].fate = "landed"
    BY <1>3, <1>11, <1>16, <2>1 DEF OwnClock
  <2>7. \A h \in DOMAIN txs' : txs'[h].fate \in {"asked", "sent"} =>
          Tracked(h)' /\ txs'[h].edits # {} /\ txs'[h].edits \subseteq Kept'
    BY <1>3, <1>10, <1>14, <1>16 DEF OwnClock
  <2>8. NotLost'
    BY <1>1, <1>2, <1>10, <1>16 DEF NotLost
  <2> QED
    BY <1>4, <2>3, <2>4, <2>5, <2>6, <2>7, <2>8 DEF OwnClock
<1> QED
  BY <1>15, <1>16
-----------------------------------------------------------------------------
(* An answer that leaves what is kept and watched. *)
LEMMA SyncedPlain ==
  ASSUME Shape, Synced, Shape', Synced', PlainInv, Idle, Restoring', Kept' = Kept,
         Watch' = Watch, UNCHANGED <<forum, chain, txs, history>>,
         Seen' \in {Seen, Clock}, HeldSince' \in {HeldSince, Seen'},
         client'.status = client.status, client'.staged # None \/ client.staged = None,
         OwnClock /\ client'.isOutdated => client.isOutdated \/ (NothingOut /\ Clock <= Seen')
  PROVE  PlainInv' /\ (OwnClock /\ NotLost => OwnClock' /\ NotLost')
<1>1. SameCalls /\ CallsStand
  BY CallsStay DEF SameCalls
<1>2. \A h \in DOMAIN txs : Tracked(h)' <=> Tracked(h)
  BY DEF Tracked
<1>3. Awaiting' /\ Followed /\ Once'
  BY <1>2 DEF PlainInv, Awaiting, Followed, Tracking, Once
<1>4. PlainInv'
  BY <1>1, <1>3, KeepsPlain
<1>5. ASSUME OwnClock, NotLost PROVE OwnClock' /\ NotLost'
  <2>1. /\ Clock' = Clock /\ Clock \in Nat /\ Seen \in Known /\ HeldSince \in Known
        /\ Known = Nat \cup {-1} /\ Undefined = -1
        /\ Watch # None => Watch.submittedFrom \in Nat
    BY ClocksAre DEF Clock
  <2>2. (Unrecognised => Unrecognised') /\ (NothingOut => NothingOut')
    BY DEF Unrecognised, Conflict, NothingOut
  <2>3. Past(Clock', Seen') => Unrecognised'
    BY <1>5, <2>1, <2>2 DEF OwnClock, Past
  <2>4. Past(Clock', HeldSince') => Unrecognised'
    BY <1>5, <2>1, <2>2, <2>3 DEF OwnClock, Past
  <2>5. Seen' <= Clock'
    BY <1>5, <2>1 DEF OwnClock
  <2>6. Past(Seen', HeldSince') => Clock' <= Seen'
    BY <1>5, <2>1 DEF OwnClock, Past
  <2>7. Watch' # None /\ Clock' > Watch'.submittedFrom =>
          Watch'.hash \in DOMAIN txs' /\ txs'[Watch'.hash].fate = "landed"
    BY <1>5, <2>1 DEF OwnClock
  <2>8. Watch' # None /\ Seen' > Watch'.submittedFrom => Clock' <= Seen'
    BY <1>5, <2>1 DEF OwnClock
  <2>9. client'.isOutdated => NothingOut' /\ Clock' <= Seen'
    BY <1>5, <2>1, <2>2 DEF OwnClock
  <2>10. \A h \in DOMAIN txs' : txs'[h].fate \in {"asked", "sent"} =>
           Tracked(h)' /\ txs'[h].edits # {} /\ txs'[h].edits \subseteq Kept'
    BY <1>2, <1>5 DEF OwnClock
  <2>11. NotLost'
    BY <1>5 DEF NotLost
  <2> QED
    BY <2>3, <2>4, <2>5, <2>6, <2>7, <2>8, <2>9, <2>10, <2>11 DEF OwnClock
<1> QED
  BY <1>4, <1>5

(* What the page looks like after an answer was dispatched. *)
LEMMA SyncRendered ==
  ASSUME Shape, Synced, Shape', Synced', Restoring, Idle, NEW s, GoodClient(s),
         NEW p \in Pages, p.keyKnown = page.keyKnown, p.restored = page.restored,
         p.queue = page.queue, \A r \in Queries : p.data[r] # Undefined,
         RenderIn(s, p, forum), UNCHANGED <<forum, txs>>,
         s.staged \in {{}, client.staged}, s.staged # None,
         ~page.keyKnown => s.staged = {} /\ s.status = "idle" /\ s.pendingTx = Undefined,
         s.isOutdated => StagedHasContent(s)
  PROVE  /\ Restoring' /\ client' = s /\ page'.data = p.data /\ Complete'
         /\ Kept' = IF page.keyKnown /\ client.staged # None THEN s.staged ELSE Kept
         /\ page.keyKnown /\ client.staged # None => Kept = client.staged
         /\ Watch' = IF s.pendingTx # Undefined
                     THEN [hash |-> s.pendingTx, submittedFrom |-> s.submittedFrom]
                     ELSE IF page.keyKnown THEN None ELSE storage[forum].pending
         /\ HeldSince' \in {HeldSince, s.baseline}
         /\ client.staged # None /\ page.keyKnown => HeldSince' = s.baseline /\ Idle'
         /\ client.staged # None /\ Complete /\ page.keyKnown => HeldSince = client.baseline
         /\ client.staged = None /\ Kept # {} /\ page.keyKnown => ~Idle'
<1>1. /\ forum \in Forums /\ forum # None /\ storage[forum] \in Records
      /\ client.staged \in {None} \cup SUBSET Edits /\ {} # None
      /\ page.queue.staged = None /\ page.queue.pending = None
  BY NoneIsNothing DEF Shape, Clients, Idle
<1>2. Placed
  BY KeptIs
<1>3. /\ client' = s /\ page'.keyKnown = page.keyKnown /\ page'.data = p.data
      /\ page'.queue.pending = None
      /\ IF page.keyKnown /\ page.restored # forum
         THEN page'.restored = forum /\ page'.queue.staged = storage[forum].staged
         ELSE page'.restored = page.restored /\ page'.queue = page.queue
      /\ \A g \in Forums \ {forum} : storage'[g] = storage[g]
      /\ ~page.keyKnown => storage' = storage
      /\ page.keyKnown => /\ storage'[forum].pending = SavedPending(s)
                          /\ storage'[forum].staged = SavedStaged(s)
  <2>1. GoodClient(s) /\ p \in Pages /\ RenderIn(s, p, forum)
    OBVIOUS
  <2>2. /\ client' = s /\ page'.keyKnown = p.keyKnown /\ page'.data = p.data
        /\ page'.queue.pending = p.queue.pending
        /\ IF p.keyKnown /\ p.restored # forum /\ s.staged # None
           THEN page'.restored = forum /\ page'.queue.staged = storage[forum].staged
           ELSE page' = p
        /\ \A g \in Forums \ {forum} : storage'[g] = storage[g]
        /\ ~p.keyKnown => storage' = storage
        /\ p.keyKnown =>
             /\ storage'[forum].pending = SavedPending(s)
             /\ storage'[forum].staged =
                  IF s.staged = None THEN storage[forum].staged ELSE SavedStaged(s)
    BY <1>1, <2>1, Rendered
  <2> QED
    BY <1>1, <2>2
<1>4. Complete'
  BY <1>3 DEF Complete
<1>5. page.keyKnown => (page.restored # forum <=> client.staged = None)
  BY <1>1, <1>2 DEF Placed
<1>6. Restoring'
  <2>1. ~page'.keyKnown => Idle' /\ page'.restored = None
    BY <1>3 DEF Restoring, Idle
  <2>2. page'.queue.staged # None => client'.staged = {}
    BY <1>1, <1>3, <1>5
  <2> QED
    BY <1>3, <1>4, <2>1, <2>2 DEF Restoring
<1>7. Placed'
  BY <1>6, KeptIsNext
<1>8. CASE ~page.keyKnown
  <2>1. page.restored = None /\ client.staged \in {None, {}} /\ page'.restored = None
        /\ storage' = storage /\ page'.queue = page.queue
    BY <1>1, <1>3, <1>8 DEF Restoring
  <2>2. Kept = Stored /\ Kept' = Stored
    BY <1>2, <1>7, <2>1 DEF Placed, Held, Stored
  <2> QED
    BY <1>1, <1>3, <1>4, <1>6, <1>8, <2>1, <2>2 DEF Watch, HeldSince
<1>9. CASE page.keyKnown /\ client.staged # None
  <2>1. /\ page.restored = forum /\ page'.restored = forum /\ page'.queue = page.queue
    BY <1>3, <1>5, <1>9
  <2>2. Kept = client.staged /\ Kept' = s.staged /\ Idle'
    BY <1>1, <1>2, <1>3, <1>7, <2>1 DEF Placed, Held, Idle
  <2>3. HeldSince' = s.baseline /\ (Complete => HeldSince = client.baseline)
    BY <1>1, <1>3, <1>4, <2>1 DEF HeldSince
  <2>4. Watch' = IF s.pendingTx # Undefined
                 THEN [hash |-> s.pendingTx, submittedFrom |-> s.submittedFrom] ELSE None
    BY <1>3, <1>9 DEF Watch
  <2> QED
    BY <1>3, <1>4, <1>6, <1>9, <2>2, <2>3, <2>4
<1>10. CASE page.keyKnown /\ client.staged = None
  <2>1. /\ page.restored = None /\ page'.restored = forum /\ s.staged = {}
        /\ page'.queue.staged = storage[forum].staged
    BY <1>1, <1>2, <1>3, <1>5, <1>10 DEF Placed
  <2>2. Kept = Stored /\ Kept' = Stored
    BY <1>1, <1>2, <1>3, <1>7, <2>1 DEF Placed, Held, Stored
  <2>3. HeldSince' \in {HeldSince, s.baseline}
    BY <1>1, <1>3, <1>4, <2>1 DEF HeldSince
  <2>4. Watch' = IF s.pendingTx # Undefined
                 THEN [hash |-> s.pendingTx, submittedFrom |-> s.submittedFrom] ELSE None
    BY <1>3, <1>10 DEF Watch
  <2>5. Kept # {} => ~Idle'
    BY <2>1, <2>2 DEF Stored, Idle
  <2> QED
    BY <1>3, <1>4, <1>6, <1>10, <2>2, <2>3, <2>4, <2>5
<1> QED
  BY <1>8, <1>9, <1>10

(* A query answers: if the state is synced, it is with the commit landed, *)
(* or with the edits left as they were.                                   *)
LEMMA AnswerPlain ==
  ASSUME Shape, Synced, Shape', Synced', PlainInv, Applied, NEW q \in Queries, Answer(q)
  PROVE  PlainInv' /\ (OwnClock /\ NotLost => OwnClock' /\ NotLost')
<1> DEFINE p == Answered(q)
           complete == \A r \in Queries : p.data[r] # Undefined
           clock == p.data["lastUpdated"]
           s == SyncOnChainState(client, p.data["support"], clock)
<1>1. /\ UNCHANGED <<walletKind, forum, chain, txs, history>> /\ Idle
      /\ IF complete /\ DataChanged(p.data) THEN RenderIn(s, p, forum)
         ELSE page' = p /\ UNCHANGED <<client, storage>>
      /\ Restoring /\ GoodClient(client) /\ forum \in Forums
      /\ page.queue.staged = None /\ page.queue.pending = None
  BY DEF Answer, Answered, Clock, Render, PlainInv, Synced, Shape, Idle
<1>2. /\ p \in Pages /\ p.keyKnown = page.keyKnown /\ p.restored = page.restored
      /\ p.queue = page.queue /\ p.data[q] = Clock
      /\ \A r \in Queries \ {q} : p.data[r] = page.data[r]
  BY PageAnswered
<1>3. clock \in {Seen, Clock}
  BY <1>2 DEF Seen, Queries
<1>4. /\ Clock \in Nat /\ Seen \in Known /\ HeldSince \in Known
      /\ Known = Nat \cup {-1} /\ Undefined = -1
      /\ client.pendingTx # Undefined => Watch # None
  BY ClocksAre
<1> HIDE DEF p
<1>5. \A h \in DOMAIN txs : Conflict(h) => Tracked(h)
  BY <1>1 DEF PlainInv, Tracking
<1>6. CASE ~(complete /\ DataChanged(p.data))
  <2>1. page' = p /\ UNCHANGED <<client, storage>>
    BY <1>1, <1>6
  <2>2. Complete' = Complete
    <3>1. complete => p.data = page.data
      BY <1>6 DEF DataChanged
    <3>2. Complete => complete
      BY <1>2, <1>4 DEF Complete
    <3> QED
      BY <2>1, <3>1, <3>2 DEF Complete
  <2>3. Idle'
    BY <1>1, <1>2, <2>1 DEF Idle
  <2>4. Restoring'
    BY <1>1, <1>2, <2>1, <2>2, <2>3 DEF Restoring
  <2>5. Kept' = Kept /\ Watch' = Watch /\ HeldSince' = HeldSince
    BY <1>1, <1>2, <2>1, <2>2 DEF Kept, Watch, HeldSince
  <2>6. Seen' \in {Seen, Clock}
    BY <1>3, <2>1 DEF Seen
  <2> QED
    BY <1>1, <2>1, <2>4, <2>5, <2>6, SyncedPlain
<1>7. ASSUME complete, DataChanged(p.data), ~OurCommitLanded(client, clock)
      PROVE  PlainInv' /\ (OwnClock /\ NotLost => OwnClock' /\ NotLost')
  <2>1. p.data["support"] \in Nat /\ clock \in Nat
    BY <1>2, <1>7 DEF Pages, Queries, Known
  <2>2. /\ GoodClient(s) /\ s.status = client.status
        /\ s.staged = (IF client.staged = None THEN {} ELSE client.staged)
        /\ s.baseline = (IF StagedHasContent(client) THEN client.baseline ELSE clock)
        /\ s.isOutdated <=> (client.isOutdated \/ ChangedElsewhere(client, clock))
        /\ s.pendingTx = client.pendingTx /\ s.submittedFrom = client.submittedFrom
    BY <1>1, <1>7, <2>1, SyncNotLanded
  <2>3. StagedHasContent(client) => page.keyKnown /\ Complete /\ client.staged # None
    BY <1>1 DEF Restoring, StagedHasContent
  <2>4. /\ s.staged \in {{}, client.staged} /\ s.staged # None
        /\ ~page.keyKnown => s.staged = {} /\ s.status = "idle" /\ s.pendingTx = Undefined
        /\ s.isOutdated => StagedHasContent(s)
    <3>1. client.isOutdated => StagedHasContent(client)
      BY <1>1 DEF Restoring
    <3>2. ~page.keyKnown => client.staged \in {None, {}} /\ client.status = "idle"
                            /\ client.pendingTx = Undefined
      BY <1>1 DEF Restoring, GoodClient
    <3> QED
      BY <2>2, <3>1, <3>2, NoneIsNothing DEF StagedHasContent, ChangedElsewhere
  <2>5. RenderIn(s, p, forum)
    BY <1>1, <1>7
  <2> HIDE DEF s
  <2>6. /\ Restoring' /\ client' = s /\ page'.data = p.data
        /\ Kept' = IF page.keyKnown /\ client.staged # None THEN s.staged ELSE Kept
        /\ page.keyKnown /\ client.staged # None => Kept = client.staged
        /\ Watch' = IF s.pendingTx # Undefined
                    THEN [hash |-> s.pendingTx, submittedFrom |-> s.submittedFrom]
                    ELSE IF page.keyKnown THEN None ELSE storage[forum].pending
        /\ HeldSince' \in {HeldSince, s.baseline}
        /\ client.staged # None /\ Complete /\ page.keyKnown => HeldSince = client.baseline
    BY <1>1, <1>2, <1>7, <2>2, <2>4, <2>5, SyncRendered
  <2>7. Kept' = Kept /\ Watch' = Watch
    BY <1>1, <2>2, <2>6 DEF Watch
  <2>8. Seen' = clock /\ HeldSince' \in {HeldSince, Seen'}
    BY <2>2, <2>3, <2>6 DEF Seen
  <2>9. ASSUME OwnClock, client'.isOutdated, ~client.isOutdated
        PROVE  NothingOut /\ Clock <= Seen'
    <3>1. ChangedElsewhere(client, clock)
      BY <1>1, <1>7, <2>2, <2>6, <2>9
    <3>2. /\ page.keyKnown /\ HeldSince = client.baseline
          /\ client.submittedFrom = Undefined /\ Past(clock, HeldSince)
      BY <2>3, <2>6, <3>1 DEF ChangedElsewhere, Past
    <3>3. Seen <= Clock
      BY <2>9 DEF OwnClock
    <3>4. Past(Clock, HeldSince)
      BY <1>3, <1>4, <2>1, <3>2, <3>3 DEF Past
    <3>5. PICK i \in DOMAIN txs : txs[i].fate = "landed" /\ Tracked(i)
      BY <1>5, <2>9, <3>4 DEF OwnClock, Unrecognised
    <3>6. Watch = None
      BY <1>1, <3>2 DEF Watch, GoodClient
    <3>7. NothingOut
      BY <2>9, <3>5, OneTracked DEF OwnClock, NothingOut, PlainInv
    <3>8. Clock <= Seen'
      BY <1>3, <1>4, <2>1, <2>8, <2>9, <3>2 DEF OwnClock, Past
    <3> QED
      BY <3>7, <3>8
  <2>10. client'.staged # None /\ client'.status = client.status
    BY <2>2, <2>4, <2>6
  <2> QED
    BY <1>1, <1>3, <2>6, <2>7, <2>8, <2>9, <2>10, SyncedPlain
<1>8. ASSUME complete, DataChanged(p.data), OurCommitLanded(client, clock)
      PROVE  PlainInv' /\ (OwnClock /\ NotLost => OwnClock' /\ NotLost')
  <2>1. p.data["support"] \in Nat /\ clock \in Nat
    BY <1>2, <1>8 DEF Pages, Queries, Known
  <2>2. /\ GoodClient(s) /\ s.status = "confirmed" /\ s.staged = {}
        /\ s.baseline = clock /\ ~s.isOutdated /\ s.pendingTx = Undefined
    BY <1>1, <1>8, <2>1, SyncLanded
  <2>3. /\ client.submittedFrom # Undefined /\ clock > client.submittedFrom
        /\ client.pendingTx # Undefined
    BY <1>1, <1>8 DEF OurCommitLanded, GoodClient
  <2>4. Watch # None /\ Watch.submittedFrom = client.submittedFrom
        /\ Watch.hash = client.pendingTx
    BY <1>4, <2>3 DEF Watch
  <2>5. page.keyKnown
    BY <1>1, <2>3 DEF Restoring, GoodClient
  <2>6. RenderIn(s, p, forum)
    BY <1>1, <1>8
  <2> HIDE DEF s
  <2>7. s.staged # None
    BY <2>2, NoneIsNothing
  <2>8. /\ Restoring' /\ client' = s /\ page'.data = p.data
        /\ Kept' = IF page.keyKnown /\ client.staged # None THEN s.staged ELSE Kept
        /\ page.keyKnown /\ client.staged # None => Kept = client.staged
        /\ Watch' = IF s.pendingTx # Undefined
                    THEN [hash |-> s.pendingTx, submittedFrom |-> s.submittedFrom]
                    ELSE IF page.keyKnown THEN None ELSE storage[forum].pending
        /\ HeldSince' \in {HeldSince, s.baseline}
        /\ client.staged # None /\ page.keyKnown => HeldSince' = s.baseline /\ Idle'
        /\ client.staged = None /\ Kept # {} /\ page.keyKnown => ~Idle'
    BY <1>1, <1>2, <1>8, <2>2, <2>5, <2>6, <2>7, SyncRendered
  <2>9. Kept' = (IF client.staged # None THEN {} ELSE Kept) /\ Watch' = None
    BY <2>2, <2>5, <2>8
  <2>10. \A h \in DOMAIN txs : ~txs[h].awaited /\ ~Tracked(h)'
    BY <1>1, <2>4, <2>9 DEF PlainInv, Awaiting, Tracked
  <2>11. PlainInv'
    <3>1. Awaiting'
      BY <1>1, <2>10 DEF Awaiting
    <3>2. Tracking'
      <4>1. \A h \in DOMAIN txs : Conflict(h)' => client'.status = "confirmed" /\ ~Idle'
        BY <1>1, <2>2, <2>5, <2>8, <2>9 DEF Conflict
      <4> QED
        BY <1>1, <2>10, <4>1 DEF Tracking
    <3>3. Made' /\ Disjoint' /\ Once'
      BY <1>1, <2>9 DEF PlainInv, Made, Disjoint, Once, Live
    <3> QED
      BY <2>8, <3>1, <3>2, <3>3 DEF PlainInv
  <2>12. ASSUME OwnClock, NotLost PROVE OwnClock' /\ NotLost'
    <3>1. Seen <= Clock /\ Clock' = Clock /\ Seen' = clock
      BY <1>1, <2>8, <2>12 DEF OwnClock, Clock, Seen
    <3>2. client.submittedFrom \in Nat
      BY <1>1, <2>3 DEF GoodClient, Clients, Known
    <3>3. Watch.hash \in DOMAIN txs /\ txs[Watch.hash].fate = "landed"
      BY <1>3, <1>4, <2>1, <2>3, <2>4, <2>12, <3>1, <3>2 DEF OwnClock
    <3>4. Clock <= Seen' /\ Seen' <= Clock
      BY <1>3, <1>4, <2>1, <2>3, <2>4, <2>12, <3>1, <3>2 DEF OwnClock
    <3>5. NothingOut'
      BY <1>1, <2>10, <2>12, <3>3 DEF OwnClock, NothingOut, Tracked
    <3>6. ~Past(Clock', Seen')
      BY <1>4, <2>1, <3>1, <3>4 DEF Past
    <3>7. (HeldSince' = HeldSince /\ Kept' = Kept) \/ HeldSince' = Seen'
      BY <2>2, <2>5, <2>8, <2>9, <3>1
    <3>8. Past(Clock', HeldSince') => Unrecognised'
      BY <1>1, <2>12, <3>1, <3>6, <3>7 DEF OwnClock, Unrecognised, Conflict
    <3>9. \A e \in Kept : chain.applied[e] > 0
      <4>1. Kept \subseteq txs[Watch.hash].edits
        BY <2>4, <3>3 DEF PlainInv, Tracking, Tracked
      <4> QED
        BY <3>3, <4>1 DEF Applied
    <3>10. NotLost'
      BY <1>1, <2>12, <3>9 DEF NotLost
    <3> QED
      BY <1>1, <2>2, <2>8, <2>9, <3>1, <3>4, <3>5, <3>6, <3>8, <3>10
      DEF OwnClock, NothingOut
  <2> QED
    BY <2>11, <2>12
<1> QED
  BY <1>6, <1>7, <1>8

(* Keeping what is outdated is excused: the state is no longer plain. *)
LEMMA KeepIsExcused ==
  ASSUME Shape, KeepChanges
  PROVE  ~Plain'
<1>1. {"kept"} \in SUBSET Excuses
  BY DEF Excuses
<1>2. history' = [history EXCEPT !.excuses = @ \cup {"kept"}]
  BY DEF KeepChanges
<1> QED
  BY <1>1, <1>2, NotExcused
-----------------------------------------------------------------------------
(* Every step of a run without an excuse, and of one in which nobody has *)
(* acted elsewhere.                                                        *)
LEMMA PlainNext ==
  ASSUME Shape, Synced, Applied, PlainInv, [Next]_vars, Plain'
  PROVE  PlainInv' /\ (OwnClock /\ NotLost /\ Alone' => OwnClock' /\ NotLost')
<1>1. Shape' /\ Synced'
  BY ShapeNext
<1>2. CASE UNCHANGED vars
  <2>1. UNCHANGED <<forum, client, storage, txs, chain, page, history>>
    BY <1>2 DEF vars
  <2>2. Kept' = Kept /\ Watch' = Watch /\ HeldSince' = HeldSince /\ Seen' = Seen
        /\ Clock' = Clock /\ Complete' = Complete /\ Idle' = Idle
    BY <2>1 DEF Kept, Watch, HeldSince, Seen, Clock, Complete, Idle
  <2>3. \A h \in DOMAIN txs : (Tracked(h)' <=> Tracked(h)) /\ (Conflict(h)' <=> Conflict(h))
    BY <2>1, <2>2 DEF Tracked, Conflict
  <2>4. Unrecognised' <=> Unrecognised
    BY <2>1, <2>3 DEF Unrecognised
  <2>5. PlainInv'
    BY <2>1, <2>2, <2>3 DEF PlainInv, Restoring, Awaiting, Tracking, Made, Disjoint, Once
  <2>6. OwnClock /\ NotLost => OwnClock' /\ NotLost'
    BY <2>1, <2>2, <2>3, <2>4 DEF OwnClock, NotLost, NothingOut
  <2> QED
    BY <2>5, <2>6
<1>3. CASE KeepChanges
  BY <1>3, KeepIsExcused
<1>4. CASE KeyArrives \/ RunQueue \/ Reload \/ \E f \in Forums : SelectForum(f)
  BY <1>1, <1>4, KeyArrivesPlain, RunQueuePlain, ReloadPlain, SelectForumPlain
<1>5. CASE \E q \in Queries : Answer(q)
  BY <1>1, <1>5, AnswerPlain
<1>6. CASE (\E e \in Edits : Stage(e) \/ Unstage(e)) \/ ResetChanges
  BY <1>1, <1>6, EditsPlain
<1>7. CASE AbandonChanges \/ CommitChanges
  BY <1>1, <1>7, AbandonPlain, CommitPlain
<1>8. CASE \/ Timeout \/ CloseModal
           \/ Receipt /\ txs[client.pendingTx].fate = "reverted"
           \/ \E h \in DOMAIN txs : Submitted(h) \/ Refused(h)
  BY <1>1, <1>8, WatchedPlain
<1>9. CASE \/ Poll \/ EmptyBlock \/ ActElsewhere
           \/ Receipt /\ txs[client.pendingTx].fate # "reverted"
           \/ \E h \in DOMAIN txs : Send(h)
  BY <1>1, <1>9, MovedPlain
<1>10. CASE \E h \in DOMAIN txs : Include(h)
  BY <1>1, <1>10, IncludePlain
<1> QED
  BY <1>2, <1>3, <1>4, <1>5, <1>6, <1>7, <1>8, <1>9, <1>10 DEF Next

(* A run starts in the invariant. *)
LEMMA InitIInv == Init => IInv
<1> SUFFICES ASSUME Init PROVE IInv
  OBVIOUS
<1>1. Shape /\ Synced /\ Quiet
  BY InitShape
<1>2. /\ forum \in Forums
      /\ chain = [clock |-> [f \in Forums |-> 0], applied |-> [e \in Edits |-> 0]]
      /\ txs = <<>> /\ client = InitialState /\ page = FreshPage
      /\ storage = [f \in Forums |-> Nothing]
      /\ history.made = {}
  BY DEF Init, Nothing
<1>3. /\ client.staged = None /\ client.status = "idle" /\ client.pendingTx = Undefined
      /\ ~client.isOutdated /\ client.baseline = Undefined
  BY <1>2 DEF InitialState
<1>4. /\ DOMAIN txs = {} /\ \A f \in Forums : storage[f] = Nothing
      /\ Clock = 0 /\ \A e \in Edits : chain.applied[e] = 0
  BY <1>2 DEF Clock
<1>5. /\ ~page.keyKnown /\ page.restored = None /\ page.queue = Nothing /\ Idle
      /\ Seen = Undefined /\ ~Complete
  BY <1>2, FreshPageIs DEF Idle, Nothing, Seen, Complete, Queries
<1>6. Nothing.staged = None /\ Nothing.pending = None
  BY DEF Nothing
<1>7. Watch = None /\ HeldSince = Undefined
  BY <1>2, <1>3, <1>4, <1>5, <1>6 DEF Watch, HeldSince
<1>8. Restoring
  BY <1>3, <1>4, <1>5, <1>6 DEF Restoring
<1>9. Kept = {}
  <2>1. Kept = Held
    BY <1>1, <1>8, KeptIs DEF Placed
  <2> QED
    BY <2>1, <1>2, <1>4, <1>5, <1>6 DEF Held, Stored
<1>10. Applied /\ PlainInv
  BY <1>4, <1>8, <1>9 DEF Applied, PlainInv, Awaiting, Tracking, Made, Disjoint, Once
<1>11. OwnClock
  BY <1>3, <1>4, <1>5, <1>7 DEF OwnClock, Past, Undefined
<1> QED
  BY <1>1, <1>2, <1>10, <1>11 DEF IInv, NotLost

(* No step leaves the invariant. *)
LEMMA IInvNext == IInv /\ [Next]_vars => IInv'
<1> SUFFICES ASSUME IInv, [Next]_vars PROVE IInv'
  OBVIOUS
<1>1. Shape /\ Synced /\ Applied /\ Quiet
  BY DEF IInv
<1>2. Shape' /\ Synced' /\ Applied' /\ Quiet'
  BY <1>1, ShapeNext, AppliedNext, QuietNext
<1>3. (Plain' => Plain) /\ (Alone' => Alone)
  BY <1>1, PastStays
<1>4. ASSUME Plain' PROVE PlainInv' /\ (Alone' => OwnClock' /\ NotLost')
  <2>1. PlainInv /\ (Alone' => OwnClock /\ NotLost)
    BY <1>3, <1>4 DEF IInv
  <2> QED
    BY <1>1, <1>4, <2>1, PlainNext
<1> QED
  BY <1>2, <1>4 DEF IInv

(* An edit the member made once counts on the chain at most once, in every *)
(* run that no excuse of the code's own mars: whatever is still kept is in  *)
(* no call that has landed or may yet land without being tracked, so no     *)
(* second commit can carry it (SYNC_ONCHAIN_STATE, the saved pending        *)
(* commit).                                                                 *)
THEOREM AlwaysAppliedOnce == Spec => []AppliedOnce
<1>1. IInv => AppliedOnce
  <2>1. Shape => \A e \in Edits : chain.applied[e] \in Nat
    BY DEF Shape
  <2> QED
    BY <2>1 DEF IInv, Plain, PlainInv, Once, AppliedOnce
<1> QED
  BY <1>1, InitIInv, IInvNext, PTL DEF Spec

(* What the member made and did not drop is on the chain, or the page holds *)
(* it or will restore it, in every run without an excuse in which nobody    *)
(* acted elsewhere: nothing is cleared before the call that has it landed.  *)
THEOREM WorkNeverLost == Spec => []NoLostWork
<1>1. IInv => NoLostWork
  <2>1. Shape => history.foreign \in Nat
    BY DEF Shape, Histories
  <2> QED
    BY <2>1 DEF IInv, Plain, Alone, NotLost, NoLostWork
<1> QED
  BY <1>1, InitIInv, IInvNext, PTL DEF Spec

-----------------------------------------------------------------------------
(***************************************************************************)
(* What holds of the writes of a member for every capacity, leak, time to  *)
(* live and weight of an operation: the gas that is sponsored stays within *)
(* the budget, no operation is charged twice while its decision is         *)
(* remembered, what is confirmed once executes once unless the answer to   *)
(* its sponsored send was lost, and a fee that is shown is of the opening  *)
(* of the dialog it is shown in.                                           *)
(***************************************************************************)


OpFates == {"asked", "approved", "declined", "pending", "executed", "dropped"}
Op == [nonce : Nat, weight : Weights, sponsored : BOOLEAN, fate : OpFates]
ShownFees == {NoFee, "self-funded", "unavailable", "sponsored"}

WritesTypeOK ==
  /\ ops \in Seq(Op)
  /\ dialog \in [open : BOOLEAN, opening : Nat, loading : BOOLEAN, error : BOOLEAN,
                 fee : ShownFees, of : Nat, ack : BOOLEAN]
  /\ write \in [step : {"none", "sponsor", "selfFund", "direct", "fallback"},
                first : Nat \ {0}, acknowledged : BOOLEAN, shown : ShownFees]
  /\ meter \in [usage : Nat, updatedAt : Nat,
                decisions : SUBSET [op : Nat, allowed : BOOLEAN, at : Nat]]
  /\ now \in Nat
  /\ told \in [charges : SUBSET [op : Nat, at : Nat, weight : Nat],
                  lostAnswer : BOOLEAN]

(* What the paymaster approved, which includes what was sent since. *)
Granted(sent) ==
  [i \in DOMAIN sent |->
     IF sent[i].sponsored /\ sent[i].fate \in {"approved", "pending", "executed"}
     THEN sent[i].weight ELSE 0]

GrantedGas(sent) == SumFunction(Granted(sent))

\* What was granted was charged: it is still in the bucket or has leaked.
Backed ==
  /\ meter.usage <= Capacity /\ meter.updatedAt <= now
  /\ GrantedGas(ops) <= meter.usage + LeakPerTick * meter.updatedAt

Decided ==
  \A d \in meter.decisions :
    d.op \in DOMAIN ops /\ ops[d.op].fate # "asked" /\ d.at <= now

\* A charge that is not older than the time to live has its decision.
ChargeRemembered ==
  \A c \in told.charges :
    /\ c.at <= now
    /\ \/ now - c.at > Ttl
       \/ \E d \in meter.decisions : d.op = c.op /\ d.at >= c.at

Metered == Backed /\ Decided /\ ChargeRemembered /\ ChargedOnce

\* Without a lost answer, what a write sent before its last operation is dead.
Tried ==
  /\ write.first <= Len(ops) + 1
  /\ ~told.lostAnswer =>
       \A i \in DOMAIN ops :
         i >= write.first /\ (i < Len(ops) \/ write.step = "fallback")
           => ops[i].fate = "dropped"

WritesIInv == WritesTypeOK /\ Metered /\ Tried /\ FeeIsOfThisOpening

-----------------------------------------------------------------------------
(* The leak between two times is the difference of what leaked up to them. *)
LEMMA LeakBetween ==
  ASSUME NEW a \in Nat, NEW b \in Nat, a <= b
  PROVE  /\ LeakPerTick * a \in Nat /\ LeakPerTick * b \in Nat
         /\ LeakPerTick * (b - a) = LeakPerTick * b - LeakPerTick * a
         /\ LeakPerTick * a <= LeakPerTick * b
<1>1. LeakPerTick \in Nat
  BY WritesBounds
<1>2. PICK d \in Nat : b = a + d
  <2>1. b - a \in Nat /\ b = a + (b - a)
    OBVIOUS
  <2> QED
    BY <2>1
<1>3. LeakPerTick * (a + d) = LeakPerTick * a + LeakPerTick * d
  BY <1>1
<1>4. LeakPerTick * a \in Nat /\ LeakPerTick * d \in Nat
  BY <1>1
<1>5. b - a = d
  BY <1>2
<1> QED
  BY <1>2, <1>3, <1>4, <1>5

(* The number of executed operations. *)
LEMMA NonceType ==
  ASSUME WritesTypeOK
  PROVE  Nonce \in Nat
<1>1. DOMAIN ops = 1 .. Len(ops) /\ Len(ops) \in Nat
  BY DEF WritesTypeOK
<1>2. IsFiniteSet(DOMAIN ops)
  BY <1>1, FS_Interval
<1> DEFINE S == {i \in DOMAIN ops : ops[i].fate = "executed"}
<1>3. IsFiniteSet(S)
  BY <1>2, FS_Subset
<1> HIDE DEF S
<1>4. Cardinality(S) \in Nat
  BY <1>3, FS_CardinalityType
<1> QED
  BY <1>4 DEF Nonce, S

(* What the bucket holds by now. *)
LEMMA DecayedBounds ==
  ASSUME WritesTypeOK, Backed
  PROVE  /\ Decayed \in Nat /\ Decayed <= Capacity
         /\ meter.usage + LeakPerTick * meter.updatedAt <= Decayed + LeakPerTick * now
         /\ LeakPerTick * meter.updatedAt \in Nat /\ LeakPerTick * now \in Nat
<1>1. /\ meter.usage \in Nat /\ meter.updatedAt \in Nat /\ now \in Nat
      /\ meter.updatedAt <= now /\ meter.usage <= Capacity /\ Capacity \in Nat
  BY WritesBounds DEF WritesTypeOK, Backed
<1> DEFINE since == LeakPerTick * (now - meter.updatedAt)
           upTo == LeakPerTick * meter.updatedAt
           leakable == LeakPerTick * now
<1>2. since = leakable - upTo /\ upTo \in Nat /\ leakable \in Nat /\ upTo <= leakable
  BY <1>1, LeakBetween
<1>3. Decayed = IF meter.usage - since > 0 THEN meter.usage - since ELSE 0
  BY DEF Decayed
<1> HIDE DEF since, upTo, leakable
<1>4. /\ Decayed \in Nat /\ Decayed <= Capacity
      /\ meter.usage + upTo <= Decayed + leakable
  BY <1>1, <1>2, <1>3
<1> QED
  BY <1>2, <1>4 DEF upTo, leakable

LEMMA GrantedType ==
  ASSUME NEW sent \in Seq(Op)
  PROVE  /\ IsFiniteSet(DOMAIN sent) /\ Granted(sent) \in [DOMAIN sent -> Nat]
         /\ GrantedGas(sent) = SumFunctionOnSet(Granted(sent), DOMAIN sent)
         /\ GrantedGas(sent) \in Int
<1>1. DOMAIN sent = 1 .. Len(sent) /\ Len(sent) \in Nat
  OBVIOUS
<1>2. IsFiniteSet(DOMAIN sent)
  BY <1>1, FS_Interval
<1>3. \A i \in DOMAIN sent : sent[i].weight \in Nat
  <2> SUFFICES ASSUME NEW i \in DOMAIN sent PROVE sent[i].weight \in Nat
    OBVIOUS
  <2>1. sent[i] \in Op
    BY <1>1
  <2> QED
    BY <2>1, WritesBounds DEF Op
<1>4. Granted(sent) \in [DOMAIN sent -> Nat] /\ DOMAIN Granted(sent) = DOMAIN sent
  BY <1>3 DEF Granted
<1>5. GrantedGas(sent) = SumFunctionOnSet(Granted(sent), DOMAIN sent)
  BY <1>4 DEF GrantedGas, SumFunction
<1>6. Granted(sent) \in [DOMAIN sent -> Int]
  BY <1>4
<1>7. SumFunctionOnSet(Granted(sent), DOMAIN sent) \in Int
  BY <1>2, <1>6, SumStep
<1> QED
  BY <1>2, <1>4, <1>5, <1>7

(* Where nothing is approved, no more is granted. *)
LEMMA NothingGranted ==
  ASSUME NEW sent \in Seq(Op), NEW next \in Seq(Op), DOMAIN next = DOMAIN sent,
         \A i \in DOMAIN sent : Granted(next)[i] <= Granted(sent)[i]
  PROVE  GrantedGas(next) <= GrantedGas(sent)
<1>1. /\ Granted(next) \in [DOMAIN sent -> Nat] /\ Granted(sent) \in [DOMAIN sent -> Nat]
      /\ GrantedGas(next) = SumFunctionOnSet(Granted(next), DOMAIN sent)
      /\ GrantedGas(sent) = SumFunctionOnSet(Granted(sent), DOMAIN sent)
      /\ IsFiniteSet(DOMAIN sent)
  BY GrantedType
<1>2. /\ Granted(next) \in [DOMAIN sent -> Int] /\ Granted(sent) \in [DOMAIN sent -> Int]
  BY <1>1
<1> DEFINE D == DOMAIN sent
           f == Granted(next)
           h == Granted(sent)
<1>3. /\ f \in [D -> Int] /\ h \in [D -> Int] /\ IsFiniteSet(D)
      /\ D \subseteq D /\ \A x \in D : f[x] <= h[x]
  BY <1>1, <1>2
<1> HIDE DEF D, f, h
<1>4. SumFunctionOnSet(f, D) <= SumFunctionOnSet(h, D)
  BY <1>3, SumGrows
<1> QED
  BY <1>1, <1>4 DEF D, f, h

(* Where one operation is, the gas grows by its weight. *)
LEMMA OneGranted ==
  ASSUME NEW sent \in Seq(Op), NEW next \in Seq(Op), DOMAIN next = DOMAIN sent,
         NEW x \in DOMAIN sent, Granted(next)[x] <= sent[x].weight,
         \A i \in DOMAIN sent : i # x => Granted(next)[i] <= Granted(sent)[i]
  PROVE  GrantedGas(next) <= GrantedGas(sent) + sent[x].weight
<1>1. /\ Granted(next) \in [DOMAIN sent -> Nat] /\ Granted(sent) \in [DOMAIN sent -> Nat]
      /\ GrantedGas(next) = SumFunctionOnSet(Granted(next), DOMAIN sent)
      /\ GrantedGas(sent) = SumFunctionOnSet(Granted(sent), DOMAIN sent)
      /\ GrantedGas(next) \in Int /\ GrantedGas(sent) \in Int
      /\ IsFiniteSet(DOMAIN sent)
  BY GrantedType
<1>2. /\ Granted(next) \in [DOMAIN sent -> Int] /\ Granted(sent) \in [DOMAIN sent -> Int]
  BY <1>1
<1>3. GrantedGas(next) <= GrantedGas(sent) + (Granted(next)[x] - Granted(sent)[x])
  BY <1>1, <1>2, SumGrowsAtOne
<1>4. Granted(next)[x] \in Nat /\ Granted(sent)[x] \in Nat /\ sent[x].weight \in Nat
  <2>1. sent[x] \in Op
    OBVIOUS
  <2> QED
    BY <1>1, <2>1, WritesBounds DEF Op
<1> QED
  BY <1>1, <1>3, <1>4

(* A new operation is not approved. *)
LEMMA NewNotGranted ==
  ASSUME NEW sent \in Seq(Op), NEW op \in Op,
         ~op.sponsored \/ op.fate = "asked"
  PROVE  GrantedGas(Append(sent, op)) = GrantedGas(sent)
<1> DEFINE next == Append(sent, op)
           n == Len(sent) + 1
<1>1. /\ next \in Seq(Op) /\ DOMAIN next = 1 .. n /\ DOMAIN sent = 1 .. (n - 1)
      /\ Len(sent) \in Nat /\ n \in DOMAIN next /\ DOMAIN next \ {n} = DOMAIN sent
      /\ next[n] = op /\ \A i \in DOMAIN sent : next[i] = sent[i]
  <2>1. Len(sent) \in Nat /\ DOMAIN sent = 1 .. Len(sent)
    OBVIOUS
  <2>2. next \in Seq(Op) /\ Len(next) = n /\ next[n] = op
    OBVIOUS
  <2>3. \A i \in 1 .. Len(sent) : next[i] = sent[i]
    OBVIOUS
  <2>4. DOMAIN next = 1 .. n
    BY <2>2
  <2> HIDE DEF next
  <2>5. n \in 1 .. n /\ 1 .. n \ {n} = 1 .. Len(sent) /\ n - 1 = Len(sent)
    BY <2>1
  <2> QED
    BY <2>1, <2>2, <2>3, <2>4, <2>5
<1> HIDE DEF next, n
<1>2. /\ Granted(next)[n] = 0
      /\ \A i \in DOMAIN sent : i \in DOMAIN next /\ Granted(next)[i] = Granted(sent)[i]
  BY <1>1 DEF Granted
<1>3. /\ Granted(next) \in [DOMAIN next -> Nat] /\ Granted(sent) \in [DOMAIN sent -> Nat]
      /\ GrantedGas(next) = SumFunctionOnSet(Granted(next), DOMAIN next)
      /\ GrantedGas(sent) = SumFunctionOnSet(Granted(sent), DOMAIN sent)
      /\ IsFiniteSet(DOMAIN sent) /\ IsFiniteSet(DOMAIN next)
  BY <1>1, GrantedType
<1>4. /\ Granted(next) \in [DOMAIN next -> Int] /\ Granted(sent) \in [DOMAIN sent -> Int]
  BY <1>3
<1> DEFINE before == SumFunctionOnSet(Granted(sent), DOMAIN sent)
           after == SumFunctionOnSet(Granted(next), DOMAIN sent)
<1>5. /\ SumFunctionOnSet(Granted(next), DOMAIN next) = Granted(next)[n] + after
      /\ after \in Int /\ before \in Int
  <2>1. DOMAIN sent \in SUBSET DOMAIN next /\ DOMAIN next \in SUBSET DOMAIN next
        /\ DOMAIN sent \in SUBSET DOMAIN sent
    BY <1>1
  <2>2. SumFunctionOnSet(Granted(next), DOMAIN next)
          = Granted(next)[n] + SumFunctionOnSet(Granted(next), DOMAIN next \ {n})
    <3> DEFINE D == DOMAIN next
               f == Granted(next)
    <3>1. f \in [D -> Int] /\ IsFiniteSet(D) /\ D \in SUBSET D /\ n \in D
      BY <1>1, <1>3, <1>4
    <3> HIDE DEF D, f
    <3>2. SumFunctionOnSet(f, D) = f[n] + SumFunctionOnSet(f, D \ {n})
      BY <3>1, SumStep
    <3> QED
      BY <3>2 DEF D, f
  <2>3. after \in Int /\ before \in Int
    BY <1>3, <1>4, <2>1, SumStep
  <2> QED
    BY <1>1, <2>2, <2>3
<1>6. after <= before /\ before <= after
  <2>1. DOMAIN sent \subseteq DOMAIN next
    BY <1>1
  <2>2. \A i \in DOMAIN sent : Granted(next)[i] <= Granted(sent)[i]
                               /\ Granted(sent)[i] <= Granted(next)[i]
    BY <1>2, <1>4
  <2> QED
    BY <1>3, <1>4, <2>1, <2>2, SumGrows
<1> HIDE DEF before, after
<1>7. GrantedGas(next) = GrantedGas(sent)
  BY <1>2, <1>3, <1>5, <1>6 DEF before, after
<1> QED
  BY <1>7 DEF next

-----------------------------------------------------------------------------
(* Changing the fate of one operation. *)
LEMMA NewFate ==
  ASSUME ops \in Seq(Op), NEW i \in DOMAIN ops, NEW fate \in OpFates,
         ops' = [ops EXCEPT ![i].fate = fate]
  PROVE  /\ ops' \in Seq(Op) /\ DOMAIN ops' = DOMAIN ops /\ Len(ops') = Len(ops)
         /\ ops'[i] = [nonce |-> ops[i].nonce, weight |-> ops[i].weight,
                       sponsored |-> ops[i].sponsored, fate |-> fate]
         /\ \A j \in DOMAIN ops : j # i => ops'[j] = ops[j]
<1>1. DOMAIN ops = 1 .. Len(ops) /\ Len(ops) \in Nat /\ \A j \in DOMAIN ops : ops[j] \in Op
  OBVIOUS
<1>2. ops' = [ops EXCEPT ![i] = [ops[i] EXCEPT !.fate = fate]]
  OBVIOUS
<1>3. [ops[i] EXCEPT !.fate = fate]
        = [nonce |-> ops[i].nonce, weight |-> ops[i].weight,
           sponsored |-> ops[i].sponsored, fate |-> fate]
  BY <1>1 DEF Op
<1>4. [ops[i] EXCEPT !.fate = fate] \in Op
  BY <1>1 DEF Op
<1>5. ops' \in Seq(Op) /\ Len(ops') = Len(ops)
  BY <1>2, <1>4
<1>6. DOMAIN ops' = DOMAIN ops /\ \A j \in DOMAIN ops : j # i => ops'[j] = ops[j]
  BY <1>2
<1>7. ops'[i] = [ops[i] EXCEPT !.fate = fate]
  BY <1>2
<1> QED
  BY <1>3, <1>5, <1>6, <1>7

(* An operation executes, and those of its nonce are dropped.              *)
LEMMA ExecuteOps ==
  ASSUME ops \in Seq(Op), NEW i \in DOMAIN ops, Execute(i)
  PROVE  /\ ops' \in Seq(Op) /\ DOMAIN ops' = DOMAIN ops /\ Len(ops') = Len(ops)
         /\ ops[i].fate = "pending" /\ ops'[i].fate = "executed"
         /\ \A j \in DOMAIN ops :
              /\ ops'[j].nonce = ops[j].nonce /\ ops'[j].weight = ops[j].weight
              /\ ops'[j].sponsored = ops[j].sponsored
              /\ j # i => ops'[j].fate \in {ops[j].fate, "dropped"}
<1> DEFINE next(j) ==
             IF j = i THEN [ops[j] EXCEPT !.fate = "executed"]
             ELSE IF ops[j].nonce = ops[i].nonce /\ ops[j].fate # "executed"
             THEN [ops[j] EXCEPT !.fate = "dropped"] ELSE ops[j]
<1>1. DOMAIN ops = 1 .. Len(ops) /\ Len(ops) \in Nat /\ \A j \in DOMAIN ops : ops[j] \in Op
  OBVIOUS
<1>2. \A j \in DOMAIN ops :
        /\ next(j) \in Op
        /\ next(j).nonce = ops[j].nonce /\ next(j).weight = ops[j].weight
        /\ next(j).sponsored = ops[j].sponsored
        /\ j # i => next(j).fate \in {ops[j].fate, "dropped"}
        /\ j = i => next(j).fate = "executed"
  BY <1>1 DEF Op, OpFates
<1>3. ops' = [j \in DOMAIN ops |-> next(j)] /\ ops[i].fate = "pending"
  BY DEF Execute
<1> HIDE DEF next
<1>4. ops' \in [1 .. Len(ops) -> Op]
  BY <1>1, <1>2, <1>3
<1>5. ops' \in Seq(Op) /\ Len(ops') = Len(ops)
  BY <1>1, <1>4
<1> QED
  BY <1>1, <1>2, <1>3, <1>5

(* Appending an operation that is built. *)
LEMMA BuildOps ==
  ASSUME WritesTypeOK, Build
  PROVE  \E op \in Op :
           /\ ops' = Append(ops, op) /\ ops' \in Seq(Op) /\ Len(ops') = Len(ops) + 1
           /\ DOMAIN ops' = DOMAIN ops \cup {Len(ops) + 1}
           /\ \A i \in DOMAIN ops : ops'[i] = ops[i]
           /\ op.sponsored => op.fate = "asked"
<1>1. PICK w \in Weights :
        ops' = Append(ops, [nonce |-> Nonce, weight |-> w,
                            sponsored |-> write.step = "sponsor",
                            fate |-> IF write.step = "sponsor" THEN "asked" ELSE "pending"])
  BY DEF Build
<1> DEFINE op == [nonce |-> Nonce, weight |-> w, sponsored |-> write.step = "sponsor",
                  fate |-> IF write.step = "sponsor" THEN "asked" ELSE "pending"]
<1>2. op \in Op /\ (op.sponsored => op.fate = "asked")
  BY NonceType DEF Op, OpFates
<1> HIDE DEF op
<1>3. ops' = Append(ops, op) /\ ops \in Seq(Op) /\ Len(ops) \in Nat
  BY <1>1 DEF op, WritesTypeOK
<1>4. ops' \in Seq(Op) /\ Len(ops') = Len(ops) + 1
  BY <1>2, <1>3
<1>5. DOMAIN ops' = 1 .. (Len(ops) + 1) /\ DOMAIN ops = 1 .. Len(ops)
  BY <1>3, <1>4
<1>6. \A i \in DOMAIN ops : ops'[i] = ops[i]
  BY <1>3
<1> QED
  BY <1>2, <1>3, <1>4, <1>5, <1>6

-----------------------------------------------------------------------------
LEMMA InitWritesIInv == WritesInit => WritesIInv
<1> SUFFICES ASSUME WritesInit PROVE WritesIInv
  OBVIOUS
<1> USE WritesBounds DEF WritesInit
<1>1. WritesTypeOK
  BY DEF WritesTypeOK, ShownFees, NoFee
<1>2. GrantedGas(ops) = 0
  <2>1. Granted(ops) = <<>> /\ DOMAIN Granted(ops) = {} /\ Granted(ops) \in [{} -> Int]
    BY DEF Granted
  <2>2. IsFiniteSet({})
    BY FS_EmptySet
  <2> QED
    BY <2>1, <2>2, SumStep DEF GrantedGas, SumFunction
<1>3. Metered
  <2>1. Backed
    BY <1>2 DEF Backed
  <2>2. Decided /\ ChargeRemembered /\ ChargedOnce
    BY DEF Decided, ChargeRemembered, ChargedOnce
  <2> QED
    BY <2>1, <2>2 DEF Metered
<1>4. Tried /\ FeeIsOfThisOpening
  BY DEF Tried, FeeIsOfThisOpening
<1> QED
  BY <1>1, <1>3, <1>4 DEF WritesIInv

(* What the preview answers. *)
LEMMA FeesType == Fees \subseteq ShownFees \ {NoFee}
  BY DEF Fees, ShownFees, NoFee, EstimateOf

(* What the webhook records of an operation. *)
LEMMA ChargedType ==
  ASSUME WritesTypeOK, Backed, NEW i \in DOMAIN ops
  PROVE  /\ Charged(i, ops[i].weight) \in
              [usage : Nat, updatedAt : Nat,
               decisions : SUBSET [op : Nat, allowed : BOOLEAN, at : Nat]]
         /\ ops[i].weight \in Nat /\ i \in Nat
<1>1. DOMAIN ops = 1 .. Len(ops) /\ Len(ops) \in Nat /\ ops[i] \in Op
  BY DEF WritesTypeOK
<1>2. ops[i].weight \in Nat /\ i \in Nat
  <2>1. ops[i].weight \in Nat
    BY <1>1, WritesBounds DEF Op
  <2>2. i \in Nat
    BY <1>1
  <2> QED
    BY <2>1, <2>2
<1>3. Decayed \in Nat /\ now \in Nat
  BY DecayedBounds DEF WritesTypeOK
<1>4. Allowed(ops[i].weight) \in BOOLEAN
  BY DEF Allowed
<1>5. meter.decisions \in SUBSET [op : Nat, allowed : BOOLEAN, at : Nat]
  BY DEF WritesTypeOK
<1> HIDE DEF Allowed
<1> QED
  BY <1>2, <1>3, <1>4, <1>5 DEF Charged

LEMMA NextWritesTypeOK == WritesTypeOK /\ Backed /\ [WritesNext]_writeVars => WritesTypeOK'
<1> SUFFICES ASSUME WritesTypeOK, Backed, [WritesNext]_writeVars PROVE WritesTypeOK'
  OBVIOUS
<1>1. CASE Open
  BY <1>1 DEF Open, WritesTypeOK, ShownFees
<1>2. ASSUME NEW opening \in 1 .. MaxOpenings, PreviewAnswers(opening) PROVE WritesTypeOK'
  <2>1. PICK fee \in Fees \cup {"error"} :
          dialog' =
            IF Cancelled(opening) THEN dialog
            ELSE [dialog EXCEPT !.loading = FALSE, !.error = fee = "error",
                                !.fee = IF fee = "error" THEN NoFee ELSE fee,
                                !.of = opening]
    BY <1>2 DEF PreviewAnswers
  <2>2. opening \in Nat
    BY WritesBounds
  <2>3. (IF fee = "error" THEN NoFee ELSE fee) \in ShownFees
    BY FeesType DEF ShownFees
  <2>4. dialog' \in [open : BOOLEAN, opening : Nat, loading : BOOLEAN, error : BOOLEAN,
                     fee : ShownFees, of : Nat, ack : BOOLEAN]
    BY <2>1, <2>2, <2>3 DEF WritesTypeOK
  <2> QED
    BY <1>2, <2>4 DEF PreviewAnswers, WritesTypeOK
<1>3. CASE Acknowledge
  BY <1>3 DEF Acknowledge, WritesTypeOK
<1>4. CASE Close
  BY <1>4 DEF Close, WritesTypeOK
<1>5. CASE Confirm
  <2>1. Len(ops) + 1 \in Nat \ {0}
    BY DEF WritesTypeOK
  <2>2. dialog.ack \in BOOLEAN /\ dialog.fee \in ShownFees
    BY DEF WritesTypeOK
  <2>3. write' \in [step : {"none", "sponsor", "selfFund", "direct", "fallback"},
                    first : Nat \ {0}, acknowledged : BOOLEAN, shown : ShownFees]
    BY <1>5, <2>1, <2>2 DEF Confirm
  <2>4. dialog' \in [open : BOOLEAN, opening : Nat, loading : BOOLEAN, error : BOOLEAN,
                     fee : ShownFees, of : Nat, ack : BOOLEAN]
    BY <1>5 DEF Confirm, WritesTypeOK
  <2>5. told' \in [charges : SUBSET [op : Nat, at : Nat, weight : Nat],
                      lostAnswer : BOOLEAN]
    BY <1>5 DEF Confirm, WritesTypeOK
  <2> QED
    BY <1>5, <2>3, <2>4, <2>5 DEF Confirm, WritesTypeOK
<1>6. CASE CommitFromMenu
  <2>1. Len(ops) + 1 \in Nat \ {0}
    BY DEF WritesTypeOK
  <2>2. write' \in [step : {"none", "sponsor", "selfFund", "direct", "fallback"},
                    first : Nat \ {0}, acknowledged : BOOLEAN, shown : ShownFees]
    BY <1>6, <2>1 DEF CommitFromMenu, ShownFees
  <2>3. dialog' \in [open : BOOLEAN, opening : Nat, loading : BOOLEAN, error : BOOLEAN,
                     fee : ShownFees, of : Nat, ack : BOOLEAN]
    <3>1. dialog \in [open : BOOLEAN, opening : Nat, loading : BOOLEAN, error : BOOLEAN,
                      fee : ShownFees, of : Nat, ack : BOOLEAN]
      BY DEF WritesTypeOK
    <3>2. dialog' = [dialog EXCEPT !.opening = @ + 1]
      BY <1>6 DEF CommitFromMenu
    <3> QED
      BY <3>1, <3>2
  <2>4. told' \in [charges : SUBSET [op : Nat, at : Nat, weight : Nat],
                      lostAnswer : BOOLEAN]
    BY <1>6 DEF CommitFromMenu, WritesTypeOK
  <2> QED
    BY <1>6, <2>2, <2>3, <2>4 DEF CommitFromMenu, WritesTypeOK
<1>7. CASE Build
  <2>1. ops' \in Seq(Op)
    BY <1>7, BuildOps
  <2> QED
    BY <1>7, <2>1 DEF Build, WritesTypeOK
<1>8. CASE Returns
  BY <1>8 DEF Returns, Finish, WritesTypeOK
<1>9. CASE SendFails
  BY <1>9 DEF SendFails, Finish, WritesTypeOK
<1>10. CASE SponsoredSendFails
  <2>1. Current \in DOMAIN ops \/ ops' = ops \/ ops' = [ops EXCEPT ![Current].fate = "dropped"]
    BY <1>10 DEF SponsoredSendFails
  <2>2. ops' \in Seq(Op)
    <3>1. ops \in Seq(Op)
      BY DEF WritesTypeOK
    <3>2. Current \in DOMAIN ops
      BY <1>10 DEF SponsoredSendFails, Building, Current, WritesTypeOK
    <3>3. "dropped" \in OpFates
      BY DEF OpFates
    <3>4. ops' = ops \/ ops' = [ops EXCEPT ![Current].fate = "dropped"]
      BY <1>10 DEF SponsoredSendFails
    <3> QED
      BY <3>1, <3>2, <3>3, <3>4, NewFate
  <2> QED
    BY <1>10, <2>2 DEF SponsoredSendFails, Finish, WritesTypeOK
<1>11. ASSUME NEW i \in DOMAIN ops, Inspect(i) PROVE WritesTypeOK'
  <2>1. PICK fate \in OpFates : ops' = [ops EXCEPT ![i].fate = fate]
    BY <1>11 DEF Inspect, OpFates
  <2>2. ops' \in Seq(Op)
    BY <2>1, NewFate DEF WritesTypeOK
  <2>3. meter' \in [usage : Nat, updatedAt : Nat,
                    decisions : SUBSET [op : Nat, allowed : BOOLEAN, at : Nat]]
    BY <1>11, ChargedType DEF Inspect, WritesTypeOK
  <2>4. told' \in [charges : SUBSET [op : Nat, at : Nat, weight : Nat],
                      lostAnswer : BOOLEAN]
    <3>1. CASE UNCHANGED told
      BY <3>1 DEF WritesTypeOK
    <3>2. CASE ~UNCHANGED told
      <4>1. told' = [told EXCEPT !.charges = @ \cup
                  {[op |-> i, at |-> now, weight |-> ops[i].weight] :
                      x \in {y \in {0} : Allowed(ops[i].weight)}}]
        BY <1>11, <3>2 DEF Inspect
      <4>2. now \in Nat /\ i \in Nat /\ ops[i].weight \in Nat
        BY ChargedType DEF WritesTypeOK
      <4> QED
        BY <4>1, <4>2 DEF WritesTypeOK
    <3> QED
      BY <3>1, <3>2
  <2> QED
    BY <1>11, <2>2, <2>3, <2>4 DEF Inspect, WritesTypeOK
<1>12. ASSUME NEW i \in DOMAIN ops, Accept(i) PROVE WritesTypeOK'
  <2>1. ops' \in Seq(Op)
    BY <1>12, NewFate DEF Accept, WritesTypeOK, OpFates
  <2> QED
    BY <1>12, <2>1 DEF Accept, WritesTypeOK
<1>13. ASSUME NEW i \in DOMAIN ops, Execute(i) PROVE WritesTypeOK'
  <2>1. ops' \in Seq(Op)
    BY <1>13, ExecuteOps DEF WritesTypeOK
  <2> QED
    BY <1>13, <2>1 DEF Execute, WritesTypeOK
<1>14. CASE Tick
  BY <1>14 DEF Tick, WritesTypeOK
<1>15. CASE UNCHANGED writeVars
  BY <1>15 DEF writeVars, WritesTypeOK
<1> QED
  BY <1>1, <1>2, <1>3, <1>4, <1>5, <1>6, <1>7, <1>8, <1>9, <1>10, <1>11, <1>12, <1>13,
     <1>14, <1>15 DEF WritesNext

-----------------------------------------------------------------------------
(* The bucket.  A step that sends, drops or executes operations leaves the *)
(* meter alone and grants nothing.                                         *)
LEMMA MeterUntouched ==
  ASSUME WritesTypeOK, WritesTypeOK', Metered, GrantedGas(ops)' <= GrantedGas(ops),
         UNCHANGED <<meter, now>>, told'.charges = told.charges,
         DOMAIN ops \subseteq DOMAIN ops',
         \A i \in DOMAIN ops : ops[i].fate # "asked" => ops'[i].fate # "asked"
  PROVE  Metered'
<1>1. GrantedGas(ops) \in Int /\ GrantedGas(ops)' \in Int
  BY GrantedType DEF WritesTypeOK
<1>2. /\ meter.usage \in Nat /\ LeakPerTick * meter.updatedAt \in Nat
      /\ GrantedGas(ops) <= meter.usage + LeakPerTick * meter.updatedAt
  BY DecayedBounds DEF WritesTypeOK, Metered, Backed
<1>3. Backed'
  BY <1>1, <1>2 DEF Metered, Backed
<1>4. Decided' /\ ChargeRemembered' /\ ChargedOnce'
  BY DEF Metered, Decided, ChargeRemembered, ChargedOnce
<1> QED
  BY <1>3, <1>4 DEF Metered

(* A sequence of operations of which none is approved that was not. *)
LEMMA FateMetered ==
  ASSUME WritesTypeOK, WritesTypeOK', Metered,
         UNCHANGED <<meter, now>>, told'.charges = told.charges,
         DOMAIN ops' = DOMAIN ops,
         \A i \in DOMAIN ops :
           /\ ops'[i].sponsored = ops[i].sponsored /\ ops'[i].weight = ops[i].weight
           /\ ops'[i].fate \in {"approved", "pending", "executed"} =>
                ops[i].fate \in {"approved", "pending", "executed"}
           /\ ops[i].fate # "asked" => ops'[i].fate # "asked"
  PROVE  Metered'
<1>1. \A i \in DOMAIN ops : ops[i].weight \in Nat
  <2> SUFFICES ASSUME NEW i \in DOMAIN ops PROVE ops[i].weight \in Nat
    OBVIOUS
  <2> QED
    BY ChargedType DEF Metered
<1>2. \A i \in DOMAIN ops : Granted(ops')[i] <= Granted(ops)[i]
  BY <1>1 DEF Granted
<1>3. GrantedGas(ops)' <= GrantedGas(ops)
  BY <1>2, NothingGranted DEF WritesTypeOK
<1> QED
  BY <1>3, MeterUntouched

(* The webhook is asked: it charges what it approves, unless it remembers. *)
LEMMA InspectMetered ==
  ASSUME WritesTypeOK, WritesTypeOK', Metered, NEW i \in DOMAIN ops, Inspect(i)
  PROVE  Metered'
<1> DEFINE w == ops[i].weight
<1>0. w \in Nat /\ i \in Nat /\ now \in Nat /\ now' = now /\ Ttl \in Nat
  BY ChargedType, WritesBounds DEF Metered, WritesTypeOK, Inspect
<1>1. PICK fate \in {"approved", "declined"} :
        /\ ops' = [ops EXCEPT ![i].fate = fate]
        /\ Remembered(i) = {} => (fate = "approved" <=> Allowed(w))
  BY DEF Inspect
<1>2. /\ DOMAIN ops' = DOMAIN ops /\ ops'[i].fate = fate /\ ops' \in Seq(Op)
      /\ ops'[i].sponsored = ops[i].sponsored /\ ops'[i].weight = w
      /\ \A j \in DOMAIN ops : j # i => ops'[j] = ops[j]
  <2>1. fate \in OpFates /\ ops \in Seq(Op)
    BY DEF OpFates, WritesTypeOK
  <2>2. /\ ops' \in Seq(Op) /\ DOMAIN ops' = DOMAIN ops
        /\ ops'[i] = [nonce |-> ops[i].nonce, weight |-> ops[i].weight,
                      sponsored |-> ops[i].sponsored, fate |-> fate]
        /\ \A j \in DOMAIN ops : j # i => ops'[j] = ops[j]
    BY <1>1, <2>1, NewFate
  <2> QED
    BY <2>2
<1>3. CASE Remembered(i) # {}
  <2>1. ops[i].fate = "approved"
    BY <1>3 DEF Inspect, Remembered, Metered, Decided
  <2>2. UNCHANGED <<meter, now>> /\ told' = told
    BY <1>3 DEF Inspect
  <2> QED
    BY <1>2, <2>1, <2>2, FateMetered
<1>4. CASE Remembered(i) = {}
  <2>1. /\ meter' = Charged(i, w)
        /\ told'.charges = told.charges \cup
              {[op |-> i, at |-> now, weight |-> w] : x \in {y \in {0} : Allowed(w)}}
    BY <1>4 DEF Inspect, WritesTypeOK
  <2>2. /\ meter'.usage = IF Allowed(w) THEN Decayed + w ELSE Decayed
        /\ meter'.updatedAt = now
        /\ meter'.decisions = {d \in meter.decisions : d.op # i /\ now - d.at <= Ttl}
                                \cup {[op |-> i, allowed |-> Allowed(w), at |-> now]}
    BY <2>1 DEF Charged
  <2>3. GrantedGas(ops)' <= GrantedGas(ops) + IF Allowed(w) THEN w ELSE 0
    <3>1. ops \in Seq(Op) /\ \A j \in DOMAIN ops : j # i => Granted(ops')[j] <= Granted(ops)[j]
      <4>1. ops \in Seq(Op) /\ \A j \in DOMAIN ops : Granted(ops)[j] \in Nat
        BY GrantedType DEF WritesTypeOK
      <4>2. \A j \in DOMAIN ops : j # i => Granted(ops')[j] = Granted(ops)[j]
        BY <1>2 DEF Granted
      <4> QED
        BY <4>1, <4>2
    <3>2. CASE Allowed(w)
      <4>1. Granted(ops')[i] <= w
        BY <1>0, <1>2 DEF Granted
      <4>2. GrantedGas(ops') <= GrantedGas(ops) + w
        BY <1>2, <3>1, <4>1, OneGranted
      <4> QED
        BY <3>2, <4>2
    <3>3. CASE ~Allowed(w)
      <4>1. Granted(ops')[i] = 0
        BY <1>1, <1>2, <1>4, <3>3 DEF Granted
      <4>2. Granted(ops)[i] \in Nat
        BY GrantedType DEF WritesTypeOK
      <4>3. \A j \in DOMAIN ops : Granted(ops')[j] <= Granted(ops)[j]
        BY <3>1, <4>1, <4>2
      <4>4. GrantedGas(ops') <= GrantedGas(ops)
        BY <1>2, <3>1, <4>3, NothingGranted
      <4>5. GrantedGas(ops) \in Int /\ GrantedGas(ops') \in Int
        BY <1>2, <3>1, GrantedType
      <4> QED
        BY <3>3, <4>4, <4>5
    <3> QED
      BY <3>2, <3>3
  <2>4. Backed'
    <3> DEFINE upTo == LeakPerTick * meter.updatedAt
               leakable == LeakPerTick * now
    <3>1. /\ Decayed \in Nat /\ Decayed <= Capacity /\ upTo \in Nat /\ leakable \in Nat
          /\ meter.usage + upTo <= Decayed + leakable
      BY DecayedBounds DEF Metered
    <3>2. GrantedGas(ops) <= meter.usage + upTo /\ meter.usage \in Nat
      BY DEF Metered, Backed, WritesTypeOK
    <3>3. GrantedGas(ops) \in Int /\ GrantedGas(ops)' \in Int
      BY <1>2, GrantedType DEF WritesTypeOK
    <3>4. LeakPerTick * meter'.updatedAt = leakable
      BY <2>2
    <3> HIDE DEF upTo, leakable, w
    <3>5. GrantedGas(ops)' <= meter'.usage + leakable
      BY <1>0, <2>2, <2>3, <3>1, <3>2, <3>3
    <3>6. meter'.usage <= Capacity /\ meter'.updatedAt <= now'
      BY <1>0, <2>2, <3>1 DEF Allowed
    <3> QED
      BY <3>4, <3>5, <3>6 DEF Backed
  <2>5. Decided'
    BY <1>0, <1>2, <2>2 DEF Metered, Decided
\* An earlier charge of this operation is older than the time to live, or the
\* decision would be remembered.
  <2>6. \A c \in told.charges :
          /\ c.at \in Nat /\ c.at <= now
          /\ c.op = i => now - c.at > Ttl
    <3> SUFFICES ASSUME NEW c \in told.charges
                 PROVE  /\ c.at \in Nat /\ c.at <= now
                        /\ c.op = i => now - c.at > Ttl
      OBVIOUS
    <3>1. c.at \in Nat /\ c.at <= now
      BY DEF WritesTypeOK, Metered, ChargeRemembered
    <3>2. ASSUME c.op = i, ~(now - c.at > Ttl) PROVE FALSE
      <4>1. PICK d \in meter.decisions : d.op = i /\ d.at >= c.at
        BY <3>2 DEF Metered, ChargeRemembered
      <4>2. d.at \in Nat
        BY DEF WritesTypeOK
      <4>3. d \in Remembered(i)
        BY <1>0, <3>1, <3>2, <4>1, <4>2 DEF Remembered
      <4> QED
        BY <1>4, <4>3
    <3> QED
      BY <3>1, <3>2
  <2>7. \A c \in told'.charges :
          \/ c \in told.charges
          \/ c.op = i /\ c.at = now
    BY <2>1
  <2>8. ChargedOnce'
    BY <1>0, <2>6, <2>7 DEF Metered, ChargedOnce
  <2>9. ChargeRemembered'
    <3> SUFFICES ASSUME NEW c \in told'.charges
                 PROVE  /\ c.at <= now'
                        /\ \/ now' - c.at > Ttl
                           \/ \E d \in meter'.decisions : d.op = c.op /\ d.at >= c.at
      BY DEF ChargeRemembered
    <3>1. CASE c.op = i
      <4>1. c.at \in Nat /\ c.at <= now
        BY <1>0, <2>6, <2>7
      <4> DEFINE d == [op |-> i, allowed |-> Allowed(w), at |-> now]
      <4>2. d \in meter'.decisions /\ d.op = i /\ d.at = now
        BY <2>2
      <4> HIDE DEF d
      <4> QED
        BY <1>0, <3>1, <4>1, <4>2
    <3>2. CASE c.op # i
      <4>1. c \in told.charges
        BY <2>7, <3>2
      <4>2. c.at \in Nat /\ c.at <= now
        BY <2>6, <4>1
      <4>3. ASSUME NEW d \in meter.decisions, d.op = c.op, d.at >= c.at,
                   ~(now - c.at > Ttl)
            PROVE  d \in meter'.decisions
        <5>1. d.at \in Nat
          BY DEF WritesTypeOK
        <5>2. now - d.at <= Ttl
          BY <1>0, <4>2, <4>3, <5>1
        <5> QED
          BY <2>2, <3>2, <4>3, <5>2
      <4> QED
        BY <1>0, <4>1, <4>2, <4>3 DEF Metered, ChargeRemembered
    <3> QED
      BY <3>1, <3>2
  <2> QED
    BY <2>4, <2>5, <2>8, <2>9 DEF Metered
<1> QED
  BY <1>3, <1>4

LEMMA NextMetered == WritesTypeOK /\ WritesTypeOK' /\ Metered /\ [WritesNext]_writeVars => Metered'
<1> SUFFICES ASSUME WritesTypeOK, WritesTypeOK', Metered, [WritesNext]_writeVars PROVE Metered'
  OBVIOUS
<1>1. CASE /\ UNCHANGED <<ops, meter, now>> /\ told'.charges = told.charges
  BY <1>1, FateMetered
<1>2. CASE Open \/ Acknowledge \/ Close \/ Returns \/ SendFails \/ UNCHANGED writeVars
  BY <1>1, <1>2 DEF Open, Acknowledge, Close, Returns, SendFails, writeVars
<1>3. ASSUME NEW opening \in 1 .. MaxOpenings, PreviewAnswers(opening) PROVE Metered'
  BY <1>1, <1>3 DEF PreviewAnswers
<1>4. CASE Confirm \/ CommitFromMenu
  <2>1. told'.charges = told.charges
    BY <1>4 DEF Confirm, CommitFromMenu, WritesTypeOK
  <2> QED
    BY <1>1, <1>4, <2>1 DEF Confirm, CommitFromMenu
<1>5. CASE Build
  <2>1. PICK op \in Op :
           /\ ops' = Append(ops, op) /\ (op.sponsored => op.fate = "asked")
           /\ DOMAIN ops \subseteq DOMAIN ops'
           /\ \A i \in DOMAIN ops : ops'[i] = ops[i]
    BY <1>5, BuildOps
  <2>2. GrantedGas(ops)' = GrantedGas(ops)
    BY <2>1, NewNotGranted DEF WritesTypeOK
  <2>3. GrantedGas(ops) \in Int
    BY GrantedType DEF WritesTypeOK
  <2>4. GrantedGas(ops)' <= GrantedGas(ops)
    BY <2>2, <2>3
  <2>5. UNCHANGED <<meter, now, told>>
    BY <1>5 DEF Build
  <2> QED
    BY <2>1, <2>4, <2>5, MeterUntouched
<1>6. CASE SponsoredSendFails
  <2>1. Current \in DOMAIN ops /\ ops \in Seq(Op) /\ "dropped" \in OpFates
    BY <1>6 DEF SponsoredSendFails, Building, Current, WritesTypeOK, OpFates
  <2>2. UNCHANGED <<meter, now>> /\ told'.charges = told.charges
    BY <1>6 DEF SponsoredSendFails, WritesTypeOK
  <2>3. CASE ops' = ops
    BY <2>2, <2>3, FateMetered
  <2>4. CASE ops' = [ops EXCEPT ![Current].fate = "dropped"]
    <3>1. /\ DOMAIN ops' = DOMAIN ops
          /\ ops'[Current] = [nonce |-> ops[Current].nonce, weight |-> ops[Current].weight,
                        sponsored |-> ops[Current].sponsored, fate |-> "dropped"]
          /\ \A j \in DOMAIN ops : j # Current => ops'[j] = ops[j]
      BY <2>1, <2>4, NewFate
    <3> QED
      BY <2>2, <3>1, FateMetered
  <2> QED
    BY <1>6, <2>3, <2>4 DEF SponsoredSendFails
<1>7. ASSUME NEW i \in DOMAIN ops, Inspect(i) PROVE Metered'
  BY <1>7, InspectMetered
<1>8. ASSUME NEW i \in DOMAIN ops, Accept(i) PROVE Metered'
  <2>1. ops \in Seq(Op) /\ "pending" \in OpFates
    BY DEF WritesTypeOK, OpFates
  <2>2. /\ DOMAIN ops' = DOMAIN ops
        /\ ops'[i] = [nonce |-> ops[i].nonce, weight |-> ops[i].weight,
                      sponsored |-> ops[i].sponsored, fate |-> "pending"]
        /\ \A j \in DOMAIN ops : j # i => ops'[j] = ops[j]
    BY <1>8, <2>1, NewFate DEF Accept
  <2>3. UNCHANGED <<meter, now, told>> /\ ops[i].fate = "approved"
    BY <1>8 DEF Accept
  <2> QED
    BY <2>2, <2>3, FateMetered
<1>9. ASSUME NEW i \in DOMAIN ops, Execute(i) PROVE Metered'
  <2>1. /\ DOMAIN ops' = DOMAIN ops
        /\ ops[i].fate = "pending" /\ ops'[i].fate = "executed"
        /\ \A j \in DOMAIN ops :
             /\ ops'[j].weight = ops[j].weight /\ ops'[j].sponsored = ops[j].sponsored
             /\ j # i => ops'[j].fate \in {ops[j].fate, "dropped"}
    BY <1>9, ExecuteOps DEF WritesTypeOK
  <2>2. UNCHANGED <<meter, now, told>>
    BY <1>9 DEF Execute
  <2> QED
    BY <2>1, <2>2, FateMetered
<1>10. CASE Tick
  <2>1. UNCHANGED <<ops, meter, told>> /\ now' = now + 1 /\ now \in Nat /\ Ttl \in Nat
    BY <1>10, WritesBounds DEF Tick, WritesTypeOK
  <2>2. Backed' /\ Decided' /\ ChargedOnce'
    BY <2>1 DEF WritesTypeOK, Metered, Backed, Decided, ChargedOnce
  <2>3. ChargeRemembered'
    BY <2>1 DEF WritesTypeOK, Metered, ChargeRemembered
  <2> QED
    BY <2>2, <2>3 DEF Metered
<1> QED
  BY <1>2, <1>3, <1>4, <1>5, <1>6, <1>7, <1>8, <1>9, <1>10 DEF WritesNext

(* What was granted includes what is sponsored, and the bucket is never    *)
(* fuller than its capacity.                                               *)
LEMMA MeteredWithinBudget == WritesTypeOK /\ Metered => WithinBudget
<1> SUFFICES ASSUME WritesTypeOK, Metered PROVE WithinBudget
  OBVIOUS
<1> DEFINE D == DOMAIN ops
           f == SponsoredGas
           h == Granted(ops)
<1>1. /\ h \in [D -> Nat] /\ IsFiniteSet(D)
      /\ GrantedGas(ops) = SumFunctionOnSet(h, D) /\ GrantedGas(ops) \in Int
  BY GrantedType DEF WritesTypeOK
<1>2. \A i \in D : ops[i].weight \in Nat
  BY ChargedType DEF Metered
<1>3. /\ f \in [D -> Int] /\ h \in [D -> Int] /\ DOMAIN f = D
      /\ \A i \in D : f[i] <= h[i]
  BY <1>1, <1>2 DEF SponsoredGas, Granted
<1>4. SumFunction(SponsoredGas) = SumFunctionOnSet(f, D)
  BY <1>3 DEF SumFunction
<1> HIDE DEF D, f, h
<1>5. SumFunctionOnSet(f, D) <= SumFunctionOnSet(h, D) /\ SumFunctionOnSet(f, D) \in Int
  <2>1. D \subseteq D /\ D \in SUBSET D
    OBVIOUS
  <2> QED
    BY <1>1, <1>3, <2>1, SumGrows, SumStep
<1>6. /\ GrantedGas(ops) <= meter.usage + LeakPerTick * meter.updatedAt
      /\ meter.usage \in Nat /\ meter.usage <= Capacity /\ Capacity \in Nat
      /\ LeakPerTick * meter.updatedAt \in Nat /\ LeakPerTick * now \in Nat
      /\ LeakPerTick * meter.updatedAt <= LeakPerTick * now
  BY LeakBetween, WritesBounds DEF WritesTypeOK, Metered, Backed
<1> QED
  BY <1>1, <1>4, <1>5, <1>6 DEF WithinBudget

-----------------------------------------------------------------------------
(* The writes.  An operation that was dropped stays so, whatever happens to *)
(* the others.                                                              *)
LEMMA DroppedStays ==
  ASSUME WritesTypeOK, [WritesNext]_writeVars
  PROVE  /\ Len(ops') \in {Len(ops), Len(ops) + 1}
         /\ DOMAIN ops = 1 .. Len(ops) /\ DOMAIN ops' = 1 .. Len(ops')
         /\ \A i \in DOMAIN ops : ops[i].fate = "dropped" => ops'[i].fate = "dropped"
         /\ ~Build => Len(ops') = Len(ops)
<1>0. ops \in Seq(Op) /\ DOMAIN ops = 1 .. Len(ops) /\ Len(ops) \in Nat
  BY DEF WritesTypeOK
<1>1. CASE ops' = ops
  BY <1>0, <1>1
<1>2. CASE Build
  <2>1. /\ Len(ops') = Len(ops) + 1 /\ ops' \in Seq(Op)
        /\ \A i \in DOMAIN ops : ops'[i] = ops[i]
    BY <1>2, BuildOps
  <2>2. DOMAIN ops' = 1 .. Len(ops')
    BY <2>1
  <2> QED
    BY <1>0, <1>2, <2>1, <2>2
<1>3. ASSUME NEW i \in DOMAIN ops, NEW fate \in OpFates, ops' = [ops EXCEPT ![i].fate = fate],
             ops[i].fate # "dropped" \/ fate = "dropped"
      PROVE  /\ Len(ops') = Len(ops) /\ DOMAIN ops' = DOMAIN ops
             /\ \A j \in DOMAIN ops : ops[j].fate = "dropped" => ops'[j].fate = "dropped"
  <2>1. /\ Len(ops') = Len(ops) /\ DOMAIN ops' = DOMAIN ops
        /\ ops'[i] = [nonce |-> ops[i].nonce, weight |-> ops[i].weight,
                      sponsored |-> ops[i].sponsored, fate |-> fate]
        /\ \A j \in DOMAIN ops : j # i => ops'[j] = ops[j]
    BY <1>0, <1>3, NewFate
  <2> QED
    BY <1>3, <2>1
<1>4. CASE SponsoredSendFails
  <2>1. Current \in DOMAIN ops /\ "dropped" \in OpFates
    BY <1>4 DEF SponsoredSendFails, Building, Current, WritesTypeOK, OpFates
  <2>2. ops' = ops \/ ops' = [ops EXCEPT ![Current].fate = "dropped"]
    BY <1>4 DEF SponsoredSendFails
  <2> QED
    BY <1>0, <1>1, <1>3, <2>1, <2>2
<1>5. ASSUME NEW i \in DOMAIN ops, Inspect(i) \/ Accept(i)
      PROVE  /\ Len(ops') = Len(ops) /\ DOMAIN ops' = DOMAIN ops
             /\ \A j \in DOMAIN ops : ops[j].fate = "dropped" => ops'[j].fate = "dropped"
  <2>1. \E fate \in OpFates : ops' = [ops EXCEPT ![i].fate = fate]
    BY <1>5 DEF Inspect, Accept, OpFates
  <2>2. ops[i].fate # "dropped"
    BY <1>5 DEF Inspect, Accept
  <2> QED
    BY <1>3, <2>1, <2>2
<1>6. ASSUME NEW i \in DOMAIN ops, Execute(i)
      PROVE  /\ Len(ops') = Len(ops) /\ DOMAIN ops' = DOMAIN ops
             /\ \A j \in DOMAIN ops : ops[j].fate = "dropped" => ops'[j].fate = "dropped"
  BY <1>0, <1>6, ExecuteOps
<1>7. CASE Open \/ Acknowledge \/ Close \/ Returns \/ SendFails \/ Tick \/ Confirm
           \/ CommitFromMenu \/ UNCHANGED writeVars
           \/ \E opening \in 1 .. MaxOpenings : PreviewAnswers(opening)
  BY <1>1, <1>7 DEF Open, Acknowledge, Close, Returns, SendFails, Tick, Confirm,
                    CommitFromMenu, PreviewAnswers, writeVars
<1> QED
  BY <1>0, <1>2, <1>4, <1>5, <1>6, <1>7 DEF WritesNext

LEMMA NextTried == WritesTypeOK /\ Tried /\ [WritesNext]_writeVars => Tried'
<1> SUFFICES ASSUME WritesTypeOK, Tried, [WritesNext]_writeVars PROVE Tried'
  OBVIOUS
<1>0. /\ Len(ops) \in Nat /\ write.first \in Nat \ {0} /\ write.first <= Len(ops) + 1
      /\ DOMAIN ops = 1 .. Len(ops) /\ DOMAIN ops' = 1 .. Len(ops')
      /\ told.lostAnswer \in BOOLEAN
  BY DroppedStays DEF WritesTypeOK, Tried
\* The write does not move: what was dropped still is.
<1>1. CASE /\ Len(ops') = Len(ops) /\ write'.first = write.first
           /\ write'.step = "fallback" => write.step = "fallback"
           /\ told'.lostAnswer = told.lostAnswer
  BY <1>0, <1>1, DroppedStays DEF Tried
<1>2. CASE Open \/ Acknowledge \/ Close \/ Tick \/ UNCHANGED writeVars
           \/ (\E opening \in 1 .. MaxOpenings : PreviewAnswers(opening))
           \/ (\E i \in DOMAIN ops : Accept(i) \/ Execute(i))
  <2>1. write' = write /\ told' = told
    BY <1>2 DEF Open, Acknowledge, Close, Tick, writeVars, PreviewAnswers, Accept, Execute
  <2>2. Len(ops') = Len(ops)
    <3>1. ASSUME NEW i \in DOMAIN ops, Accept(i) PROVE Len(ops') = Len(ops)
      BY <3>1, NewFate DEF Accept, WritesTypeOK, OpFates
    <3>2. ASSUME NEW i \in DOMAIN ops, Execute(i) PROVE Len(ops') = Len(ops)
      BY <3>2, ExecuteOps DEF WritesTypeOK
    <3>3. CASE ops' = ops
      BY <3>3
    <3> QED
      BY <1>2, <3>1, <3>2, <3>3 DEF Open, Acknowledge, Close, Tick, writeVars, PreviewAnswers
  <2> QED
    BY <1>1, <2>1, <2>2
<1>3. ASSUME NEW i \in DOMAIN ops, Inspect(i) PROVE Tried'
  <2>1. write' = write /\ told'.lostAnswer = told.lostAnswer
    BY <1>3 DEF Inspect, WritesTypeOK
  <2>2. Len(ops') = Len(ops)
    <3>1. \E fate \in OpFates : ops' = [ops EXCEPT ![i].fate = fate]
      BY <1>3 DEF Inspect, OpFates
    <3> QED
      BY <3>1, NewFate DEF WritesTypeOK
  <2> QED
    BY <1>1, <2>1, <2>2
<1>4. CASE Returns \/ SendFails
  <2>1. write'.first = write.first /\ write'.step = "none" /\ told' = told /\ ops' = ops
    BY <1>4 DEF Returns, SendFails, Finish, WritesTypeOK
  <2> QED
    BY <1>1, <2>1
<1>5. CASE Confirm \/ CommitFromMenu
  <2>1. write'.first = Len(ops) + 1 /\ ops' = ops
    BY <1>5 DEF Confirm, CommitFromMenu
  <2> QED
    BY <1>0, <2>1 DEF Tried
<1>6. CASE Build
  <2>1. /\ write'.first = write.first /\ write'.step # "fallback"
        /\ told' = told
        /\ write.first = Len(ops) + 1 \/ write.step = "fallback"
    BY <1>0, <1>6 DEF Build, Building, Falling, WritesTypeOK
  <2>2. Len(ops') = Len(ops) + 1
    BY <1>6, BuildOps
  <2>3. \A i \in DOMAIN ops : ops[i].fate = "dropped" => ops'[i].fate = "dropped"
    BY DroppedStays
  <2>4. CASE write.first = Len(ops) + 1
    BY <1>0, <2>1, <2>2, <2>4 DEF Tried
  <2>5. CASE write.step = "fallback"
    BY <1>0, <2>1, <2>2, <2>3, <2>5 DEF Tried
  <2> QED
    BY <2>1, <2>4, <2>5
<1>7. CASE SponsoredSendFails
  <2>1. PICK reason \in {"rejected", "declined", "lost"} :
          /\ Finish(IF FallsBack(reason) THEN "fallback" ELSE "none")
          /\ ops' = IF reason = "lost" THEN ops
                    ELSE [ops EXCEPT ![Current].fate = "dropped"]
          /\ told' = [told EXCEPT !.lostAnswer = @ \/ reason = "lost"]
    BY <1>7 DEF SponsoredSendFails
  <2>2. write'.first = write.first
    BY <2>1 DEF Finish, WritesTypeOK
  <2>3. CASE reason = "lost"
    <3>1. told'.lostAnswer
      BY <2>1, <2>3 DEF WritesTypeOK
    <3>2. Len(ops') = Len(ops)
      BY <2>1, <2>3
    <3> QED
      BY <1>0, <2>2, <3>1, <3>2 DEF Tried
  <2>4. CASE reason # "lost"
    <3>1. Current \in DOMAIN ops /\ ops \in Seq(Op) /\ "dropped" \in OpFates
      BY <1>7 DEF SponsoredSendFails, Building, Current, WritesTypeOK, OpFates
    <3>2. /\ Len(ops') = Len(ops)
          /\ ops'[Current] = [nonce |-> ops[Current].nonce, weight |-> ops[Current].weight,
                        sponsored |-> ops[Current].sponsored, fate |-> "dropped"]
      BY <2>1, <2>4, <3>1, NewFate
    <3>3. ops'[Len(ops)].fate = "dropped"
      BY <3>2 DEF Current
    <3>4. told'.lostAnswer = told.lostAnswer
      BY <2>1, <2>4 DEF WritesTypeOK
    <3> QED
      BY <1>0, <2>2, <3>2, <3>3, <3>4, DroppedStays DEF Tried
  <2> QED
    BY <2>3, <2>4
<1> QED
  BY <1>2, <1>3, <1>4, <1>5, <1>6, <1>7 DEF WritesNext

(* What executed of a write is its last operation. *)
LEMMA TriedOnce == WritesTypeOK /\ Tried => ExecutedOnce
<1> SUFFICES ASSUME WritesTypeOK, Tried, ~told.lostAnswer
             PROVE  ~(Cardinality(ExecutedNow) > 1)
  BY DEF ExecutedOnce
<1>1. DOMAIN ops = 1 .. Len(ops) /\ Len(ops) \in Nat
  BY DEF WritesTypeOK
<1>2. ExecutedNow \subseteq {Len(ops)}
  BY <1>1 DEF ExecutedNow, Tried
<1>3. IsFiniteSet({Len(ops)}) /\ Cardinality({Len(ops)}) = 1
  BY FS_Singleton
<1>4. Cardinality(ExecutedNow) <= 1 /\ Cardinality(ExecutedNow) \in Nat
  BY <1>2, <1>3, FS_Subset, FS_CardinalityType
<1> QED
  BY <1>4

(* Only the answer to the opening on screen becomes its fee. *)
LEMMA NextFee ==
  WritesTypeOK /\ FeeIsOfThisOpening /\ [WritesNext]_writeVars => FeeIsOfThisOpening'
<1> SUFFICES ASSUME WritesTypeOK, FeeIsOfThisOpening, [WritesNext]_writeVars
             PROVE  FeeIsOfThisOpening'
  OBVIOUS
<1>1. CASE UNCHANGED dialog
  BY <1>1 DEF FeeIsOfThisOpening
<1>2. CASE Open
  BY <1>2 DEF Open, FeeIsOfThisOpening
<1>3. CASE Acknowledge \/ Close \/ Confirm
  BY <1>3 DEF Acknowledge, Close, Confirm, FeeIsOfThisOpening, WritesTypeOK
<1>4. CASE CommitFromMenu
  BY <1>4 DEF CommitFromMenu, FeeIsOfThisOpening, WritesTypeOK
<1>5. ASSUME NEW opening \in 1 .. MaxOpenings, PreviewAnswers(opening)
      PROVE  FeeIsOfThisOpening'
  <2>1. PICK fee \in Fees \cup {"error"} :
          dialog' =
            IF Cancelled(opening) THEN dialog
            ELSE [dialog EXCEPT !.loading = FALSE, !.error = fee = "error",
                                !.fee = IF fee = "error" THEN NoFee ELSE fee,
                                !.of = opening]
    BY <1>5 DEF PreviewAnswers
  <2>2. CASE Cancelled(opening)
    BY <1>1, <2>1, <2>2
  <2>3. CASE ~Cancelled(opening)
    <3>1. dialog'.of = opening /\ dialog'.opening = dialog.opening
      BY <2>1, <2>3 DEF WritesTypeOK
    <3>2. dialog.opening = opening
      BY <2>3 DEF Cancelled
    <3> QED
      BY <3>1, <3>2 DEF FeeIsOfThisOpening
  <2> QED
    BY <2>2, <2>3
<1>6. CASE Build \/ Returns \/ SponsoredSendFails \/ SendFails \/ Tick \/ UNCHANGED writeVars
           \/ \E i \in DOMAIN ops : Inspect(i) \/ Accept(i) \/ Execute(i)
  BY <1>1, <1>6 DEF Build, Returns, SponsoredSendFails, SendFails, Tick, writeVars,
                    Inspect, Accept, Execute
<1> QED
  BY <1>2, <1>3, <1>4, <1>5, <1>6 DEF WritesNext

-----------------------------------------------------------------------------
LEMMA NextWritesIInv == WritesIInv /\ [WritesNext]_writeVars => WritesIInv'
<1>1. WritesIInv => Backed
  BY DEF WritesIInv, Metered
<1> QED
  BY <1>1, NextWritesTypeOK, NextMetered, NextTried, NextFee DEF WritesIInv

(* The bucket bounds the gas that is sponsored for a member by a full      *)
(* bucket and what has leaked since, and an operation is charged again     *)
(* only after its decision was forgotten, in whatever order the paymaster  *)
(* asks and repeats itself (rate_limiter.py).                              *)
THEOREM BucketAlwaysHolds == WritesSpec => []BucketHolds
<1>1. WritesIInv => BucketHolds
  BY MeteredWithinBudget DEF WritesIInv, BucketHolds, Metered
<1> QED
  BY <1>1, InitWritesIInv, NextWritesIInv, PTL DEF WritesSpec

(* What a member confirms once executes once, the fallback to a self-funded *)
(* operation included, unless the answer to the sponsored one was lost      *)
(* (useContractWrite.ts).                                                   *)
THEOREM AlwaysExecutedOnce == WritesSpec => []ExecutedOnce
<1>1. WritesIInv => ExecutedOnce
  BY TriedOnce DEF WritesIInv
<1> QED
  BY <1>1, InitWritesIInv, NextWritesIInv, PTL DEF WritesSpec

(* A fee on screen was estimated for this opening of the dialog, however   *)
(* late the estimates of earlier openings come (CreditActionPanel).        *)
THEOREM FeeAlwaysOfThisOpening == WritesSpec => []FeeIsOfThisOpening
<1>1. WritesIInv => FeeIsOfThisOpening
  BY DEF WritesIInv
<1> QED
  BY <1>1, InitWritesIInv, NextWritesIInv, PTL DEF WritesSpec

=============================================================================
