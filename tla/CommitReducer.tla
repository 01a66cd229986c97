---------------------------- MODULE CommitReducer ----------------------------
(***************************************************************************)
(* The reducer of the client's support state (state/UserVotes.tsx) as far  *)
(* as a commit's life is concerned.  A state s is a record; an operator of *)
(* this module is one case of the reducer and returns the next state.      *)
(* What is staged is a set of edits: an adjustment of one statement, or a  *)
(* new statement.  Their amounts are the subject of module Staging.        *)
(*                                                                         *)
(* Clocks stand for values of the account's lastUpdated; the copy of the   *)
(* supports is named by the clock at which it was read.                    *)
(***************************************************************************)
EXTENDS Integers

CONSTANTS
    Edits,      \* everything the member will ever stage
    Clocks,     \* values of lastUpdated
    Hashes,     \* transaction hashes
    None        \* no value: nothing staged yet, no record in storage

Undefined == -1

ASSUME EditsAssumption == \A edits \in SUBSET Edits : edits # None
ASSUME ClocksAssumption == Clocks \subseteq Nat /\ Hashes \subseteq Nat

InFlight == {"awaiting-approval", "pending-confirmation"}
Terminal == {"confirmed", "cancelled", "error"}
CommitStatus == {"idle"} \cup InFlight \cup Terminal

MaybeClock == Clocks \cup {Undefined}

UserSupportState ==
    [lastUpdated : MaybeClock,           \* onChain.lastUpdated
     support     : MaybeClock,           \* the supports' and the balance's
     staged      : {None} \cup SUBSET Edits,   \* None before the first sync
     baseline    : MaybeClock,           \* stagedBaselineLastUpdated
     status      : CommitStatus,
     pendingTx   : Hashes \cup {Undefined},
     submittedFrom : MaybeClock,         \* submittedFromLastUpdated
     isOutdated  : BOOLEAN]

InitialState ==
    [lastUpdated |-> Undefined, support |-> Undefined, staged |-> None,
     baseline |-> Undefined, status |-> "idle", pendingTx |-> Undefined,
     submittedFrom |-> Undefined, isOutdated |-> FALSE]

StagedHasContent(s) == s.staged \notin {None, {}}

----------------------------------------------------------------------------
(* SYNC_ONCHAIN_STATE.  The clock that moves past the one a commit was     *)
(* submitted at says that the commit has landed; one that moves past the   *)
(* baseline of the staged edits says that somebody else wrote.             *)

\* A slip: the clock a commit was submitted at counts as past it.
OurCommitLandedAtOnce(s, clock) ==
    s.submittedFrom # Undefined /\ clock >= s.submittedFrom

OurCommitLanded(s, clock) ==
    s.submittedFrom # Undefined /\ clock > s.submittedFrom

ChangedElsewhere(s, clock) ==
    /\ StagedHasContent(s)
    /\ s.submittedFrom = Undefined
    /\ s.baseline # Undefined
    /\ clock > s.baseline

Reconciled(s, clock) ==
    IF OurCommitLanded(s, clock)
    THEN [s EXCEPT !.staged = {}, !.submittedFrom = Undefined,
                   !.pendingTx = Undefined, !.isOutdated = FALSE,
                   !.status = "confirmed"]
    ELSE [s EXCEPT !.staged = IF @ = None THEN {} ELSE @,
                   !.isOutdated = @ \/ ChangedElsewhere(s, clock)]

SyncOnChainState(s, support, clock) ==
    LET t == [Reconciled(s, clock) EXCEPT !.support = support,
                                          !.lastUpdated = clock]
    IN  [t EXCEPT !.baseline = IF StagedHasContent(t) THEN @ ELSE clock]

----------------------------------------------------------------------------
(* STAGE_*, UNSTAGE_STATEMENT and a zero adjustment: an edit comes or goes *)
StageEdit(s, e) == [s EXCEPT !.staged = @ \cup {e}]
UnstageEdit(s, e) == [s EXCEPT !.staged = @ \ {e}]

\* CLEAR_STAGED_SUPPORT and ABANDON_OUTDATED_CHANGES
ClearStaged(s) ==
    [s EXCEPT !.staged = {}, !.isOutdated = FALSE, !.baseline = s.lastUpdated]

KeepOutdatedChanges(s) ==
    [s EXCEPT !.isOutdated = FALSE, !.baseline = s.lastUpdated]

BeginCommit(s, kind) ==
    [s EXCEPT !.status = IF kind = "external" THEN "awaiting-approval"
                                              ELSE "pending-confirmation"]

CommitSubmitted(s, hash) ==
    [s EXCEPT !.status = "pending-confirmation", !.pendingTx = hash,
              !.submittedFrom = s.lastUpdated, !.isOutdated = FALSE]

RestorePendingCommit(s, saved) ==
    [s EXCEPT !.pendingTx = saved.hash, !.submittedFrom = saved.submittedFrom,
              !.status = "pending-confirmation"]

StopWatching(s, status) ==
    [s EXCEPT !.status = status, !.pendingTx = Undefined,
              !.submittedFrom = Undefined]

CommitReverted(s) == StopWatching(s, "error")
CommitCancelled(s) == StopWatching(s, "cancelled")
ResetCommitStatus(s) == StopWatching(s, "idle")
CommitError(s) == [s EXCEPT !.status = "error"]

RestoreStaged(s, saved) ==
    IF s.staged = None THEN s
    ELSE [s EXCEPT !.staged = saved.staged,
                   !.baseline = IF saved.baseline = Undefined THEN @
                                ELSE saved.baseline]
=============================================================================
