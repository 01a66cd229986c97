----------------------------- MODULE StagedVotes -----------------------------
(***************************************************************************)
(* What a member stages in the client and what it costs: the amounts       *)
(* behind the edits of module CommitReducer (state/UserVotes.tsx), the     *)
(* cards and forms that make them, and the credit bar that shows them,     *)
(* against the charge the forum makes for the same multicall.              *)
(*                                                                         *)
(* The client reckons with fractions of a part, the forum rounds every     *)
(* cost down.  Costs of the client are kept here in units of               *)
(* 1 / (2 creditMultiplier) of a part, in which they are integers.         *)
(***************************************************************************)
EXTENDS UserSupports, FiniteSets, Functions

CONSTANTS
    MaxListed,      \* statements of the forum, new ones included
    MaxShown,       \* the largest support, in credits, a card is set to
    StartSupports,  \* what the member supports at first: sets of sequences
    StartCredits,
    MaxMoves,       \* fadings and commits: moves of the account
    MaxStaged       \* changes staged at a time

ASSUME StagingBounds ==
    /\ {MaxListed, MaxShown, MaxMoves, MaxStaged} \subseteq Nat
    /\ StartCredits \subseteq Nat
    /\ \A supports \in StartSupports :
          supports \in Seq(Supports) /\ Len(supports) <= MaxListed

VARIABLES
    account,      \* the forum's side: supports, by statement, and credits
    onChain,      \* the client's copy of it
    adjustments,  \* staged.supportAdjustments, a function of some statements
    statements,   \* staged.stagedStatements: their initial supports
    draft,        \* the form for a new statement: open, and its support
    asked,        \* the support, in credits, last asked for on a card
    moves         \* counts the moves of the account

stagingVars == <<account, onChain, adjustments, statements, draft, asked, moves>>

NotAsked == [card |-> 0, credits |-> 0]

SupportAdjustment == [type : {"Delta", "SetTo"}, value : Int]

StagingInit ==
    /\ account \in [supports : StartSupports, credits : StartCredits]
    /\ onChain = account
    /\ adjustments = <<>>
    /\ statements = <<>>
    /\ draft = [open |-> FALSE, support |-> 0]
    /\ asked = NotAsked
    /\ moves = 0

Statements == DOMAIN onChain.supports

----------------------------------------------------------------------------
(* Arithmetic of the client                                                *)

Unit == 2 * creditMultiplier
Triangle(x) == Abs(x) * (Abs(x) + creditMultiplier)

\* The largest support, in parts, that costs no more than this.
InverseTriangle(cost) ==
    CHOOSE x \in 0 .. cost : Triangle(x) <= cost /\ Triangle(x + 1) > cost

AdjustmentCost(from, to) == Triangle(to) - Triangle(from)

\* Math.round of parts / creditMultiplier: halves are rounded up.
ToCredits(parts) == (2 * parts + creditMultiplier) \div Unit

ToParts(credits) == credits * creditMultiplier

AllocatedCredits(credits) == (Abs(credits) * (Abs(credits) + 1)) \div 2

GetAdjustedSupport(old, adjustment) ==
    IF adjustment.type = "SetTo" THEN adjustment.value ELSE old + adjustment.value

GetEffectiveSupport(s) ==
    IF s \in DOMAIN adjustments
    THEN GetAdjustedSupport(onChain.supports[s], adjustments[s])
    ELSE onChain.supports[s]

\* What a card shows of a statement, in credits.
Shown(s) == ToCredits(GetEffectiveSupport(s))

TotalOf(f) == FoldFunction(+, 0, f)

AdjustmentsCost ==
    TotalOf([s \in DOMAIN adjustments |->
        AdjustmentCost(onChain.supports[s], GetEffectiveSupport(s))])

\* A slip: the cost of new statements is left out.
StatementsCostForgotten == 0

StatementsCost == TotalOf([i \in DOMAIN statements |-> Triangle(statements[i])])

PendingDraftCost ==
    IF draft.open THEN Unit * ToParts(AllocatedCredits(draft.support)) ELSE 0

\* staged.credits, as the reducer leaves it after every action.
StagedCredits ==
    Unit * onChain.credits - AdjustmentsCost - StatementsCost - PendingDraftCost

HasStagedChanges == DOMAIN adjustments # {} \/ statements # <<>>
HasEnoughCredits == StagedCredits >= 0

----------------------------------------------------------------------------
(* Staging                                                                 *)

Without(f, s) == [x \in DOMAIN f \ {s} |-> f[x]]

\* setStagedSupportAdjustment: what changes nothing is not staged.
WithAdjustment(f, s, adjustment) ==
    IF GetAdjustedSupport(onChain.supports[s], adjustment) = onChain.supports[s]
    THEN Without(f, s)
    ELSE [x \in DOMAIN f \cup {s} |-> IF x = s THEN adjustment ELSE f[x]]

SetTo(value) == [type |-> "SetTo", value |-> value]
Delta(value) == [type |-> "Delta", value |-> value]

\* The buttons of a card step the support that is shown, or clear it.
VoteToggle(shown) ==
    {n \in {shown - 1, shown + 1} \cup (IF shown # 0 THEN {0} ELSE {}) :
        n \in -MaxShown .. MaxShown}

\* A slip: the difference is taken from the support shown, not from the one on
\* chain.
SupportChangeFromShown(s, credits) ==
    IF credits = 0 THEN SetTo(0) ELSE Delta(ToParts(credits - Shown(s)))

SupportChange(s, credits) ==
    IF credits = 0 THEN SetTo(0)
    ELSE Delta(ToParts(credits - ToCredits(onChain.supports[s])))

Room == Cardinality(DOMAIN adjustments') + Len(statements') <= MaxStaged

StageUserSupport(s) ==
    \E credits \in VoteToggle(Shown(s)) :
        /\ adjustments' = WithAdjustment(adjustments, s, SupportChange(s, credits))
        /\ asked' = [card |-> s, credits |-> credits]
        /\ UNCHANGED <<account, onChain, statements, draft, moves>>
        /\ Room

\* The tab on the corner of a card with a staged change.
ClearStagedSupport(s) ==
    /\ s \in DOMAIN adjustments
    /\ adjustments' = WithAdjustment(adjustments, s, Delta(0))
    /\ asked' = NotAsked
    /\ UNCHANGED <<account, onChain, statements, draft, moves>>

SignOf(x) == IF x > 0 THEN 1 ELSE IF x < 0 THEN -1 ELSE 0

SwitchSupport(s, t) ==
    LET source == GetEffectiveSupport(s)
        target == GetEffectiveSupport(t)
        merged == SignOf(source) * InverseTriangle(Triangle(source) + Triangle(target))
    IN  /\ s # t
        /\ source # 0
        /\ target # 0 => SignOf(target) = SignOf(source)
        /\ adjustments' = WithAdjustment(WithAdjustment(adjustments, s, SetTo(0)),
                              t, Delta(merged - onChain.supports[t]))
        /\ asked' = NotAsked
        /\ UNCHANGED <<account, onChain, statements, draft, moves>>
        /\ Room

OpenForm ==
    /\ ~draft.open
    /\ draft' = [open |-> TRUE, support |-> 0]
    /\ UNCHANGED <<account, onChain, adjustments, statements, asked, moves>>

ChangeDraft ==
    /\ draft.open
    /\ \E n \in VoteToggle(draft.support) : draft' = [draft EXCEPT !.support = n]
    /\ UNCHANGED <<account, onChain, adjustments, statements, asked, moves>>

CloseForm == draft' = [open |-> FALSE, support |-> 0]

\* Cancel, or leaving the page.
CancelForm ==
    /\ draft.open
    /\ CloseForm
    /\ UNCHANGED <<account, onChain, adjustments, statements, asked, moves>>

\* Create
StageStatement ==
    /\ draft.open
    /\ Len(account.supports) + Len(statements) < MaxListed
    /\ CloseForm
    /\ statements' = Append(statements, ToParts(draft.support))
    /\ UNCHANGED <<account, onChain, adjustments, asked, moves>>
    /\ Room

UpdateStagedInitialSupport(i) ==
    /\ \E n \in VoteToggle(ToCredits(statements[i])) :
          statements' = [statements EXCEPT ![i] = ToParts(n)]
    /\ UNCHANGED <<account, onChain, adjustments, draft, asked, moves>>

UnstageStatement(i) ==
    /\ statements' = SubSeq(statements, 1, i - 1)
                         \o SubSeq(statements, i + 1, Len(statements))
    /\ UNCHANGED <<account, onChain, adjustments, draft, asked, moves>>

NothingStaged ==
    /\ adjustments' = <<>> /\ statements' = <<>>
    /\ asked' = NotAsked

ResetStaged ==
    /\ HasStagedChanges
    /\ NothingStaged
    /\ UNCHANGED <<account, onChain, draft, moves>>

----------------------------------------------------------------------------
(* The forum.  A multicall adds the staged statements, each of which has   *)
(* to be paid for, and then makes all adjustments in one call of           *)
(* adjustSupport.                                                          *)

NewSupport(s) ==
    IF s \in DOMAIN adjustments
    THEN GetAdjustedSupport(account.supports[s], adjustments[s])
    ELSE account.supports[s]

StatementsCharge ==
    TotalOf([i \in DOMAIN statements |-> CostOfUserSupport(statements[i])])

AdjustmentsCharge ==
    Settle(TotalOf([s \in DOMAIN adjustments |->
        CostOfUserSupport(NewSupport(s)) - CostOfUserSupport(account.supports[s])]))

Accepted ==
    /\ StatementsCharge <= account.credits
    /\ StatementsCharge + AdjustmentsCharge <= account.credits

ForumCharges ==
    [supports |-> [s \in DOMAIN account.supports |-> NewSupport(s)] \o statements,
     credits |-> account.credits - StatementsCharge - AdjustmentsCharge]

\* The commit, and the sync that takes it for landed; rejected, it leaves
\* everything as it was.
CommitStaged ==
    /\ HasStagedChanges /\ HasEnoughCredits
    /\ Accepted
    /\ account' = ForumCharges
    /\ onChain' = ForumCharges
    /\ NothingStaged
    /\ moves < MaxMoves
    /\ moves' = moves + 1
    /\ UNCHANGED draft

\* Support decays towards nothing on the chain, and the client sees it later.
Fade(s) ==
    /\ moves < MaxMoves
    /\ account.supports[s] # 0
    /\ account' = [account EXCEPT !.supports[s] = @ - SignOf(@)]
    /\ moves' = moves + 1
    /\ UNCHANGED <<onChain, adjustments, statements, draft, asked>>

SyncAccount ==
    /\ onChain # account
    /\ onChain' = account
    /\ asked' = NotAsked
    /\ UNCHANGED <<account, adjustments, statements, draft, moves>>

StagingNext ==
    \/ \E s \in Statements : StageUserSupport(s) \/ ClearStagedSupport(s) \/ Fade(s)
    \/ \E s, t \in Statements : SwitchSupport(s, t)
    \/ OpenForm \/ ChangeDraft \/ CancelForm \/ StageStatement
    \/ \E i \in DOMAIN statements : UpdateStagedInitialSupport(i) \/ UnstageStatement(i)
    \/ ResetStaged \/ CommitStaged \/ SyncAccount

StagingSpec == StagingInit /\ [][StagingNext]_stagingVars

----------------------------------------------------------------------------
(* The credit bar (hooks/useCreditAllocation.ts) adds the same changes up  *)
(* by itself.                                                              *)

Increases ==
    TotalOf([s \in DOMAIN adjustments |->
        LET cost == AdjustmentCost(onChain.supports[s], GetEffectiveSupport(s))
        IN  IF cost > 0 THEN cost ELSE 0])
    + StatementsCost + PendingDraftCost

Decreases ==
    TotalOf([s \in DOMAIN adjustments |->
        LET cost == AdjustmentCost(onChain.supports[s], GetEffectiveSupport(s))
        IN  IF cost < 0 THEN -cost ELSE 0])

CommittedCost ==
    TotalOf([s \in Statements |-> Triangle(onChain.supports[s])])

CreditAllocation ==
    LET net == Increases - Decreases
    IN  IF net >= 0
        THEN [allocated |-> CommittedCost, staged |-> net,
              unallocated |-> Unit * onChain.credits - net]
        ELSE [allocated |-> CommittedCost + net, staged |-> -net,
              unallocated |-> Unit * onChain.credits]

----------------------------------------------------------------------------
(* Properties *)

StagingTypeOK ==
    /\ adjustments \in [DOMAIN adjustments -> SupportAdjustment]
    /\ DOMAIN adjustments \subseteq Statements
    /\ draft \in [open : BOOLEAN, support : -MaxShown .. MaxShown]
    /\ account.credits \in Nat

\* A card shows the number the member asked for, also when the support on
\* chain has decayed to a fraction of a credit (StatementCard's
\* handleSupportChange rounds what is on chain, and the card what it shows).
CardShowsWhatWasAsked ==
    asked # NotAsked => Shown(asked.card) = asked.credits

\* If the client says that the credits suffice, the forum accepts the commit:
\* when the client's copy is current, with a part to spare for each adjustment
\* beyond the first (the forum rounds each cost by itself), and unless new
\* statements are to be paid with what the adjustments return.
EnoughMeansAccepted ==
    /\ HasStagedChanges
    /\ onChain = account
    /\ StagedCredits >= Unit * (Cardinality(DOMAIN adjustments) - 1)
    /\ HasEnoughCredits
    /\ statements = <<>> \/ AdjustmentsCost >= 0
    => Accepted

\* The bar shows what the reducer leaves: what is free after the pending
\* changes is the same amount, however increases, decreases, new statements
\* and a draft net out.
BarAgrees ==
    LET bar == CreditAllocation
    IN  /\ bar.allocated >= 0
        /\ StagedCredits = bar.unallocated
              + (IF Increases < Decreases THEN bar.staged ELSE 0)

\* What the panel shows as left before a commit is what is left after it, up
\* to the rounding of each cost, unless there is a net refund, of which the
\* forum keeps a share that the client does not show.
LeftIsAsShown ==
    /\ onChain = account /\ ~draft.open
    /\ HasStagedChanges /\ Accepted
    /\ AdjustmentsCost >= 0 /\ AdjustmentsCharge >= 0
    => Abs(Unit * ForumCharges.credits - StagedCredits)
           < Unit * (Cardinality(DOMAIN adjustments) + Len(statements))

\* Whatever the client says of credits, the bar, the panel and the button, is
\* what the forum will do.
CreditsAreHonest == StagingTypeOK /\ EnoughMeansAccepted /\ BarAgrees /\ LeftIsAsShown

=============================================================================
