------------------------------ MODULE MCCommits ------------------------------
(***************************************************************************)
(* A member's commit, in two parts that share no state: a behaviour        *)
(* follows the amounts that are staged (StagedVotes) or the way from the   *)
(* dialog to the chain (ContractWrites).  The amounts are supports of      *)
(* whole and of half credits, two parts to a credit.                       *)
(***************************************************************************)
EXTENDS StagedVotes, ContractWrites

VARIABLE followed      \* "amounts" or "writes"

\* Decay is not read from the table here: a support fades by the action Fade.
MCApproxDecay(value, elapsed) == value

MCStartSupports == {<<3, 0>>, <<-3, 1>>}
MCStartCredits == {5}

----------------------------------------------------------------------------
MCVars == <<stagingVars, writeVars, followed>>

\* The part that is not followed rests in one of its initial states.
MCInit ==
    /\ StagingInit /\ WritesInit /\ followed \in {"amounts", "writes"}
    /\ followed = "writes" => account.supports = <<3, 0>>
    /\ followed = "amounts" => wallet = "smart" /\ policy

OfAmounts(action) == followed = "amounts" /\ action /\ UNCHANGED <<writeVars, followed>>
OfWrites(action) == followed = "writes" /\ action /\ UNCHANGED <<stagingVars, followed>>

MCSpec ==
    /\ MCInit /\ [][OfAmounts(StagingNext) \/ OfWrites(WritesNext)]_MCVars
    /\ \A opening \in 1 .. MaxOpenings : WF_MCVars(OfWrites(PreviewAnswers(opening)))

=============================================================================
