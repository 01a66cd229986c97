----------------------------- MODULE MCUserVotes -----------------------------
(* Two edits, two forums and at most two commits of the tab; with one edit *)
(* two out of a reload, a switch of forums and a call from another device, *)
(* with both edits one of the three.                                       *)
EXTENDS UserVotes

CONSTANTS e1, e2, here, there

TwoForums == {here, there}
AllHere == [e \in Edits |-> here]

MCClocks == 0 .. MaxCommits + MaxForeign
MCHashes == 1 .. MaxCommits

\* Nothing is claimed of what follows an excuse.
\* The edits are alike, so that it does not matter which is made first.
Unexcused ==
    /\ history.excuses = {}
    /\ e2 \in history.made => e1 \in history.made
    /\ Cardinality(history.made) + history.reloads + history.switches
           + history.foreign <= 3
=============================================================================
