-------------------------- MODULE MCMemberAccount ---------------------------
(***************************************************************************)
(* Instances of MemberAccount for TLC, with a half-life of two seconds.    *)
(***************************************************************************)
EXTENDS MemberAccount

D == INSTANCE DecayUtils WITH
       HALF_LIFE_SECONDS <- 2, UINT_BITS <- 20, DECAY_MULTIPLIER_BITS <- 8,
       DecayMultipliers <- << [seconds |-> 1, multiplier |-> 181] >>

(* A table, so that TLC evaluates each decay once. *)
Decays == [v \in Supports, t \in Elapsed |-> D!approxDecay(v, t)]

MCApproxDecay(v, t) == Decays[v, t]

Adjusting(types, values) ==
  [statementId : StatementIds, value : values, adjustmentType : types]

(* Stake on any statement, move and withdraw, several in one call. *)
CallAdjustments ==
  Adjusting({"SetTo"}, {4})
    \cup [statementId : {0}, value : {-3}, adjustmentType : {"Delta"}]
    \cup [statementId : {1, 2}, value : {0}, adjustmentType : {"SetTo"}]
CallInitialSupports == {3}

=============================================================================
