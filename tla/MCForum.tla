------------------------------ MODULE MCForum -------------------------------
(***************************************************************************)
(* An instance of Forum for TLC: two members, one registered before the    *)
(* forum is deployed and one with its first block.  The half-life is two   *)
(* seconds.                                                                *)
(***************************************************************************)
EXTENDS Forum

CONSTANTS alice, bob

D == INSTANCE DecayUtils WITH
       HALF_LIFE_SECONDS <- 2, UINT_BITS <- 20, DECAY_MULTIPLIER_BITS <- 8,
       DecayMultipliers <- << [seconds |-> 1, multiplier |-> 181] >>

(* A table, so that TLC evaluates each decay once. *)
Decays == [v \in Statement!Supports, t \in Statement!Elapsed |-> D!approxDecay(v, t)]

MCApproxDecay(v, t) == Decays[v, t]

MCUsers == {alice, bob}
MCRegistrationTimestamp == [u \in MCUsers |-> IF u = alice THEN 1 ELSE 2]

(* Calls of both members on several statements.  2 and 1 round both ways:  *)
(* a stored 2 shows 1 after one second and still after two.                *)
CallInitialSupports == {0, 2}
CallAdjustments ==
  [statementId : 0..(MaxStatements - 1), value : {2}, adjustmentType : {"SetTo"}]
    \cup [statementId : {0}, value : {-1}, adjustmentType : {"Delta"}]

=============================================================================
