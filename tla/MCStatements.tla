---------------------------- MODULE MCStatements ----------------------------
(***************************************************************************)
(* Instances of Statements for TLC.  Amounts are a handful of credits and  *)
(* the half-life is two seconds, so the table has the one multiplier       *)
(* floor(2^(-1/2) * 2^8).                                                  *)
(***************************************************************************)
EXTENDS RankingHistory

D == INSTANCE DecayUtils WITH
       HALF_LIFE_SECONDS <- 2, UINT_BITS <- 20, DECAY_MULTIPLIER_BITS <- 8,
       DecayMultipliers <- << [seconds |-> 1, multiplier |-> 181] >>

(* A table, so that TLC evaluates each decay once. *)
Decays == [v \in Supports, t \in Elapsed |-> D!approxDecay(v, t)]

MCApproxDecay(v, t) == Decays[v, t]

(* Ranking: rise, sink, fall below the bar, be pushed out.  A tick is half *)
(* a half-life, after which supports of different ages round differently:  *)
(* a stored 2 shows 1 after one tick and after three, a fresh 1 shows 0    *)
(* after two.                                                              *)
RankInitialSupports == {0, 3}
RankChanges == [statementId : StatementIds, change : {-1, 2}]

(* Rounding: 5 shows 4 and then 2, where a fresh 4 shows 3. *)
RoundingInitialSupports == {0, 5}

=============================================================================
