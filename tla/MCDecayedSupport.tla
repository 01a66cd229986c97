-------------------------- MODULE MCDecayedSupport --------------------------
(* Instance for TLC: a half-life of four seconds needs the two multipliers *)
(* floor(2^(-2/4) * 2^8) and floor(2^(-1/4) * 2^8); a word of 18 bits is   *)
(* short enough for the second multiplication to need the pre-shift.       *)
EXTENDS DecayedSupport

MCDecayMultipliers ==
  << [seconds |-> 2, multiplier |-> 181], [seconds |-> 1, multiplier |-> 215] >>

=============================================================================
