----------------------------- MODULE DecayUtils -----------------------------
(***************************************************************************)
(* DecayUtils.sol: fixed-point exponential decay of a signed amount.       *)
(*                                                                         *)
(* The contract works on 256-bit words with twenty 64-bit multipliers and  *)
(* a half-life of 604800 seconds.  Every one of those numbers is a         *)
(* constant here, so that TLC can evaluate the same algorithm on a scaled  *)
(* table: the shape of the computation (halvings by a right shift, one     *)
(* multiplication per set bit of the remaining time, the pre-shift that    *)
(* keeps the product inside the word, one rounding shift at the end) is    *)
(* the contract's.                                                         *)
(***************************************************************************)
EXTENDS Integers, Sequences

CONSTANTS
  HALF_LIFE_SECONDS,      \* seconds after which an amount has halved
  UINT_BITS,              \* width of a word
  DECAY_MULTIPLIER_BITS,  \* width of a multiplier
  DecayMultipliers        \* <<[seconds, multiplier], ...>>, longest time first

(* Two to the power of n. *)
TwoTo[n \in Nat] == IF n = 0 THEN 1 ELSE 2 * TwoTo[n - 1]

ASSUME DecayTableAssumption ==
  /\ HALF_LIFE_SECONDS \in Nat \ {0}
  /\ DECAY_MULTIPLIER_BITS \in Nat \ {0}
  /\ UINT_BITS \in Nat /\ UINT_BITS > DECAY_MULTIPLIER_BITS
  /\ DecayMultipliers \in Seq([seconds : Nat, multiplier : Nat])
  /\ \A i \in 1..Len(DecayMultipliers) :
       /\ DecayMultipliers[i].seconds = TwoTo[Len(DecayMultipliers) - i]
       /\ DecayMultipliers[i].multiplier \in 1..(TwoTo[DECAY_MULTIPLIER_BITS] - 1)
  /\ TwoTo[Len(DecayMultipliers)] >= HALF_LIFE_SECONDS

-----------------------------------------------------------------------------
ShiftRight(value, bits) == value \div TwoTo[bits]

(* Math.log2(value) + 1 of a positive value. *)
BitLength(value) ==
  CHOOSE n \in 1..UINT_BITS : TwoTo[n - 1] <= value /\ value < TwoTo[n]

(* A slip: the bits that were shifted out early are shifted out again. *)
ApplyMultiplierShiftingAgain(acc, entry) ==
  LET wanted == acc.bitsUsed + DECAY_MULTIPLIER_BITS
      overflow == IF wanted > UINT_BITS THEN wanted - UINT_BITS ELSE 0
  IN  IF acc.elapsed < entry.seconds
      THEN acc
      ELSE [value    |-> ShiftRight(acc.value, overflow) * entry.multiplier,
            bitsUsed |-> wanted - overflow,
            toShift  |-> acc.toShift + DECAY_MULTIPLIER_BITS,
            elapsed  |-> acc.elapsed - entry.seconds]

(***************************************************************************)
(* One of the twenty blocks `if (elapsedSeconds >= seconds) {...}`.  The   *)
(* bits shifted out before the multiplication are not shifted out again    *)
(* at the end, hence the smaller increase of toShift.                      *)
(***************************************************************************)
ApplyMultiplier(acc, entry) ==
  LET wanted == acc.bitsUsed + DECAY_MULTIPLIER_BITS
      overflow == IF wanted > UINT_BITS THEN wanted - UINT_BITS ELSE 0
  IN  IF acc.elapsed < entry.seconds
      THEN acc
      ELSE [value    |-> ShiftRight(acc.value, overflow) * entry.multiplier,
            bitsUsed |-> wanted - overflow,
            toShift  |-> acc.toShift + DECAY_MULTIPLIER_BITS - overflow,
            elapsed  |-> acc.elapsed - entry.seconds]

(* The blocks one after the other, for a magnitude and a time that are not *)
(* zero; round i is the i-th.                                              *)
Rounds(value, elapsed) ==
  LET round[i \in 0..Len(DecayMultipliers)] ==
        IF i = 0
        THEN [value |-> value, bitsUsed |-> BitLength(value),
              toShift |-> 0, elapsed |-> elapsed]
        ELSE ApplyMultiplier(round[i - 1], DecayMultipliers[i])
  IN  round

(* The decay of a magnitude that is left after the whole half-lives. *)
FractionalDecay(value, elapsed) ==
  LET acc == Rounds(value, elapsed)[Len(DecayMultipliers)]
  IN  IF acc.toShift > 0
      THEN ShiftRight(ShiftRight(acc.value, acc.toShift - 1) + 1, 1)
      ELSE acc.value

approxDecay(startValue, elapsedSeconds) ==
  LET magnitude == IF startValue > 0 THEN startValue ELSE -startValue
      halved == ShiftRight(magnitude, elapsedSeconds \div HALF_LIFE_SECONDS)
      rest == elapsedSeconds % HALF_LIFE_SECONDS
      decayed == IF halved = 0 \/ rest = 0
                 THEN halved
                 ELSE FractionalDecay(halved, rest)
  IN  IF startValue > 0 THEN decayed ELSE -decayed

=============================================================================
