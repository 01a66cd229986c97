---------------------------- MODULE SupportDecay ----------------------------
(***************************************************************************)
(* The Support struct of Forum.sol and its decay.  A support is stored     *)
(* with the block time of its last write and read through _decayValue.     *)
(***************************************************************************)
EXTENDS Integers

CONSTANTS
  ApproxDecay(_, _),    \* DecayUtils.approxDecay
  decaySpeedupFactor,
  MaxSupport,           \* largest amount that checked arithmetic accepts
  MaxTime               \* bound on block.timestamp

Supports == -MaxSupport..MaxSupport
Times == 0..MaxTime
Elapsed == 0..(MaxTime * decaySpeedupFactor)

Abs(x) == IF x >= 0 THEN x ELSE -x

ASSUME DecayBoundsAssumption ==
  MaxSupport \in Nat /\ MaxTime \in Nat /\ decaySpeedupFactor \in Nat \ {0}

(* What the forum relies on in DecayUtils: support only fades. *)
ASSUME DecayAssumption ==
  \A v \in Supports, t \in Elapsed :
    /\ ApproxDecay(v, t) \in Supports
    /\ v >= 0 => ApproxDecay(v, t) \in 0..v
    /\ v <= 0 => ApproxDecay(v, t) \in v..0

ASSUME DecayMonotonicAssumption ==
  \A v \in Supports, t1, t2 \in Elapsed :
    t1 <= t2 => Abs(ApproxDecay(v, t2)) <= Abs(ApproxDecay(v, t1))

-----------------------------------------------------------------------------
Support == [value : Supports, lastUpdated : Times]
NoSupport == [value |-> 0, lastUpdated |-> 0]

(* _decayValue *)
DecayValue(value, from, to) ==
  LET elapsedSeconds == (to - from) * decaySpeedupFactor
  IN  IF value = 0 \/ elapsedSeconds = 0 THEN value
      ELSE ApproxDecay(value, elapsedSeconds)

(* _getCurrentSupportValue, at block time t *)
CurrentSupport(support, t) == DecayValue(support.value, support.lastUpdated, t)

CurrentSupports(supports, t) ==
  [s \in DOMAIN supports |-> CurrentSupport(supports[s], t)]

=============================================================================
