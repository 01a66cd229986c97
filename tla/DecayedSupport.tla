--------------------------- MODULE DecayedSupport ---------------------------
(***************************************************************************)
(* A support amount as Forum.sol stores it: a value and the block time at  *)
(* which it was last brought current.  Reading it decays the stored value  *)
(* to the present; touching it (every adjustment of the statement does)    *)
(* writes the decayed value back, so that a busy statement is rounded      *)
(* many times over a period in which an idle one is rounded once.          *)
(***************************************************************************)
EXTENDS DecayUtils

CONSTANTS
  MaxStart,   \* bound on the magnitude of the initial amount
  MaxTime,    \* bound on the clock
  MaxTouches  \* bound on the number of times the amount is written back

VARIABLES
  start,      \* the amount at time 0 (history)
  support,    \* Support {value, lastUpdated}
  now,        \* block.timestamp
  touches     \* number of write-backs so far (history)

vars == <<start, support, now, touches>>

TypeOK ==
  /\ start \in -MaxStart..MaxStart
  /\ support \in [value : -MaxStart..MaxStart, lastUpdated : 0..MaxTime]
  /\ now \in 0..MaxTime
  /\ touches \in 0..MaxTouches

(* _decayValue short-circuits when there is nothing to decay. *)
DecayValue(value, from, to) ==
  IF value = 0 \/ to = from THEN value ELSE approxDecay(value, to - from)

CurrentValue == DecayValue(support.value, support.lastUpdated, now)

Init ==
  /\ start \in -MaxStart..MaxStart
  /\ support = [value |-> start, lastUpdated |-> 0]
  /\ now = 0
  /\ touches = 0

Tick ==
  /\ now < MaxTime
  /\ now' = now + 1
  /\ UNCHANGED <<start, support, touches>>

(* A slip: the value is brought current, its time is not. *)
TouchWithoutTime ==
  /\ touches < MaxTouches
  /\ support' = [support EXCEPT !.value = CurrentValue]
  /\ touches' = touches + 1
  /\ UNCHANGED <<start, now>>

(* _updateSupportToBeCurrent *)
Touch ==
  /\ touches < MaxTouches
  /\ support' = [value |-> CurrentValue, lastUpdated |-> now]
  /\ touches' = touches + 1
  /\ UNCHANGED <<start, now>>

Next == Tick \/ Touch

Spec == Init /\ [][Next]_vars

-----------------------------------------------------------------------------
Magnitude(v) == IF v < 0 THEN -v ELSE v

(* The magnitude a is within one unit of m * 2^(-t/4), exactly: all sides  *)
(* are raised to the fourth power.  Meant for a half-life of four seconds. *)
WithinOneUnit(a, m, t) ==
  /\ (a + 1)^4 * 2^t >= m^4
  /\ a <= 1 \/ (a - 1)^4 * 2^t <= m^4

(***************************************************************************)
(* Reference: an amount that nobody touched is within one unit of the true *)
(* exponential, whatever the time since it was written, although the       *)
(* halvings truncate and every multiplier is itself rounded down.          *)
(***************************************************************************)
CloseToExponential ==
  touches = 0 => WithinOneUnit(Magnitude(CurrentValue), Magnitude(start), now)

(***************************************************************************)
(* Writing the amount back costs or gains at most one unit each time: the  *)
(* support a busy statement shows differs from that of an idle statement   *)
(* with the same history by no more than the number of write-backs.        *)
(***************************************************************************)
TouchDrift ==
  Magnitude(CurrentValue - approxDecay(start, now)) <= touches

(***************************************************************************)
(* Two amounts written at the same time keep their order for ever: the     *)
(* decay never lets a weaker statement overtake one that nobody touched.   *)
(***************************************************************************)
OrderKept ==
  \A v \in -MaxStart..support.value :
    DecayValue(v, support.lastUpdated, now) <= CurrentValue

(* Fair to all: close to the truth, and in its order. *)
DecayIsFair == TypeOK /\ CloseToExponential /\ OrderKept

(***************************************************************************)
(* No passage of time and no write-back makes a support stronger or turns  *)
(* its sign: what a member once staked only fades.                         *)
(***************************************************************************)
OnlyFades ==
  [][ /\ Magnitude(CurrentValue') <= Magnitude(CurrentValue)
      /\ CurrentValue * CurrentValue' >= 0 ]_vars

=============================================================================
