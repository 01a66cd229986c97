--------------------------- MODULE ContractWrites ----------------------------
(***************************************************************************)
(* A commit's way from the confirmation dialog to the chain: what the      *)
(* network fee is previewed as, the acknowledgement the dialog asks for,   *)
(* the write through the wallet (wallet/useContractWrite.ts) with its      *)
(* fallback from sponsored to self-funded, and the sponsorship backend's   *)
(* meter (gas_sponsorship/) that the paymaster and the preview ask.        *)
(*                                                                         *)
(* One member, one page, one commit at a time.  A user operation is a      *)
(* number; the smart wallet's nonce lets one operation of each value       *)
(* execute.                                                                *)
(***************************************************************************)
EXTENDS Integers, FiniteSets, Sequences, Functions

CONSTANTS
    Capacity,       \* the gas a member may have sponsored in one burst
    LeakPerTick,    \* what of it comes back per tick of the clock
    Ttl,            \* ticks for which a decision is remembered
    Weights,        \* gas of a user operation
    MaxOps,         \* user operations and transactions of the wallet
    MaxOpenings,    \* how often the dialog is opened or the drawer used
    MaxTicks

ASSUME WritesBounds ==
    /\ {Capacity, LeakPerTick, Ttl, MaxOps, MaxOpenings, MaxTicks} \subseteq Nat
    /\ Weights \subseteq Nat \ {0}

VARIABLES
    wallet,     \* the active wallet's kind
    policy,     \* whether a gas policy is configured
    dialog,     \* CommitConfirmationDialog and the state its panel keeps
    previews,   \* openings whose preview has not been answered
    write,      \* where writeContract is
    ops,        \* what the wallet sent
    meter,      \* the bucket and the decisions of the sponsorship backend
    now,
    told     \* what the properties refer to

writeVars == <<wallet, policy, dialog, previews, write, ops, meter, now, told>>

NoFee == "none"

WritesInit ==
    /\ wallet \in {"external", "embedded", "smart"}
    /\ policy \in BOOLEAN
    /\ dialog = [open |-> FALSE, opening |-> 0, loading |-> FALSE,
                 error |-> FALSE, fee |-> NoFee, of |-> 0, ack |-> FALSE]
    /\ previews = {}
    /\ write = [step |-> "none", first |-> 1, acknowledged |-> FALSE,
                shown |-> NoFee]
    /\ ops = <<>>
    /\ meter = [usage |-> 0, updatedAt |-> 0, decisions |-> {}]
    /\ now = 0
    /\ told = [charges |-> {}, lostAnswer |-> FALSE]

IsSponsored == wallet = "smart"

----------------------------------------------------------------------------
(* The meter: a leaky bucket                                               *)

Decayed ==
    LET left == meter.usage - LeakPerTick * (now - meter.updatedAt)
    IN  IF left > 0 THEN left ELSE 0

Allowed(weight) == Decayed + weight <= Capacity

\* peek: the same projection, and nothing is written.
Peek(weight) == IF Allowed(weight) THEN "sponsored" ELSE "rate_limited"

Remembered(op) ==
    {d \in meter.decisions : d.op = op /\ now - d.at <= Ttl}

\* A slip: the time of the last update is kept, so what has leaked already
\* leaks once more.
ChargedKeepingTime(op, weight) ==
    [usage |-> IF Allowed(weight) THEN Decayed + weight ELSE Decayed,
     updatedAt |-> meter.updatedAt,
     decisions |-> {d \in meter.decisions : d.op # op /\ now - d.at <= Ttl}
                       \cup {[op |-> op, allowed |-> Allowed(weight), at |-> now]}]

Charged(op, weight) ==
    [usage |-> IF Allowed(weight) THEN Decayed + weight ELSE Decayed,
     updatedAt |-> now,
     decisions |-> {d \in meter.decisions : d.op # op /\ now - d.at <= Ttl}
                       \cup {[op |-> op, allowed |-> Allowed(weight), at |-> now]}]

----------------------------------------------------------------------------
(* The dialog                                                              *)

Open ==
    /\ ~dialog.open
    /\ write.step = "none"
    /\ dialog.opening < MaxOpenings
    /\ dialog' = [open |-> TRUE, opening |-> dialog.opening + 1, loading |-> TRUE,
                  error |-> FALSE, fee |-> NoFee, of |-> 0, ack |-> FALSE]
    /\ previews' = previews \cup {dialog.opening + 1}
    /\ UNCHANGED <<wallet, policy, write, ops, meter, now, told>>

\* A slip: only a dialog that is closed drops it.
CancelledWhenClosed(opening) == ~dialog.open

\* Whatever the preview answers to an opening that is over is dropped.
Cancelled(opening) == ~dialog.open \/ dialog.opening # opening

\* fetchSponsorshipEligibility: what the backend says of the operation that is
\* prepared for the purpose, if there is one and it answers.
Eligibility == {"none", "ineligible", "error"} \cup {Peek(w) : w \in Weights}

\* Without an answer sponsorship is assumed.
EstimateOf(eligibility) ==
    IF eligibility \in {"none", "sponsored"} THEN "sponsored" ELSE "self-funded"

\* previewNetworkFee; the smart wallet's client may not be ready.
Fees ==
    IF ~IsSponsored THEN {"self-funded"}
    ELSE IF ~policy THEN {"unavailable"}
    ELSE {"unavailable"} \cup {EstimateOf(e) : e \in Eligibility}

PreviewAnswers(opening) ==
    /\ opening \in previews
    /\ previews' = previews \ {opening}
    /\ \E fee \in Fees \cup {"error"} :
          dialog' =
            IF Cancelled(opening) THEN dialog
            ELSE [dialog EXCEPT !.loading = FALSE, !.error = fee = "error",
                                !.fee = IF fee = "error" THEN NoFee ELSE fee,
                                !.of = opening]
    /\ UNCHANGED <<wallet, policy, write, ops, meter, now, told>>

Acknowledge ==
    /\ dialog.open /\ dialog.fee = "self-funded"
    /\ dialog' = [dialog EXCEPT !.ack = ~@]
    /\ UNCHANGED <<wallet, policy, previews, write, ops, meter, now, told>>

Close ==
    /\ dialog.open
    /\ dialog' = [dialog EXCEPT !.open = FALSE, !.ack = FALSE]
    /\ UNCHANGED <<wallet, policy, previews, write, ops, meter, now, told>>

CanConfirm ==
    /\ ~dialog.loading /\ ~dialog.error
    /\ dialog.fee \notin {NoFee, "unavailable"}
    /\ dialog.fee = "self-funded" => dialog.ack

Confirm ==
    /\ dialog.open /\ CanConfirm
    /\ dialog' = [dialog EXCEPT !.open = FALSE, !.ack = FALSE]
    /\ write' = [step |-> IF ~IsSponsored THEN "direct"
                          ELSE IF dialog.fee = "self-funded" THEN "selfFund"
                          ELSE "sponsor",
                 first |-> Len(ops) + 1,
                 acknowledged |-> dialog.ack, shown |-> dialog.fee]
    /\ told' = [told EXCEPT !.lostAnswer = FALSE]
    /\ UNCHANGED <<wallet, policy, previews, ops, meter, now>>

\* The drawer of the small layout commits without a dialog, so without a fee.
CommitFromMenu ==
    /\ ~dialog.open
    /\ write.step = "none"
    /\ dialog.opening < MaxOpenings
    /\ dialog' = [dialog EXCEPT !.opening = @ + 1]
    /\ write' = [step |-> IF IsSponsored THEN "sponsor" ELSE "direct",
                 first |-> Len(ops) + 1,
                 acknowledged |-> FALSE, shown |-> NoFee]
    /\ told' = [told EXCEPT !.lostAnswer = FALSE]
    /\ UNCHANGED <<wallet, policy, previews, ops, meter, now>>

----------------------------------------------------------------------------
(* writeContract.  An operation is built for the wallet's current nonce;   *)
(* the bundler takes it, and it executes unless another one of that nonce  *)
(* did.                                                                    *)

Nonce == Cardinality({i \in DOMAIN ops : ops[i].fate = "executed"})

Current == Len(ops)

\* A slip: what was sent already is sent again.
BuildingAgain == write.step \in {"sponsor", "selfFund", "direct"}

Building == write.step \in {"sponsor", "selfFund", "direct"} /\ Len(ops) < write.first
Falling == write.step = "fallback"

Build ==
    /\ Len(ops) < MaxOps
    /\ Building \/ Falling
    /\ \E w \in Weights :
          ops' = Append(ops, [nonce |-> Nonce, weight |-> w,
                              sponsored |-> write.step = "sponsor",
                              fate |-> IF write.step = "sponsor" THEN "asked" ELSE "pending"])
    /\ write' = IF Falling THEN [write EXCEPT !.step = "selfFund"] ELSE write
    /\ UNCHANGED <<wallet, policy, dialog, previews, meter, now, told>>

\* The paymaster asks the webhook, more than once if it likes.
Inspect(i) ==
    /\ ops[i].fate \in {"asked", "approved"}
    /\ IF Remembered(i) # {}
       THEN /\ ops' = [ops EXCEPT ![i].fate =
                          IF \E d \in Remembered(i) : d.allowed THEN "approved" ELSE "declined"]
            /\ UNCHANGED <<meter, told>>
       ELSE /\ ops' = [ops EXCEPT ![i].fate =
                          IF Allowed(ops[i].weight) THEN "approved" ELSE "declined"]
            /\ meter' = Charged(i, ops[i].weight)
            /\ told' = [told EXCEPT !.charges = @ \cup
                  {[op |-> i, at |-> now, weight |-> ops[i].weight] :
                      x \in {y \in {0} : Allowed(ops[i].weight)}}]
    /\ UNCHANGED <<wallet, policy, dialog, previews, write, now>>

\* An approved operation is handed to the bundler.
Accept(i) ==
    /\ ops[i].fate = "approved"
    /\ ops' = [ops EXCEPT ![i].fate = "pending"]
    /\ UNCHANGED <<wallet, policy, dialog, previews, write, meter, now, told>>

Execute(i) ==
    /\ ops[i].fate = "pending"
    /\ ops[i].nonce = Nonce
    /\ ops' = [j \in DOMAIN ops |->
                IF j = i THEN [ops[j] EXCEPT !.fate = "executed"]
                ELSE IF ops[j].nonce = ops[i].nonce /\ ops[j].fate # "executed"
                THEN [ops[j] EXCEPT !.fate = "dropped"] ELSE ops[j]]
    /\ UNCHANGED <<wallet, policy, dialog, previews, write, meter, now, told>>

Finish(step) == write' = [write EXCEPT !.step = step]

\* The call that is awaited returns the hash of what it sent.
Returns ==
    /\ write.step \in {"sponsor", "selfFund", "direct"}
    /\ ~Building
    /\ ops[Current].fate = "executed"
    /\ Finish("none")
    /\ UNCHANGED <<wallet, policy, dialog, previews, ops, meter, now, told>>

\* isPaymasterError: any failure but the member's own refusal.
FallsBack(reason) == reason # "rejected"

\* The sponsored send fails: refused by the member, declined by the paymaster,
\* or without an answer, whatever became of the operation.
SponsoredSendFails ==
    /\ write.step = "sponsor" /\ ~Building
    /\ \E reason \in {"rejected", "declined", "lost"} :
          /\ reason = "rejected" => ops[Current].fate = "asked"
          /\ reason = "declined" => ops[Current].fate = "declined"
          /\ reason = "lost" => ops[Current].fate # "declined"
          /\ Finish(IF FallsBack(reason) THEN "fallback" ELSE "none")
          /\ ops' = IF reason = "lost" THEN ops
                    ELSE [ops EXCEPT ![Current].fate = "dropped"]
          /\ told' = [told EXCEPT !.lostAnswer = @ \/ reason = "lost"]
    /\ UNCHANGED <<wallet, policy, dialog, previews, meter, now>>

\* The wallet refuses to send, or the smart wallet's client is not ready.
SendFails ==
    /\ write.step \in {"sponsor", "selfFund", "direct"}
    /\ Building
    /\ Finish("none")
    /\ UNCHANGED <<wallet, policy, dialog, previews, ops, meter, now, told>>

Tick ==
    /\ now < MaxTicks
    /\ now' = now + 1
    /\ UNCHANGED <<wallet, policy, dialog, previews, write, ops, meter, told>>

WritesNext ==
    \/ Open \/ Acknowledge \/ Close \/ Confirm \/ CommitFromMenu
    \/ \E opening \in 1 .. MaxOpenings : PreviewAnswers(opening)
    \/ Build \/ Returns \/ SponsoredSendFails \/ SendFails
    \/ \E i \in DOMAIN ops : Inspect(i) \/ Accept(i) \/ Execute(i)
    \/ Tick

\* The preview's promise settles.  Nothing else has to happen: the wallet, the
\* bundler and the member may take for ever.
WritesSpec ==
    /\ WritesInit /\ [][WritesNext]_writeVars
    /\ \A opening \in 1 .. MaxOpenings : WF_writeVars(PreviewAnswers(opening))

----------------------------------------------------------------------------
(* Properties *)

\* Executed operations of the write that is under way or was the last.
ExecutedNow == {i \in DOMAIN ops : i >= write.first /\ ops[i].fate = "executed"}

\* What one confirmation sends executes once.  The fallback keeps to that
\* although it may race the sponsored operation, because both carry the same
\* nonce; only if the answer to this write's sponsored send is lost after it
\* executed does the fallback execute the change again.
ExecutedOnce == Cardinality(ExecutedNow) > 1 => told.lostAnswer

\* The gas that is sponsored for a member stays within the budget: a full
\* bucket and what has leaked since, however often the paymaster asks.
SponsoredGas ==
    [i \in DOMAIN ops |->
        IF ops[i].sponsored /\ ops[i].fate \in {"pending", "executed"}
        THEN ops[i].weight ELSE 0]

WithinBudget == SumFunction(SponsoredGas) <= Capacity + LeakPerTick * now

\* "retries never double-charge the bucket" (rate_limiter.py:41-43): one
\* operation is charged again only after its decision has been forgotten.
ChargedOnce ==
    \A c, d \in told.charges :
        c.op = d.op /\ c.at < d.at => d.at - c.at > Ttl

\* The bucket bounds what is sponsored and remembers what it decided, whatever
\* the order in which previews, webhooks and their repetitions come.
BucketHolds == WithinBudget /\ ChargedOnce

\* "Self-funded transactions charge the user's own wallet, so require an
\* explicit fee acknowledgement before confirming"
\* (CommitConfirmationDialog.tsx:54-55).  It does not hold: a sponsored write that
\* fails falls back to a self-funded one (useContractWrite.ts:176-185).
SelfFundedIsAcknowledged ==
    write.step \in {"selfFund", "direct"} => write.acknowledged

\* The fee that is shown was estimated for this opening of the dialog: an
\* answer that comes late, after the dialog was closed and opened again, is
\* not taken for it (CreditActionPanel's isCancelled).
FeeIsOfThisOpening ==
    dialog.open /\ dialog.fee # NoFee => dialog.of = dialog.opening

\* The dialog does not check the fee for ever, and what it then says of the fee
\* is about the commit on screen (CreditActionPanel's effect and its cleanup).
FeeIsTrue ==
    [](/\ FeeIsOfThisOpening
       /\ dialog.open /\ dialog.loading => <>~(dialog.open /\ dialog.loading))

=============================================================================
