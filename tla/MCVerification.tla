--------------------------- MODULE MCVerification ---------------------------
(***************************************************************************)
(* An instance of Verification and of UserRegistration for TLC: one        *)
(* passport, two accounts, one registry.  The page and the hook share no   *)
(* state but the registry and the account, so a behaviour follows one of   *)
(* them and leaves the other alone.                                        *)
(***************************************************************************)
EXTENDS Verification

CONSTANTS a1, a2, p1, p2, fr, Unknown

VARIABLES answers, switches,
          followed      \* "page" or "hook"

Hook == INSTANCE UserRegistration

MCAddresses == {a1, a2}
MCIds == {p1, p2}
MCNationalities == {fr}
MCPassport == [uniqueIdentifier |-> p1, nationality |-> fr]
MCOwnIdentity == (a1 :> p1 @@ a2 :> p2)

hookVars == <<answers, switches>>
MCVars == <<allVars, hookVars, followed>>

MCInit ==
  /\ VerificationInit /\ Hook!ClientInit
  /\ followed \in {"page", "hook"}
  /\ followed = "hook" => ~quick

(* The page does not look at the time; it passes for the hook alone. *)
FollowPage ==
  /\ followed = "page"
  /\ VerificationNext
  /\ UNCHANGED <<now, hookVars, followed>>
Following(action) ==
  followed = "hook" /\ action /\ UNCHANGED <<quick, page, requests, txs, tally, followed>>

MCSpec ==
  /\ MCInit /\ [][FollowPage \/ Following(Hook!ClientNext)]_MCVars
  /\ WF_MCVars(Following(Hook!AnswerIsRegistered))
  /\ WF_MCVars(Following(Hook!AnswerRegistration))

(***************************************************************************)
(* What the client shows of the account's registration becomes what the    *)
(* registry holds (useUserRegistration): UserRegistration!StatusCatchesUp. *)
(***************************************************************************)
StatusCatchesUp == followed = "hook" => Hook!StatusCatchesUp

=============================================================================
