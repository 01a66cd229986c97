-------------------------- MODULE UserRegistration --------------------------
(***************************************************************************)
(* What the web client knows of the connected account's registration       *)
(* (useUserRegistration.ts), while accounts change in the wallet and       *)
(* people register from this and from other devices.                       *)
(***************************************************************************)
EXTENDS Registry

CONSTANTS Nobody, None, Unknown, MaxSwitches

VARIABLES
  account,     \* useWalletAuth().address
  answers,     \* the query cache: isRegistered, getUserRegistration by address
  switches

registryVars == vars
clientVars == <<account, answers, switches>>
allVars == <<registryVars, clientVars>>

ClientInit ==
  /\ Init
  /\ account \in Addresses \cup {Nobody}
  /\ answers = [a \in Addresses |-> [registered |-> Unknown, registration |-> Unknown]]
  /\ switches = 0

-----------------------------------------------------------------------------
SwitchAccount(a) ==
  /\ a # account /\ switches < MaxSwitches
  /\ account' = a
  /\ switches' = switches + 1
  /\ UNCHANGED <<registryVars, answers>>

(* useUserRegistration asks isRegistered of the connected account and,     *)
(* once that is true, for its registration; both again with every block.   *)
Answer(a, entry) ==
  /\ answers' = [answers EXCEPT ![a] = entry]
  /\ UNCHANGED <<registryVars, account, switches>>

AnswerIsRegistered ==
  /\ account # Nobody
  /\ Answer(account, [answers[account] EXCEPT !.registered = IsRegistered(account)])

(* Slips: the registration is asked for only once, or the answer for one   *)
(* account is taken for every account that is known to be registered.      *)
AnswerRegistrationOnce ==
  /\ account # Nobody
  /\ answers[account].registered = TRUE
  /\ answers[account].registration = Unknown
  /\ Answer(account, [answers[account] EXCEPT
       !.registration = userRegistrations[userIdFromAddress[account]]])

AnswerRegistration ==
  /\ account # Nobody
  /\ answers[account].registered = TRUE
  /\ Answer(account, [answers[account] EXCEPT
       !.registration = userRegistrations[userIdFromAddress[account]]])

(* What useUserRegistration returns. *)
UserRegistration ==
  IF account = Nobody \/ answers[account].registered # TRUE
     \/ answers[account].registration = Unknown
  THEN [nationality |-> None, userId |-> None]
  ELSE [nationality |-> answers[account].registration.nationality,
        userId |-> answers[account].registration.uniqueIdentifier]

-----------------------------------------------------------------------------
ClientNext ==
  \/ Next /\ UNCHANGED clientVars
  \/ \E a \in Addresses \cup {Nobody} : SwitchAccount(a)
  \/ AnswerIsRegistered \/ AnswerRegistration

-----------------------------------------------------------------------------
(***************************************************************************)
(* What the client shows of the account becomes what the registry holds,   *)
(* also when a registration gains its nationality later and when the       *)
(* account registered from another device.                                 *)
(***************************************************************************)
RegisteredIs ==
  IF account = Nobody \/ ~IsRegistered(account)
  THEN [nationality |-> None, userId |-> None]
  ELSE [nationality |-> userRegistrations[userIdFromAddress[account]].nationality,
        userId |-> userIdFromAddress[account]]

StatusCatchesUp == <>[](UserRegistration = RegisteredIs)

=============================================================================
