------------------------------ MODULE Registry ------------------------------
(***************************************************************************)
(* The registry of verified people (ISymvoliaRegistry.sol and the register *)
(* function of SymvoliaRegistry.sol, which MockSymvoliaRegistry.sol        *)
(* repeats without the verifier).  A person may register several           *)
(* addresses, each with a proof of its own; forums ask the registry        *)
(* whether a caller is registered, as whom, and with which nationality.    *)
(***************************************************************************)
EXTENDS Naturals, Sequences

CONSTANTS
  Addresses,
  Ids,             \* the unique identifiers a passport proof yields
  NO_USER,
  Nationalities,
  Undisclosed,     \* the empty nationality
  devMode,         \* whether proofs of mock passports are accepted
  StartTime, MaxTime

ASSUME RegistryAssumption ==
  /\ NO_USER \notin Ids
  /\ Undisclosed \notin Nationalities
  /\ devMode \in BOOLEAN
  /\ StartTime \in Nat \ {0} /\ MaxTime \in Nat /\ StartTime <= MaxTime

VARIABLES
  now,                \* block.timestamp
  userIdFromAddress,
  userRegistrations

vars == <<now, userIdFromAddress, userRegistrations>>

Registration ==
  [uniqueIdentifier      : Ids \cup {NO_USER},
   nationality           : Nationalities \cup {Undisclosed},
   registeredAddresses   : Seq(Addresses),
   registrationTimestamp : 0..MaxTime]

NoRegistration ==
  [uniqueIdentifier |-> NO_USER, nationality |-> Undisclosed,
   registeredAddresses |-> <<>>, registrationTimestamp |-> 0]

TypeOK ==
  /\ now \in StartTime..MaxTime
  /\ userIdFromAddress \in [Addresses -> Ids \cup {NO_USER}]
  /\ userRegistrations \in [Ids -> Registration]

Init ==
  /\ now = StartTime
  /\ userIdFromAddress = [a \in Addresses |-> NO_USER]
  /\ userRegistrations = [id \in Ids |-> NoRegistration]

-----------------------------------------------------------------------------
(* What a submitted proof turns out to be: good, or wrong in one way. *)
Verdicts == {"good", "invalid", "otherScope", "otherChain", "dev"}

Proofs ==
  [uniqueIdentifier : Ids, nationality : Nationalities \cup {Undisclosed},
   senderAddress : Addresses, verdict : Verdicts]

(* ProofInvalid, InvalidScope, ChainIdMismatch, DevProofsNotAllowed, and   *)
(* SenderAddressMismatch: a proof names the address that may submit it.    *)
Accepted(sender, proof) ==
  /\ proof.verdict = "good" \/ (proof.verdict = "dev" /\ devMode)
  /\ proof.senderAddress = sender

(* Slips: the address is listed again with every proof, the latest proof   *)
(* decides on the nationality, or registrations count from the next block. *)
RegisteredAgain(registration, sender, id, nationality) ==
  [uniqueIdentifier |-> id,
   registrationTimestamp |->
     IF registration.uniqueIdentifier = NO_USER
     THEN now ELSE registration.registrationTimestamp,
   nationality |->
     IF registration.nationality = Undisclosed
     THEN nationality ELSE registration.nationality,
   registeredAddresses |-> Append(registration.registeredAddresses, sender)]

RegisteredWith(registration, sender, id, nationality, timestamp) ==
  [uniqueIdentifier |-> id,
   registrationTimestamp |-> timestamp,
   nationality |-> nationality,
   registeredAddresses |->
     IF userIdFromAddress[sender] = NO_USER
     THEN Append(registration.registeredAddresses, sender)
     ELSE registration.registeredAddresses]

RegisteredLatest(registration, sender, id, nationality) ==
  RegisteredWith(registration, sender, id, nationality,
                 IF registration.uniqueIdentifier = NO_USER
                 THEN now ELSE registration.registrationTimestamp)

(* _registerHelper: the registration that results. *)
Registered(registration, sender, id, nationality) ==
  [uniqueIdentifier |-> id,
   registrationTimestamp |->
     IF registration.uniqueIdentifier = NO_USER
     THEN now ELSE registration.registrationTimestamp,
   nationality |->
     IF registration.nationality = Undisclosed
     THEN nationality ELSE registration.nationality,
   registeredAddresses |->
     IF userIdFromAddress[sender] = NO_USER
     THEN Append(registration.registeredAddresses, sender)
     ELSE registration.registeredAddresses]

Consistent(registration, nationality) ==
  Undisclosed \in {registration.nationality, nationality}
    \/ registration.nationality = nationality

Register(sender, proof) ==
  LET id == proof.uniqueIdentifier
      known == userIdFromAddress[sender]
  IN  /\ Accepted(sender, proof)
      /\ known \in {NO_USER, id}                        \* AddressAlreadyRegistered
      /\ Consistent(userRegistrations[id], proof.nationality) \* NationalityMismatch
      /\ userRegistrations' = [userRegistrations EXCEPT
           ![id] = Registered(@, sender, id, proof.nationality)]
      /\ userIdFromAddress' = [userIdFromAddress EXCEPT ![sender] = id]
      /\ UNCHANGED now

(* The next block has a later timestamp. *)
Tick ==
  /\ now < MaxTime
  /\ now' = now + 1
  /\ UNCHANGED <<userIdFromAddress, userRegistrations>>

Next ==
  \/ \E sender \in Addresses, proof \in Proofs : Register(sender, proof)
  \/ Tick

Spec == Init /\ [][Next]_vars

-----------------------------------------------------------------------------
IsRegistered(a) ==
  \E id \in Ids : /\ userIdFromAddress[a] = id
                  /\ userRegistrations[id].uniqueIdentifier # NO_USER

(* isMember of a forum; a forum without a nationality admits everybody. *)
IsMember(a, forumNationality) ==
  /\ IsRegistered(a)
  /\ \/ forumNationality = Undisclosed
     \/ userRegistrations[userIdFromAddress[a]].nationality = forumNationality

(***************************************************************************)
(* The two directions of the binding agree: an identity lists the          *)
(* addresses that lead to it, each once, and no others.  Two mappings are  *)
(* written in one call and proofs are submitted again and again.           *)
(***************************************************************************)
BindingsAgree ==
  \A id \in Ids :
    LET listed == userRegistrations[id].registeredAddresses
    IN  /\ \A a \in Addresses :
             userIdFromAddress[a] = id <=> \E i \in DOMAIN listed : listed[i] = a
        /\ \A i, j \in DOMAIN listed : listed[i] = listed[j] => i = j

(***************************************************************************)
(* Every address that was ever bound is registered, at a time that has     *)
(* passed: forums compute a new member's allowance from it.                *)
(***************************************************************************)
BoundIsRegistered ==
  \A a \in Addresses :
    userIdFromAddress[a] # NO_USER =>
      LET registration == userRegistrations[userIdFromAddress[a]]
      IN  /\ registration.uniqueIdentifier = userIdFromAddress[a]
          /\ registration.registrationTimestamp \in 1..now

(* The two mappings hold what forums and clients read from them. *)
BindingsHold == TypeOK /\ BindingsAgree /\ BoundIsRegistered

(***************************************************************************)
(* What forums rely on never changes once it is known: whose address it    *)
(* is, when the person was first registered (credits are granted from      *)
(* then on) and the nationality (the forums the person may take part in),  *)
(* whatever is proved later from whatever address.                         *)
(***************************************************************************)
IdentityIsStable ==
  [][/\ \A a \in Addresses :
          userIdFromAddress[a] # NO_USER =>
            userIdFromAddress'[a] = userIdFromAddress[a]
     /\ \A id \in Ids :
          LET before == userRegistrations[id]
              after == userRegistrations'[id]
          IN  before.uniqueIdentifier # NO_USER =>
                /\ after.registrationTimestamp = before.registrationTimestamp
                /\ \/ before.nationality = Undisclosed
                   \/ after.nationality = before.nationality]_vars

(***************************************************************************)
(* Nobody loses access to a forum.                                         *)
(***************************************************************************)
MembershipIsKept ==
  [][\A a \in Addresses, n \in Nationalities \cup {Undisclosed} :
       IsMember(a, n) => IsMember(a, n)']_vars

(***************************************************************************)
(* No registration, of anybody from anywhere, takes anything from those    *)
(* who are registered.                                                     *)
(***************************************************************************)
NothingIsTaken == IdentityIsStable /\ MembershipIsKept

=============================================================================
