------------------------- MODULE VerificationProofs -------------------------
(***************************************************************************)
(* What the registry and the verification page guarantee, for every set of *)
(* addresses, people and nationalities and any number of requests,         *)
(* registrations and changes of account: the registry's two mappings agree *)
(* and it takes nothing away, nobody's nationality is disclosed by a visit *)
(* that did not choose it, and the page says "Verified!" only of an        *)
(* account the registry knows.  Every step of the page is a step of the    *)
(* registry or none.                                                       *)
(***************************************************************************)
EXTENDS Verification, TLAPS

(***************************************************************************)
(* The registry.  BoundIsRegistered speaks of identities with an address;  *)
(* it becomes inductive when it is said of every registration.             *)
(***************************************************************************)
RegistrationsDated ==
  \A id \in Ids :
    LET registration == userRegistrations[id]
    IN  /\ registration.uniqueIdentifier \in {NO_USER, id}
        /\ registration.uniqueIdentifier # NO_USER =>
             registration.registrationTimestamp \in 1..now

IInv == TypeOK /\ BindingsAgree /\ RegistrationsDated /\ BoundIsRegistered

-----------------------------------------------------------------------------
(* A new registry satisfies the invariant. *)
LEMMA InitIInv == Init => IInv
<1> SUFFICES ASSUME Init PROVE IInv
  OBVIOUS
<1>1. TypeOK
  BY RegistryAssumption DEF Init, TypeOK, Registration, NoRegistration
<1>2. BindingsAgree
  BY RegistryAssumption DEF Init, BindingsAgree, NoRegistration
<1>3. BoundIsRegistered /\ RegistrationsDated
  BY RegistryAssumption DEF Init, BoundIsRegistered, RegistrationsDated, NoRegistration
<1> QED
  BY <1>1, <1>2, <1>3 DEF IInv

(* What one registration does to the registration it concerns. *)
LEMMA RegisteredType ==
  ASSUME TypeOK, NEW sender \in Addresses, NEW proof \in Proofs
  PROVE  LET id == proof.uniqueIdentifier
             r == Registered(userRegistrations[id], sender, id, proof.nationality)
         IN  id \in Ids /\ r \in Registration
<1> DEFINE id == proof.uniqueIdentifier
           r == Registered(userRegistrations[id], sender, id, proof.nationality)
<1>1. id \in Ids /\ proof.nationality \in Nationalities \cup {Undisclosed}
  BY DEF Proofs
<1>2. userRegistrations[id] \in Registration
  BY <1>1 DEF TypeOK
<1>3. now \in 0..MaxTime
  BY RegistryAssumption DEF TypeOK
<1>4. r.registeredAddresses \in Seq(Addresses)
  BY <1>2 DEF Registered, Registration
<1> QED
  BY <1>1, <1>2, <1>3, <1>4 DEF Registered, Registration

(* Types are preserved by every step. *)
LEMMA NextTypeOK == TypeOK /\ [Next]_vars => TypeOK'
<1> SUFFICES ASSUME TypeOK, [Next]_vars PROVE TypeOK'
  OBVIOUS
<1>1. ASSUME NEW sender \in Addresses, NEW proof \in Proofs, Register(sender, proof)
      PROVE  TypeOK'
  <2>1. /\ proof.uniqueIdentifier \in Ids
        /\ Registered(userRegistrations[proof.uniqueIdentifier], sender,
                      proof.uniqueIdentifier, proof.nationality) \in Registration
    BY RegisteredType
  <2> QED
    BY <1>1, <2>1 DEF Register, TypeOK
<1>2. ASSUME Tick PROVE TypeOK'
  BY <1>2, RegistryAssumption DEF Tick, TypeOK
<1>3. ASSUME UNCHANGED vars PROVE TypeOK'
  BY <1>3 DEF vars, TypeOK
<1> QED
  BY <1>1, <1>2, <1>3 DEF Next

-----------------------------------------------------------------------------
(* A registration keeps the two directions of the binding in step. *)
LEMMA RegisterBindings ==
  ASSUME IInv, NEW sender \in Addresses, NEW proof \in Proofs, Register(sender, proof)
  PROVE  BindingsAgree'
<1> DEFINE id == proof.uniqueIdentifier
           before == userRegistrations[id].registeredAddresses
           after == userRegistrations'[id].registeredAddresses
<1>1. id \in Ids /\ id # NO_USER
  BY RegistryAssumption DEF Proofs
<1>2. /\ userRegistrations \in [Ids -> Registration]
      /\ userIdFromAddress \in [Addresses -> Ids \cup {NO_USER}]
      /\ before \in Seq(Addresses)
  BY <1>1 DEF IInv, TypeOK, Registration
<1>3. /\ userIdFromAddress' = [userIdFromAddress EXCEPT ![sender] = id]
      /\ userIdFromAddress[sender] \in {NO_USER, id}
      /\ userRegistrations' = [userRegistrations EXCEPT
           ![id] = Registered(userRegistrations[id], sender, id, proof.nationality)]
  BY DEF Register
<1>4. after = IF userIdFromAddress[sender] = NO_USER
              THEN Append(before, sender) ELSE before
  BY <1>1, <1>2, <1>3 DEF Registered
<1>5. /\ \A a \in Addresses :
           userIdFromAddress[a] = id <=> \E i \in DOMAIN before : before[i] = a
      /\ \A i, j \in DOMAIN before : before[i] = before[j] => i = j
  BY <1>1 DEF IInv, BindingsAgree
<1>6. /\ \A a \in Addresses :
           userIdFromAddress'[a] = id <=> \E i \in DOMAIN after : after[i] = a
      /\ \A i, j \in DOMAIN after : after[i] = after[j] => i = j
  <2>1. CASE userIdFromAddress[sender] = NO_USER
    <3>1. after = Append(before, sender)
      BY <1>4, <2>1
    <3>2. /\ DOMAIN before = 1..Len(before)
          /\ DOMAIN after = 1..(Len(before) + 1)
          /\ Len(before) \in Nat
          /\ after[Len(before) + 1] = sender
          /\ \A i \in 1..Len(before) : after[i] = before[i]
      BY <1>2, <3>1
    <3>3. \A i \in 1..Len(before) : before[i] # sender
      BY <1>1, <1>5, <2>1, <3>2
    <3>4. \A a \in Addresses :
            (\E i \in DOMAIN after : after[i] = a)
              <=> (a = sender \/ \E i \in DOMAIN before : before[i] = a)
      <4> SUFFICES ASSUME NEW a \in Addresses
                   PROVE  (\E i \in DOMAIN after : after[i] = a)
                            <=> (a = sender \/ \E i \in DOMAIN before : before[i] = a)
        OBVIOUS
      <4>1. 1..(Len(before) + 1) = 1..Len(before) \cup {Len(before) + 1}
        BY <3>2
      <4> HIDE DEF after, before
      <4> QED
        BY <3>2, <4>1
    <3>5. \A i, j \in DOMAIN after : after[i] = after[j] => i = j
      <4>1. \A i, j \in 1..Len(before) : before[i] = before[j] => i = j
        BY <1>5, <3>2
      <4>2. \A i \in 1..(Len(before) + 1) :
              i \in 1..Len(before) \/ i = Len(before) + 1
        BY <3>2
      <4> HIDE DEF after, before
      <4> QED
        BY <3>2, <3>3, <4>1, <4>2
    <3> QED
      BY <1>2, <1>3, <1>5, <3>4, <3>5
  <2>2. CASE userIdFromAddress[sender] = id
    BY <1>1, <1>2, <1>3, <1>4, <1>5, <2>2
  <2> QED
    BY <1>3, <2>1, <2>2
<1>7. ASSUME NEW other \in Ids, other # id
      PROVE  /\ userRegistrations'[other] = userRegistrations[other]
             /\ \A a \in Addresses :
                  userIdFromAddress'[a] = other <=> userIdFromAddress[a] = other
  BY <1>1, <1>2, <1>3, <1>7, RegistryAssumption
<1> QED
  BY <1>6, <1>7 DEF IInv, BindingsAgree

(* A registration leaves every bound address registered, and since when. *)
LEMMA RegisterBound ==
  ASSUME IInv, NEW sender \in Addresses, NEW proof \in Proofs, Register(sender, proof)
  PROVE  RegistrationsDated' /\ BoundIsRegistered'
<1> DEFINE id == proof.uniqueIdentifier
<1>1. id \in Ids /\ id # NO_USER
  BY RegistryAssumption DEF Proofs
<1>2. /\ userRegistrations \in [Ids -> Registration]
      /\ userIdFromAddress \in [Addresses -> Ids \cup {NO_USER}]
      /\ now \in Nat /\ now >= 1
  BY RegistryAssumption DEF IInv, TypeOK
<1>3. /\ userIdFromAddress' = [userIdFromAddress EXCEPT ![sender] = id]
      /\ userRegistrations' = [userRegistrations EXCEPT
           ![id] = Registered(userRegistrations[id], sender, id, proof.nationality)]
      /\ now' = now
  BY DEF Register
<1>4. /\ userRegistrations'[id].uniqueIdentifier = id
      /\ userRegistrations'[id].registrationTimestamp \in 1..now
  <2>1. userRegistrations[id].uniqueIdentifier # NO_USER =>
          userRegistrations[id].registrationTimestamp \in 1..now
    BY <1>1 DEF IInv, RegistrationsDated
  <2> QED
    BY <1>1, <1>2, <1>3, <2>1 DEF Registered
<1>5. \A other \in Ids : other # id => userRegistrations'[other] = userRegistrations[other]
  BY <1>1, <1>2, <1>3
<1>6. RegistrationsDated'
  BY <1>3, <1>4, <1>5 DEF IInv, RegistrationsDated
<1>7. BoundIsRegistered'
  <2> SUFFICES ASSUME NEW a \in Addresses, userIdFromAddress'[a] # NO_USER
               PROVE  LET registration == userRegistrations'[userIdFromAddress'[a]]
                      IN  /\ registration.uniqueIdentifier = userIdFromAddress'[a]
                          /\ registration.registrationTimestamp \in 1..now
    BY <1>3 DEF BoundIsRegistered
  <2>1. CASE userIdFromAddress'[a] = id
    BY <1>4, <2>1
  <2>2. CASE userIdFromAddress'[a] # id
    <3>1. userIdFromAddress'[a] = userIdFromAddress[a] /\ userIdFromAddress[a] \in Ids
      BY <1>2, <1>3, <2>2
    <3> QED
      BY <1>5, <2>2, <3>1 DEF IInv, BoundIsRegistered
  <2> QED
    BY <2>1, <2>2
<1> QED
  BY <1>6, <1>7

LEMMA NextIInv == IInv /\ [Next]_vars => IInv'
<1> SUFFICES ASSUME IInv, [Next]_vars PROVE IInv'
  OBVIOUS
<1>1. TypeOK'
  BY NextTypeOK DEF IInv
<1>2. ASSUME NEW sender \in Addresses, NEW proof \in Proofs, Register(sender, proof)
      PROVE  IInv'
  BY <1>1, <1>2, RegisterBindings, RegisterBound DEF IInv
<1>3. ASSUME Tick PROVE IInv'
  <2>1. now \in Nat /\ now' = now + 1
    BY <1>3, RegistryAssumption DEF Tick, IInv, TypeOK
  <2>2. UNCHANGED <<userIdFromAddress, userRegistrations>>
    BY <1>3 DEF Tick
  <2>3. 1..now \subseteq 1..now'
    BY <2>1
  <2>4. BindingsAgree' /\ RegistrationsDated' /\ BoundIsRegistered'
    BY <2>2, <2>3 DEF IInv, BindingsAgree, RegistrationsDated, BoundIsRegistered
  <2> QED
    BY <1>1, <2>4 DEF IInv
<1>4. ASSUME UNCHANGED vars PROVE IInv'
  BY <1>1, <1>4 DEF vars, IInv, BindingsAgree, RegistrationsDated, BoundIsRegistered
<1> QED
  BY <1>2, <1>3, <1>4 DEF Next

(***************************************************************************)
(* The invariant holds of every reachable state.                           *)
(***************************************************************************)
THEOREM RegistryInvariant == Spec => []IInv
<1> QED
  BY InitIInv, NextIInv, PTL DEF Spec

(***************************************************************************)
(* userIdFromAddress and registeredAddresses (ISymvoliaRegistry.sol) stay  *)
(* inverse to each other.                                                  *)
(***************************************************************************)
THEOREM BindingsAlwaysAgree == Spec => []BindingsAgree
<1>1. IInv => BindingsAgree
  BY DEF IInv
<1> QED
  BY <1>1, RegistryInvariant, PTL

(***************************************************************************)
(* A bound address is registered, at a time that has passed.               *)
(***************************************************************************)
THEOREM BoundAlwaysRegistered == Spec => []BoundIsRegistered
<1>1. IInv => BoundIsRegistered
  BY DEF IInv
<1> QED
  BY <1>1, RegistryInvariant, PTL

-----------------------------------------------------------------------------
(***************************************************************************)
(* No call of register changes whose address it is, since when a person is *)
(* registered, or a nationality that is known.                             *)
(***************************************************************************)
THEOREM IdentityAlwaysStable == Spec => IdentityIsStable
<1> DEFINE Stable ==
      /\ \A a \in Addresses :
           userIdFromAddress[a] # NO_USER =>
             userIdFromAddress'[a] = userIdFromAddress[a]
      /\ \A id \in Ids :
           LET before == userRegistrations[id]
               after == userRegistrations'[id]
           IN  before.uniqueIdentifier # NO_USER =>
                 /\ after.registrationTimestamp = before.registrationTimestamp
                 /\ \/ before.nationality = Undisclosed
                    \/ after.nationality = before.nationality
<1>1. IInv /\ [Next]_vars => [Stable]_vars
  <2> SUFFICES ASSUME IInv, Next PROVE Stable
    OBVIOUS
  <2>1. /\ userRegistrations \in [Ids -> Registration]
        /\ userIdFromAddress \in [Addresses -> Ids \cup {NO_USER}]
    BY DEF IInv, TypeOK
  <2>2. ASSUME NEW sender \in Addresses, NEW proof \in Proofs, Register(sender, proof)
        PROVE  Stable
    <3>1. proof.uniqueIdentifier \in Ids
      BY DEF Proofs
    <3>2. ASSUME NEW a \in Addresses, userIdFromAddress[a] # NO_USER
          PROVE  userIdFromAddress'[a] = userIdFromAddress[a]
      BY <2>1, <2>2, <3>2 DEF Register
    <3>3. ASSUME NEW id \in Ids, userRegistrations[id].uniqueIdentifier # NO_USER
          PROVE  /\ userRegistrations'[id].registrationTimestamp
                      = userRegistrations[id].registrationTimestamp
                 /\ \/ userRegistrations[id].nationality = Undisclosed
                    \/ userRegistrations'[id].nationality
                         = userRegistrations[id].nationality
      BY <2>1, <2>2, <3>1, <3>3 DEF Register, Registered
    <3> QED
      BY <3>2, <3>3
  <2>3. ASSUME Tick PROVE Stable
    BY <2>3 DEF Tick
  <2> QED
    BY <2>2, <2>3 DEF Next
<1>2. Spec => [][Stable]_vars
  BY <1>1, RegistryInvariant, PTL DEF Spec
<1> QED
  BY <1>2 DEF IdentityIsStable

(***************************************************************************)
(* Nobody loses access to a forum (isMember, Forum.sol).                   *)
(***************************************************************************)
THEOREM MembershipAlwaysKept == Spec => MembershipIsKept
<1> DEFINE Kept == \A a \in Addresses, n \in Nationalities \cup {Undisclosed} :
                     IsMember(a, n) => IsMember(a, n)'
<1>1. IInv /\ [Next]_vars => [Kept]_vars
  <2> SUFFICES ASSUME IInv, Next,
                      NEW a \in Addresses, NEW n \in Nationalities \cup {Undisclosed},
                      IsMember(a, n)
               PROVE  IsMember(a, n)'
    OBVIOUS
  <2> DEFINE id == userIdFromAddress[a]
  <2>1. /\ userRegistrations \in [Ids -> Registration]
        /\ userIdFromAddress \in [Addresses -> Ids \cup {NO_USER}]
        /\ id \in Ids /\ id # NO_USER
        /\ n # Undisclosed => userRegistrations[id].nationality = n
    BY RegistryAssumption DEF IInv, TypeOK, IsMember, IsRegistered
  <2>2. ASSUME NEW sender \in Addresses, NEW proof \in Proofs, Register(sender, proof)
        PROVE  IsMember(a, n)'
    <3>1. proof.uniqueIdentifier \in Ids /\ proof.uniqueIdentifier # NO_USER
      BY RegistryAssumption DEF Proofs
    <3>2. userIdFromAddress'[a] = id
      BY <2>1, <2>2 DEF Register
    <3>3. userRegistrations'[id].uniqueIdentifier # NO_USER
      <4>1. userRegistrations[id].uniqueIdentifier = id
        BY <2>1 DEF IInv, BoundIsRegistered
      <4> QED
        BY <2>1, <2>2, <3>1, <4>1 DEF Register, Registered
    <3>4. n # Undisclosed => userRegistrations'[id].nationality = n
      BY <2>1, <2>2, <3>1 DEF Register, Registered
    <3> QED
      BY <2>1, <3>2, <3>3, <3>4 DEF IsMember, IsRegistered
  <2>3. ASSUME Tick PROVE IsMember(a, n)'
    BY <2>3 DEF Tick, IsMember, IsRegistered
  <2> QED
    BY <2>2, <2>3 DEF Next
<1>2. Spec => [][Kept]_vars
  BY <1>1, RegistryInvariant, PTL DEF Spec
<1> QED
  BY <1>2 DEF MembershipIsKept

-----------------------------------------------------------------------------
(***************************************************************************)
(* For every number of addresses, people and nationalities: the mappings   *)
(* agree (userRegistrations, userIdFromAddress) at every moment.           *)
(***************************************************************************)
THEOREM BindingsAlwaysHold == Spec => []BindingsHold
<1>1. IInv => BindingsHold
  BY DEF IInv, BindingsHold
<1> QED
  BY <1>1, RegistryInvariant, PTL

(***************************************************************************)
(* Nor does register ever take anything from those who are registered.     *)
(***************************************************************************)
THEOREM NothingIsEverTaken == Spec => NothingIsTaken
<1> QED
  BY IdentityAlwaysStable, MembershipAlwaysKept, PTL DEF NothingIsTaken

-----------------------------------------------------------------------------
(* The page *)

Scans ==
  [phase : Phases, link : {None} \cup Nat, params : {None} \cup Proofs,
   hash : {None} \cup Nat, received : BOOLEAN, returning : BOOLEAN]

Pages == [step : 0..5, level : {None} \cup Levels, scan : Scans]

Requests ==
  [address : Addresses, level : Levels,
   state : {"constructing", "open", "scanned", "generating", "answered"}]

Submissions ==
  [sender : Addresses, proof : Proofs, level : Levels, visit : Nat,
   fate : {"asked", "sent", "refused", "landed", "reverted"}, known : BOOLEAN]

PageTypeOK ==
  /\ userIdFromAddress \in [Addresses -> Ids \cup {NO_USER}]
  /\ account \in Addresses \cup {Nobody}
  /\ page \in Pages
  /\ requests \in Seq(Requests)
  /\ txs \in Seq(Submissions)
  /\ tally \in [switches : Nat, visits : Nat]

(* A proof that discloses the nationality was asked for by such a visit. *)
Discloses(proof) == proof.nationality # Undisclosed

(* The requests, the proof and the level on the screen are of one visit:   *)
(* leaving the last step forgets them, and only then can the level change. *)
OneVisit ==
  /\ page.step # 4 => page.scan = Fresh /\ requests = <<>>
  /\ page.step = 4 => page.level \in Levels
  /\ \A i \in DOMAIN requests : requests[i].level = page.level
  /\ page.scan.phase = "PROOF_GENERATED" =>
       /\ page.scan.params \in Proofs
       /\ Discloses(page.scan.params) => page.level = "nationality"

(* A registration that landed is in the registry, for good. *)
LandedIsKnown ==
  \A i \in DOMAIN txs :
    txs[i].fate = "landed" =>
      userIdFromAddress[txs[i].sender] = txs[i].proof.uniqueIdentifier

(* The page follows a registration of this browser, to its receipt. *)
Follows ==
  /\ page.scan.hash # None => page.scan.hash \in DOMAIN txs
  /\ page.scan.phase = "VERIFIED" =>
       /\ page.scan.hash # None
       /\ txs[page.scan.hash].fate = "landed"

PageIInv ==
  /\ PageTypeOK /\ OneVisit /\ DisclosedAsChosen /\ LandedIsKnown /\ Follows

-----------------------------------------------------------------------------
(* The page as it opens. *)
LEMMA FreshScan == Fresh \in Scans /\ Fresh.phase = "PRE_SCAN" /\ Fresh.hash = None
BY DEF Fresh, Scans, Phases

LEMMA InitPageIInv == VerificationInit => PageIInv
<1> SUFFICES ASSUME VerificationInit PROVE PageIInv
  OBVIOUS
<1>1. PageTypeOK
  <2>1. page \in Pages
    BY FreshScan DEF VerificationInit, Opened, Pages
  <2> QED
    BY <2>1 DEF VerificationInit, Init, PageTypeOK
<1>2. OneVisit /\ DisclosedAsChosen /\ LandedIsKnown /\ Follows
  BY FreshScan DEF VerificationInit, Opened, OneVisit, DisclosedAsChosen,
                   LandedIsKnown, Follows
<1> QED
  BY <1>1, <1>2 DEF PageIInv

(* Walking to a step shows it afresh; the requests of the last one start   *)
(* with the level it was reached with.                                     *)
LEMMA WalkedTo ==
  ASSUME PageIInv, NEW step \in 0..5, NEW level \in {None} \cup Levels,
         page' = [step |-> step, level |-> level, scan |-> Fresh],
         step = 4 => level \in Levels,
         step # 4 => requests' = <<>>,
         requests' \in Seq(Requests),
         \A i \in DOMAIN requests' : requests'[i].level = level,
         tally' \in [switches : Nat, visits : Nat],
         UNCHANGED <<registryVars, quick, account, txs>>
  PROVE  PageIInv' /\ [Next]_vars
<1>1. /\ page' \in Pages /\ page'.scan = Fresh
      /\ page'.step = step /\ page'.level = level
  BY FreshScan DEF Pages
<1>2. /\ UNCHANGED <<now, userIdFromAddress, userRegistrations>>
      /\ account' = account /\ txs' = txs
  BY DEF registryVars, vars
<1>3. PageTypeOK'
  BY <1>1, <1>2 DEF PageIInv, PageTypeOK
<1>4. OneVisit'
  BY <1>1, FreshScan DEF OneVisit
<1>5. DisclosedAsChosen' /\ LandedIsKnown'
  BY <1>2 DEF PageIInv, DisclosedAsChosen, LandedIsKnown
<1>6. Follows'
  BY <1>1, FreshScan DEF Follows
<1> QED
  BY <1>2, <1>3, <1>4, <1>5, <1>6 DEF PageIInv, vars

(* What the page's state is made of. *)
LEMMA PageParts ==
  ASSUME PageIInv
  PROVE  /\ page = [step |-> page.step, level |-> page.level, scan |-> page.scan]
         /\ page.step \in 0..5 /\ page.level \in {None} \cup Levels
         /\ page.scan \in Scans
BY DEF PageIInv, PageTypeOK, Pages

(* The effect asks for one proof, of the level on the screen. *)
LEMMA RequestedFor ==
  ASSUME PageIInv, page.level \in Levels, NEW address \in Addresses \cup {Nobody}
  PROVE  /\ RequestFor(address) \in Seq(Requests)
         /\ \A i \in DOMAIN RequestFor(address) : RequestFor(address)[i].level = page.level
<1>1. CASE address = Nobody
  BY <1>1 DEF RequestFor
<1>2. CASE address # Nobody
  <2>1. [address |-> address, level |-> page.level, state |-> "constructing"] \in Requests
    BY <1>2 DEF Requests
  <2>2. RequestFor(address)
          = <<[address |-> address, level |-> page.level, state |-> "constructing"]>>
    BY <1>2 DEF RequestFor
  <2> QED
    BY <2>1, <2>2
<1> QED
  BY <1>1, <1>2

LEMMA WalkPreserves ==
  ASSUME PageIInv,
         \/ Open \/ GoNext \/ GoBack \/ GoHome \/ ReturnHome \/ TryAgain
         \/ \E level \in Levels : ChooseLevel(level)
  PROVE  PageIInv' /\ [Next]_vars
<1>1. /\ page = [step |-> page.step, level |-> page.level, scan |-> page.scan]
      /\ page.step \in 0..5 /\ page.level \in {None} \cup Levels
  BY PageParts
<1>2. /\ account \in Addresses \cup {Nobody}
      /\ tally \in [switches : Nat, visits : Nat]
      /\ page.step # 4 => page.scan = Fresh /\ requests = <<>>
  BY DEF PageIInv, PageTypeOK, OneVisit
<1>3. <<>> \in Seq(Requests) /\ \A i \in DOMAIN <<>> : FALSE
  OBVIOUS
<1>4. ASSUME Open \/ TryAgain PROVE PageIInv' /\ [Next]_vars
  <2>1. /\ page' = [step |-> 0, level |-> None, scan |-> Fresh]
        /\ requests' = <<>> /\ tally' = tally
        /\ UNCHANGED <<registryVars, quick, account, txs>>
    BY <1>2, <1>4 DEF Open, TryAgain, Opened, Home
  <2> QED
    BY <1>2, <1>3, <2>1, WalkedTo
<1>5. ASSUME GoNext PROVE PageIInv' /\ [Next]_vars
  <2>1. /\ page.step \in 0..3
        /\ page' = [step |-> page.step + 1, level |-> page.level, scan |-> Fresh]
        /\ UNCHANGED <<registryVars, quick, account, txs>>
    BY <1>1, <1>5 DEF GoNext, Shown
  <2>2. tally' \in [switches : Nat, visits : Nat]
    BY <1>2, <1>5 DEF GoNext
  <2>3. page.step + 1 \in 0..5
    BY <2>1
  <2>4. CASE page.step = 3
    <3>1. page.level \in Levels /\ requests' = RequestFor(account)
      BY <1>1, <1>5, <2>4 DEF GoNext
    <3> QED
      BY <1>1, <1>2, <2>1, <2>2, <2>3, <2>4, <3>1, RequestedFor, WalkedTo
  <2>5. CASE page.step # 3
    <3>1. requests' = <<>> /\ page.step + 1 # 4
      BY <1>5, <2>1, <2>5 DEF GoNext
    <3> QED
      BY <1>1, <1>3, <2>1, <2>2, <2>3, <3>1, WalkedTo
  <2> QED
    BY <2>4, <2>5
<1>6. ASSUME GoBack PROVE PageIInv' /\ [Next]_vars
  <2> DEFINE step == IF page.step = 0 THEN Home ELSE page.step - 1
  <2>1. /\ page' = [step |-> step, level |-> page.level, scan |-> Fresh]
        /\ requests' = <<>> /\ tally' = tally
        /\ UNCHANGED <<registryVars, quick, account, txs>>
    BY <1>1, <1>6 DEF GoBack, Shown
  <2>2. step \in 0..5 /\ step # 4
    BY <1>6 DEF GoBack, Steps, Home
  <2> HIDE DEF step
  <2> QED
    BY <1>1, <1>2, <1>3, <2>1, <2>2, WalkedTo
<1>7. ASSUME GoHome PROVE PageIInv' /\ [Next]_vars
  <2>1. /\ page' = [step |-> 5, level |-> None, scan |-> Fresh]
        /\ requests' = <<>> /\ tally' = tally
        /\ UNCHANGED <<registryVars, quick, account, txs>>
    BY <1>1, <1>7 DEF GoHome, Shown, Home
  <2> QED
    BY <1>2, <1>3, <2>1, WalkedTo
<1>8. ASSUME NEW level \in Levels, ChooseLevel(level) PROVE PageIInv' /\ [Next]_vars
  <2>1. /\ page' = [step |-> 3, level |-> level, scan |-> Fresh]
        /\ requests' = <<>> /\ tally' = tally
        /\ UNCHANGED <<registryVars, quick, account, txs>>
    BY <1>1, <1>2, <1>8 DEF ChooseLevel
  <2> QED
    BY <1>2, <1>3, <2>1, WalkedTo
<1> QED
  BY <1>4, <1>5, <1>6, <1>7, <1>8 DEF ReturnHome

(* Another account starts another request of the same level. *)
LEMMA SwitchPreserves ==
  ASSUME PageIInv, NEW address \in Addresses \cup {Nobody}, SwitchAccount(address)
  PROVE  PageIInv' /\ [Next]_vars
<1>1. /\ requests \in Seq(Requests) /\ tally \in [switches : Nat, visits : Nat]
      /\ \A i \in DOMAIN requests : requests[i].level = page.level
      /\ Mounted => page.level \in Levels
      /\ ~Mounted => requests = <<>>
  BY DEF PageIInv, PageTypeOK, OneVisit, Mounted
<1>2. /\ account' = address /\ page' = page /\ txs' = txs
      /\ UNCHANGED <<now, userIdFromAddress, userRegistrations>>
      /\ requests' = IF Mounted THEN requests \o RequestFor(address) ELSE requests
      /\ tally' = [tally EXCEPT !.switches = @ + 1]
  BY DEF SwitchAccount, registryVars, vars
<1>3. /\ requests' \in Seq(Requests)
      /\ \A i \in DOMAIN requests' : requests'[i].level = page.level
      /\ ~Mounted => requests' = <<>>
  <2>1. CASE Mounted
    <3> DEFINE more == RequestFor(address)
    <3>1. /\ more \in Seq(Requests)
          /\ \A i \in DOMAIN more : more[i].level = page.level
      BY <1>1, <2>1, RequestedFor
    <3>2. requests' = requests \o more
      BY <1>2, <2>1
    <3> HIDE DEF more
    <3>3. requests' \in Seq(Requests)
      BY <1>1, <3>1, <3>2
    <3>4. ASSUME NEW i \in DOMAIN requests' PROVE requests'[i].level = page.level
      <4>1. /\ Len(requests) \in Nat /\ Len(more) \in Nat
            /\ DOMAIN requests = 1..Len(requests) /\ DOMAIN more = 1..Len(more)
            /\ i \in 1..(Len(requests) + Len(more))
        BY <1>1, <3>1, <3>2
      <4>2. CASE i <= Len(requests)
        BY <1>1, <3>1, <3>2, <4>1, <4>2
      <4>3. CASE i > Len(requests)
        <5>1. i - Len(requests) \in DOMAIN more /\ requests'[i] = more[i - Len(requests)]
          BY <1>1, <3>1, <3>2, <4>1, <4>3
        <5> QED
          BY <3>1, <5>1
      <4> QED
        BY <4>1, <4>2, <4>3
    <3> QED
      BY <2>1, <3>3, <3>4
  <2>2. CASE ~Mounted
    BY <1>1, <1>2, <2>2
  <2> QED
    BY <2>1, <2>2
<1>4. PageTypeOK'
  BY <1>1, <1>2, <1>3 DEF PageIInv, PageTypeOK
<1>5. OneVisit'
  BY <1>2, <1>3 DEF PageIInv, OneVisit, Mounted
<1>6. DisclosedAsChosen' /\ LandedIsKnown' /\ Follows'
  BY <1>2 DEF PageIInv, DisclosedAsChosen, LandedIsKnown, Follows
<1> QED
  BY <1>2, <1>4, <1>5, <1>6 DEF PageIInv, vars

-----------------------------------------------------------------------------
(* What a callback or an answer writes to the page's last step. *)
LEMMA ScanSet ==
  ASSUME PageIInv, NEW scan \in Scans, SetScan(scan)
  PROVE  /\ page' \in Pages /\ page'.scan = scan
         /\ page'.step = page.step /\ page'.level = page.level
BY DEF PageIInv, PageTypeOK, Pages, SetScan

(* A request moves on; its level is the one it was made with. *)
LEMMA RequestAdvances ==
  ASSUME PageIInv, NEW i, NEW from, NEW to \in {"open", "scanned", "generating", "answered"},
         Advance(i, from, to)
  PROVE  /\ i \in DOMAIN requests /\ page.step = 4
         /\ requests' \in Seq(Requests)
         /\ DOMAIN requests' = DOMAIN requests
         /\ \A j \in DOMAIN requests : requests'[j].level = requests[j].level
         /\ UNCHANGED <<now, userIdFromAddress, userRegistrations, account, txs, tally>>
<1>1. /\ i \in DOMAIN requests
      /\ requests' = [requests EXCEPT ![i].state = to]
      /\ UNCHANGED <<now, userIdFromAddress, userRegistrations, account, txs, tally>>
  BY DEF Advance, registryVars, vars
<1>2. requests \in Seq(Requests) /\ page.step = 4
  BY <1>1 DEF PageIInv, PageTypeOK, OneVisit
<1> DEFINE r == requests[i]
           advanced == [address |-> r.address, level |-> r.level, state |-> to]
<1>3. r \in Requests
  BY <1>1, <1>2
<1>4. advanced \in Requests /\ [r EXCEPT !.state = to] = advanced
  BY <1>3 DEF Requests
<1>5. requests' = [requests EXCEPT ![i] = advanced]
  BY <1>1, <1>4
<1>6. advanced.level = r.level
  OBVIOUS
<1> HIDE DEF advanced
<1> QED
  BY <1>1, <1>2, <1>4, <1>5, <1>6

(* A callback that neither confirms nor proves anything. *)
LEMMA CallbackPreserves ==
  ASSUME PageIInv, NEW scan \in Scans, SetScan(scan), page.step = 4,
         scan.phase = "PROOF_GENERATED" =>
           /\ scan.params \in Proofs
           /\ Discloses(scan.params) => page.level = "nationality",
         scan.phase = "VERIFIED" => page.scan.phase = "VERIFIED",
         scan.hash = page.scan.hash,
         requests' \in Seq(Requests), DOMAIN requests' = DOMAIN requests,
         \A j \in DOMAIN requests : requests'[j].level = requests[j].level,
         UNCHANGED <<now, userIdFromAddress, userRegistrations, account, txs, tally>>
  PROVE  PageIInv' /\ [Next]_vars
<1>1. /\ page' \in Pages /\ page'.scan = scan
      /\ page'.step = page.step /\ page'.level = page.level
  BY ScanSet
<1>2. PageTypeOK'
  BY <1>1 DEF PageIInv, PageTypeOK
<1>3. OneVisit'
  BY <1>1 DEF PageIInv, OneVisit
<1>4. DisclosedAsChosen' /\ LandedIsKnown' /\ Follows'
  BY <1>1 DEF PageIInv, DisclosedAsChosen, LandedIsKnown, Follows
<1> QED
  BY <1>2, <1>3, <1>4 DEF PageIInv, vars

LEMMA PhonePreserves ==
  ASSUME PageIInv, Phone
  PROVE  PageIInv' /\ [Next]_vars
<1>1. page.scan \in Scans
  BY PageParts
<1>2. page.scan.phase = "PROOF_GENERATED" =>
        /\ page.scan.params \in Proofs
        /\ Discloses(page.scan.params) => page.level = "nationality"
  BY DEF PageIInv, OneVisit
<1>3. /\ {"GENERATING_PROOF", "PROOF_GENERATED", "REJECTED", "ERROR"} \subseteq Phases
      /\ "VERIFIED" \notin {"GENERATING_PROOF", "PROOF_GENERATED", "REJECTED", "ERROR"}
  BY DEF Phases
<1>4. ASSUME Scan PROVE PageIInv' /\ [Next]_vars
  <2>1. page' = page /\ Advance(page.scan.link, {"open"}, "scanned")
    BY <1>4 DEF Scan
  <2>2. SetScan(page.scan)
    BY <2>1, PageParts DEF SetScan
  <2>3. /\ page.step = 4
        /\ requests' \in Seq(Requests) /\ DOMAIN requests' = DOMAIN requests
        /\ \A j \in DOMAIN requests : requests'[j].level = requests[j].level
        /\ UNCHANGED <<now, userIdFromAddress, userRegistrations, account, txs, tally>>
    BY <2>1, RequestAdvances
  <2> QED
    BY <1>1, <1>2, <2>2, <2>3, CallbackPreserves
<1>5. ASSUME NEW i \in DOMAIN requests, Constructed(i) PROVE PageIInv' /\ [Next]_vars
  <2> DEFINE scan == [page.scan EXCEPT !.link = i]
  <2>1. SetScan(scan) /\ Advance(i, {"constructing"}, "open")
    BY <1>5 DEF Constructed
  <2>2. i \in Nat
    BY DEF PageIInv, PageTypeOK
  <2>3. /\ scan \in Scans /\ scan.phase = page.scan.phase
        /\ scan.params = page.scan.params /\ scan.hash = page.scan.hash
    BY <1>1, <2>2 DEF Scans
  <2>4. /\ page.step = 4
        /\ requests' \in Seq(Requests) /\ DOMAIN requests' = DOMAIN requests
        /\ \A j \in DOMAIN requests : requests'[j].level = requests[j].level
        /\ UNCHANGED <<now, userIdFromAddress, userRegistrations, account, txs, tally>>
    BY <2>1, RequestAdvances
  <2> HIDE DEF scan
  <2> QED
    BY <1>2, <2>1, <2>3, <2>4, CallbackPreserves
<1>6. ASSUME NEW i \in DOMAIN requests, NEW from,
             NEW phase \in {"GENERATING_PROOF", "REJECTED", "ERROR"},
             NEW to \in {"generating", "answered"},
             Advance(i, from, to), SetScan([page.scan EXCEPT !.phase = phase])
      PROVE  PageIInv' /\ [Next]_vars
  <2> DEFINE scan == [page.scan EXCEPT !.phase = phase]
  <2>1. /\ scan \in Scans /\ scan.phase = phase /\ scan.hash = page.scan.hash
    BY <1>1, <1>3 DEF Scans
  <2>2. /\ page.step = 4
        /\ requests' \in Seq(Requests) /\ DOMAIN requests' = DOMAIN requests
        /\ \A j \in DOMAIN requests : requests'[j].level = requests[j].level
        /\ UNCHANGED <<now, userIdFromAddress, userRegistrations, account, txs, tally>>
    BY <1>6, RequestAdvances
  <2>3. SetScan(scan)
    BY <1>6
  <2> HIDE DEF scan
  <2> QED
    BY <1>3, <2>1, <2>2, <2>3, CallbackPreserves
<1>7. ASSUME NEW i \in DOMAIN requests, ProofGenerated(i) PROVE PageIInv' /\ [Next]_vars
  <2> DEFINE params == ParamsOf(requests[i])
             scan == [page.scan EXCEPT !.params = params, !.phase = "PROOF_GENERATED"]
  <2>1. SetScan(scan) /\ Advance(i, {"generating"}, "answered")
    BY <1>7 DEF ProofGenerated
  <2>2. requests[i] \in Requests /\ requests[i].level = page.level
    BY DEF PageIInv, PageTypeOK, OneVisit
  <2>3. params \in Proofs /\ (Discloses(params) => page.level = "nationality")
    BY <2>2, VerificationAssumption DEF ParamsOf, Proofs, Verdicts, Discloses, Requests
  <2> HIDE DEF params
  <2>4. /\ scan \in Scans /\ scan.phase = "PROOF_GENERATED"
        /\ scan.params = params /\ scan.hash = page.scan.hash
    BY <1>1, <1>3, <2>3 DEF Scans
  <2>5. /\ page.step = 4
        /\ requests' \in Seq(Requests) /\ DOMAIN requests' = DOMAIN requests
        /\ \A j \in DOMAIN requests : requests'[j].level = requests[j].level
        /\ UNCHANGED <<now, userIdFromAddress, userRegistrations, account, txs, tally>>
    BY <2>1, RequestAdvances
  <2> HIDE DEF scan
  <2> QED
    BY <2>1, <2>3, <2>4, <2>5, CallbackPreserves
<1> QED
  BY <1>4, <1>5, <1>6, <1>7 DEF Phone, GeneratingProof, Rejected, Failed

-----------------------------------------------------------------------------
(* A proof of this visit goes out, in the name of the account of now. *)
LEMMA SubmitPreserves ==
  ASSUME PageIInv, NEW proof, SubmitTx(proof), page.step = 4,
         account # Nobody => proof \in Proofs,
         account # Nobody /\ Discloses(proof) => page.level = "nationality"
  PROVE  PageIInv' /\ [Next]_vars
<1>1. page.scan \in Scans /\ page.level \in Levels /\ account \in Addresses \cup {Nobody}
  BY PageParts DEF PageIInv, PageTypeOK, OneVisit
<1>2. /\ requests' = requests /\ account' = account /\ tally' = tally
      /\ UNCHANGED <<now, userIdFromAddress, userRegistrations>>
  BY DEF SubmitTx, registryVars, vars
<1>3. {"TX_FAILED", "SUBMITTING_TX"} \subseteq Phases
  BY DEF Phases
<1>4. CASE account = Nobody
  <2> DEFINE scan == [page.scan EXCEPT !.phase = "TX_FAILED"]
  <2>1. SetScan(scan) /\ txs' = txs
    BY <1>4 DEF SubmitTx
  <2>2. scan \in Scans /\ scan.phase = "TX_FAILED" /\ scan.hash = page.scan.hash
    BY <1>1, <1>3 DEF Scans
  <2>3. requests' \in Seq(Requests) /\ \A j \in DOMAIN requests : requests'[j].level = requests[j].level
    BY <1>2 DEF PageIInv, PageTypeOK
  <2> HIDE DEF scan
  <2> QED
    BY <1>2, <2>1, <2>2, <2>3, CallbackPreserves
<1>5. CASE account # Nobody
  <2> DEFINE scan == [page.scan EXCEPT !.phase = "SUBMITTING_TX"]
             tx == Submission(proof)
  <2>1. SetScan(scan) /\ txs' = Append(txs, tx)
    BY <1>5 DEF SubmitTx
  <2>2. scan \in Scans /\ scan.phase = "SUBMITTING_TX" /\ scan.hash = page.scan.hash
    BY <1>1, <1>3 DEF Scans
  <2>3. /\ tx \in Submissions /\ tx.fate = "asked"
        /\ Discloses(tx.proof) => tx.level = "nationality"
    <3>1. tally.visits \in Nat
      BY DEF PageIInv, PageTypeOK
    <3> QED
      BY <1>1, <1>5, <3>1 DEF Submission, Submissions
  <2>4. txs \in Seq(Submissions)
    BY DEF PageIInv, PageTypeOK
  <2> HIDE DEF scan, tx
  <2>5. /\ txs' \in Seq(Submissions) /\ DOMAIN txs \subseteq DOMAIN txs'
        /\ \A i \in DOMAIN txs : txs'[i] = txs[i]
        /\ \A i \in DOMAIN txs' : i \in DOMAIN txs \/ txs'[i] = tx
    BY <2>1, <2>3, <2>4
  <2>6. /\ page' \in Pages /\ page'.scan = scan
        /\ page'.step = page.step /\ page'.level = page.level
    BY <2>1, <2>2, ScanSet
  <2>7. PageTypeOK'
    BY <1>2, <2>5, <2>6 DEF PageIInv, PageTypeOK
  <2>8. OneVisit'
    BY <1>2, <2>2, <2>6 DEF PageIInv, OneVisit
  <2>9. DisclosedAsChosen' /\ LandedIsKnown'
    BY <1>2, <2>3, <2>5 DEF PageIInv, DisclosedAsChosen, LandedIsKnown, Discloses
  <2>10. Follows'
    BY <2>2, <2>5, <2>6 DEF PageIInv, Follows
  <2> QED
    BY <1>2, <2>7, <2>8, <2>9, <2>10 DEF PageIInv, vars
<1> QED
  BY <1>4, <1>5

LEMMA RegisterClickPreserves ==
  ASSUME PageIInv, HandleRegisterClick \/ DevModeRegister
  PROVE  PageIInv' /\ [Next]_vars
<1>1. CASE HandleRegisterClick
  BY <1>1, SubmitPreserves DEF HandleRegisterClick, Mounted, PageIInv, OneVisit
<1>2. CASE DevModeRegister
  <2> DEFINE proof == [uniqueIdentifier |-> IF account = Nobody THEN NO_USER
                                            ELSE OwnIdentity[account],
                       nationality |-> Undisclosed, senderAddress |-> account,
                       verdict |-> "good"]
  <2>1. SubmitTx(proof) /\ page.step = 4
    BY <1>2 DEF DevModeRegister, Mounted
  <2>2. account # Nobody => proof \in Proofs
    BY VerificationAssumption DEF PageIInv, PageTypeOK, Proofs, Verdicts
  <2>3. ~Discloses(proof)
    BY DEF Discloses
  <2> HIDE DEF proof
  <2> QED
    BY <2>1, <2>2, <2>3, SubmitPreserves
<1> QED
  BY <1>1, <1>2

-----------------------------------------------------------------------------
(* A transaction moves on; what it submits stays what it was. *)
LEMMA TxChanged ==
  ASSUME PageIInv, NEW i \in DOMAIN txs, NEW tx \in Submissions, ChangeTx(i, tx),
         tx.sender = txs[i].sender, tx.proof = txs[i].proof, tx.level = txs[i].level
  PROVE  /\ txs' \in Seq(Submissions) /\ DOMAIN txs' = DOMAIN txs
         /\ txs'[i] = tx
         /\ \A j \in DOMAIN txs : j # i => txs'[j] = txs[j]
         /\ DisclosedAsChosen'
         /\ UNCHANGED <<account, requests, tally>>
<1>1. txs \in Seq(Submissions)
  BY DEF PageIInv, PageTypeOK
<1>2. txs' = [txs EXCEPT ![i] = tx] /\ UNCHANGED <<account, requests, tally>>
  BY DEF ChangeTx
<1>3. /\ txs' \in Seq(Submissions) /\ DOMAIN txs' = DOMAIN txs
      /\ txs'[i] = tx
      /\ \A j \in DOMAIN txs : j # i => txs'[j] = txs[j]
  BY <1>1, <1>2
<1>4. DisclosedAsChosen'
  BY <1>3 DEF PageIInv, DisclosedAsChosen
<1> QED
  BY <1>2, <1>3, <1>4

(* The page while a transaction that has not landed moves on. *)
LEMMA PendingPreserves ==
  ASSUME PageIInv, NEW i \in DOMAIN txs, NEW tx \in Submissions, ChangeTx(i, tx),
         tx.sender = txs[i].sender, tx.proof = txs[i].proof, tx.level = txs[i].level,
         tx.fate = "landed" <=> txs[i].fate = "landed",
         UNCHANGED registryVars,
         \/ page' = page
         \/ \E scan \in Scans :
              /\ SetScan(scan) /\ page.step = 4
              /\ scan.phase \notin {"PROOF_GENERATED", "VERIFIED"}
              /\ scan.hash \in {page.scan.hash, i}
  PROVE  PageIInv' /\ [Next]_vars
<1>1. /\ txs' \in Seq(Submissions) /\ DOMAIN txs' = DOMAIN txs
      /\ txs'[i] = tx
      /\ \A j \in DOMAIN txs : j # i => txs'[j] = txs[j]
      /\ DisclosedAsChosen'
      /\ UNCHANGED <<account, requests, tally>>
  BY TxChanged
<1>2. UNCHANGED <<now, userIdFromAddress, userRegistrations>>
  BY DEF registryVars, vars
<1>3. LandedIsKnown'
  BY <1>1, <1>2 DEF PageIInv, LandedIsKnown
<1>4. \A j \in DOMAIN txs : txs[j].fate = "landed" => txs'[j].fate = "landed"
  BY <1>1
<1>5. CASE page' = page
  BY <1>1, <1>2, <1>3, <1>4, <1>5 DEF PageIInv, PageTypeOK, OneVisit, Follows, vars
<1>6. ASSUME NEW scan \in Scans, SetScan(scan), page.step = 4,
             scan.phase \notin {"PROOF_GENERATED", "VERIFIED"},
             scan.hash \in {page.scan.hash, i}
      PROVE  PageIInv' /\ [Next]_vars
  <2>1. /\ page' \in Pages /\ page'.scan = scan
        /\ page'.step = page.step /\ page'.level = page.level
    BY <1>6, ScanSet
  <2>2. PageTypeOK' /\ OneVisit' /\ Follows'
    BY <1>1, <1>2, <1>6, <2>1 DEF PageIInv, PageTypeOK, OneVisit, Follows
  <2> QED
    BY <1>1, <1>2, <1>3, <2>2 DEF PageIInv, vars
<1> QED
  BY <1>5, <1>6

LEMMA TxPreserves ==
  ASSUME PageIInv, NEW i \in DOMAIN txs, Send(i) \/ Refused(i) \/ Submitted(i)
  PROVE  PageIInv' /\ [Next]_vars
<1> DEFINE tx == txs[i]
           moved(fate) == [sender |-> tx.sender, proof |-> tx.proof, level |-> tx.level,
                           visit |-> tx.visit, fate |-> fate, known |-> tx.known]
           told == [sender |-> tx.sender, proof |-> tx.proof, level |-> tx.level,
                    visit |-> tx.visit, fate |-> tx.fate, known |-> TRUE]
<1>1. tx \in Submissions /\ page.scan \in Scans /\ i \in Nat
  BY PageParts DEF PageIInv, PageTypeOK
<1>2. /\ told \in Submissions /\ [tx EXCEPT !.known = TRUE] = told
      /\ \A fate \in {"sent", "refused"} :
           moved(fate) \in Submissions /\ [tx EXCEPT !.fate = fate] = moved(fate)
  <2>1. told \in Submissions /\ [tx EXCEPT !.known = TRUE] = told
    <3>1. told \in Submissions
      BY <1>1 DEF Submissions
    <3>2. \A known :
            [tx EXCEPT !.known = known]
              = [sender |-> tx.sender, proof |-> tx.proof, level |-> tx.level,
                 visit |-> tx.visit, fate |-> tx.fate, known |-> known]
      BY <1>1 DEF Submissions
    <3> QED
      BY <3>1, <3>2, Zenon
  <2>2. \A fate \in {"sent", "refused"} :
          moved(fate) \in Submissions /\ [tx EXCEPT !.fate = fate] = moved(fate)
    BY <1>1 DEF Submissions
  <2> QED
    BY <2>1, <2>2
<1>3. {"TX_FAILED", "CONFIRMING_TX"} \subseteq Phases
  BY DEF Phases
<1>4. CASE Send(i)
  <2>1. ChangeTx(i, moved("sent")) /\ tx.fate = "asked" /\ UNCHANGED <<registryVars, page>>
    BY <1>2, <1>4 DEF Send
  <2> QED
    BY <1>2, <2>1, PendingPreserves
<1>5. CASE Refused(i)
  <2> DEFINE scan == [page.scan EXCEPT !.phase = "TX_FAILED"]
  <2>1. /\ ChangeTx(i, moved("refused")) /\ tx.fate = "asked" /\ UNCHANGED registryVars
        /\ page' = page \/ (SetScan(scan) /\ page.step = 4)
    BY <1>2, <1>5 DEF Refused, OfThisVisit, Mounted
  <2>2. scan \in Scans /\ scan.phase = "TX_FAILED" /\ scan.hash = page.scan.hash
    BY <1>1, <1>3 DEF Scans
  <2> HIDE DEF scan
  <2> QED
    BY <1>2, <2>1, <2>2, PendingPreserves
<1>6. CASE Submitted(i)
  <2> DEFINE scan == [page.scan EXCEPT !.hash = i, !.phase = "CONFIRMING_TX",
                                       !.received = FALSE, !.returning = FALSE]
  <2>1. /\ ChangeTx(i, told) /\ UNCHANGED registryVars
        /\ page' = page \/ (SetScan(scan) /\ page.step = 4)
    BY <1>2, <1>6 DEF Submitted, OfThisVisit, Mounted
  <2>2. scan \in Scans /\ scan.phase = "CONFIRMING_TX" /\ scan.hash = i
    BY <1>1, <1>3 DEF Scans
  <2> HIDE DEF scan
  <2> QED
    BY <1>2, <2>1, <2>2, PendingPreserves
<1> QED
  BY <1>4, <1>5, <1>6

-----------------------------------------------------------------------------
(* A registration, this page's or another's, disturbs none that landed. *)
LEMMA RegisterKeepsLanded ==
  ASSUME PageIInv, NEW sender \in Addresses, NEW proof \in Proofs,
         Register(sender, proof)
  PROVE  /\ userIdFromAddress' \in [Addresses -> Ids \cup {NO_USER}]
         /\ userIdFromAddress'[sender] = proof.uniqueIdentifier
         /\ \A i \in DOMAIN txs :
              txs[i].fate = "landed" =>
                userIdFromAddress'[txs[i].sender] = txs[i].proof.uniqueIdentifier
<1>1. /\ userIdFromAddress \in [Addresses -> Ids \cup {NO_USER}]
      /\ proof.uniqueIdentifier \in Ids
      /\ userIdFromAddress[sender] \in {NO_USER, proof.uniqueIdentifier}
      /\ userIdFromAddress' = [userIdFromAddress EXCEPT ![sender] = proof.uniqueIdentifier]
  BY DEF PageIInv, PageTypeOK, Proofs, Register
<1>2. ASSUME NEW i \in DOMAIN txs, txs[i].fate = "landed"
      PROVE  userIdFromAddress'[txs[i].sender] = txs[i].proof.uniqueIdentifier
  <2>1. txs[i] \in Submissions
    BY DEF PageIInv, PageTypeOK
  <2>2. /\ txs[i].sender \in Addresses
        /\ txs[i].proof.uniqueIdentifier \in Ids
        /\ userIdFromAddress[txs[i].sender] = txs[i].proof.uniqueIdentifier
    BY <1>2, <2>1 DEF PageIInv, LandedIsKnown, Submissions, Proofs
  <2> QED
    BY <1>1, <2>2, RegistryAssumption
<1> QED
  BY <1>1, <1>2

LEMMA IncludePreserves ==
  ASSUME PageIInv, NEW i \in DOMAIN txs, Include(i)
  PROVE  PageIInv' /\ [Next]_vars
<1> DEFINE tx == txs[i]
           moved(fate) == [sender |-> tx.sender, proof |-> tx.proof, level |-> tx.level,
                           visit |-> tx.visit, fate |-> fate, known |-> tx.known]
<1>1. tx \in Submissions
  BY DEF PageIInv, PageTypeOK
<1>2. \A fate \in {"landed", "reverted"} :
        moved(fate) \in Submissions /\ [tx EXCEPT !.fate = fate] = moved(fate)
  BY <1>1 DEF Submissions
<1>3. CASE Registers(tx) /\ ChangeTx(i, [tx EXCEPT !.fate = "landed"])
  <2>1. Register(tx.sender, tx.proof) /\ ChangeTx(i, moved("landed")) /\ page' = page
    BY <1>2, <1>3 DEF Registers, Include
  <2>2. tx.sender \in Addresses /\ tx.proof \in Proofs
    BY <1>1 DEF Submissions
  <2>3. /\ userIdFromAddress' \in [Addresses -> Ids \cup {NO_USER}]
        /\ userIdFromAddress'[tx.sender] = tx.proof.uniqueIdentifier
        /\ \A j \in DOMAIN txs :
             txs[j].fate = "landed" =>
               userIdFromAddress'[txs[j].sender] = txs[j].proof.uniqueIdentifier
    BY <2>1, <2>2, RegisterKeepsLanded
  <2>4. /\ txs' \in Seq(Submissions) /\ DOMAIN txs' = DOMAIN txs
        /\ txs'[i] = moved("landed")
        /\ \A j \in DOMAIN txs : j # i => txs'[j] = txs[j]
        /\ DisclosedAsChosen'
        /\ UNCHANGED <<account, requests, tally>>
    BY <1>2, <2>1, TxChanged
  <2>5. PageTypeOK' /\ OneVisit' /\ LandedIsKnown' /\ Follows'
    BY <2>1, <2>3, <2>4 DEF PageIInv, PageTypeOK, OneVisit, LandedIsKnown, Follows
  <2>6. Next
    BY <2>1, <2>2 DEF Next
  <2> QED
    BY <2>4, <2>5, <2>6 DEF PageIInv
<1>4. CASE ChangeTx(i, [tx EXCEPT !.fate = "reverted"]) /\ UNCHANGED registryVars
  <2>1. ChangeTx(i, moved("reverted")) /\ page' = page /\ tx.fate = "sent"
    BY <1>2, <1>4 DEF Include
  <2> QED
    BY <1>2, <1>4, <2>1, PendingPreserves
<1> QED
  BY <1>3, <1>4 DEF Include

(* The receipt of a registration says how it ended. *)
LEMMA ReceiptPreserves ==
  ASSUME PageIInv, Receipt \/ ReceiptError
  PROVE  PageIInv' /\ [Next]_vars
<1> DEFINE verified == [page.scan EXCEPT !.phase = "VERIFIED", !.received = TRUE,
                                         !.returning = TRUE]
           failed == [page.scan EXCEPT !.phase = "TX_FAILED", !.hash = None]
<1>1. /\ page.scan \in Scans /\ page.scan.hash # None
      /\ page.scan.hash \in DOMAIN txs
      /\ page.step = 4
  BY PageParts, FreshScan DEF Receipt, ReceiptError, PageIInv, OneVisit, Follows
<1>2. /\ requests' = requests /\ account' = account /\ tally' = tally /\ txs' = txs
      /\ UNCHANGED <<now, userIdFromAddress, userRegistrations>>
      /\ \/ SetScan(verified) /\ txs[page.scan.hash].fate = "landed"
         \/ SetScan(failed)
  BY DEF Receipt, ReceiptError, registryVars, vars
<1>3. /\ verified \in Scans /\ failed \in Scans
      /\ verified.phase = "VERIFIED" /\ verified.hash = page.scan.hash
      /\ failed.phase = "TX_FAILED" /\ failed.hash = None
  BY <1>1 DEF Scans, Phases
<1> HIDE DEF verified, failed
<1>4. PICK scan \in {verified, failed} :
        /\ SetScan(scan)
        /\ scan = verified => txs[page.scan.hash].fate = "landed"
  BY <1>2, <1>3
<1>5. /\ page' \in Pages /\ page'.scan = scan
      /\ page'.step = page.step /\ page'.level = page.level
  BY <1>3, <1>4, ScanSet
<1>6. PageTypeOK'
  BY <1>2, <1>5 DEF PageIInv, PageTypeOK
<1>7. OneVisit'
  BY <1>1, <1>2, <1>3, <1>4, <1>5 DEF PageIInv, OneVisit
<1>8. DisclosedAsChosen' /\ LandedIsKnown'
  BY <1>2 DEF PageIInv, DisclosedAsChosen, LandedIsKnown
<1>9. Follows'
  BY <1>1, <1>2, <1>3, <1>4, <1>5 DEF Follows
<1> QED
  BY <1>2, <1>6, <1>7, <1>8, <1>9 DEF PageIInv, vars

LEMMA ElsewherePreserves ==
  ASSUME PageIInv, Elsewhere
  PROVE  PageIInv' /\ [Next]_vars
<1>1. Next /\ UNCHANGED <<account, page, requests, txs, tally>>
  BY DEF Elsewhere, pageVars
<1>2. /\ userIdFromAddress' \in [Addresses -> Ids \cup {NO_USER}]
      /\ \A i \in DOMAIN txs :
           txs[i].fate = "landed" =>
             userIdFromAddress'[txs[i].sender] = txs[i].proof.uniqueIdentifier
  <2>1. CASE Tick
    BY <2>1 DEF Tick, PageIInv, PageTypeOK, LandedIsKnown
  <2> QED
    BY <1>1, <2>1, RegisterKeepsLanded DEF Next
<1>3. PageTypeOK' /\ OneVisit' /\ DisclosedAsChosen' /\ LandedIsKnown' /\ Follows'
  BY <1>1, <1>2 DEF PageIInv, PageTypeOK, OneVisit, DisclosedAsChosen,
                    LandedIsKnown, Follows
<1> QED
  BY <1>1, <1>3 DEF PageIInv

LEMMA NextPageIInv ==
  PageIInv /\ [VerificationNext]_allVars => PageIInv' /\ [Next]_vars
<1> SUFFICES ASSUME PageIInv, [VerificationNext]_allVars
             PROVE  PageIInv' /\ [Next]_vars
  OBVIOUS
<1>1. CASE Walk
  BY <1>1, WalkPreserves, SwitchPreserves DEF Walk
<1>2. CASE Phone
  BY <1>2, PhonePreserves
<1>3. CASE Chain
  BY <1>3, RegisterClickPreserves, ReceiptPreserves, TxPreserves, IncludePreserves DEF Chain
<1>4. CASE Elsewhere
  BY <1>4, ElsewherePreserves
<1>5. CASE UNCHANGED allVars
  BY <1>5 DEF allVars, registryVars, pageVars, vars, PageIInv, PageTypeOK, OneVisit,
              DisclosedAsChosen, LandedIsKnown, Follows
<1> QED
  BY <1>1, <1>2, <1>3, <1>4, <1>5 DEF VerificationNext

-----------------------------------------------------------------------------
THEOREM PageInvariant == VerificationSpec => []PageIInv
<1>1. PageIInv /\ [VerificationNext]_allVars => PageIInv'
  BY NextPageIInv
<1> QED
  BY <1>1, InitPageIInv, PTL DEF VerificationSpec

(***************************************************************************)
(* A registration discloses a nationality only if the visit that submits   *)
(* it chose "Personhood + Nationality" (GetVerified.tsx).                  *)
(***************************************************************************)
THEOREM AlwaysDisclosedAsChosen == VerificationSpec => []DisclosedAsChosen
<1>1. PageIInv => DisclosedAsChosen
  BY DEF PageIInv
<1> QED
  BY <1>1, PageInvariant, PTL

(***************************************************************************)
(* "Verified!" is shown of an account that the registry holds, as the      *)
(* person of the proof, and stays true while it is shown.                  *)
(***************************************************************************)
THEOREM VerifiedAlwaysRegistered == VerificationSpec => []VerifiedMeansRegistered
<1>1. PageIInv => VerifiedMeansRegistered
  BY DEF PageIInv, LandedIsKnown, Follows, VerifiedMeansRegistered
<1> QED
  BY <1>1, PageInvariant, PTL

(***************************************************************************)
(* Through the page, the phone, the wallet and the chain, the registry     *)
(* makes only steps of its own: all that is shown above of the registry    *)
(* holds of the one behind the page.                                       *)
(***************************************************************************)
THEOREM PageUsesRegistry == VerificationSpec => Spec
<1>1. VerificationInit => Init
  BY DEF VerificationInit
<1>2. PageIInv /\ [VerificationNext]_allVars => [Next]_vars
  BY NextPageIInv
<1> QED
  BY <1>1, <1>2, PageInvariant, PTL DEF VerificationSpec, Spec

=============================================================================
