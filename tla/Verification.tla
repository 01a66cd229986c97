---------------------------- MODULE Verification ----------------------------
(***************************************************************************)
(* The verification page of the web client (GetVerified.tsx) in front of   *)
(* the registry.  A visitor walks through five steps; the last one asks    *)
(* the passport app on a phone for a proof bound to the connected account  *)
(* and submits it.  The phone answers through callbacks that nobody        *)
(* cancels, the account may change under the page, the wallet and the      *)
(* chain answer when they like, and other people register meanwhile.       *)
(***************************************************************************)
EXTENDS Registry, SequencesExt

CONSTANTS
  Nobody,          \* no account is connected
  Passport,        \* what the visitor's passport proves: identifier, nationality
  OwnIdentity,     \* the identifier the Dev registry derives from an address
  None,
  MaxSwitches, MaxTxs, MaxVisits

ASSUME VerificationAssumption ==
  /\ Nobody \notin Addresses
  /\ Passport \in [uniqueIdentifier : Ids, nationality : Nationalities]
  /\ OwnIdentity \in [Addresses -> Ids]
  /\ {MaxSwitches, MaxTxs, MaxVisits} \subseteq Nat

VARIABLES
  quick,       \* isQuickRegisterMode, fixed when the client is built
  account,     \* useWalletAuth().address
  page,        \* the page's React state
  requests,    \* proof requests of this visit to the last step
  txs,         \* the registrations submitted from this browser
  tally        \* changes of account and visits to the last step, bounded

pageVars == <<quick, account, page, requests, txs, tally>>
registryVars == vars
allVars == <<registryVars, pageVars>>

Steps == 0..4
Home == 5
Phases == {"PRE_SCAN", "GENERATING_PROOF", "PROOF_GENERATED", "SUBMITTING_TX",
           "CONFIRMING_TX", "VERIFIED", "REJECTED", "TX_FAILED", "ERROR"}
Errors == {"REJECTED", "TX_FAILED", "ERROR"}
Levels == {"personhood", "nationality"}

(* StepScanVerify as it mounts; the earlier steps have no such state. *)
Fresh == [phase |-> "PRE_SCAN", link |-> None, params |-> None,
          hash |-> None, received |-> FALSE, returning |-> FALSE]

Opened == [step |-> 0, level |-> None, scan |-> Fresh]

VerificationInit ==
  /\ Init
  /\ quick \in BOOLEAN
  /\ account \in Addresses \cup {Nobody}
  /\ page = Opened
  /\ requests = <<>>
  /\ txs = <<>>
  /\ tally = [switches |-> 0, visits |-> 0]

-----------------------------------------------------------------------------
(* Walking through the steps. *)
Mounted == page.step = 4

(* The effect that constructs a request runs once there is an account, and *)
(* again whenever it is another one; it has no clean-up.                   *)
RequestFor(address) ==
  IF address = Nobody THEN <<>>
  ELSE <<[address |-> address, level |-> page.level, state |-> "constructing"]>>

(* A slip: the last step is only hidden, and its proof stays. *)
Hidden(step) == [page EXCEPT !.step = step]

Shown(step) == [page EXCEPT !.step = step, !.scan = Fresh]

Open ==
  /\ page.step = Home
  /\ page' = Opened
  /\ UNCHANGED <<registryVars, quick, account, requests, txs, tally>>

ChooseLevel(level) ==
  /\ page.step = 3
  /\ page' = [page EXCEPT !.level = level]
  /\ UNCHANGED <<registryVars, quick, account, requests, txs, tally>>

GoNext ==
  /\ page.step \in 0..3
  /\ page.step = 3 => page.level # None /\ tally.visits < MaxVisits
  /\ page' = Shown(page.step + 1)
  /\ requests' = IF page.step = 3 THEN RequestFor(account) ELSE <<>>
  /\ tally' = IF page.step = 3 THEN [tally EXCEPT !.visits = @ + 1] ELSE tally
  /\ UNCHANGED <<registryVars, quick, account, txs>>

(* Leaving the last step unmounts it: callbacks of its requests find no    *)
(* component any more.                                                     *)
GoBack ==
  /\ page.step \in Steps
  /\ page.scan.phase # "VERIFIED"
  /\ page' = Shown(IF page.step = 0 THEN Home ELSE page.step - 1)
  /\ requests' = <<>>
  /\ UNCHANGED <<registryVars, quick, account, txs, tally>>

GoHome ==
  /\ page.step \in Steps
  /\ page' = [Shown(Home) EXCEPT !.level = None]
  /\ requests' = <<>>
  /\ UNCHANGED <<registryVars, quick, account, txs, tally>>

(* Two seconds after the confirmation the page navigates home. *)
ReturnHome == page.scan.returning /\ GoHome

(* The page reloads: everything but the wallet's connection is gone. *)
TryAgain ==
  /\ Mounted /\ page.scan.phase \in Errors
  /\ page' = Opened
  /\ requests' = <<>>
  /\ UNCHANGED <<registryVars, quick, account, txs, tally>>

SwitchAccount(address) ==
  /\ address # account /\ tally.switches < MaxSwitches
  /\ account' = address
  /\ requests' = IF Mounted THEN requests \o RequestFor(address) ELSE requests
  /\ tally' = [tally EXCEPT !.switches = @ + 1]
  /\ UNCHANGED <<registryVars, quick, page, txs>>

-----------------------------------------------------------------------------
(* The phone.  A callback belongs to a request of the current visit; it    *)
(* does not ask whether its request is still the one on the screen.        *)
SetScan(scan) == page' = [page EXCEPT !.scan = scan]

Advance(i, from, to) ==
  /\ i \in DOMAIN requests /\ requests[i].state \in from
  /\ requests' = [requests EXCEPT ![i].state = to]
  /\ UNCHANGED <<registryVars, quick, account, txs, tally>>

(* constructRequest resolves and its link becomes the QR code. *)
Constructed(i) ==
  /\ Advance(i, {"constructing"}, "open")
  /\ SetScan([page.scan EXCEPT !.link = i])

(* The visitor scans the code; what was scanned stays open on the phone. *)
Scan ==
  /\ page.scan.phase = "PRE_SCAN" /\ page.scan.link # None
  /\ Advance(page.scan.link, {"open"}, "scanned")
  /\ UNCHANGED page

GeneratingProof(i) ==
  /\ Advance(i, {"scanned"}, "generating")
  /\ SetScan([page.scan EXCEPT !.phase = "GENERATING_PROOF"])

(* What getSolidityVerifierParameters makes of the phone's answer: the     *)
(* nationality is part of the proof only if the request disclosed it.      *)
ParamsOf(request) ==
  [uniqueIdentifier |-> Passport.uniqueIdentifier,
   nationality |-> IF request.level = "nationality"
                   THEN Passport.nationality ELSE Undisclosed,
   senderAddress |-> request.address, verdict |-> "good"]

ProofGenerated(i) ==
  /\ Advance(i, {"generating"}, "answered")
  /\ SetScan([page.scan EXCEPT !.params = ParamsOf(requests[i]),
                               !.phase = "PROOF_GENERATED"])

Rejected(i) ==
  /\ Advance(i, {"scanned", "generating"}, "answered")
  /\ SetScan([page.scan EXCEPT !.phase = "REJECTED"])

Failed(i) ==
  /\ Advance(i, {"open", "scanned", "generating"}, "answered")
  /\ SetScan([page.scan EXCEPT !.phase = "ERROR"])

-----------------------------------------------------------------------------
(* Submitting the proof (submitTx) and what becomes of the transaction.    *)
OfThisVisit(tx) == Mounted /\ tx.visit = tally.visits

Submission(proof) ==
  [sender |-> account, proof |-> proof, level |-> page.level,
   visit |-> tally.visits, fate |-> "asked", known |-> FALSE]

SubmitTx(proof) ==
  /\ Len(txs) < MaxTxs
  /\ IF account = Nobody
     THEN SetScan([page.scan EXCEPT !.phase = "TX_FAILED"]) /\ UNCHANGED txs
     ELSE /\ SetScan([page.scan EXCEPT !.phase = "SUBMITTING_TX"])
          /\ txs' = Append(txs, Submission(proof))
  /\ UNCHANGED <<registryVars, quick, account, requests, tally>>

(* The proof goes to whatever account the wallet signs with now. *)
HandleRegisterClick ==
  /\ Mounted /\ page.scan.phase = "PROOF_GENERATED"
  /\ SubmitTx(page.scan.params)

(* The Dev registry takes no proof: the identifier is the address's own. *)
DevModeRegister ==
  /\ quick /\ Mounted /\ page.scan.phase = "PRE_SCAN"
  /\ SubmitTx([uniqueIdentifier |-> IF account = Nobody THEN NO_USER
                                    ELSE OwnIdentity[account],
               nationality |-> Undisclosed, senderAddress |-> account,
               verdict |-> "good"])

ChangeTx(i, tx) ==
  /\ txs' = [txs EXCEPT ![i] = tx]
  /\ UNCHANGED <<quick, account, requests, tally>>

(* The wallet sends it, a smart wallet without telling the hash yet. *)
Send(i) ==
  /\ txs[i].fate = "asked"
  /\ ChangeTx(i, [txs[i] EXCEPT !.fate = "sent"])
  /\ UNCHANGED <<registryVars, page>>

Refused(i) ==
  /\ txs[i].fate = "asked"
  /\ ChangeTx(i, [txs[i] EXCEPT !.fate = "refused"])
  /\ IF OfThisVisit(txs[i])
     THEN SetScan([page.scan EXCEPT !.phase = "TX_FAILED"]) ELSE UNCHANGED page
  /\ UNCHANGED registryVars

(* writeContract returns the hash; the effect on the receipt runs anew and *)
(* its clean-up clears the timer of an earlier confirmation.               *)
Submitted(i) ==
  /\ txs[i].fate \notin {"asked", "refused"} /\ ~txs[i].known
  /\ ChangeTx(i, [txs[i] EXCEPT !.known = TRUE])
  /\ IF OfThisVisit(txs[i])
     THEN SetScan([page.scan EXCEPT !.hash = i, !.phase = "CONFIRMING_TX",
                                    !.received = FALSE, !.returning = FALSE])
     ELSE UNCHANGED page
  /\ UNCHANGED registryVars

(* The registry runs register or reverts; a build for the Dev registry     *)
(* asks it for a function it does not have when it submits a proof.        *)
Registers(tx) ==
  /\ quick => tx.proof.uniqueIdentifier = OwnIdentity[tx.sender]
  /\ Register(tx.sender, tx.proof)

Include(i) ==
  /\ txs[i].fate = "sent"
  /\ \/ Registers(txs[i]) /\ ChangeTx(i, [txs[i] EXCEPT !.fate = "landed"])
     \/ /\ ~ENABLED Registers(txs[i])
        /\ ChangeTx(i, [txs[i] EXCEPT !.fate = "reverted"])
        /\ UNCHANGED registryVars
  /\ UNCHANGED page

(* A slip: any receipt counts as a confirmation. *)
ReceiptOfAnyStatus ==
  /\ page.scan.hash # None /\ ~page.scan.received
  /\ txs[page.scan.hash].fate \in {"landed", "reverted"}
  /\ SetScan([page.scan EXCEPT !.phase = "VERIFIED", !.received = TRUE,
                               !.returning = TRUE])
  /\ UNCHANGED <<registryVars, quick, account, requests, txs, tally>>

(* useWaitForTransactionReceipt for the hash the page holds. *)
Receipt ==
  /\ page.scan.hash # None /\ ~page.scan.received
  /\ \/ /\ txs[page.scan.hash].fate = "landed"
        /\ SetScan([page.scan EXCEPT !.phase = "VERIFIED", !.received = TRUE,
                                     !.returning = TRUE])
     \/ /\ txs[page.scan.hash].fate = "reverted"
        /\ SetScan([page.scan EXCEPT !.phase = "TX_FAILED", !.hash = None])
  /\ UNCHANGED <<registryVars, quick, account, requests, txs, tally>>

(* Waiting for the receipt gives up, or asking for it fails. *)
ReceiptError ==
  /\ page.scan.hash # None /\ ~page.scan.received
  /\ SetScan([page.scan EXCEPT !.phase = "TX_FAILED", !.hash = None])
  /\ UNCHANGED <<registryVars, quick, account, requests, txs, tally>>

-----------------------------------------------------------------------------
(* Everybody else: other people, the visitor's other devices, and the      *)
(* registry's clock.                                                       *)
Elsewhere == Next /\ UNCHANGED pageVars

-----------------------------------------------------------------------------
Walk ==
  \/ Open \/ GoNext \/ GoBack \/ GoHome \/ ReturnHome \/ TryAgain
  \/ \E level \in Levels : ChooseLevel(level)
  \/ \E address \in Addresses \cup {Nobody} : SwitchAccount(address)

Phone ==
  \/ Scan
  \/ \E i \in DOMAIN requests :
       Constructed(i) \/ GeneratingProof(i) \/ ProofGenerated(i) \/ Rejected(i) \/ Failed(i)

Chain ==
  \/ HandleRegisterClick \/ DevModeRegister \/ Receipt \/ ReceiptError
  \/ \E i \in DOMAIN txs : Send(i) \/ Refused(i) \/ Submitted(i) \/ Include(i)

VerificationNext ==
  Walk \/ Phone \/ Chain \/ Elsewhere

VerificationSpec == VerificationInit /\ [][VerificationNext]_allVars

-----------------------------------------------------------------------------
VerificationTypeOK ==
  /\ TypeOK
  /\ quick \in BOOLEAN /\ account \in Addresses \cup {Nobody}
  /\ page.step \in Steps \cup {Home} /\ page.level \in {None} \cup Levels
  /\ page.scan.phase \in Phases /\ page.scan.link \in {None} \cup DOMAIN requests
  /\ page.scan.hash \in {None} \cup DOMAIN txs

(***************************************************************************)
(* A submission discloses what the visitor chose in the visit in which it  *)
(* is made: after going back from "Personhood + Nationality" and choosing  *)
(* "Personhood Only" (whose card promises that no nationality is           *)
(* disclosed) no proof of the earlier visit can be sent.                   *)
(***************************************************************************)
DisclosedAsChosen ==
  \A i \in DOMAIN txs :
    txs[i].proof.nationality # Undisclosed => txs[i].level = "nationality"

(***************************************************************************)
(* The page says "Verified!" only when the registry knows the account that *)
(* submitted the proof, as the person the proof is about.                  *)
(***************************************************************************)
VerifiedMeansRegistered ==
  page.scan.phase = "VERIFIED" =>
    /\ page.scan.hash # None
    /\ LET tx == txs[page.scan.hash]
       IN  userIdFromAddress[tx.sender] = tx.proof.uniqueIdentifier

(***************************************************************************)
(* "The proof must be bound to the address that submits register()"        *)
(* (GetVerified.tsx:742): what the page submits names its sender.  It does *)
(* not hold of a proof that comes back after the account was changed.      *)
(***************************************************************************)
ProofIsBoundToSender ==
  \A i \in DOMAIN txs : txs[i].proof.senderAddress = txs[i].sender

=============================================================================
