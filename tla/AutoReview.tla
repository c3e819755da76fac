------------------------------ MODULE AutoReview ------------------------------
(***************************************************************************)
(* Automatic review: auto_approve_submission beside the instructions of    *)
(* Quest. A verifier, outside the program, signs statements about proofs;  *)
(* anybody may hand a signed statement to the program, early, late, for    *)
(* another submission than the one it was made for, or again. A signed     *)
(* statement never goes away. UsedProof accounts record what was paid for. *)
(*                                                                         *)
(* Left out: verified_value and nonce, which the program does not read.    *)
(***************************************************************************)
EXTENDS Quest

CONSTANTS
  ProofHashes,   \* external_proof_hash values
  SignArgs,      \* what the keys sign: see Sign
  MAX_SIGNED     \* bound on the statements that are signed

ASSUME SignAssumption ==
  /\ SignArgs \subseteq
       [verifier : VerifierKeys, here : BOOLEAN,
        template_config_hash : ConfigHashes, external_proof_hash : ProofHashes,
        passed : BOOLEAN, ahead : Int, ttl : Int]
  /\ NO_KEY \notin VerifierKeys
  /\ MAX_SIGNED \in Nat

VARIABLES
  signed,      \* the statements that exist, with the key that signed each
  usedProofs   \* the UsedProof accounts of the quest, by external_proof_hash

autoVars == <<vars, signed, usedProofs>>

MAX_VERIFICATION_TTL_SECONDS == 3600

\* VerificationResult and its signature; here stands for domain, program_id,
\* quest and template_type naming this quest.
StatementType ==
  [verifier : VerifierKeys, here : BOOLEAN,
   template_config_hash : ConfigHashes, external_proof_hash : ProofHashes,
   passed : BOOLEAN, submission_index : Nat, submitter : Submitters,
   cycle_index : Nat, verified_at : Int, expires_at : Int]

UsedProofType ==
  [submission_index : Nat, submitter : Submitters, cycle_index : Nat,
   used_at : Nat]

AutoInit ==
  /\ Init
  /\ signed = {}
  /\ usedProofs = [h \in {} |-> NoQuest]

-----------------------------------------------------------------------------
(***************************************************************************)
(* Slips, as in Quest                                                      *)
(***************************************************************************)

\* PaidOnFreshStatement: the statement is matched by its index alone.
SameIndexOnly(r, i) == r.submission_index = i

\* ProofsMatchPayments: a used proof may be used again.
AnyProof(h) == TRUE

\* AutoTypeOK: the account is not filled in.
NothingRecorded(i) == [submission_index |-> i]

-----------------------------------------------------------------------------
\* Whom and what a statement about submission i is about: the submission, or,
\* when it is signed before submit_proof runs, the one its user expects to send.
About(i) ==
  IF i \in DOMAIN submissions
  THEN {[submitter   |-> submissions[i].submitter,
         cycle_index |-> submissions[i].cycle_index]}
  ELSE {[submitter |-> u, cycle_index |-> CurrentCycle] : u \in Submitters}

\* A key signs a statement: the right key or another one, about this quest or
\* another one, passed or not, for as long as it likes. (Live and AutoVerified:
\* a bound, as no other quest reads a statement.)
Sign(args, i) ==
  /\ Cardinality(signed) < MAX_SIGNED
  /\ Live /\ quest.review_mode = "AutoVerified"
  /\ \E about \in About(i) :
       signed' = signed \cup
         {[verifier |-> args.verifier, here |-> args.here,
           template_config_hash |-> args.template_config_hash,
           external_proof_hash |-> args.external_proof_hash,
           passed |-> args.passed, submission_index |-> i,
           submitter |-> about.submitter, cycle_index |-> about.cycle_index,
           verified_at |-> now + args.ahead,
           expires_at |-> now + args.ahead + args.ttl]}
  /\ UNCHANGED <<vars, usedProofs>>

\* verify_previous_ed25519_instruction: the runtime checked the signature of the
\* instruction before this one, and that signed this message with this key.
SignedByVerifier(r) ==
  /\ r \in signed
  /\ r.verifier = quest.authorized_verifier

Concerns(r, i) ==
  /\ r.submission_index = i
  /\ r.submitter = submissions[i].submitter
  /\ r.cycle_index = submissions[i].cycle_index

FollowsTemplate(r) ==
  /\ r.here
  /\ r.template_config_hash = quest.template_config_hash

FreshAt(r, time) ==
  /\ r.verified_at <= time
  /\ r.expires_at > time
  /\ r.expires_at - r.verified_at <= MAX_VERIFICATION_TTL_SECONDS

\* init of the used_proof account fails when it exists.
UnusedProof(h) == h \notin DOMAIN usedProofs

NewUsedProof(i) ==
  [submission_index |-> i,
   submitter        |-> submissions[i].submitter,
   cycle_index      |-> submissions[i].cycle_index,
   used_at          |-> now]

AutoApproveSubmission(r, i) ==
  LET hash == r.external_proof_hash
  IN
  /\ UnusedProof(hash)
  /\ quest.review_mode = "AutoVerified"
  /\ Concerns(r, i)
  /\ FollowsTemplate(r)
  /\ r.passed
  /\ FreshAt(r, now)
  /\ SignedByVerifier(r)
  /\ ApproveAndPay(i)
  /\ usedProofs' = [h \in DOMAIN usedProofs \cup {hash} |->
                     IF h = hash THEN NewUsedProof(i) ELSE usedProofs[h]]
  /\ UNCHANGED signed

AutoNext ==
  \/ Next /\ UNCHANGED <<signed, usedProofs>>
  \/ \E args \in SignArgs, i \in 0 .. quest.next_submission_index : Sign(args, i)
  \/ \E r \in signed, i \in DOMAIN submissions : AutoApproveSubmission(r, i)

AutoSpec == AutoInit /\ [][AutoNext]_autoVars

\* Nobody can make a verifier sign, and approve_submission is closed to an
\* AutoVerified quest. What is assumed is one reviewer who goes on rejecting the
\* head of the queue and one caller of settle_quest.
Rejection ==
  /\ \E signer \in Users, i \in DOMAIN submissions : RejectSubmission(signer, i)
  /\ UNCHANGED <<signed, usedProofs>>

AutoSettlement == SettleQuest /\ UNCHANGED <<signed, usedProofs>>

FairAutoSpec ==
  AutoSpec /\ WF_autoVars(Rejection) /\ WF_autoVars(AutoSettlement)

-----------------------------------------------------------------------------
AutoTypeOK ==
  /\ signed \subseteq StatementType
  /\ DOMAIN usedProofs \subseteq ProofHashes
  /\ \A h \in DOMAIN usedProofs : usedProofs[h] \in UsedProofType

\* In an AutoVerified quest payments and used proofs are two ends of one relation:
\* every accepted submission used one external proof, which accepted no other.
\* A refused or failed one used none, and a Manual quest uses none.
ProofsMatchPayments ==
  IF quest.review_mode = "AutoVerified"
  THEN /\ {usedProofs[h].submission_index : h \in DOMAIN usedProofs}
            = With("Approved")
       /\ \A g, h \in DOMAIN usedProofs :
            usedProofs[g].submission_index = usedProofs[h].submission_index => g = h
  ELSE DOMAIN usedProofs = {}

\* r says of exactly the submission that used proof h, its user and its cycle,
\* that h passed, and was fresh when it was used.
Attests(r, h, used) ==
  /\ r.external_proof_hash = h
  /\ r.verifier = quest.authorized_verifier
  /\ r.passed
  /\ r.here
  /\ r.template_config_hash = quest.template_config_hash
  /\ r.submission_index = used.submission_index
  /\ r.submitter = submissions[r.submission_index].submitter
  /\ r.cycle_index = submissions[r.submission_index].cycle_index
  /\ used.used_at \in r.verified_at .. r.expires_at - 1
  /\ r.expires_at <= r.verified_at + MAX_VERIFICATION_TTL_SECONDS

\* What was paid was paid on a fresh statement of the quest's own verifier about
\* just that, whatever happened to the queue between signing and paying.
PaidOnFreshStatement ==
  \A h \in DOMAIN usedProofs : \E r \in signed : Attests(r, h, usedProofs[h])
=============================================================================
