------------------------------ MODULE AutoProofs ------------------------------
(***************************************************************************)
(* Theorems about AutoReview: with automatic review beside the other       *)
(* instructions Quest's invariant still holds, and payments and used       *)
(* proofs match, each for a fresh statement about exactly what was paid.   *)
(***************************************************************************)
EXTENDS AutoReview, PaymentProofs

SameTerms ==
  /\ quest'.review_mode = quest.review_mode
  /\ quest'.authorized_verifier = quest.authorized_verifier
  /\ quest'.template_config_hash = quest.template_config_hash

\* Submissions stay, and stay whose and about what they are.
SameClaims ==
  \A j \in DOMAIN submissions :
    /\ j \in DOMAIN submissions'
    /\ submissions'[j].submitter = submissions[j].submitter
    /\ submissions'[j].cycle_index = submissions[j].cycle_index

\* Before create_quest there is no submission and the mode is not AutoVerified.
LEMMA BlankQuest ==
  ASSUME Inv, quest.status = "Absent"
  PROVE  DOMAIN submissions = {} /\ quest.review_mode = "Manual"
  <1>1. quest = NoQuest
    BY DEF Inv, TermsHold
  <1>2. quest.next_submission_index = 0 /\ quest.review_mode = "Manual"
    BY <1>1 DEF NoQuest
  <1>3. DOMAIN submissions = 0 .. quest.next_submission_index - 1
    BY DEF Inv, TypeOK
  <1> QED
    BY <1>2, <1>3

\* An approval, manual or automatic, accepts the submission it names and
\* nothing else, and leaves the quest's terms alone.
LEMMA ApprovalFacts ==
  ASSUME Inv, NEW i \in DOMAIN submissions, ApproveAndPay(i)
  PROVE  /\ SameTerms
         /\ SameClaims
         /\ i \notin With("Approved")
         /\ With("Approved")' = With("Approved") \cup {i}
  <1>1. /\ submissions'[i].status = "Approved"
        /\ DOMAIN submissions' = DOMAIN submissions
        /\ \A j \in DOMAIN submissions : j # i => submissions'[j] = submissions[j]
    BY ApprovalTypes
  <1>2. submissions[i].status = "Pending"
    BY DEF ApproveAndPay, NextInLine
  <1>3. quest \in QuestType /\ submissions[i] \in SubmissionType
    BY HeadFacts DEF Inv, TypeOK, ApproveAndPay
  <1>4. SameTerms
    <2>1. quest' = CountApproval(quest) \/ quest' = CountApproval(StopForDepletion(quest))
      BY DEF ApproveAndPay, FromRewardPool, FromDepositPool
    <2>2. PICK q \in QuestType :
            /\ quest' = CountApproval(q)
            /\ q.review_mode = quest.review_mode
            /\ q.authorized_verifier = quest.authorized_verifier
            /\ q.template_config_hash = quest.template_config_hash
      <3> DEFINE s == StopForDepletion(quest)
      <3>1. s \in QuestType
        BY StopFacts DEF Inv, TypeOK, ApproveAndPay
      <3>2. /\ s.review_mode = quest.review_mode
            /\ s.authorized_verifier = quest.authorized_verifier
            /\ s.template_config_hash = quest.template_config_hash
        BY <1>3 DEF StopForDepletion, QuestType
      <3> HIDE DEF s
      <3>3. quest' = CountApproval(quest) \/ quest' = CountApproval(s)
        BY <2>1 DEF s
      <3> QED
        BY <1>3, <3>1, <3>2, <3>3
    <2> QED
      BY <2>2 DEF SameTerms, CountApproval, QuestType
  <1>5. /\ submissions'[i].submitter = submissions[i].submitter
        /\ submissions'[i].cycle_index = submissions[i].cycle_index
    BY <1>3 DEF ApproveAndPay, FromRewardPool, FromDepositPool, SubmissionType
  <1> QED
    BY <1>1, <1>2, <1>4, <1>5 DEF SameClaims, With

\* No other step of an AutoVerified quest accepts a submission.
LEMMA OtherStepFacts ==
  ASSUME Inv, [Next]_vars, quest.status # "Absent"
  PROVE  /\ SameTerms
         /\ SameClaims
         /\ quest.review_mode = "AutoVerified" =>
              With("Approved")' = With("Approved")
  <1> USE DEF SameTerms, SameClaims, With
  <1>1. quest \in QuestType
    BY DEF Inv, TypeOK
  <1>2. CASE \E args \in CreateArgs : CreateQuest(args)
    BY <1>2 DEF CreateQuest
  <1>3. CASE \E signer \in Users, args \in FundArgs : FundQuest(signer, args)
    BY <1>1, <1>3 DEF FundQuest, QuestType
  <1>4. CASE \E u \in Submitters : SubmitProof(u)
    <2>1. PICK u \in Submitters : SubmitProof(u)
      BY <1>4
    <2> DEFINE index == quest.next_submission_index
    <2>2. DOMAIN submissions = 0 .. index - 1 /\ index \in Nat
      BY <1>1, FieldTypes DEF Inv, TypeOK
    <2>3. /\ DOMAIN submissions' = 0 .. index
          /\ submissions'[index].status = "Pending"
          /\ \A j \in DOMAIN submissions : submissions'[j] = submissions[j]
      BY <2>1, <2>2 DEF SubmitProof, NewSubmission
    <2>4. SameTerms
      BY <1>1, <2>1 DEF SubmitProof, QuestType
    <2> QED
      BY <2>2, <2>3, <2>4
  <1>5. CASE \E signer \in Users, i \in DOMAIN submissions : ApproveSubmission(signer, i)
    BY <1>5, ApprovalFacts DEF ApproveSubmission
  <1>6. CASE \E signer \in Users, i \in DOMAIN submissions : RejectSubmission(signer, i)
    <2>1. PICK signer \in Users, i \in DOMAIN submissions : RejectSubmission(signer, i)
      BY <1>6
    <2>2. submissions[i] \in SubmissionType /\ submissions[i].status = "Pending"
      BY <2>1, HeadFacts DEF RejectSubmission, NextInLine
    <2>3. submissions' = [submissions EXCEPT ![i] = [@ EXCEPT !.status = "Rejected"]]
      BY <2>1 DEF RejectSubmission
    <2>4. submissions \in [DOMAIN submissions -> SubmissionType]
      BY DEF Inv, TypeOK
    <2>5. /\ DOMAIN submissions' = DOMAIN submissions
          /\ submissions'[i] = [submissions[i] EXCEPT !.status = "Rejected"]
          /\ \A j \in DOMAIN submissions : j # i => submissions'[j] = submissions[j]
      BY <2>3, <2>4
    <2>6. /\ submissions'[i].status = "Rejected"
          /\ submissions'[i].submitter = submissions[i].submitter
          /\ submissions'[i].cycle_index = submissions[i].cycle_index
      BY <2>2, <2>5 DEF SubmissionType
    <2>7. SameTerms
      BY <1>1, <2>1 DEF RejectSubmission, QuestType
    <2>8. SameClaims
      BY <2>5, <2>6
    <2>9. ASSUME NEW j \in DOMAIN submissions
          PROVE  (submissions'[j].status = "Approved") <=> (submissions[j].status = "Approved")
      BY <2>2, <2>5, <2>6
    <2>10. With("Approved")' = With("Approved")
      BY <2>5, <2>9
    <2> QED
      BY <2>7, <2>8, <2>10
  <1>7. CASE \E signer \in Users : CloseQuest(signer)
    <2> DEFINE closing == [quest EXCEPT
                            !.status = "Closing", !.close_requested_at = now,
                            !.closing_reason = IF now >= quest.expires_at
                                               THEN "Expired"
                                               ELSE "EarlyManual"]
    <2>1. /\ quest' = closing \/ quest' = [closing EXCEPT !.status = "Closed"]
          /\ UNCHANGED submissions
      BY <1>7 DEF CloseQuest, SettlePools
    <2>2. /\ closing \in QuestType
          /\ closing.review_mode = quest.review_mode
          /\ closing.authorized_verifier = quest.authorized_verifier
          /\ closing.template_config_hash = quest.template_config_hash
      BY <1>1 DEF QuestType, Statuses, Reasons, Inv, TypeOK
    <2> HIDE DEF closing
    <2>3. SameTerms
      BY <2>1, <2>2 DEF QuestType
    <2> QED
      BY <2>1, <2>3
  <1>8. CASE SettleQuest
    BY <1>1, <1>8 DEF SettleQuest, SettlePools, QuestType
  <1>9. CASE Tick
    BY <1>9 DEF Tick, accounts
  <1>10. CASE UNCHANGED vars
    BY <1>10 DEF vars, accounts
  <1>11. CASE \E amount \in Transfers : SendToPool(amount)
    <2>1. UNCHANGED <<quest, submissions>>
      BY <1>11, SendFacts
    <2> QED
      BY <2>1
  <1> QED
    BY <1>2, <1>3, <1>4, <1>5, <1>6, <1>7, <1>8, <1>9, <1>10, <1>11 DEF Next

-----------------------------------------------------------------------------
(***************************************************************************)
(* The inductive invariant: Quest's own, and the three about used proofs.  *)
(***************************************************************************)
AutoInv ==
  /\ Inv
  /\ AutoTypeOK
  /\ ProofsMatchPayments
  /\ PaidOnFreshStatement

\* A statement goes on attesting what was paid on it.
LEMMA AttestsStays ==
  ASSUME SameTerms, SameClaims, NEW r, NEW h, NEW used,
         used.submission_index \in DOMAIN submissions, Attests(r, h, used)
  PROVE  Attests(r, h, used)'
  BY DEF SameTerms, SameClaims, Attests

\* Initially nothing is signed and no proof is used.
LEMMA AutoInitHasInv == AutoInit => AutoInv
  <1> SUFFICES ASSUME AutoInit PROVE AutoInv
    OBVIOUS
  <1>1. Inv
    BY InitHasInv DEF AutoInit
  <1>2. DOMAIN usedProofs = {} /\ signed = {}
    BY DEF AutoInit
  <1>3. quest.review_mode = "Manual"
    BY DEF AutoInit, Init, NoQuest
  <1> QED
    BY <1>1, <1>2, <1>3
    DEF AutoInv, AutoTypeOK, ProofsMatchPayments, PaidOnFreshStatement

\* The other instructions leave used proofs right: they accept nothing in an
\* AutoVerified quest, and change neither terms nor claims.
LEMMA OtherStepKeepsAutoInv ==
  ASSUME AutoInv, [Next]_vars, UNCHANGED <<signed, usedProofs>>
  PROVE  AutoInv'
  <1>1. Inv /\ Inv'
    BY NextKeepsInv DEF AutoInv
  <1>2. AutoTypeOK'
    BY DEF AutoInv, AutoTypeOK
  <1>3. CASE quest.status = "Absent"
    <2>1. DOMAIN submissions = {} /\ quest.review_mode = "Manual"
      BY <1>1, <1>3, BlankQuest
    <2>2. DOMAIN usedProofs = {}
      BY <2>1 DEF AutoInv, ProofsMatchPayments
    <2>3. submissions' = submissions
      BY <1>3, <2>1 DEF Next, CreateQuest, FundQuest, FundingIsOpen, SubmitProof,
                        ApproveSubmission, RejectSubmission, CloseQuest,
                        SettleQuest, SendToPool, Tick, accounts, vars
    <2> QED
      BY <1>1, <1>2, <2>1, <2>2, <2>3
      DEF AutoInv, ProofsMatchPayments, PaidOnFreshStatement, With
  <1>4. CASE quest.status # "Absent"
    <2>1. /\ SameTerms
          /\ SameClaims
          /\ quest.review_mode = "AutoVerified" =>
               With("Approved")' = With("Approved")
      BY <1>1, <1>4, OtherStepFacts
    <2>2. ProofsMatchPayments'
      BY <2>1 DEF AutoInv, ProofsMatchPayments, SameTerms
    <2>3. \A h \in DOMAIN usedProofs :
            usedProofs[h].submission_index \in DOMAIN submissions
      BY DEF AutoInv, ProofsMatchPayments, With
    <2>4. PaidOnFreshStatement'
      BY <2>1, <2>3, AttestsStays DEF AutoInv, PaidOnFreshStatement
    <2> QED
      BY <1>1, <1>2, <2>2, <2>4 DEF AutoInv
  <1> QED
    BY <1>3, <1>4

\* A new statement takes no proof away.
LEMMA SignKeepsAutoInv ==
  ASSUME AutoInv, NEW args \in SignArgs, NEW i \in 0 .. quest.next_submission_index,
         Sign(args, i)
  PROVE  AutoInv'
  <1>1. UNCHANGED <<vars, usedProofs>>
    BY DEF Sign
  <1>2. UNCHANGED vars => Inv'
    BY NextKeepsInv DEF AutoInv
  <1>3. Inv' /\ UNCHANGED <<quest, submissions, usedProofs>>
    BY <1>1, <1>2 DEF vars, accounts
  <1>4. signed \subseteq signed'
    BY DEF Sign
  <1>5. ProofsMatchPayments' /\ PaidOnFreshStatement'
    BY <1>3, <1>4 DEF AutoInv, ProofsMatchPayments, PaidOnFreshStatement, Attests, With
  <1>6. AutoTypeOK'
    <2>1. PICK about \in About(i) :
            signed' = signed \cup
              {[verifier |-> args.verifier, here |-> args.here,
                template_config_hash |-> args.template_config_hash,
                external_proof_hash |-> args.external_proof_hash,
                passed |-> args.passed, submission_index |-> i,
                submitter |-> about.submitter, cycle_index |-> about.cycle_index,
                verified_at |-> now + args.ahead,
                expires_at |-> now + args.ahead + args.ttl]}
      BY DEF Sign
    <2>2. about.submitter \in Submitters /\ about.cycle_index \in Nat
      <3>1. quest.status # "Absent"
        BY DEF Sign, Live
      <3>2. CurrentCycle \in Nat
        BY <3>1, CurrentCycleType DEF AutoInv
      <3>3. \A j \in DOMAIN submissions : submissions[j] \in SubmissionType
        BY DEF AutoInv, Inv, TypeOK
      <3> QED
        BY <2>1, <3>2, <3>3 DEF About, SubmissionType
    <2>3. i \in Nat /\ now \in Nat
      BY FieldTypes DEF AutoInv, Inv, TypeOK
    <2>4. /\ args.verifier \in VerifierKeys /\ args.here \in BOOLEAN
          /\ args.template_config_hash \in ConfigHashes
          /\ args.external_proof_hash \in ProofHashes
          /\ args.passed \in BOOLEAN /\ args.ahead \in Int /\ args.ttl \in Int
      BY SignAssumption
    <2>5. now + args.ahead \in Int /\ now + args.ahead + args.ttl \in Int
      BY <2>3, <2>4
    <2>6. signed' \subseteq StatementType
      BY <2>1, <2>2, <2>3, <2>4, <2>5 DEF StatementType, AutoInv, AutoTypeOK
    <2> QED
      BY <1>3, <2>6 DEF AutoInv, AutoTypeOK
  <1> QED
    BY <1>3, <1>5, <1>6 DEF AutoInv

\* An automatic approval uses one new proof for the one submission it accepts,
\* on the statement it was given.
LEMMA AutoApproveKeepsAutoInv ==
  ASSUME AutoInv, NEW r \in signed, NEW i \in DOMAIN submissions,
         AutoApproveSubmission(r, i)
  PROVE  AutoInv'
  <1> DEFINE hash == r.external_proof_hash
  <1>1. /\ hash \notin DOMAIN usedProofs
        /\ quest.review_mode = "AutoVerified"
        /\ ApproveAndPay(i)
        /\ signed' = signed
        /\ usedProofs' = [h \in DOMAIN usedProofs \cup {hash} |->
                           IF h = hash THEN NewUsedProof(i) ELSE usedProofs[h]]
    BY DEF AutoApproveSubmission, UnusedProof
  <1>2. Inv /\ Inv'
    BY <1>1, ApproveKeepsInv DEF AutoInv
  <1>3. /\ SameTerms
        /\ SameClaims
        /\ i \notin With("Approved")
        /\ With("Approved")' = With("Approved") \cup {i}
    BY <1>1, <1>2, ApprovalFacts
  <1>4. /\ DOMAIN usedProofs' = DOMAIN usedProofs \cup {hash}
        /\ usedProofs'[hash] = NewUsedProof(i)
        /\ \A h \in DOMAIN usedProofs : usedProofs'[h] = usedProofs[h]
    BY <1>1
  <1>5. AutoTypeOK'
    <2>1. r \in StatementType
      BY DEF AutoInv, AutoTypeOK
    <2>2. i \in Nat /\ submissions[i] \in SubmissionType /\ now \in Nat
      BY <1>1, <1>2, HeadFacts DEF ApproveAndPay, Inv, TypeOK
    <2>3. NewUsedProof(i) \in UsedProofType
      BY <2>2 DEF NewUsedProof, UsedProofType, SubmissionType
    <2> QED
      BY <1>1, <1>4, <2>1, <2>3 DEF AutoInv, AutoTypeOK, StatementType
  <1>6. ProofsMatchPayments'
    <2>1. \A h \in DOMAIN usedProofs : usedProofs[h].submission_index # i
      BY <1>1, <1>3 DEF AutoInv, ProofsMatchPayments
    <2>2. NewUsedProof(i).submission_index = i
      BY DEF NewUsedProof
    <2>3. {usedProofs'[h].submission_index : h \in DOMAIN usedProofs'}
            = {usedProofs[h].submission_index : h \in DOMAIN usedProofs} \cup {i}
      BY <1>4, <2>2
    <2>4. \A g, h \in DOMAIN usedProofs' :
            usedProofs'[g].submission_index = usedProofs'[h].submission_index => g = h
      BY <1>1, <1>4, <2>1, <2>2 DEF AutoInv, ProofsMatchPayments
    <2>5. {usedProofs'[h].submission_index : h \in DOMAIN usedProofs'}
            = With("Approved")'
      BY <1>1, <1>3, <2>3 DEF AutoInv, ProofsMatchPayments
    <2>6. quest'.review_mode = "AutoVerified"
      BY <1>1, <1>3 DEF SameTerms
    <2> QED
      BY <2>4, <2>5, <2>6 DEF ProofsMatchPayments
  <1>7. PaidOnFreshStatement'
    <2>1. \A h \in DOMAIN usedProofs :
            usedProofs[h].submission_index \in DOMAIN submissions
      BY <1>1 DEF AutoInv, ProofsMatchPayments, With
    <2>2. /\ r.verifier = quest.authorized_verifier
          /\ r.passed /\ r.here
          /\ r.template_config_hash = quest.template_config_hash
          /\ r.submission_index = i
          /\ r.submitter = submissions[i].submitter
          /\ r.cycle_index = submissions[i].cycle_index
      BY DEF AutoApproveSubmission, SignedByVerifier, FollowsTemplate, Concerns
    <2>3. now \in r.verified_at .. r.expires_at - 1
          /\ r.expires_at <= r.verified_at + MAX_VERIFICATION_TTL_SECONDS
      <3>1. /\ r.verified_at <= now /\ r.expires_at > now
            /\ r.expires_at - r.verified_at <= MAX_VERIFICATION_TTL_SECONDS
        BY DEF AutoApproveSubmission, FreshAt
      <3>2. r.verified_at \in Int /\ r.expires_at \in Int /\ now \in Int
        BY <1>2 DEF AutoInv, AutoTypeOK, StatementType, Inv, TypeOK
      <3> QED
        BY <3>1, <3>2 DEF MAX_VERIFICATION_TTL_SECONDS
    <2>4. /\ NewUsedProof(i).submission_index = i
          /\ NewUsedProof(i).used_at = now
      BY DEF NewUsedProof
    <2>5. Attests(r, hash, NewUsedProof(i))
      BY <2>2, <2>3, <2>4 DEF Attests
    <2>6. \A h \in DOMAIN usedProofs' :
            /\ usedProofs'[h].submission_index \in DOMAIN submissions
            /\ \E s \in signed : Attests(s, h, usedProofs'[h])
      BY <1>4, <2>1, <2>4, <2>5 DEF AutoInv, PaidOnFreshStatement
    <2>7. \A h \in DOMAIN usedProofs' :
            \E s \in signed : Attests(s, h, usedProofs[h])'
      <3> SUFFICES ASSUME NEW h \in DOMAIN usedProofs'
                   PROVE  \E s \in signed : Attests(s, h, usedProofs[h])'
        OBVIOUS
      <3>1. PICK s \in signed : Attests(s, h, usedProofs'[h])
        BY <2>6
      <3>2. Attests(s, h, usedProofs[h])'
        BY <1>3, <2>6, <3>1 DEF SameTerms, SameClaims, Attests
      <3> QED
        BY <3>2
    <2> QED
      BY <1>1, <2>7 DEF PaidOnFreshStatement
  <1> QED
    BY <1>2, <1>5, <1>6, <1>7 DEF AutoInv

-----------------------------------------------------------------------------
\* Quest's promises, and the three about used proofs, hold in every state also
\* when submissions are accepted by a verifier's statements.
THEOREM AutoInvariance == AutoSpec => []AutoInv
  <1>1. AutoInit => AutoInv
    BY AutoInitHasInv
  <1>2. AutoInv /\ [AutoNext]_autoVars => AutoInv'
    <2> SUFFICES ASSUME AutoInv, [AutoNext]_autoVars PROVE AutoInv'
      OBVIOUS
    <2>1. CASE Next /\ UNCHANGED <<signed, usedProofs>>
      BY <2>1, OtherStepKeepsAutoInv
    <2>2. CASE \E args \in SignArgs, i \in 0 .. quest.next_submission_index :
                 Sign(args, i)
      BY <2>2, SignKeepsAutoInv
    <2>3. CASE \E r \in signed, i \in DOMAIN submissions : AutoApproveSubmission(r, i)
      BY <2>3, AutoApproveKeepsAutoInv
    <2>4. CASE UNCHANGED autoVars
      BY <2>4, OtherStepKeepsAutoInv DEF autoVars
    <2> QED
      BY <2>1, <2>2, <2>3, <2>4 DEF AutoNext
  <1> QED
    BY <1>1, <1>2, PTL DEF AutoSpec

\* Statements and UsedProof accounts keep their types, whatever the keys sign.
THEOREM AutoTypeCorrect == AutoSpec => []AutoTypeOK
  <1>1. AutoInv => AutoTypeOK
    BY DEF AutoInv
  <1> QED
    BY <1>1, AutoInvariance, PTL

\* The escrow keeps its promises under automatic review.
THEOREM AutoKeepsEscrow == AutoSpec => []Inv
  <1>1. AutoInv => Inv
    BY DEF AutoInv
  <1> QED
    BY <1>1, AutoInvariance, PTL

\* Every accepted submission used one proof, and every proof accepted one.
THEOREM OneProofOnePayment == AutoSpec => []ProofsMatchPayments
  <1>1. AutoInv => ProofsMatchPayments
    BY DEF AutoInv
  <1> QED
    BY <1>1, AutoInvariance, PTL

\* Every automatic payment had a fresh statement of the quest's verifier about
\* the submission that was paid.
THEOREM PaymentsAreAttested == AutoSpec => []PaidOnFreshStatement
  <1>1. AutoInv => PaidOnFreshStatement
    BY DEF AutoInv
  <1> QED
    BY <1>1, AutoInvariance, PTL
-----------------------------------------------------------------------------
(***************************************************************************)
(* What Quest's payments promise. Only AutoApproveSubmission is not a step *)
(* of Quest, and both kinds of approval share ApproveAndPay.               *)
(***************************************************************************)

\* A step of AutoReview is one of Quest, or leaves it alone, or is an approval.
LEMMA AutoStepIsStep ==
  ASSUME [AutoNext]_autoVars
  PROVE  [Next]_vars \/ \E i \in DOMAIN submissions : ApproveAndPay(i)
  BY DEF AutoNext, Sign, AutoApproveSubmission, autoVars

\* An approval takes nothing from the vaults.
LEMMA ApprovalKeepsVaults ==
  ASSUME Inv, VaultsAreAlive, NEW i \in DOMAIN submissions, ApproveAndPay(i)
  PROVE  VaultsAreAlive'
  BY DEF ApproveAndPay, VaultsAreAlive, Live

\* What is promised about payments, with what that rests on.
Payments == VaultsAreAlive /\ PaidOncePerApproval /\ LamportsConserved /\ Books

\* Inv holds before and after each step, so the payment properties need no more.
LEMMA AutoKeepsPayments ==
  ASSUME Inv, Inv', Payments, [AutoNext]_autoVars
  PROVE  Payments'
  <1> USE DEF Payments
  <1>1. VaultsAreAlive' /\ PaidOncePerApproval'
    BY AutoStepIsStep, NextKeepsVaults, NextPaysOnce, ApprovalKeepsVaults,
       ApprovalPaysOnce
  <1>2. PICK u \in Users : PaysOrTakes(u)
    <2>1. CASE [Next]_vars
      BY <2>1, StepMovesLamports
    <2>2. CASE \E i \in DOMAIN submissions : ApproveAndPay(i)
      <3>1. PICK i \in DOMAIN submissions : ApproveAndPay(i)
        BY <2>2
      <3>2. submissions[i].submitter \in Users
        BY UsersAssumption DEF Inv, TypeOK, SubmissionType
      <3> QED
        BY <3>1, <3>2, ApprovalMovesLamports
    <2> QED
      BY <2>1, <2>2, AutoStepIsStep
  <1>3. LamportsConserved'
    <2>1. ProgramHolds' + SumFunction(wallet') = ProgramHolds + SumFunction(wallet)
      BY <1>2, ExchangeKeepsSum
    <2>2. ProgramHolds + SumFunction(wallet) = INITIAL_FUNDS
      BY BooksAreASum
    <2>3. (Inv => (LamportsConserved
                     <=> ProgramHolds + SumFunction(wallet) = INITIAL_FUNDS))'
      BY BooksAreASum, PTL
    <2> QED
      BY <2>1, <2>2, <2>3
  <1>4. Books'
    BY AutoStepIsStep, NextKeepsBooks, ApprovalKeepsBooks
  <1> QED
    BY <1>1, <1>3, <1>4

\* They hold at the start, and so for good.
LEMMA AutoPayments == AutoSpec => []Payments
  <1>1. AutoInit => Payments
    BY InitHasVaults, InitPaysNobody, InitConserves, InitHasBooks DEF AutoInit, Payments
  <1>2. Inv /\ Inv' /\ Payments /\ [AutoNext]_autoVars => Payments'
    BY AutoKeepsPayments
  <1> QED
    BY <1>1, <1>2, AutoKeepsEscrow, PTL DEF AutoSpec

\* An AutoVerified quest nobody waits in can be settled too.
THEOREM AutoSettlementCanPay == AutoSpec => []SettlementIsPayable
  <1>1. Inv /\ Payments => SettlementIsPayable
    BY ForfeitIsPayable DEF Payments
  <1> QED
    BY <1>1, AutoKeepsEscrow, AutoPayments, PTL

\* A proof accepted by a verifier's statement is paid once and in full, as one
\* accepted by hand.
THEOREM AutoPaidOnce == AutoSpec => []PaidOncePerApproval
  <1>1. Payments => PaidOncePerApproval
    BY DEF Payments
  <1> QED
    BY <1>1, AutoPayments, PTL

\* No lamport appears or disappears when payments are made on statements.
THEOREM AutoNothingIsLost == AutoSpec => []LamportsConserved
  <1>1. Payments => LamportsConserved
    BY DEF Payments
  <1> QED
    BY <1>1, AutoPayments, PTL

\* A payment made on a statement is on record under the pool it was taken from.
THEOREM AutoPoolsAreExplained == AutoSpec => []RecordsExplainPools
  <1>1. Payments => RecordsExplainPools
    BY DEF Payments, Books
  <1> QED
    BY <1>1, AutoPayments, PTL

\* An approval by a statement takes one reward for the head of the queue out of the
\* pools, and what leaves them otherwise leaves them by the same two rules.
THEOREM AutoPaymentsByRule == AutoSpec => PoolsPayByRule
  <1>1. Inv /\ [AutoNext]_autoVars => [PaidOut > 0 => PaysTheHead \/ PaysEverything]_vars
    BY AutoStepIsStep, StepPaysByRule, ApprovalPaysHead
  <1> QED
    BY <1>1, AutoKeepsEscrow, PTL DEF AutoSpec, PoolsPayByRule
=============================================================================
