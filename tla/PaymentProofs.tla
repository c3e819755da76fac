---------------------------- MODULE PaymentProofs ----------------------------
(***************************************************************************)
(* Where the lamports go: the vaults stay alive, and so the payments of a  *)
(* settlement can be made; every accepted proof is paid exactly once and   *)
(* the totals agree; no lamport appears or disappears.                     *)
(***************************************************************************)
EXTENDS QuestProofs, SumProofs

-----------------------------------------------------------------------------
(***************************************************************************)
(* The fee vault and the public goods pool stay alive                      *)
(***************************************************************************)

\* The program never takes anything out of the fee vault.
LEMMA FeeVaultGrows ==
  ASSUME Inv, [Next]_vars
  PROVE  feeVault' >= feeVault
  <1>1. /\ quest \in QuestType /\ feeVault \in Nat /\ depositPool \in Nat
        /\ VaultTopUp \in Nat
    BY RentAssumption DEF Inv, TypeOK, VaultTopUp
  <1>2. CASE \E args \in CreateArgs : CreateQuest(args)
    <2> DEFINE fee(amount) == Fee(amount, PLATFORM_FEE_BPS)
    <2>1. PICK args \in CreateArgs :
            feeVault' = feeVault + fee(args.initial_reward_funding) + VaultTopUp
      BY <1>2 DEF CreateQuest, PayIn
    <2>2. fee(args.initial_reward_funding) \in Nat
      BY FeeIsPart, CreateAssumption, WidthAssumption DEF CreateArgType, U64
    <2> HIDE DEF fee
    <2> QED
      BY <1>1, <2>1, <2>2
  <1>3. CASE \E signer \in Users, args \in FundArgs : FundQuest(signer, args)
    <2> DEFINE fee(amount) == Fee(amount, PLATFORM_FEE_BPS)
    <2>1. PICK args \in FundArgs, topUp \in Nat :
            feeVault' = feeVault + fee(args.reward_funding_amount) + topUp
      BY <1>1, <1>3 DEF FundQuest, PayIn
    <2>2. fee(args.reward_funding_amount) \in Nat
      BY FeeIsPart, FundAssumption, WidthAssumption DEF U64
    <2> HIDE DEF fee
    <2> QED
      BY <1>1, <2>1, <2>2
  <1>4. CASE (\E signer \in Users : CloseQuest(signer)) \/ SettleQuest
    <2> DEFINE fee == Fee(depositPool, CANCELLATION_FEE_BPS)
    <2>1. feeVault' \in {feeVault, feeVault + fee}
      BY <1>4 DEF CloseQuest, SettleQuest, SettlePools, RefundPublisher,
                  ForfeitToPublicGoods, balances
    <2>2. fee \in Nat
      BY <1>1, FeeIsPart
    <2> HIDE DEF fee
    <2> QED
      BY <1>1, <2>1, <2>2
  <1>5. CASE UNCHANGED feeVault
    BY <1>1, <1>5
  <1> QED
    BY <1>2, <1>3, <1>4, <1>5
    DEF Next, SubmitProof, ApproveSubmission, ApproveAndPay, RejectSubmission,
        SendToPool, Tick, vars, balances

\* Every step keeps the vaults alive: create_quest brings the rent, fund_quest
\* adds to it, and a forfeit that would leave too little is refused.
LEMMA NextKeepsVaults ==
  ASSUME Inv, VaultsAreAlive, [Next]_vars
  PROVE  VaultsAreAlive'
  <1>1. /\ quest \in QuestType /\ feeVault \in Nat /\ publicGoods \in Nat
        /\ RENT_MINIMUM \in Nat
    BY RentAssumption DEF Inv, TypeOK
  <1> DEFINE fee(amount) == Fee(amount, PLATFORM_FEE_BPS)
  <1>2. CASE \E args \in CreateArgs : CreateQuest(args)
    <2>1. PICK args \in CreateArgs :
            /\ feeVault' = feeVault + fee(args.initial_reward_funding) + VaultTopUp
            /\ RentExempt(feeVault')
            /\ UNCHANGED publicGoods
      BY <1>2 DEF CreateQuest, PayIn
    <2>2. fee(args.initial_reward_funding) \in Nat
      BY FeeIsPart, CreateAssumption, WidthAssumption DEF CreateArgType, U64
    <2> HIDE DEF fee
    <2>3. feeVault' >= RENT_MINIMUM
      BY <1>1, <2>1, <2>2 DEF VaultTopUp, VaultsAreAlive, RentExempt
    <2> QED
      BY <2>1, <2>3 DEF VaultsAreAlive
  <1>3. CASE \E signer \in Users, args \in FundArgs : FundQuest(signer, args)
    <2>1. PICK args \in FundArgs, topUp \in Nat :
            /\ feeVault' = feeVault + fee(args.reward_funding_amount) + topUp
            /\ RentExempt(feeVault')
            /\ UNCHANGED publicGoods
      BY <1>1, <1>3 DEF FundQuest, PayIn, VaultTopUp
    <2>2. fee(args.reward_funding_amount) \in Nat
      BY FeeIsPart, FundAssumption, WidthAssumption DEF U64
    <2> HIDE DEF fee
    <2>3. feeVault >= RENT_MINIMUM
      BY <1>3 DEF FundQuest, FundingIsOpen, VaultsAreAlive, Live
    <2>4. feeVault' >= RENT_MINIMUM
      BY <1>1, <2>1, <2>2, <2>3
    <2> QED
      BY <2>1, <2>4 DEF VaultsAreAlive
  <1>4. ASSUME SettlePools(quest) \/ \E q \in QuestType : SettlePools(q)
        PROVE  VaultsAreAlive'
    <2>1. PICK q \in QuestType : SettlePools(q)
      BY <1>1, <1>4
    <2>2. quest'.status = "Closed"
      BY <2>1 DEF SettlePools, QuestType
    <2> QED
      BY <2>1, <2>2
      DEF SettlePools, RefundPublisher, ForfeitToPublicGoods, VaultsAreAlive, Live
  <1>5. CASE \E signer \in Users : CloseQuest(signer)
    <2> DEFINE closing == [quest EXCEPT
                            !.status = "Closing", !.close_requested_at = now,
                            !.closing_reason = IF now >= quest.expires_at
                                               THEN "Expired"
                                               ELSE "EarlyManual"]
    <2>1. closing \in QuestType
      BY <1>1 DEF QuestType, Statuses, Reasons, Inv, TypeOK
    <2>2. /\ quest.status = "Open"
          /\ SettlePools(closing) \/ UNCHANGED balances
      BY <1>5 DEF CloseQuest
    <2> HIDE DEF closing
    <2>3. CASE UNCHANGED balances
      BY <2>2, <2>3 DEF VaultsAreAlive, Live, balances
    <2> QED
      BY <1>4, <2>1, <2>2, <2>3
  <1>6. CASE SettleQuest
    BY <1>4, <1>6 DEF SettleQuest
  <1>7. CASE \E u \in Submitters : SubmitProof(u)
    BY <1>7 DEF SubmitProof, VaultsAreAlive, Live, balances
  <1>8. CASE \E signer \in Users, i \in DOMAIN submissions : ApproveSubmission(signer, i)
    BY <1>8 DEF ApproveSubmission, ApproveAndPay, VaultsAreAlive, Live
  <1>9. CASE \E signer \in Users, i \in DOMAIN submissions : RejectSubmission(signer, i)
    <2>1. quest'.status = quest.status /\ UNCHANGED balances
      BY <1>1, <1>9 DEF RejectSubmission, QuestType
    <2> QED
      BY <2>1 DEF VaultsAreAlive, Live, balances
  <1>10. CASE (\E amount \in Transfers : SendToPool(amount)) \/ Tick \/ UNCHANGED vars
    BY <1>10 DEF SendToPool, Tick, vars, VaultsAreAlive, Live, accounts, balances
  <1> QED
    BY <1>2, <1>3, <1>5, <1>6, <1>7, <1>8, <1>9, <1>10 DEF Next

\* What the two vaults get from a forfeit is enough for both of them.
LEMMA ForfeitIsPayable ==
  ASSUME Inv, VaultsAreAlive
  PROVE  SettlementIsPayable
  <1> SUFFICES ASSUME Live, quest.pending_count = 0
               PROVE  SettlementIsPayable
    BY DEF SettlementIsPayable
  <1> DEFINE fee == Fee(depositPool, CANCELLATION_FEE_BPS)
  <1>1. /\ depositPool \in Nat /\ rewardPool \in Nat
        /\ feeVault \in Nat /\ publicGoods \in Nat
        /\ fee \in Nat /\ fee <= depositPool
    BY FeeIsPart DEF Inv, TypeOK
  <1>2. /\ quest.pending_count \in Nat /\ quest.queue_max \in Nat
        /\ quest.next_review_index \in Nat /\ quest.next_submission_index \in Nat
        /\ Reward \in Nat /\ Reward >= MIN_REWARD_AMOUNT
    BY FieldTypes DEF Inv, TypeOK, TermsHold, Live, Reward
  <1>3. quest.next_review_index = quest.next_submission_index
    BY <1>2 DEF Inv, QueueIsConsistent
  <1>4. quest.status = "Closing" => quest.closing_reason # "None"
    BY DEF Inv, ReasonMatchesDeadline
  <1>5. depositPool >= MIN_REWARD_AMOUNT
    <2>1. PICK n \in Nat : depositPool >= (n + 1) * Reward
      BY <1>2 DEF Inv, DepositCoversQueue, Live
    <2>2. (n + 1) * Reward = n * Reward + Reward /\ n * Reward \in Nat
      BY <1>2, NextProduct
    <2> QED
      BY <1>1, <1>2, <2>1, <2>2 DEF MIN_REWARD_AMOUNT
  <1>6. depositPool - fee >= RENT_MINIMUM
    <2>1. depositPool - fee >= MIN_REWARD_AMOUNT - MIN_REWARD_AMOUNT \div 100
      BY <1>1, <1>5
      DEF Fee, CANCELLATION_FEE_BPS, BPS_DENOMINATOR, MIN_REWARD_AMOUNT
    <2> QED
      BY <1>1, <2>1, RentAssumption DEF MIN_REWARD_AMOUNT
  <1>7. RentExempt(feeVault + fee)
    BY <1>1, RentAssumption DEF VaultsAreAlive, RentExempt
  <1>8. RentExempt(publicGoods + rewardPool + (depositPool - fee))
    <2> HIDE DEF fee
    <2> QED
      BY <1>1, <1>6, RentAssumption DEF RentExempt
  <1> QED
    BY <1>3, <1>4, <1>7, <1>8 DEF SettlementIsPayable

\* Vaults start empty, and an empty account is no account.
LEMMA InitHasVaults == Init => VaultsAreAlive
  BY DEF Init, VaultsAreAlive, RentExempt, Live, NoQuest

\* A quest nobody waits in can be settled, whatever its pools and the vaults
\* hold, as long as the fee of its deposit fits a u64.
THEOREM SettlementCanPay == Spec => []SettlementIsPayable
  <1>1. Init => VaultsAreAlive
    BY InitHasVaults
  <1>2. Inv /\ VaultsAreAlive /\ [Next]_vars => VaultsAreAlive'
    BY NextKeepsVaults
  <1>3. Inv /\ VaultsAreAlive => SettlementIsPayable
    BY ForfeitIsPayable
  <1> QED
    BY <1>1, <1>2, <1>3, Invariance, PTL DEF Spec

-----------------------------------------------------------------------------
(***************************************************************************)
(* Accepted proofs are paid once. The totals count sets of submissions, so *)
(* what has to be shown of a step is how these sets grow: by the head of   *)
(* the queue, or not at all.                                               *)
(***************************************************************************)

PaidTo(u) == {i \in With("Approved") : submissions[i].submitter = u}

\* The accepted submissions can be counted.
LEMMA SetsAreFinite ==
  ASSUME Inv
  PROVE  /\ IsFiniteSet(With("Approved")) /\ Cardinality(With("Approved")) \in Nat
         /\ \A u : IsFiniteSet(PaidTo(u)) /\ Cardinality(PaidTo(u)) \in Nat
  <1>1. IsFiniteSet(DOMAIN submissions)
    <2>1. quest.next_submission_index - 1 \in Int
      BY DEF Inv, TypeOK, QuestType
    <2> QED
      BY <2>1, FS_Interval DEF Inv, TypeOK
  <1>2. IsFiniteSet(With("Approved"))
    BY <1>1, FS_Subset DEF With
  <1>3. \A u : IsFiniteSet(PaidTo(u))
    BY <1>2, FS_Subset DEF PaidTo
  <1> QED
    BY <1>2, <1>3, FS_CardinalityType

\* What the progress account counts, only an approval changes.
LEMMA RecordsKeepCount ==
  ASSUME NEW p \in ProgressType, NEW cycle \in Nat, NEW state, NEW current
  PROVE  /\ prune_old_cycles(p, current).total_approved = p.total_approved
         /\ set_cycle_state(p, cycle, state).total_approved = p.total_approved
         /\ set_cycle_state_in_window(p, cycle, state, current).total_approved
              = p.total_approved
  <1>1. prune_old_cycles(p, current) \in ProgressType
    BY PruneType
  <1>2. \A q \in ProgressType :
          set_cycle_state(q, cycle, state).total_approved = q.total_approved
    BY DEF set_cycle_state, ProgressType
  <1>3. prune_old_cycles(p, current).total_approved = p.total_approved
    BY DEF prune_old_cycles, ProgressType
  <1> QED
    BY <1>1, <1>2, <1>3 DEF set_cycle_state_in_window

\* A record of a submission, a rejection and an acceptance.
LEMMA RecordsCountApprovals ==
  ASSUME NEW p \in ProgressType, NEW cycle \in Nat, CurrentCycle \in Nat
  PROVE  /\ RecordSubmit(p).total_approved = p.total_approved
         /\ RecordRejection(p, cycle).total_approved = p.total_approved
         /\ RecordApproval(p, cycle).total_approved = p.total_approved + 1
  <1> DEFINE sending     == set_cycle_state(prune_old_cycles(p, CurrentCycle),
                                         CurrentCycle, PENDING)
             accepted == set_cycle_state_in_window(p, cycle, APPROVED,
                                                   WindowAnchor(p, cycle))
  <1>1. sending \in ProgressType /\ sending.total_approved = p.total_approved
    <2>1. /\ prune_old_cycles(p, CurrentCycle) \in ProgressType
          /\ prune_old_cycles(p, CurrentCycle).total_approved = p.total_approved
      BY PruneType, RecordsKeepCount
    <2>2. PENDING \in CycleStates
      BY DEF CycleStates
    <2> DEFINE q == prune_old_cycles(p, CurrentCycle)
    <2>3. q \in ProgressType /\ q.total_approved = p.total_approved
      BY <2>1
    <2> HIDE DEF q
    <2>4. set_cycle_state(q, CurrentCycle, PENDING) \in ProgressType
      BY <2>2, <2>3, SetType
    <2>5. set_cycle_state(q, CurrentCycle, PENDING).total_approved = q.total_approved
      BY <2>2, <2>3, RecordsKeepCount
    <2> QED
      BY <2>3, <2>4, <2>5 DEF q
  <1>2. accepted \in ProgressType /\ accepted.total_approved = p.total_approved
    BY SetInWindowType, RecordsKeepCount DEF APPROVED, CycleStates
  <1>3. RecordRejection(p, cycle).total_approved = p.total_approved
    BY RecordsKeepCount DEF RecordRejection, ProgressType
  <1> HIDE DEF sending, accepted
  <1>4. RecordSubmit(p).total_approved = p.total_approved
    BY <1>1 DEF RecordSubmit, sending, ProgressType
  <1>5. RecordApproval(p, cycle).total_approved = p.total_approved + 1
    BY <1>2 DEF RecordApproval, accepted, ProgressType
  <1> QED
    BY <1>3, <1>4, <1>5

-----------------------------------------------------------------------------
\* What PaidOncePerApproval says of single submissions and of single users.
PaidInFull(i) ==
  {submissions[i].paid_from_reward_pool, submissions[i].paid_from_deposit_pool}
    = IF submissions[i].status = "Approved" THEN {0, Reward} ELSE {0}

HasEarned(u) ==
  /\ progress[u].total_approved = Cardinality(PaidTo(u))
  /\ u # Publisher => wallet[u] = Cardinality(PaidTo(u)) * Reward

\* PaidOncePerApproval, by what each of its conjuncts reads.
LEMMA PaidOnceParts ==
  PaidOncePerApproval
    <=> /\ \A i \in DOMAIN submissions : PaidInFull(i)
        /\ quest.total_approved = Cardinality(With("Approved"))
        /\ quest.total_paid_amount = quest.total_approved * Reward
        /\ \A u \in Submitters : HasEarned(u)
  BY DEF PaidOncePerApproval, PaidInFull, HasEarned, PaidTo

\* A step that accepts nothing and pays nobody but the publisher.
LEMMA NothingAccepted ==
  ASSUME PaidOncePerApproval, With("Approved")' = With("Approved"),
         \A i \in With("Approved") : submissions'[i].submitter = submissions[i].submitter,
         \A i \in DOMAIN submissions' : PaidInFull(i)',
         quest'.total_approved = quest.total_approved,
         quest'.total_paid_amount = quest.total_paid_amount,
         quest'.reward_per_completion = quest.reward_per_completion,
         \A u \in Submitters : /\ progress'[u].total_approved = progress[u].total_approved
                               /\ u # Publisher => wallet'[u] = wallet[u]
  PROVE  PaidOncePerApproval'
  <1>1. Reward' = Reward
    BY DEF Reward
  <1>2. \A u : PaidTo(u)' = PaidTo(u)
    BY DEF PaidTo
  <1>3. \A u \in Submitters : HasEarned(u)'
    BY <1>1, <1>2, PaidOnceParts DEF HasEarned
  <1>4. /\ quest'.total_approved = Cardinality(With("Approved")')
        /\ quest'.total_paid_amount = quest'.total_approved * Reward'
    BY <1>1, PaidOnceParts
  <1> QED
    BY <1>3, <1>4 DEF PaidOncePerApproval, PaidInFull, HasEarned, PaidTo

\* Accepting the head adds it to the accepted submissions, and to those its
\* submitter has been paid for; it was in neither set before.
LEMMA AcceptedSetsGrow ==
  ASSUME Inv, NEW i \in DOMAIN submissions, submissions[i].status = "Pending",
         DOMAIN submissions' = DOMAIN submissions,
         submissions'[i].status = "Approved",
         submissions'[i].submitter = submissions[i].submitter,
         \A j \in DOMAIN submissions : j # i => submissions'[j] = submissions[j]
  PROVE  /\ Cardinality(With("Approved")') = Cardinality(With("Approved")) + 1
         /\ \A u : Cardinality(PaidTo(u)') = IF u = submissions[i].submitter
                                             THEN Cardinality(PaidTo(u)) + 1
                                             ELSE Cardinality(PaidTo(u))
  <1>1. With("Approved")' = With("Approved") \cup {i} /\ i \notin With("Approved")
    BY DEF With
  <1>2. Cardinality(With("Approved") \cup {i}) = Cardinality(With("Approved")) + 1
    BY <1>1, SetsAreFinite, FS_AddElement
  <1>3. ASSUME NEW u
        PROVE  Cardinality(PaidTo(u)') = IF u = submissions[i].submitter
                                         THEN Cardinality(PaidTo(u)) + 1
                                         ELSE Cardinality(PaidTo(u))
    <2>1. IsFiniteSet(PaidTo(u)) /\ i \notin PaidTo(u)
      BY <1>1, SetsAreFinite DEF PaidTo
    <2>2. Cardinality(PaidTo(u) \cup {i}) = Cardinality(PaidTo(u)) + 1
      BY <2>1, FS_AddElement
    <2>3. PaidTo(u)' = IF u = submissions[i].submitter THEN PaidTo(u) \cup {i} ELSE PaidTo(u)
      BY DEF PaidTo, With
    <2> QED
      BY <2>2, <2>3
  <1> QED
    BY <1>1, <1>2, <1>3

\* An approval pays the head once: the counters and totals grow with the accepted sets.
LEMMA ApprovalPaysOnce ==
  ASSUME Inv, PaidOncePerApproval, NEW i \in DOMAIN submissions, ApproveAndPay(i)
  PROVE  PaidOncePerApproval'
  <1> DEFINE user == submissions[i].submitter
  <1>1. /\ quest \in QuestType /\ now \in Nat /\ NextInLine(i)
        /\ quest.status \in {"Open", "Closing"}
        /\ submissions \in [DOMAIN submissions -> SubmissionType]
        /\ submissions[i] \in SubmissionType /\ submissions[i].status = "Pending"
        /\ quest.pending_count # 0 /\ Reward \in Nat
        /\ progress \in [Submitters -> ProgressType] /\ wallet \in [Users -> Nat]
    BY HeadFacts, FieldTypes DEF Inv, TypeOK, ApproveAndPay, NextInLine, Reward
  <1>2. /\ user \in Submitters /\ user \in Users
        /\ submissions[i].cycle_index \in Nat /\ CurrentCycle \in Nat
    BY <1>1, UsersAssumption, CurrentCycleType DEF SubmissionType
  <1>3. PaidInFull(i)
    BY PaidOnceParts
  <1>4. /\ submissions'[i].status = "Approved" /\ submissions'[i].submitter = user
        /\ {submissions'[i].paid_from_reward_pool, submissions'[i].paid_from_deposit_pool}
             = {0, Reward}
        /\ \A j \in DOMAIN submissions : j # i => submissions'[j] = submissions[j]
        /\ DOMAIN submissions' = DOMAIN submissions
    <2>1. /\ submissions[i].paid_from_reward_pool = 0
          /\ submissions[i].paid_from_deposit_pool = 0
      BY <1>1, <1>3 DEF PaidInFull
    <2>2. CASE FromRewardPool(i)
      BY <1>1, <2>1, <2>2 DEF FromRewardPool, SubmissionType, Reward
    <2>3. CASE FromDepositPool(i)
      BY <1>1, <2>1, <2>3 DEF FromDepositPool, SubmissionType, Reward
    <2> QED
      BY <2>2, <2>3 DEF ApproveAndPay
  <1>5. /\ quest'.total_approved = quest.total_approved + 1
        /\ quest'.total_paid_amount = quest.total_paid_amount + Reward
        /\ Reward' = Reward
    <2>1. CASE FromRewardPool(i)
      BY <1>1, <2>1, CountFacts DEF FromRewardPool, Reward
    <2>2. CASE FromDepositPool(i)
      BY <1>1, <2>2, StopFacts, CountFacts DEF FromDepositPool, Reward
    <2> QED
      BY <2>1, <2>2 DEF ApproveAndPay
  <1>6. /\ Cardinality(With("Approved")') = Cardinality(With("Approved")) + 1
        /\ \A u : Cardinality(PaidTo(u)') = IF u = user
                                            THEN Cardinality(PaidTo(u)) + 1
                                            ELSE Cardinality(PaidTo(u))
    BY <1>1, <1>4, AcceptedSetsGrow
  <1>7. ASSUME NEW j \in DOMAIN submissions
        PROVE  PaidInFull(j)'
    <2>1. CASE j = i
      BY <1>4, <1>5, <2>1 DEF PaidInFull
    <2>2. CASE j # i
      BY <1>4, <1>5, <2>2, PaidOnceParts DEF PaidInFull
    <2> QED
      BY <2>1, <2>2
  <1>8. quest'.total_paid_amount = quest'.total_approved * Reward'
    <2>1. /\ quest.total_paid_amount = quest.total_approved * Reward
          /\ quest.total_approved \in Nat
      BY <1>1, PaidOnceParts, FieldTypes
    <2> QED
      BY <1>1, <1>5, <2>1, NextProduct
  <1>9. quest'.total_approved = Cardinality(With("Approved")')
    BY <1>5, <1>6, PaidOnceParts
  <1>10. ASSUME NEW u \in Submitters
         PROVE  HasEarned(u)'
    <2>1. /\ progress'[u].total_approved = IF u = user THEN progress[u].total_approved + 1
                                                       ELSE progress[u].total_approved
          /\ wallet'[u] = IF u = user THEN wallet[u] + Reward ELSE wallet[u]
      <3>1. /\ progress' = [progress EXCEPT
                             ![user] = RecordApproval(@, submissions[i].cycle_index)]
            /\ wallet' = [wallet EXCEPT ![user] = @ + Reward]
        BY DEF ApproveAndPay, Reward
      <3>2. progress[user] \in ProgressType
        BY <1>1, <1>2
      <3>3. RecordApproval(progress[user], submissions[i].cycle_index).total_approved
              = progress[user].total_approved + 1
        BY <1>2, <3>2, RecordsCountApprovals
      <3> HIDE DEF user
      <3> QED
        BY <1>1, <1>2, <3>1, <3>3, UsersAssumption
    <2>2. HasEarned(u) /\ Cardinality(PaidTo(u)) \in Nat
      BY SetsAreFinite, PaidOnceParts
    <2>3. (Cardinality(PaidTo(u)) + 1) * Reward = Cardinality(PaidTo(u)) * Reward + Reward
      BY <1>1, <2>2, NextProduct
    <2> QED
      BY <1>5, <1>6, <2>1, <2>2, <2>3 DEF HasEarned
  <1> QED
    BY <1>4, <1>7, <1>8, <1>9, <1>10
    DEF PaidOncePerApproval, PaidInFull, HasEarned, PaidTo

\* A rejection changes no accepted set, counter of approvals or total.
LEMMA RejectionPaysNobody ==
  ASSUME Inv, PaidOncePerApproval, NEW signer \in Users, NEW i \in DOMAIN submissions,
         RejectSubmission(signer, i)
  PROVE  PaidOncePerApproval'
  <1> DEFINE user == submissions[i].submitter
  <1>1. /\ NextInLine(i) /\ quest \in QuestType
        /\ submissions \in [DOMAIN submissions -> SubmissionType]
        /\ submissions[i] \in SubmissionType /\ submissions[i].status = "Pending"
        /\ progress \in [Submitters -> ProgressType]
    BY FieldTypes DEF Inv, TypeOK, RejectSubmission, NextInLine
  <1>2. user \in Submitters /\ submissions[i].cycle_index \in Nat
    BY <1>1 DEF SubmissionType
  <1>3. CurrentCycle \in Nat
    <2>1. quest.pending_count # 0
      BY <1>1, HeadFacts
    <2>2. quest.status # "Absent"
      BY <2>1 DEF Inv, TermsHold, NoQuest
    <2> QED
      BY <2>2, CurrentCycleType
  <1>4. /\ submissions' = [submissions EXCEPT ![i] = [@ EXCEPT !.status = "Rejected"]]
        /\ UNCHANGED wallet
        /\ progress' = [progress EXCEPT
                         ![user] = RecordRejection(@, submissions[i].cycle_index)]
    BY DEF RejectSubmission, balances
  <1>5. With("Approved")' = With("Approved")
    BY <1>1, <1>4 DEF With, SubmissionType
  <1>6. ASSUME NEW j \in DOMAIN submissions'
        PROVE  PaidInFull(j)'
    <2>1. PaidInFull(j) /\ Reward' = Reward
      BY <1>1, <1>4, PaidOnceParts DEF RejectSubmission, Reward, QuestType
    <2> QED
      BY <1>1, <1>4, <2>1 DEF PaidInFull, SubmissionType
  <1>7. \A u \in Submitters : progress'[u].total_approved = progress[u].total_approved
    <2>1. progress[user] \in ProgressType
      BY <1>1, <1>2
    <2>2. RecordRejection(progress[user], submissions[i].cycle_index).total_approved
            = progress[user].total_approved
      BY <1>2, <1>3, <2>1, RecordsCountApprovals
    <2> HIDE DEF user
    <2> QED
      BY <1>1, <1>2, <1>4, <2>2
  <1>8. /\ quest'.total_approved = quest.total_approved
        /\ quest'.total_paid_amount = quest.total_paid_amount
        /\ quest'.reward_per_completion = quest.reward_per_completion
    BY <1>1 DEF RejectSubmission, QuestType
  <1>9. \A j \in With("Approved") : submissions'[j].submitter = submissions[j].submitter
    BY <1>1, <1>4 DEF With
  <1> QED
    BY <1>4, <1>5, <1>6, <1>7, <1>8, <1>9, NothingAccepted

\* Nor does a new submission, which is pending.
LEMMA SubmissionPaysNobody ==
  ASSUME Inv, PaidOncePerApproval, NEW u \in Submitters, SubmitProof(u)
  PROVE  PaidOncePerApproval'
  <1> DEFINE index == quest.next_submission_index
  <1>1. /\ quest \in QuestType /\ index \in Nat
        /\ submissions \in [0 .. index - 1 -> SubmissionType]
        /\ progress \in [Submitters -> ProgressType]
        /\ quest.status = "Open"
    BY FieldTypes DEF Inv, TypeOK, SubmitProof
  <1>2. /\ submissions' = [j \in 0 .. index |->
                            IF j = index THEN NewSubmission(u) ELSE submissions[j]]
        /\ progress' = [progress EXCEPT ![u] = RecordSubmit(@)]
        /\ UNCHANGED wallet
        /\ quest'.total_approved = quest.total_approved
        /\ quest'.total_paid_amount = quest.total_paid_amount
        /\ quest'.reward_per_completion = quest.reward_per_completion
    BY <1>1 DEF SubmitProof, balances, QuestType
  <1>3. /\ submissions'[index] = NewSubmission(u)
        /\ index \notin DOMAIN submissions
        /\ DOMAIN submissions' = DOMAIN submissions \cup {index}
        /\ \A j \in DOMAIN submissions : submissions'[j] = submissions[j]
    BY <1>1, <1>2
  <1>4. With("Approved")' = With("Approved")
    BY <1>3 DEF With, NewSubmission
  <1>5. ASSUME NEW j \in DOMAIN submissions'
        PROVE  PaidInFull(j)'
    <2>1. CASE j = index
      BY <1>3, <2>1 DEF PaidInFull, NewSubmission
    <2>2. CASE j \in DOMAIN submissions
      BY <1>2, <1>3, <2>2, PaidOnceParts DEF PaidInFull, Reward
    <2> QED
      BY <1>3, <2>1, <2>2
  <1>6. \A v \in Submitters : progress'[v].total_approved = progress[v].total_approved
    <2>1. progress[u] \in ProgressType /\ CurrentCycle \in Nat
      BY <1>1, CurrentCycleType
    <2>2. RecordSubmit(progress[u]).total_approved = progress[u].total_approved
      BY <2>1, RecordsCountApprovals
    <2> QED
      BY <1>1, <1>2, <2>2
  <1>7. \A j \in With("Approved") : submissions'[j].submitter = submissions[j].submitter
    BY <1>3 DEF With
  <1> QED
    BY <1>2, <1>4, <1>5, <1>6, <1>7, NothingAccepted

\* create_quest sets the reward of a quest that has no submissions yet.
LEMMA CreationPaysNobody ==
  ASSUME Inv, PaidOncePerApproval, NEW args \in CreateArgs, CreateQuest(args)
  PROVE  PaidOncePerApproval'
  <1>1. /\ quest = NoQuest /\ submissions' = submissions /\ progress' = progress
        /\ wallet \in [Users -> Nat] /\ args.reward_per_completion \in Nat
    BY CreateAssumption, WidthAssumption
    DEF Inv, TypeOK, TermsHold, CreateQuest, CreateArgType, U64
  <1>2. DOMAIN submissions = {}
    BY <1>1 DEF Inv, TypeOK, NoQuest
  <1>3. With("Approved") = {} /\ \A u : PaidTo(u) = {}
    BY <1>2 DEF With, PaidTo
  <1>4. /\ quest'.total_approved = 0 /\ quest'.total_paid_amount = 0
        /\ quest'.reward_per_completion = args.reward_per_completion
    BY DEF CreateQuest, NoQuest
  <1>5. ASSUME NEW u \in Submitters, u # Publisher
        PROVE  wallet'[u] = 0
    <2>1. wallet[u] = 0
      BY <1>3, <1>5, <1>1, PaidOnceParts, FS_EmptySet DEF HasEarned, NoQuest, Reward
    <2> QED
      BY <1>1, <1>5, <2>1 DEF CreateQuest, PayIn
  <1>6. \A u \in Submitters : HasEarned(u)'
    <2>1. \A u \in Submitters : progress[u].total_approved = 0
      BY <1>3, PaidOnceParts, FS_EmptySet DEF HasEarned
    <2>2. \A u : PaidTo(u)' = {}
      BY <1>1, <1>2 DEF With, PaidTo
    <2> QED
      BY <1>1, <1>4, <1>5, <2>1, <2>2, FS_EmptySet DEF HasEarned, Reward
  <1>7. With("Approved")' = {} /\ DOMAIN submissions' = {}
    BY <1>1, <1>2 DEF With
  <1>8. /\ quest'.total_approved = Cardinality(With("Approved")')
        /\ quest'.total_paid_amount = quest'.total_approved * Reward'
    <2>1. Cardinality({}) = 0 /\ Reward' \in Nat
      BY <1>1, <1>4, FS_EmptySet DEF Reward
    <2>2. quest'.total_approved = Cardinality(With("Approved")')
      BY <1>4, <1>7, <2>1
    <2>3. \A r \in Nat : 0 * r = 0
      OBVIOUS
    <2>4. 0 * Reward' = 0
      BY <2>1, <2>3
    <2> QED
      BY <1>4, <2>2, <2>4
  <1> QED
    BY <1>6, <1>7, <1>8 DEF PaidOncePerApproval, HasEarned, PaidTo

\* Funding and settling move the publisher's money only.
LEMMA PublisherPaysNobody ==
  ASSUME Inv, PaidOncePerApproval, UNCHANGED <<submissions, progress>>,
         quest'.total_approved = quest.total_approved,
         quest'.total_paid_amount = quest.total_paid_amount,
         quest'.reward_per_completion = quest.reward_per_completion,
         \A u \in Submitters \ {Publisher} : wallet'[u] = wallet[u]
  PROVE  PaidOncePerApproval'
  <1>1. With("Approved")' = With("Approved")
    BY DEF With
  <1>2. \A i \in DOMAIN submissions' : PaidInFull(i)'
    BY PaidOnceParts DEF PaidInFull, Reward
  <1> QED
    BY <1>1, <1>2, NothingAccepted

\* However the pools are settled, nobody but the publisher gets anything.
LEMMA SettlingPaysNobody ==
  ASSUME Inv, NEW q \in QuestType, SettlePools(q),
         q.total_approved = quest.total_approved,
         q.total_paid_amount = quest.total_paid_amount,
         q.reward_per_completion = quest.reward_per_completion
  PROVE  /\ quest'.total_approved = quest.total_approved
         /\ quest'.total_paid_amount = quest.total_paid_amount
         /\ quest'.reward_per_completion = quest.reward_per_completion
         /\ \A u \in Submitters \ {Publisher} : wallet'[u] = wallet[u]
  <1>1. quest' = [q EXCEPT !.status = "Closed"] /\ wallet \in [Users -> Nat]
    BY DEF SettlePools, Inv, TypeOK
  <1>2. \A u \in Submitters \ {Publisher} : wallet'[u] = wallet[u]
    BY <1>1, UsersAssumption DEF SettlePools, RefundPublisher, ForfeitToPublicGoods
  <1> QED
    BY <1>1, <1>2 DEF QuestType

\* Every step keeps the property.
LEMMA NextPaysOnce ==
  ASSUME Inv, PaidOncePerApproval, [Next]_vars
  PROVE  PaidOncePerApproval'
  <1>1. quest \in QuestType /\ wallet \in [Users -> Nat]
    BY DEF Inv, TypeOK
  <1>2. CASE \E args \in CreateArgs : CreateQuest(args)
    BY <1>2, CreationPaysNobody
  <1>3. CASE \E signer \in Users, args \in FundArgs : FundQuest(signer, args)
    <2>1. /\ UNCHANGED <<submissions, progress>>
          /\ quest'.total_approved = quest.total_approved
          /\ quest'.total_paid_amount = quest.total_paid_amount
          /\ quest'.reward_per_completion = quest.reward_per_completion
      BY <1>1, <1>3 DEF FundQuest, QuestType
    <2>2. \A u \in Submitters \ {Publisher} : wallet'[u] = wallet[u]
      BY <1>1, <1>3, UsersAssumption DEF FundQuest, PayIn
    <2> QED
      BY <2>1, <2>2, PublisherPaysNobody
  <1>4. CASE \E u \in Submitters : SubmitProof(u)
    BY <1>4, SubmissionPaysNobody
  <1>5. CASE \E signer \in Users, i \in DOMAIN submissions : ApproveSubmission(signer, i)
    BY <1>5, ApprovalPaysOnce DEF ApproveSubmission
  <1>6. CASE \E signer \in Users, i \in DOMAIN submissions : RejectSubmission(signer, i)
    BY <1>6, RejectionPaysNobody
  <1>7. CASE \E signer \in Users : CloseQuest(signer)
    <2> DEFINE closing == [quest EXCEPT
                            !.status = "Closing", !.close_requested_at = now,
                            !.closing_reason = IF now >= quest.expires_at
                                               THEN "Expired"
                                               ELSE "EarlyManual"]
    <2>1. /\ closing \in QuestType
          /\ closing.total_approved = quest.total_approved
          /\ closing.total_paid_amount = quest.total_paid_amount
          /\ closing.reward_per_completion = quest.reward_per_completion
      BY <1>1 DEF QuestType, Statuses, Reasons, Inv, TypeOK
    <2>2. /\ SettlePools(closing) \/ (quest' = closing /\ UNCHANGED wallet)
          /\ UNCHANGED <<submissions, progress>>
      BY <1>7 DEF CloseQuest, balances
    <2> HIDE DEF closing
    <2> QED
      BY <2>1, <2>2, SettlingPaysNobody, PublisherPaysNobody
  <1>8. CASE SettleQuest
    BY <1>1, <1>8, SettlingPaysNobody, PublisherPaysNobody DEF SettleQuest
  <1>9. CASE (\E amount \in Transfers : SendToPool(amount)) \/ Tick \/ UNCHANGED vars
    BY <1>9, PublisherPaysNobody DEF SendToPool, Tick, vars, accounts, balances
  <1> QED
    BY <1>2, <1>3, <1>4, <1>5, <1>6, <1>7, <1>8, <1>9 DEF Next

\* It holds before anybody is paid.
LEMMA InitPaysNobody == Init => PaidOncePerApproval
  <1> SUFFICES ASSUME Init
               PROVE  PaidOncePerApproval
    OBVIOUS
  <1>1. With("Approved") = {} /\ DOMAIN submissions = {} /\ \A u : PaidTo(u) = {}
    BY DEF Init, With, PaidTo
  <1>2. Cardinality({}) = 0
    BY FS_EmptySet
  <1>3. quest.total_approved = 0 /\ quest.total_paid_amount = 0 /\ Reward = 0
    BY DEF Init, NoQuest, Reward
  <1>4. ASSUME NEW u \in Submitters
        PROVE  HasEarned(u)
    <2>1. progress[u].total_approved = 0
      BY DEF Init, NewProgress
    <2>2. u # Publisher => wallet[u] = 0
      BY UsersAssumption DEF Init
    <2>3. Cardinality(PaidTo(u)) = 0
      BY <1>1, <1>2
    <2>4. 0 * 0 = 0
      OBVIOUS
    <2> QED
      BY <1>3, <2>1, <2>2, <2>3, <2>4 DEF HasEarned
  <1>5. \A i \in DOMAIN submissions : PaidInFull(i)
    BY <1>1
  <1>6. Cardinality(With("Approved")) = 0
    BY <1>1, <1>2
  <1>7. 0 * 0 = 0
    OBVIOUS
  <1> QED
    BY <1>3, <1>4, <1>5, <1>6, <1>7, PaidOnceParts

\* Every accepted proof was paid once, in full and from one pool, and nothing else
\* was paid to a submitter: the quest's totals, the submissions' records, every
\* user's count and every user's wallet agree.
THEOREM PaidOnce == Spec => []PaidOncePerApproval
  <1>1. Init => PaidOncePerApproval
    BY InitPaysNobody
  <1>2. Inv /\ PaidOncePerApproval /\ [Next]_vars => PaidOncePerApproval'
    BY NextPaysOnce
  <1> QED
    BY <1>1, <1>2, Invariance, PTL DEF Spec

-----------------------------------------------------------------------------
(***************************************************************************)
(* No lamport appears or disappears. A step changes one wallet at most and *)
(* takes what that wallet gets from the program's accounts; the sum over   *)
(* all wallets then changes by that one term.                              *)
(***************************************************************************)

\* What the program has of its users' money, beside what was sent to the pools.
ProgramHolds ==
  (rewardPool - rewardSent) + (depositPool - depositSent) + feeVault + publicGoods

\* The program's accounts and the wallet of u exchange lamports; other wallets stay.
PaysOrTakes(u) ==
  /\ \A x \in Users \ {u} : wallet'[x] = wallet[x]
  /\ ProgramHolds' + wallet'[u] = ProgramHolds + wallet[u]

\* An approval of either kind pays the submitter from one of the pools.
LEMMA ApprovalMovesLamports ==
  ASSUME Inv, NEW i \in DOMAIN submissions, ApproveAndPay(i)
  PROVE  PaysOrTakes(submissions[i].submitter)
  <1> DEFINE user == submissions[i].submitter
  <1>1. /\ rewardPool \in Nat /\ depositPool \in Nat /\ feeVault \in Nat
        /\ publicGoods \in Nat /\ wallet \in [Users -> Nat] /\ user \in Users
        /\ Reward \in Nat /\ rewardSent \in Nat /\ depositSent \in Nat
    BY FieldTypes, UsersAssumption DEF Inv, TypeOK, SubmissionType, Reward
  <1>2. /\ wallet' = [wallet EXCEPT ![user] = @ + Reward]
        /\ feeVault' = feeVault /\ publicGoods' = publicGoods
        /\ rewardSent' = rewardSent /\ depositSent' = depositSent
    BY DEF ApproveAndPay, Reward, sent
  <1>3. \/ rewardPool' = rewardPool - Reward /\ depositPool' = depositPool
        \/ rewardPool' = rewardPool /\ depositPool' = depositPool - Reward
    BY DEF ApproveAndPay, FromRewardPool, FromDepositPool, Reward
  <1> HIDE DEF user
  <1>4. PaysOrTakes(user)
    BY <1>1, <1>2, <1>3 DEF PaysOrTakes, ProgramHolds
  <1> QED
    BY <1>4 DEF user

\* What the publisher pays in arrives.
LEMMA PayInMovesLamports ==
  ASSUME Inv, NEW funding \in Nat, NEW deposit \in Nat, NEW fee \in Nat,
         NEW topUp \in Nat, PayIn(funding, deposit, fee, topUp)
  PROVE  PaysOrTakes(Publisher)
  <1>1. /\ rewardPool \in Nat /\ depositPool \in Nat /\ feeVault \in Nat
        /\ publicGoods \in Nat /\ wallet \in [Users -> Nat] /\ Publisher \in Users
        /\ rewardSent \in Nat /\ depositSent \in Nat
    BY UsersAssumption DEF Inv, TypeOK
  <1> DEFINE total == funding + deposit + fee + topUp
  <1>2. /\ wallet' = [wallet EXCEPT ![Publisher] = @ - total]
        /\ rewardPool' = rewardPool + funding
        /\ depositPool' = depositPool + deposit
        /\ feeVault' = feeVault + fee + topUp
        /\ publicGoods' = publicGoods
        /\ rewardSent' = rewardSent /\ depositSent' = depositSent
    BY DEF PayIn, sent
  <1>3. /\ wallet'[Publisher] = wallet[Publisher] - total
        /\ \A x \in Users \ {Publisher} : wallet'[x] = wallet[x]
    <2> HIDE DEF total
    <2> QED
      BY <1>1, <1>2
  <1>4. wallet[Publisher] \in Nat
    BY <1>1
  <1> QED
    BY <1>1, <1>2, <1>3, <1>4 DEF PaysOrTakes, ProgramHolds

\* A settlement empties the pools to the publisher, or into the two vaults.
LEMMA SettlingMovesLamports ==
  ASSUME Inv, NEW q, SettlePools(q), UNCHANGED sent
  PROVE  PaysOrTakes(Publisher)
  <1>1. /\ rewardPool \in Nat /\ depositPool \in Nat /\ feeVault \in Nat
        /\ publicGoods \in Nat /\ wallet \in [Users -> Nat] /\ Publisher \in Users
        /\ rewardSent \in Nat /\ depositSent \in Nat
    BY UsersAssumption DEF Inv, TypeOK
  <1>2. /\ rewardPool' = 0 /\ depositPool' = 0
        /\ rewardSent' = rewardSent /\ depositSent' = depositSent
    BY DEF SettlePools, sent
  <1>3. CASE RefundPublisher
    BY <1>1, <1>2, <1>3 DEF RefundPublisher, PaysOrTakes, ProgramHolds
  <1>4. CASE ForfeitToPublicGoods
    <2> DEFINE fee == Fee(depositPool, CANCELLATION_FEE_BPS)
    <2>1. /\ feeVault' = feeVault + fee
          /\ publicGoods' = publicGoods + rewardPool + (depositPool - fee)
          /\ wallet' = wallet
      BY <1>4 DEF ForfeitToPublicGoods
    <2>2. fee \in Nat
      BY <1>1, FeeIsPart
    <2> HIDE DEF fee
    <2> QED
      BY <1>1, <1>2, <2>1, <2>2 DEF PaysOrTakes, ProgramHolds
  <1> QED
    BY <1>3, <1>4 DEF SettlePools

\* Every step exchanges lamports with one user, or with nobody.
LEMMA StepMovesLamports ==
  ASSUME Inv, [Next]_vars
  PROVE  \E u \in Users : PaysOrTakes(u)
  <1>1. /\ Publisher \in Users
        /\ UNCHANGED <<balances, sent>> => PaysOrTakes(Publisher)
    BY UsersAssumption DEF PaysOrTakes, ProgramHolds, balances, sent
  <1>2. VaultTopUp \in Nat
    BY RentAssumption DEF VaultTopUp
  <1>3. CASE \E args \in CreateArgs : CreateQuest(args)
    <2>1. PICK args \in CreateArgs : CreateQuest(args)
      BY <1>3
    <2>2. args.initial_reward_funding \in Nat /\ args.deposit_amount \in Nat
      BY CreateAssumption, WidthAssumption DEF CreateArgType, U64
    <2>3. Fee(args.initial_reward_funding, PLATFORM_FEE_BPS) \in Nat
      BY <2>2, FeeIsPart
    <2> QED
      BY <1>1, <1>2, <2>1, <2>2, <2>3, PayInMovesLamports DEF CreateQuest
  <1>4. CASE \E signer \in Users, args \in FundArgs : FundQuest(signer, args)
    <2>1. PICK signer \in Users, args \in FundArgs : FundQuest(signer, args)
      BY <1>4
    <2>2. args.reward_funding_amount \in Nat /\ args.additional_deposit_amount \in Nat
      BY FundAssumption, WidthAssumption DEF U64
    <2>3. Fee(args.reward_funding_amount, PLATFORM_FEE_BPS) \in Nat
      BY <2>2, FeeIsPart
    <2> QED
      BY <1>1, <1>2, <2>1, <2>2, <2>3, PayInMovesLamports DEF FundQuest
  <1>5. CASE \E u \in Submitters : SubmitProof(u)
    BY <1>1, <1>5 DEF SubmitProof
  <1>6. CASE \E signer \in Users, i \in DOMAIN submissions : ApproveSubmission(signer, i)
    <2>1. PICK i \in DOMAIN submissions : ApproveAndPay(i)
      BY <1>6 DEF ApproveSubmission
    <2>2. submissions[i].submitter \in Users
      BY UsersAssumption DEF Inv, TypeOK, SubmissionType
    <2> QED
      BY <2>1, <2>2, ApprovalMovesLamports
  <1>7. CASE \E signer \in Users, i \in DOMAIN submissions : RejectSubmission(signer, i)
    BY <1>1, <1>7 DEF RejectSubmission
  <1>8. CASE (\E signer \in Users : CloseQuest(signer)) \/ SettleQuest
    <2>1. ((\E q : SettlePools(q)) \/ UNCHANGED balances) /\ UNCHANGED sent
      BY <1>8 DEF CloseQuest, SettleQuest
    <2> QED
      BY <1>1, <2>1, SettlingMovesLamports
  <1>9. CASE \E amount \in Transfers : SendToPool(amount)
    <2>1. PICK toReward \in Nat, toDeposit \in Nat :
            /\ rewardPool' = rewardPool + toReward
            /\ rewardSent' = rewardSent + toReward
            /\ depositPool' = depositPool + toDeposit
            /\ depositSent' = depositSent + toDeposit
      BY <1>9, SendFacts
    <2>2. UNCHANGED <<feeVault, publicGoods, wallet>>
      BY <1>9, SendFacts
    <2>3. /\ rewardPool \in Nat /\ depositPool \in Nat
          /\ rewardSent \in Nat /\ depositSent \in Nat
      BY DEF Inv, TypeOK
    <2>4. /\ (rewardPool + toReward) - (rewardSent + toReward) = rewardPool - rewardSent
          /\ (depositPool + toDeposit) - (depositSent + toDeposit)
               = depositPool - depositSent
      BY <2>3
    <2>5. ProgramHolds' = ProgramHolds
      BY <2>1, <2>2, <2>4 DEF ProgramHolds
    <2> QED
      BY <1>1, <2>2, <2>5 DEF PaysOrTakes
  <1>10. CASE Tick \/ UNCHANGED vars
    BY <1>1, <1>10 DEF Tick, vars
  <1> QED
    BY <1>3, <1>4, <1>5, <1>6, <1>7, <1>8, <1>9, <1>10 DEF Next

\* The sum of all wallets changes by what the program's accounts lose.
LEMMA ExchangeKeepsSum ==
  ASSUME Inv, Inv', NEW u \in Users, PaysOrTakes(u)
  PROVE  ProgramHolds' + SumFunction(wallet') = ProgramHolds + SumFunction(wallet)
  <1>1. /\ wallet \in [Users -> Nat] /\ wallet' \in [Users -> Nat] /\ IsFiniteSet(Users)
        /\ ProgramHolds \in Int /\ ProgramHolds' \in Int
    <2>1. /\ wallet \in [Users -> Nat] /\ wallet' \in [Users -> Nat]
      BY DEF Inv, TypeOK
    <2>2. /\ rewardPool \in Nat /\ depositPool \in Nat /\ feeVault \in Nat
          /\ publicGoods \in Nat /\ rewardSent \in Nat /\ depositSent \in Nat
      BY DEF Inv, TypeOK
    <2>3. /\ rewardPool' \in Nat /\ depositPool' \in Nat /\ feeVault' \in Nat
          /\ publicGoods' \in Nat /\ rewardSent' \in Nat /\ depositSent' \in Nat
      BY DEF Inv, TypeOK
    <2>4. \A a, b, c, d, r, s \in Nat : (a - r) + (b - s) + c + d \in Int
      OBVIOUS
    <2>5. ProgramHolds \in Int
      BY <2>2, <2>4 DEF ProgramHolds
    <2>6. ProgramHolds' \in Int
      <3>1. ProgramHolds' = (rewardPool' - rewardSent') + (depositPool' - depositSent')
                              + feeVault' + publicGoods'
        BY DEF ProgramHolds
      <3> QED
        BY <2>3, <2>4, <3>1, Zenon
    <2> QED
      BY <2>1, <2>5, <2>6, UsersAssumption
  <1>2. /\ SumFunction(wallet) = SumFunctionOnSet(wallet, Users)
        /\ SumFunction(wallet') = SumFunctionOnSet(wallet', Users)
    <2>1. DOMAIN wallet = Users /\ DOMAIN wallet' = Users
      BY <1>1
    <2> QED
      BY <2>1 DEF SumFunction
  <1>3. /\ \A x \in Users : wallet[x] \in Int
        /\ wallet[u] \in Int /\ wallet'[u] \in Int
        /\ \A x \in Users : x # u => wallet'[x] = wallet[x]
    BY <1>1 DEF PaysOrTakes
  <1>4. SumFunctionOnSet(wallet', Users)
          = SumFunctionOnSet(wallet, Users) + wallet'[u] - wallet[u]
    BY <1>1, <1>3, SumChanges
  <1>5. SumFunctionOnSet(wallet, Users) \in Int
    BY <1>1, <1>3, SumType
  <1> QED
    BY <1>1, <1>2, <1>3, <1>4, <1>5 DEF PaysOrTakes

\* Nor does it change in the sum over the program and all wallets, in any step.
LEMMA StepKeepsSum ==
  ASSUME Inv, Inv', [Next]_vars
  PROVE  ProgramHolds' + SumFunction(wallet') = ProgramHolds + SumFunction(wallet)
  BY StepMovesLamports, ExchangeKeepsSum

\* The books say that this sum is what the publisher had at first.
LEMMA BooksAreASum ==
  ASSUME Inv
  PROVE  LamportsConserved <=> ProgramHolds + SumFunction(wallet) = INITIAL_FUNDS
  <1>1. SumFunction(wallet) \in Int
    <2>1. /\ DOMAIN wallet = Users /\ IsFiniteSet(Users)
          /\ \A x \in Users : wallet[x] \in Int
      BY UsersAssumption DEF Inv, TypeOK
    <2> QED
      BY <2>1, SumType DEF SumFunction
  <1>2. /\ rewardPool \in Nat /\ depositPool \in Nat /\ feeVault \in Nat
        /\ publicGoods \in Nat /\ rewardSent \in Nat /\ depositSent \in Nat
        /\ INITIAL_FUNDS \in Nat
    BY BoundsAssumption, WidthAssumption DEF Inv, TypeOK, U64
  <1>3. \A w \in Int :
          INITIAL_FUNDS + rewardSent + depositSent
            = rewardPool + depositPool + feeVault + publicGoods + w
          <=> (rewardPool - rewardSent) + (depositPool - depositSent) + feeVault
                + publicGoods + w = INITIAL_FUNDS
    BY <1>2
  <1> QED
    BY <1>1, <1>3 DEF LamportsConserved, ProgramHolds

\* At first the publisher has everything there is.
LEMMA InitConserves == Init => LamportsConserved
  <1> SUFFICES ASSUME Init
               PROVE  LamportsConserved
    OBVIOUS
  <1>1. /\ wallet = [u \in Users |-> IF u = Publisher THEN INITIAL_FUNDS ELSE 0]
        /\ INITIAL_FUNDS \in Nat /\ Publisher \in Users /\ IsFiniteSet(Users)
    BY UsersAssumption, BoundsAssumption, WidthAssumption DEF Init, U64
  <1>2. SumFunction(wallet) = SumFunctionOnSet(wallet, Users)
    BY <1>1 DEF SumFunction
  <1>3. SumFunctionOnSet(wallet, Users)
          = wallet[Publisher] + SumFunctionOnSet(wallet, Users \ {Publisher})
    <2>1. \A x \in Users : wallet[x] \in Int
      BY <1>1
    <2> QED
      BY <1>1, <2>1, SumTakes
  <1>4. SumFunctionOnSet(wallet, Users \ {Publisher}) = 0
    <2>1. IsFiniteSet(Users \ {Publisher}) /\ \A x \in Users \ {Publisher} : wallet[x] = 0
      BY <1>1, FS_Subset
    <2> QED
      BY <2>1, SumOfZeros
  <1>5. wallet[Publisher] = INITIAL_FUNDS
    BY <1>1
  <1> QED
    BY <1>1, <1>2, <1>3, <1>4, <1>5 DEF Init, LamportsConserved

\* The books of the whole program: what the publisher had at first is in the pools,
\* the vaults and the wallets, whoever calls what in which order.
THEOREM NothingIsLost == Spec => []LamportsConserved
  <1>1. Inv => (LamportsConserved
                  <=> ProgramHolds + SumFunction(wallet) = INITIAL_FUNDS)
    BY BooksAreASum
  <1>2. Inv /\ Inv' /\ [Next]_vars =>
          ProgramHolds' + SumFunction(wallet') = ProgramHolds + SumFunction(wallet)
    BY StepKeepsSum
  <1>3. Inv /\ Inv' /\ LamportsConserved /\ [Next]_vars
          => (ProgramHolds + SumFunction(wallet) = INITIAL_FUNDS)'
    BY <1>1, <1>2
  <1> QED
    BY <1>1, <1>3, InitConserves, Invariance, PTL DEF Spec
-----------------------------------------------------------------------------
(***************************************************************************)
(* Each pool has its own books: the submissions record what they were paid *)
(* and from which pool. A step adds at most one payment to the records,    *)
(* and the pool it is recorded under loses just that.                      *)
(***************************************************************************)

UnpaidWhilePending ==
  \A i \in DOMAIN submissions :
    submissions[i].status = "Pending" =>
      submissions[i].paid_from_reward_pool = 0 /\ submissions[i].paid_from_deposit_pool = 0

Books == UnpaidWhilePending /\ RecordsExplainPools

\* What a submission may be asked for.
LEMMA PaymentRecordTypes ==
  ASSUME Inv
  PROVE  /\ IsFiniteSet(DOMAIN submissions)
         /\ \A i \in DOMAIN submissions :
              /\ submissions[i].paid_from_reward_pool \in Nat
              /\ submissions[i].paid_from_deposit_pool \in Nat
         /\ PaidFromReward \in Int /\ PaidFromDeposit \in Int
  <1> DEFINE fromReward  ==
               [i \in DOMAIN submissions |-> submissions[i].paid_from_reward_pool]
             fromDeposit ==
               [i \in DOMAIN submissions |-> submissions[i].paid_from_deposit_pool]
  <1>1. IsFiniteSet(DOMAIN submissions)
    <2>1. quest.next_submission_index - 1 \in Int
      BY DEF Inv, TypeOK, QuestType
    <2> QED
      BY <2>1, FS_Interval DEF Inv, TypeOK
  <1>2. \A i \in DOMAIN submissions :
          /\ submissions[i].paid_from_reward_pool \in Nat
          /\ submissions[i].paid_from_deposit_pool \in Nat
    BY DEF Inv, TypeOK, SubmissionType
  <1>3. /\ DOMAIN fromReward = DOMAIN submissions /\ DOMAIN fromDeposit = DOMAIN submissions
        /\ \A i \in DOMAIN submissions : fromReward[i] \in Int /\ fromDeposit[i] \in Int
    BY <1>2
  <1>4. /\ PaidFromReward = SumFunctionOnSet(fromReward, DOMAIN submissions)
        /\ PaidFromDeposit = SumFunctionOnSet(fromDeposit, DOMAIN submissions)
    BY <1>3 DEF PaidFromReward, PaidFromDeposit, SumFunction
  <1>5. PaidFromReward \in Int
    <2>1. \A i \in DOMAIN submissions : fromReward[i] \in Int
      BY <1>3
    <2> HIDE DEF fromReward
    <2>2. SumFunctionOnSet(fromReward, DOMAIN submissions) \in Int
      BY <1>1, <2>1, SumType
    <2> QED
      BY <1>4, <2>2
  <1>6. PaidFromDeposit \in Int
    <2>1. \A i \in DOMAIN submissions : fromDeposit[i] \in Int
      BY <1>3
    <2> HIDE DEF fromDeposit
    <2>2. SumFunctionOnSet(fromDeposit, DOMAIN submissions) \in Int
      BY <1>1, <2>1, SumType
    <2> QED
      BY <1>4, <2>2
  <1> QED
    BY <1>1, <1>2, <1>5, <1>6

\* One submission is new, or is decided: the records grow by what it was paid.
LEMMA RecordsGrow ==
  ASSUME Inv, Inv', UnpaidWhilePending, NEW i,
         DOMAIN submissions' = DOMAIN submissions \cup {i},
         i \in DOMAIN submissions => submissions[i].status = "Pending",
         \A j \in DOMAIN submissions : j # i => submissions'[j] = submissions[j]
  PROVE  /\ PaidFromReward' = PaidFromReward + submissions'[i].paid_from_reward_pool
         /\ PaidFromDeposit' = PaidFromDeposit + submissions'[i].paid_from_deposit_pool
  <1> DEFINE fromReward  ==
               [j \in DOMAIN submissions |-> submissions[j].paid_from_reward_pool]
             fromDeposit ==
               [j \in DOMAIN submissions |-> submissions[j].paid_from_deposit_pool]
             nowReward   ==
               [j \in DOMAIN submissions' |-> submissions'[j].paid_from_reward_pool]
             nowDeposit  ==
               [j \in DOMAIN submissions' |-> submissions'[j].paid_from_deposit_pool]
             S == DOMAIN submissions
             T == DOMAIN submissions'
  <1>1. /\ IsFiniteSet(S) /\ S \subseteq T /\ i \in T /\ T \ {i} \subseteq S
        /\ \A j \in S : fromReward[j] \in Int
        /\ \A j \in S : fromDeposit[j] \in Int
    <2>1. \A j \in DOMAIN submissions :
            /\ submissions[j].paid_from_reward_pool \in Nat
            /\ submissions[j].paid_from_deposit_pool \in Nat
      BY PaymentRecordTypes
    <2> QED
      BY <2>1, PaymentRecordTypes
  <1>2. nowReward[i] \in Int /\ nowDeposit[i] \in Int
    <2>1. i \in DOMAIN submissions'
      OBVIOUS
    <2>2. submissions'[i] \in SubmissionType
      BY <2>1 DEF Inv, TypeOK
    <2> QED
      BY <2>1, <2>2 DEF SubmissionType
  <1>3. (i \in S => fromReward[i] = 0) /\ (i \in S => fromDeposit[i] = 0)
    BY DEF UnpaidWhilePending
  <1>4. /\ \A j \in S : j # i => nowReward[j] = fromReward[j]
        /\ \A j \in S : j # i => nowDeposit[j] = fromDeposit[j]
    OBVIOUS
  <1>5. /\ PaidFromReward = SumFunctionOnSet(fromReward, S)
        /\ PaidFromDeposit = SumFunctionOnSet(fromDeposit, S)
        /\ PaidFromReward' = SumFunctionOnSet(nowReward, T)
        /\ PaidFromDeposit' = SumFunctionOnSet(nowDeposit, T)
    BY DEF PaidFromReward, PaidFromDeposit, SumFunction
  <1>6. /\ nowReward[i] = submissions'[i].paid_from_reward_pool
        /\ nowDeposit[i] = submissions'[i].paid_from_deposit_pool
    OBVIOUS
  <1> HIDE DEF fromReward, fromDeposit, nowReward, nowDeposit, S, T
  <1>7. SumFunctionOnSet(nowReward, T)
          = SumFunctionOnSet(fromReward, S) + nowReward[i]
    <2>1. TermPutIn(fromReward, S, nowReward, T, i)
      BY <1>1, <1>2, <1>3, <1>4 DEF TermPutIn
    <2> QED
      BY <2>1, SumGrows
  <1>8. SumFunctionOnSet(nowDeposit, T)
          = SumFunctionOnSet(fromDeposit, S) + nowDeposit[i]
    <2>1. TermPutIn(fromDeposit, S, nowDeposit, T, i)
      BY <1>1, <1>2, <1>3, <1>4 DEF TermPutIn
    <2> QED
      BY <2>1, SumGrows
  <1> QED
    BY <1>5, <1>6, <1>7, <1>8

\* An approval of either kind pays from one pool and says so.
LEMMA ApprovalKeepsBooks ==
  ASSUME Inv, Inv', Books, NEW i \in DOMAIN submissions, ApproveAndPay(i)
  PROVE  Books'
  <1>1. /\ quest \in QuestType /\ now \in Nat /\ quest.pending_count # 0
        /\ submissions[i] \in SubmissionType /\ submissions[i].status = "Pending"
        /\ quest.status \in {"Open", "Closing"}
        /\ rewardPool \in Nat /\ depositPool \in Nat /\ Reward \in Nat
        /\ quest.total_reward_funded \in Nat /\ quest.total_deposit_funded \in Nat
        /\ PaidFromReward \in Int /\ PaidFromDeposit \in Int
        /\ rewardSent \in Nat /\ depositSent \in Nat
    <2>1. /\ quest \in QuestType /\ now \in Nat
          /\ rewardPool \in Nat /\ depositPool \in Nat
          /\ rewardSent \in Nat /\ depositSent \in Nat
          /\ quest.status \in {"Open", "Closing"} /\ NextInLine(i)
      BY DEF Inv, TypeOK, ApproveAndPay
    <2>2. /\ quest.pending_count # 0
          /\ submissions[i] \in SubmissionType /\ submissions[i].status = "Pending"
      BY <2>1, HeadFacts DEF NextInLine
    <2>3. /\ Reward \in Nat
          /\ quest.total_reward_funded \in Nat /\ quest.total_deposit_funded \in Nat
      BY <2>1, FieldTypes DEF Reward
    <2>4. PaidFromReward \in Int /\ PaidFromDeposit \in Int
      BY PaymentRecordTypes
    <2> QED
      BY <2>1, <2>2, <2>3, <2>4
  <1>2. /\ submissions'[i].status = "Approved"
        /\ DOMAIN submissions' = DOMAIN submissions
        /\ \A j \in DOMAIN submissions : j # i => submissions'[j] = submissions[j]
        /\ UNCHANGED <<rewardSent, depositSent>>
    BY ApprovalTypes
  <1>3. DOMAIN submissions' = DOMAIN submissions \cup {i}
    BY <1>2
  <1>4. /\ PaidFromReward' = PaidFromReward + submissions'[i].paid_from_reward_pool
        /\ PaidFromDeposit' = PaidFromDeposit + submissions'[i].paid_from_deposit_pool
    BY <1>1, <1>2, <1>3, RecordsGrow DEF Books
  <1>5. /\ submissions[i].paid_from_reward_pool = 0
        /\ submissions[i].paid_from_deposit_pool = 0
    BY <1>1 DEF Books, UnpaidWhilePending
  <1>6. /\ quest'.total_reward_funded = quest.total_reward_funded
        /\ quest'.total_deposit_funded = quest.total_deposit_funded
        /\ rewardPool' + submissions'[i].paid_from_reward_pool = rewardPool
        /\ depositPool' + submissions'[i].paid_from_deposit_pool = depositPool
    <2>1. CASE FromRewardPool(i)
      <3>1. /\ rewardPool' = rewardPool - Reward /\ depositPool' = depositPool
            /\ submissions'[i].paid_from_reward_pool = Reward
            /\ submissions'[i].paid_from_deposit_pool = 0
        BY <1>1, <1>5, <2>1 DEF FromRewardPool, SubmissionType, Reward
      <3>2. /\ quest'.total_reward_funded = quest.total_reward_funded
            /\ quest'.total_deposit_funded = quest.total_deposit_funded
        BY <1>1, <2>1 DEF FromRewardPool, CountApproval, QuestType
      <3> QED
        BY <1>1, <3>1, <3>2
    <2>2. CASE FromDepositPool(i)
      <3>1. /\ depositPool' = depositPool - Reward /\ rewardPool' = rewardPool
            /\ submissions'[i].paid_from_reward_pool = 0
            /\ submissions'[i].paid_from_deposit_pool = Reward
        BY <1>1, <1>5, <2>2 DEF FromDepositPool, SubmissionType, Reward
      <3>2. /\ quest'.total_reward_funded = quest.total_reward_funded
            /\ quest'.total_deposit_funded = quest.total_deposit_funded
        <4> DEFINE q == StopForDepletion(quest)
        <4>1. /\ q \in QuestType
              /\ q.total_reward_funded = quest.total_reward_funded
              /\ q.total_deposit_funded = quest.total_deposit_funded
          BY <1>1, StopFacts
        <4>2. quest' = CountApproval(q)
          BY <2>2 DEF FromDepositPool
        <4> HIDE DEF q
        <4> QED
          BY <4>1, <4>2 DEF CountApproval, QuestType
      <3> QED
        BY <1>1, <3>1, <3>2
    <2> QED
      BY <2>1, <2>2 DEF ApproveAndPay
  <1>7. UnpaidWhilePending'
    BY <1>2 DEF Books, UnpaidWhilePending
  <1>8. RecordsExplainPools'
    <2>1. /\ rewardPool + PaidFromReward = quest.total_reward_funded + rewardSent
          /\ depositPool + PaidFromDeposit = quest.total_deposit_funded + depositSent
      BY <1>1 DEF Books, RecordsExplainPools, Live
    <2>2. /\ rewardPool' \in Nat /\ depositPool' \in Nat
          /\ submissions'[i].paid_from_reward_pool \in Nat
          /\ submissions'[i].paid_from_deposit_pool \in Nat
      BY <1>3 DEF Inv, TypeOK, SubmissionType
    <2> QED
      BY <1>1, <1>2, <1>4, <1>6, <2>1, <2>2 DEF RecordsExplainPools
  <1> QED
    BY <1>7, <1>8 DEF Books

\* A step that pays nobody and leaves the two totals and pools alone.
LEMMA NoPaymentRecorded ==
  ASSUME Inv, Inv', Books, NEW i,
         DOMAIN submissions' = DOMAIN submissions \cup {i},
         i \in DOMAIN submissions => submissions[i].status = "Pending",
         \A j \in DOMAIN submissions : j # i => submissions'[j] = submissions[j],
         submissions'[i].paid_from_reward_pool = 0,
         submissions'[i].paid_from_deposit_pool = 0,
         UNCHANGED <<rewardPool, depositPool, sent>>, quest'.status = quest.status,
         quest'.total_reward_funded = quest.total_reward_funded,
         quest'.total_deposit_funded = quest.total_deposit_funded
  PROVE  Books'
  <1>1. /\ PaidFromReward' = PaidFromReward + submissions'[i].paid_from_reward_pool
        /\ PaidFromDeposit' = PaidFromDeposit + submissions'[i].paid_from_deposit_pool
        /\ PaidFromReward \in Int /\ PaidFromDeposit \in Int
    <2>1. PaidFromReward \in Int /\ PaidFromDeposit \in Int
      BY PaymentRecordTypes
    <2> QED
      BY <2>1, RecordsGrow DEF Books
  <1>2. PaidFromReward' = PaidFromReward /\ PaidFromDeposit' = PaidFromDeposit
    BY <1>1
  <1>3. RecordsExplainPools'
    BY <1>2 DEF Books, RecordsExplainPools, Live, sent
  <1>4. UnpaidWhilePending'
    BY DEF Books, UnpaidWhilePending
  <1> QED
    BY <1>3, <1>4 DEF Books

\* Funding is added to the pool and to the total it is meant for.
LEMMA FundingKeepsBooks ==
  ASSUME Inv, Books, NEW signer \in Users, NEW args \in FundArgs, FundQuest(signer, args)
  PROVE  Books'
  <1> DEFINE funding == args.reward_funding_amount
             deposit == args.additional_deposit_amount
  <1>1. /\ quest \in QuestType /\ rewardPool \in Nat /\ depositPool \in Nat
        /\ quest.total_reward_funded \in Nat /\ quest.total_deposit_funded \in Nat
        /\ PaidFromReward \in Int /\ PaidFromDeposit \in Int
        /\ funding \in Nat /\ deposit \in Nat
        /\ rewardSent \in Nat /\ depositSent \in Nat
    <2>1. /\ quest \in QuestType /\ rewardPool \in Nat /\ depositPool \in Nat
          /\ rewardSent \in Nat /\ depositSent \in Nat
      BY DEF Inv, TypeOK
    <2>2. quest.total_reward_funded \in Nat /\ quest.total_deposit_funded \in Nat
      BY <2>1, FieldTypes
    <2>3. PaidFromReward \in Int /\ PaidFromDeposit \in Int
      BY PaymentRecordTypes
    <2>4. funding \in Nat /\ deposit \in Nat
      BY FundAssumption, WidthAssumption DEF U64
    <2> QED
      BY <2>1, <2>2, <2>3, <2>4
  <1>2. /\ quest'.total_reward_funded = quest.total_reward_funded + funding
        /\ quest'.total_deposit_funded = quest.total_deposit_funded + deposit
        /\ rewardPool' = rewardPool + funding /\ depositPool' = depositPool + deposit
        /\ submissions' = submissions /\ quest.status = "Open"
        /\ rewardSent' = rewardSent /\ depositSent' = depositSent
    BY <1>1 DEF FundQuest, PayIn, FundingIsOpen, QuestType, sent
  <1>3. PaidFromReward' = PaidFromReward /\ PaidFromDeposit' = PaidFromDeposit
    BY <1>2 DEF PaidFromReward, PaidFromDeposit
  <1>4. UnpaidWhilePending'
    BY <1>2 DEF Books, UnpaidWhilePending
  <1>5. /\ rewardPool + PaidFromReward = quest.total_reward_funded + rewardSent
        /\ depositPool + PaidFromDeposit = quest.total_deposit_funded + depositSent
    BY <1>2 DEF Books, RecordsExplainPools, Live
  <1> HIDE DEF funding, deposit
  <1>6. \A pool, paid, funded, old, more \in Int :
          pool + paid = funded + old => (pool + more) + paid = (funded + more) + old
    OBVIOUS
  <1>7. rewardPool' + PaidFromReward' = quest'.total_reward_funded + rewardSent'
    BY <1>1, <1>2, <1>3, <1>5, <1>6
  <1>8. depositPool' + PaidFromDeposit' = quest'.total_deposit_funded + depositSent'
    <2>1. (depositPool + deposit) + PaidFromDeposit
            = (quest.total_deposit_funded + deposit) + depositSent
      BY <1>1, <1>5, <1>6
    <2> QED
      BY <1>2, <1>3, <2>1
  <1> QED
    BY <1>4, <1>7, <1>8 DEF Books, RecordsExplainPools

\* A new quest has no submissions, and its pools hold what it was created with.
LEMMA CreationOpensBooks ==
  ASSUME Inv, NEW args \in CreateArgs, CreateQuest(args)
  PROVE  Books'
  <1>1. /\ args.initial_reward_funding \in Nat /\ args.deposit_amount \in Nat
    BY CreateAssumption, WidthAssumption DEF CreateArgType, U64
  <1>2. /\ quest = NoQuest /\ rewardPool = rewardSent /\ depositPool = depositSent
        /\ rewardSent \in Nat /\ depositSent \in Nat
        /\ rewardSent' = rewardSent /\ depositSent' = depositSent
        /\ submissions' = submissions
        /\ rewardPool' = rewardPool + args.initial_reward_funding
        /\ depositPool' = depositPool + args.deposit_amount
        /\ quest'.total_reward_funded = args.initial_reward_funding
        /\ quest'.total_deposit_funded = args.deposit_amount
    BY DEF Inv, TypeOK, TermsHold, CreateQuest, PayIn, NoQuest, sent
  <1>3. DOMAIN submissions' = {}
    BY <1>2 DEF Inv, TypeOK, NoQuest
  <1>4. PaidFromReward' = 0 /\ PaidFromDeposit' = 0
    BY <1>3, SumOfNothing DEF PaidFromReward, PaidFromDeposit, SumFunction
  <1> QED
    BY <1>1, <1>2, <1>3, <1>4 DEF Books, UnpaidWhilePending, RecordsExplainPools

\* Every step keeps the books.
LEMMA NextKeepsBooks ==
  ASSUME Inv, Inv', Books, [Next]_vars
  PROVE  Books'
  <1>1. quest \in QuestType
    BY DEF Inv, TypeOK
  <1>2. ASSUME UNCHANGED <<submissions, rewardPool, depositPool, sent>>,
               quest'.status = quest.status \/ quest'.status = "Closed" \/ Live,
               quest'.total_reward_funded = quest.total_reward_funded,
               quest'.total_deposit_funded = quest.total_deposit_funded
        PROVE  Books'
    BY <1>2 DEF Books, UnpaidWhilePending, RecordsExplainPools, Live, PaidFromReward,
                PaidFromDeposit, sent
  <1>3. ASSUME quest'.status = "Closed", submissions' = submissions
        PROVE  Books'
    BY <1>3 DEF Books, UnpaidWhilePending, RecordsExplainPools, Live
  <1>4. CASE \E args \in CreateArgs : CreateQuest(args)
    BY <1>4, CreationOpensBooks
  <1>5. CASE \E signer \in Users, args \in FundArgs : FundQuest(signer, args)
    BY <1>5, FundingKeepsBooks
  <1>6. CASE \E u \in Submitters : SubmitProof(u)
    <2>1. PICK u \in Submitters : SubmitProof(u)
      BY <1>6
    <2> DEFINE index == quest.next_submission_index
    <2>2. index \in Nat /\ DOMAIN submissions = 0 .. index - 1
      BY <1>1, FieldTypes DEF Inv, TypeOK
    <2>3. /\ submissions' = [i \in 0 .. index |->
                              IF i = index THEN NewSubmission(u) ELSE submissions[i]]
          /\ quest'.status = quest.status
          /\ quest'.total_reward_funded = quest.total_reward_funded
          /\ quest'.total_deposit_funded = quest.total_deposit_funded
          /\ UNCHANGED <<rewardPool, depositPool, sent>>
      BY <1>1, <2>1 DEF SubmitProof, QuestType, balances
    <2>4. /\ DOMAIN submissions' = DOMAIN submissions \cup {index}
          /\ index \notin DOMAIN submissions
          /\ \A j \in DOMAIN submissions : submissions'[j] = submissions[j]
          /\ submissions'[index].paid_from_reward_pool = 0
          /\ submissions'[index].paid_from_deposit_pool = 0
      BY <2>2, <2>3 DEF NewSubmission
    <2> QED
      BY <2>3, <2>4, NoPaymentRecorded
  <1>7. CASE \E signer \in Users, i \in DOMAIN submissions : ApproveSubmission(signer, i)
    BY <1>7, ApprovalKeepsBooks DEF ApproveSubmission
  <1>8. CASE \E signer \in Users, i \in DOMAIN submissions : RejectSubmission(signer, i)
    <2>1. PICK signer \in Users, i \in DOMAIN submissions : RejectSubmission(signer, i)
      BY <1>8
    <2>2. submissions[i] \in SubmissionType /\ submissions[i].status = "Pending"
      BY <2>1, HeadFacts DEF RejectSubmission, NextInLine
    <2>3. /\ submissions' = [submissions EXCEPT ![i] = [@ EXCEPT !.status = "Rejected"]]
          /\ quest'.status = quest.status
          /\ quest'.total_reward_funded = quest.total_reward_funded
          /\ quest'.total_deposit_funded = quest.total_deposit_funded
          /\ UNCHANGED <<rewardPool, depositPool, sent>>
      BY <1>1, <2>1 DEF RejectSubmission, QuestType, balances
    <2>4. /\ DOMAIN submissions' = DOMAIN submissions \cup {i}
          /\ \A j \in DOMAIN submissions : j # i => submissions'[j] = submissions[j]
      BY <2>3 DEF Inv, TypeOK
    <2>5. /\ submissions'[i].paid_from_reward_pool = 0
          /\ submissions'[i].paid_from_deposit_pool = 0
      BY <2>2, <2>3 DEF Inv, TypeOK, SubmissionType, Books, UnpaidWhilePending
    <2> QED
      BY <2>2, <2>3, <2>4, <2>5, NoPaymentRecorded
  <1>9. CASE \E signer \in Users : CloseQuest(signer)
    <2>1. /\ submissions' = submissions /\ Live
          /\ \/ quest'.status = "Closed"
             \/ /\ UNCHANGED <<rewardPool, depositPool, sent>>
                /\ quest'.total_reward_funded = quest.total_reward_funded
                /\ quest'.total_deposit_funded = quest.total_deposit_funded
      BY <1>1, <1>9 DEF CloseQuest, SettlePools, QuestType, Live, balances
    <2> QED
      BY <1>2, <1>3, <2>1
  <1>10. CASE SettleQuest
    <2>1. submissions' = submissions /\ quest'.status = "Closed"
      BY <1>1, <1>10 DEF SettleQuest, SettlePools, QuestType
    <2> QED
      BY <1>3, <2>1
  <1>11. CASE Tick \/ UNCHANGED vars
    BY <1>2, <1>11 DEF Tick, vars, accounts, balances
  <1>12. CASE \E amount \in Transfers : SendToPool(amount)
    <2>1. PICK toReward \in Nat, toDeposit \in Nat :
            /\ rewardPool' = rewardPool + toReward
            /\ rewardSent' = rewardSent + toReward
            /\ depositPool' = depositPool + toDeposit
            /\ depositSent' = depositSent + toDeposit
      BY <1>12, SendFacts
    <2>2. UNCHANGED <<quest, submissions>>
      BY <1>12, SendFacts
    <2>3. /\ rewardPool \in Nat /\ depositPool \in Nat
          /\ rewardSent \in Nat /\ depositSent \in Nat
          /\ quest.total_reward_funded \in Nat /\ quest.total_deposit_funded \in Nat
          /\ PaidFromReward \in Int /\ PaidFromDeposit \in Int
      BY FieldTypes, PaymentRecordTypes DEF Inv, TypeOK
    <2>4. PaidFromReward' = PaidFromReward /\ PaidFromDeposit' = PaidFromDeposit
      BY <2>2 DEF PaidFromReward, PaidFromDeposit
    <2>5. \A pool, paid, funded, old, more \in Int :
            pool + paid = funded + old => (pool + more) + paid = funded + (old + more)
      OBVIOUS
    <2>6. ASSUME Live
          PROVE  rewardPool' + PaidFromReward' = quest'.total_reward_funded + rewardSent'
      <3>1. rewardPool + PaidFromReward = quest.total_reward_funded + rewardSent
        BY <2>6 DEF Books, RecordsExplainPools
      <3> QED
        BY <2>1, <2>2, <2>3, <2>4, <2>5, <3>1
    <2>7. ASSUME Live
          PROVE  depositPool' + PaidFromDeposit' = quest'.total_deposit_funded + depositSent'
      <3>1. depositPool + PaidFromDeposit = quest.total_deposit_funded + depositSent
        BY <2>7 DEF Books, RecordsExplainPools
      <3> QED
        BY <2>1, <2>2, <2>3, <2>4, <2>5, <3>1
    <2>8. RecordsExplainPools'
      BY <2>2, <2>6, <2>7 DEF RecordsExplainPools, Live
    <2> QED
      BY <2>2, <2>8 DEF Books, UnpaidWhilePending
  <1> QED
    BY <1>4, <1>5, <1>6, <1>7, <1>8, <1>9, <1>10, <1>11, <1>12 DEF Next

\* Nothing is on record at first.
LEMMA InitHasBooks == Init => Books
  BY DEF Init, NoQuest, Books, UnpaidWhilePending, RecordsExplainPools, Live

\* The payments the submissions record explain what is left in either pool.
THEOREM PoolsAreExplained == Spec => []RecordsExplainPools
  <1>1. Inv /\ Inv' /\ Books /\ [Next]_vars => Books'
    BY NextKeepsBooks
  <1>2. Books => RecordsExplainPools
    BY DEF Books
  <1> QED
    BY <1>1, <1>2, InitHasBooks, Invariance, PTL DEF Spec
-----------------------------------------------------------------------------
(***************************************************************************)
(* What one quest does to what it shares with others: the fee vault and    *)
(* the wallets grow by what the quest owes them. Nothing is said of how    *)
(* much is there, which other quests decide too.                           *)
(***************************************************************************)

\* The deposit a settlement finds: what came in and was not paid out, less what
\* was sent to the pool since and still lies there.
SettledDeposit ==
  quest.total_deposit_funded - PaidFromDeposit + depositSent - depositPool

\* The fee of what a settlement forfeits.
CancellationFee ==
  IF quest.status = "Closed" /\ quest.closing_reason # "Expired"
  THEN Fee(SettledDeposit, CANCELLATION_FEE_BPS)
  ELSE 0

VaultDue == quest.total_fee_paid + CancellationFee

\* Of all the steps only create_quest can bring the vault its rent.
RentBrought == IF quest.status = "Absent" /\ quest'.status # "Absent" THEN VaultTopUp ELSE 0

\* Before it is closed a quest owes the vault the fees of its funding only.
LEMMA LiveQuestOwesFees ==
  /\ quest.status # "Closed" => CancellationFee = 0
  /\ quest'.status # "Closed" => CancellationFee' = 0
  BY DEF CancellationFee

\* What is owed is a number, if only because it is computed from numbers.
LEMMA DuePartTypes ==
  ASSUME Inv
  PROVE  quest.total_fee_paid \in Nat /\ CancellationFee \in Int
  <1>1. /\ quest.total_fee_paid \in Nat /\ quest.total_deposit_funded \in Nat
        /\ depositSent \in Nat /\ depositPool \in Nat
    BY FieldTypes DEF Inv, TypeOK
  <1>2. SettledDeposit \in Int
    BY <1>1, PaymentRecordTypes DEF SettledDeposit
  <1>3. CancellationFee \in Int
    BY <1>2 DEF CancellationFee, Fee, CANCELLATION_FEE_BPS, BPS_DENOMINATOR
  <1> QED
    BY <1>1, <1>3

\* And so is the sum of both.
LEMMA DueType == Inv => VaultDue \in Int
  BY DuePartTypes DEF VaultDue

\* The settlement's fee is of the deposit that is left.
LEMMA SettlingPaysVault ==
  ASSUME Inv, Books, Live, NEW q \in QuestType, SettlePools(q),
         submissions' = submissions, depositSent' = depositSent,
         q.total_fee_paid = quest.total_fee_paid,
         q.total_deposit_funded = quest.total_deposit_funded
  PROVE  feeVault' + VaultDue = feeVault + VaultDue'
  <1>1. /\ depositPool \in Nat /\ feeVault \in Nat /\ quest.total_fee_paid \in Nat
        /\ quest.total_deposit_funded \in Nat /\ PaidFromDeposit \in Int
        /\ depositSent \in Nat
    <2>1. /\ quest \in QuestType /\ depositPool \in Nat /\ feeVault \in Nat
          /\ depositSent \in Nat
      BY DEF Inv, TypeOK
    <2>2. PaidFromDeposit \in Int
      BY PaymentRecordTypes
    <2> QED
      BY <2>1, <2>2, FieldTypes
  <1>2. /\ quest'.status = "Closed" /\ quest'.closing_reason = q.closing_reason
        /\ quest'.total_fee_paid = quest.total_fee_paid
        /\ quest'.total_deposit_funded = quest.total_deposit_funded
        /\ depositPool' = 0
    BY DEF SettlePools, QuestType
  <1>3. SettledDeposit' = depositPool
    <2>1. PaidFromDeposit' = PaidFromDeposit
      BY DEF PaidFromDeposit
    <2>2. depositPool + PaidFromDeposit = quest.total_deposit_funded + depositSent
      BY DEF Books, RecordsExplainPools
    <2>3. quest.total_deposit_funded - PaidFromDeposit + depositSent - 0 = depositPool
      BY <1>1, <2>2
    <2> QED
      BY <1>2, <2>1, <2>3 DEF SettledDeposit
  <1> DEFINE fee == Fee(depositPool, CANCELLATION_FEE_BPS)
  <1>4. fee \in Nat
    BY <1>1, FeeIsPart
  <1>5. CancellationFee = 0
    BY LiveQuestOwesFees DEF Live
  <1>6. CASE q.closing_reason = "Expired"
    <2>1. CancellationFee' = 0 /\ feeVault' = feeVault
      BY <1>2, <1>6 DEF SettlePools, RefundPublisher, CancellationFee
    <2> QED
      BY <1>1, <1>2, <1>5, <2>1 DEF VaultDue
  <1>7. CASE q.closing_reason # "Expired"
    <2>1. feeVault' = feeVault + fee
      BY <1>7 DEF SettlePools, ForfeitToPublicGoods
    <2>2. CancellationFee' = fee
      <3>1. CancellationFee' = Fee(SettledDeposit', CANCELLATION_FEE_BPS)
        BY <1>2, <1>7 DEF CancellationFee, Fee, CANCELLATION_FEE_BPS
      <3> QED
        BY <1>3, <3>1
    <2> HIDE DEF fee
    <2>3. /\ VaultDue = quest.total_fee_paid
          /\ VaultDue' = quest.total_fee_paid + fee
      BY <1>1, <1>2, <1>4, <1>5, <2>2 DEF VaultDue
    <2> QED
      BY <1>1, <1>4, <2>1, <2>3
  <1> QED
    BY <1>6, <1>7

\* A step that pays the vault nothing.
LEMMA NothingDue ==
  ASSUME Inv, feeVault' = feeVault, quest.status # "Closed", quest'.status # "Closed",
         quest'.total_fee_paid = quest.total_fee_paid
  PROVE  feeVault' + VaultDue = feeVault + VaultDue'
  <1>1. VaultDue' = VaultDue
    BY LiveQuestOwesFees DEF VaultDue
  <1> QED
    BY <1>1

\* An approval pays no fee, and closes nothing.
LEMMA ApprovalKeepsFees ==
  ASSUME Inv, NEW i \in DOMAIN submissions, ApproveAndPay(i)
  PROVE  /\ feeVault' = feeVault
         /\ quest.status \in {"Open", "Closing"} /\ quest'.status \in {"Open", "Closing"}
         /\ quest'.total_fee_paid = quest.total_fee_paid
  <1>1. /\ quest \in QuestType /\ now \in Nat /\ NextInLine(i)
        /\ quest.status \in {"Open", "Closing"} /\ feeVault' = feeVault
    BY DEF Inv, TypeOK, ApproveAndPay
  <1>2. quest' = CountApproval(quest) \/ quest' = CountApproval(StopForDepletion(quest))
    BY DEF ApproveAndPay, FromRewardPool, FromDepositPool
  <1>3. PICK q \in QuestType : /\ quest' = CountApproval(q)
                              /\ q.status \in {"Open", "Closing"}
                              /\ q.total_fee_paid = quest.total_fee_paid
    <2> DEFINE s == StopForDepletion(quest)
    <2>1. s \in QuestType /\ s.status = "Closing"
      BY <1>1, StopFacts
    <2>2. s.total_fee_paid = quest.total_fee_paid
      BY <1>1 DEF StopForDepletion, QuestType
    <2> HIDE DEF s
    <2> QED
      BY <1>1, <1>2, <2>1, <2>2 DEF s
  <1>4. quest'.status = q.status /\ quest'.total_fee_paid = q.total_fee_paid
    BY <1>3 DEF CountApproval, QuestType
  <1> QED
    BY <1>1, <1>3, <1>4

\* What every step pays the fee vault.
LEMMA VaultGetsDue ==
  ASSUME Inv, Inv', VaultsAreAlive, Books, [Next]_vars
  PROVE  feeVault' + VaultDue = feeVault + VaultDue' + RentBrought
  <1>1. /\ quest \in QuestType /\ feeVault \in Nat /\ VaultTopUp \in Nat
        /\ quest.total_fee_paid \in Nat
    <2>1. quest \in QuestType /\ feeVault \in Nat /\ VaultTopUp \in Nat
      BY RentAssumption DEF Inv, TypeOK, VaultTopUp
    <2> QED
      BY <2>1, FieldTypes
  <1> DEFINE fee(amount) == Fee(amount, PLATFORM_FEE_BPS)
  <1>0. VaultDue' \in Int
    <2>1. (Inv => VaultDue \in Int)'
      BY DueType, PTL
    <2> QED
      BY <2>1
  <1>2. CASE \E args \in CreateArgs : CreateQuest(args)
    <2>1. PICK args \in CreateArgs : CreateQuest(args)
      BY <1>2
    <2> DEFINE due == fee(args.initial_reward_funding)
    <2>2. due \in Nat
      BY FeeIsPart, CreateAssumption, WidthAssumption DEF CreateArgType, U64
    <2>3. /\ quest = NoQuest /\ quest'.status = "Open" /\ quest'.total_fee_paid = due
          /\ feeVault' = feeVault + due + VaultTopUp
      BY <2>1 DEF CreateQuest, PayIn, NoQuest, Inv, TermsHold
    <2> HIDE DEF due
    <2>4. quest.status = "Absent" /\ quest.total_fee_paid = 0
      BY <2>3 DEF NoQuest
    <2>5. VaultDue = 0 /\ VaultDue' = due
      BY <2>2, <2>3, <2>4, LiveQuestOwesFees DEF VaultDue
    <2>6. RentBrought = VaultTopUp
      BY <2>3, <2>4 DEF RentBrought
    <2> QED
      BY <1>1, <2>2, <2>3, <2>5, <2>6
  <1>3. CASE \E signer \in Users, args \in FundArgs : FundQuest(signer, args)
    <2>1. PICK signer \in Users, args \in FundArgs : FundQuest(signer, args)
      BY <1>3
    <2> DEFINE due == fee(args.reward_funding_amount)
    <2>2. due \in Nat
      BY FeeIsPart, FundAssumption, WidthAssumption DEF U64
    <2>3. /\ quest.status = "Open" /\ quest'.status = "Open"
          /\ quest'.total_fee_paid = quest.total_fee_paid + due
          /\ feeVault' = feeVault + due
                           + (IF args.reward_funding_amount > 0 THEN VaultTopUp ELSE 0)
      BY <1>1, <2>1 DEF FundQuest, FundingIsOpen, PayIn, QuestType
    <2>4. VaultTopUp = 0
      BY <1>1, <2>3, RentAssumption DEF VaultTopUp, VaultsAreAlive, Live
    <2> HIDE DEF due
    <2>5. VaultDue = quest.total_fee_paid /\ VaultDue' = quest.total_fee_paid + due
      BY <1>1, <2>2, <2>3, LiveQuestOwesFees DEF VaultDue
    <2>6. RentBrought = 0 /\ feeVault' = feeVault + due
      BY <1>1, <2>2, <2>3, <2>4 DEF RentBrought
    <2> QED
      BY <1>1, <2>2, <2>5, <2>6
  <1>4. ASSUME feeVault' + VaultDue = feeVault + VaultDue', quest.status # "Absent"
        PROVE  feeVault' + VaultDue = feeVault + VaultDue' + RentBrought
    BY <1>0, <1>1, <1>4 DEF RentBrought
  <1>6. CASE \/ \E u \in Submitters : SubmitProof(u)
             \/ \E signer \in Users, i \in DOMAIN submissions : ApproveSubmission(signer, i)
             \/ \E signer \in Users, i \in DOMAIN submissions : RejectSubmission(signer, i)
    <2>1. /\ feeVault' = feeVault /\ quest.status \in {"Open", "Closing"}
          /\ quest'.status # "Closed" /\ quest'.total_fee_paid = quest.total_fee_paid
      <3>1. CASE \E u \in Submitters : SubmitProof(u)
        BY <1>1, <3>1 DEF SubmitProof, QuestType, balances
      <3>2. CASE \E signer \in Users, i \in DOMAIN submissions : ApproveSubmission(signer, i)
        BY <1>1, <3>2, ApprovalKeepsFees DEF ApproveSubmission
      <3>3. CASE \E signer \in Users, i \in DOMAIN submissions : RejectSubmission(signer, i)
        <4>1. PICK signer \in Users, i \in DOMAIN submissions : RejectSubmission(signer, i)
          BY <3>3
        <4>2. quest.status # "Absent"
          <5>1. quest.pending_count # 0
            BY <4>1, HeadFacts DEF RejectSubmission
          <5> QED
            BY <5>1 DEF Inv, TermsHold, NoQuest
        <4> QED
          BY <1>1, <4>1, <4>2 DEF RejectSubmission, QuestType, Statuses, balances
      <3> QED
        BY <1>6, <3>1, <3>2, <3>3
    <2> QED
      BY <1>4, <2>1, NothingDue
  <1>7. CASE \E signer \in Users : CloseQuest(signer)
    <2> DEFINE closing == [quest EXCEPT
                            !.status = "Closing", !.close_requested_at = now,
                            !.closing_reason = IF now >= quest.expires_at
                                               THEN "Expired"
                                               ELSE "EarlyManual"]
    <2>1. /\ closing \in QuestType /\ closing.status = "Closing"
          /\ closing.total_fee_paid = quest.total_fee_paid
          /\ closing.total_deposit_funded = quest.total_deposit_funded
      BY <1>1 DEF QuestType, Statuses, Reasons, Inv, TypeOK
    <2>2. /\ SettlePools(closing) \/ (quest' = closing /\ feeVault' = feeVault)
          /\ submissions' = submissions /\ quest.status = "Open"
          /\ depositSent' = depositSent
      BY <1>7 DEF CloseQuest, balances, sent
    <2> HIDE DEF closing
    <2>3. CASE SettlePools(closing)
      BY <1>4, <2>1, <2>2, <2>3, SettlingPaysVault DEF Live
    <2>4. CASE quest' = closing /\ feeVault' = feeVault
      BY <1>4, <2>1, <2>2, <2>4, NothingDue
    <2> QED
      BY <2>2, <2>3, <2>4
  <1>8. CASE SettleQuest
    <2>1. /\ SettlePools(quest) /\ submissions' = submissions /\ quest.status = "Closing"
          /\ depositSent' = depositSent
      BY <1>8 DEF SettleQuest, sent
    <2> QED
      BY <1>1, <1>4, <2>1, SettlingPaysVault DEF Live
  <1>9. CASE (\E amount \in Transfers : SendToPool(amount)) \/ Tick \/ UNCHANGED vars
    <2>1. quest' = quest /\ submissions' = submissions /\ feeVault' = feeVault
      BY <1>9 DEF SendToPool, Tick, vars, accounts, balances
    <2>2. SettledDeposit' = SettledDeposit
      <3>1. PaidFromDeposit' = PaidFromDeposit
        BY <2>1 DEF PaidFromDeposit
      <3>2. CASE UNCHANGED <<depositPool, depositSent>>
        BY <2>1, <3>1, <3>2 DEF SettledDeposit
      <3>3. CASE \E amount \in Transfers : SendToPool(amount)
        <4>1. PICK more \in Nat :
                /\ depositPool' = depositPool + more
                /\ depositSent' = depositSent + more
          BY <3>3, SendFacts
        <4>2. \A funded, paid, sum, pool, x \in Int :
                funded - paid + (sum + x) - (pool + x) = funded - paid + sum - pool
          OBVIOUS
        <4>3. /\ quest.total_deposit_funded \in Int /\ PaidFromDeposit \in Int
              /\ depositSent \in Int /\ depositPool \in Int
          BY FieldTypes, PaymentRecordTypes DEF Inv, TypeOK
        <4> QED
          BY <2>1, <3>1, <4>1, <4>2, <4>3 DEF SettledDeposit
      <3> QED
        BY <1>9, <3>2, <3>3 DEF Tick, vars, balances, sent
    <2>3. VaultDue' = VaultDue /\ RentBrought = 0
      BY <2>1, <2>2 DEF VaultDue, CancellationFee, RentBrought, Fee, CANCELLATION_FEE_BPS
    <2> QED
      BY <1>0, <1>1, <2>1, <2>3
  <1> QED
    BY <1>2, <1>3, <1>6, <1>7, <1>8, <1>9 DEF Next

-----------------------------------------------------------------------------
\* What the quest paid u for accepted proofs.
Earned(u) == Cardinality(PaidTo(u)) * Reward

\* A step that accepts nothing.
LEMMA NothingEarned ==
  ASSUME Inv, NEW u, With("Approved")' = With("Approved"),
         \A i \in With("Approved") : submissions'[i].submitter = submissions[i].submitter,
         quest'.reward_per_completion = quest.reward_per_completion
  PROVE  Earned(u)' = Earned(u)
  <1>1. PaidTo(u)' = PaidTo(u) /\ Reward' = Reward
    BY DEF PaidTo, Reward
  <1> QED
    BY <1>1 DEF Earned

\* An approval of either kind pays the submitter just what the count of accepted
\* proofs grows by.
LEMMA ApprovalPaysEarned ==
  ASSUME Inv, NEW i \in DOMAIN submissions, ApproveAndPay(i), NEW u \in Users
  PROVE  wallet'[u] + Earned(u) = wallet[u] + Earned(u)'
  <1> DEFINE user == submissions[i].submitter
  <1>1. /\ quest \in QuestType /\ now \in Nat /\ NextInLine(i)
        /\ quest.status \in {"Open", "Closing"} /\ wallet \in [Users -> Nat]
        /\ submissions[i].status = "Pending" /\ submissions[i] \in SubmissionType
    BY HeadFacts DEF Inv, TypeOK, ApproveAndPay, NextInLine
  <1>2. quest.pending_count # 0 /\ Reward \in Nat
    BY <1>1, HeadFacts, FieldTypes DEF Reward
  <1>3. /\ submissions'[i].status = "Approved"
        /\ DOMAIN submissions' = DOMAIN submissions
        /\ \A j \in DOMAIN submissions : j # i => submissions'[j] = submissions[j]
    BY ApprovalTypes
  <1>4. submissions'[i].submitter = submissions[i].submitter
    BY <1>1 DEF ApproveAndPay, FromRewardPool, FromDepositPool, SubmissionType
  <1>5. Reward' = Reward
    <2>1. CASE FromRewardPool(i)
      BY <1>1, <1>2, <2>1, CountFacts DEF FromRewardPool, Reward
    <2>2. CASE FromDepositPool(i)
      BY <1>1, <1>2, <2>2, StopFacts, CountFacts DEF FromDepositPool, Reward
    <2> QED
      BY <2>1, <2>2 DEF ApproveAndPay
  <1>6. Cardinality(PaidTo(u)') = IF u = user
                                  THEN Cardinality(PaidTo(u)) + 1
                                  ELSE Cardinality(PaidTo(u))
    BY <1>1, <1>3, <1>4, AcceptedSetsGrow
  <1>7. wallet'[u] = IF u = user THEN wallet[u] + Reward ELSE wallet[u]
    <2>1. wallet' = [wallet EXCEPT ![user] = @ + Reward]
      BY DEF ApproveAndPay, Reward
    <2> HIDE DEF user
    <2> QED
      BY <1>1, <2>1
  <1> HIDE DEF user
  <1>8. Cardinality(PaidTo(u)) \in Nat /\ wallet[u] \in Nat
    BY <1>1, SetsAreFinite
  <1>9. /\ (Cardinality(PaidTo(u)) + 1) * Reward = Cardinality(PaidTo(u)) * Reward + Reward
        /\ Cardinality(PaidTo(u)) * Reward \in Nat
    BY <1>2, <1>8, NextProduct
  <1>10. Earned(u)' = IF u = user THEN Earned(u) + Reward ELSE Earned(u)
    BY <1>5, <1>6, <1>9 DEF Earned
  <1>11. Earned(u) \in Nat
    BY <1>9 DEF Earned
  <1> QED
    BY <1>2, <1>7, <1>8, <1>10, <1>11

\* Every step pays a user who does not publish the quest just what it earns them.
LEMMA WalletGetsEarned ==
  ASSUME Inv, [Next]_vars, NEW u \in Users \ {Publisher}
  PROVE  wallet'[u] + Earned(u) = wallet[u] + Earned(u)'
  <1>1. quest \in QuestType /\ wallet \in [Users -> Nat]
    BY DEF Inv, TypeOK
  <1>2. ASSUME wallet'[u] = wallet[u], Earned(u)' = Earned(u)
        PROVE  wallet'[u] + Earned(u) = wallet[u] + Earned(u)'
    BY <1>2
  <1>3. ASSUME submissions' = submissions,
               quest'.reward_per_completion = quest.reward_per_completion
        PROVE  Earned(u)' = Earned(u)
    <2>1. With("Approved")' = With("Approved")
      BY <1>3 DEF With
    <2> QED
      BY <1>3, <2>1, NothingEarned
  <1>4. CASE \E args \in CreateArgs : CreateQuest(args)
    <2>1. PICK args \in CreateArgs : CreateQuest(args)
      BY <1>4
    <2>2. /\ quest = NoQuest /\ submissions' = submissions /\ wallet'[u] = wallet[u]
          /\ quest'.reward_per_completion = args.reward_per_completion
      BY <1>1, <2>1, UsersAssumption DEF CreateQuest, PayIn, Inv, TermsHold, NoQuest
    <2>3. DOMAIN submissions = {}
      BY <2>2 DEF Inv, TypeOK, NoQuest
    <2>4. PaidTo(u) = {} /\ PaidTo(u)' = {}
      BY <2>2, <2>3 DEF PaidTo, With
    <2>5. Cardinality({}) = 0 /\ Reward \in Nat /\ Reward' \in Nat
      BY <2>1, <2>2, FS_EmptySet, CreateAssumption, WidthAssumption
      DEF Reward, NoQuest, CreateArgType, U64
    <2>6. \A r \in Nat : 0 * r = 0
      OBVIOUS
    <2>7. Earned(u) = 0 /\ Earned(u)' = 0
      BY <2>4, <2>5, <2>6, Zenon DEF Earned
    <2> QED
      BY <1>2, <2>2, <2>7
  <1>5. CASE \E signer \in Users, args \in FundArgs : FundQuest(signer, args)
    <2>1. /\ submissions' = submissions /\ wallet'[u] = wallet[u]
          /\ quest'.reward_per_completion = quest.reward_per_completion
      BY <1>1, <1>5, UsersAssumption DEF FundQuest, PayIn, QuestType
    <2> QED
      BY <1>2, <1>3, <2>1
  <1>6. CASE \E v \in Submitters : SubmitProof(v)
    <2>1. PICK v \in Submitters : SubmitProof(v)
      BY <1>6
    <2> DEFINE index == quest.next_submission_index
    <2>2. index \in Nat /\ DOMAIN submissions = 0 .. index - 1
      BY <1>1, FieldTypes DEF Inv, TypeOK
    <2>3. /\ submissions' = [i \in 0 .. index |->
                              IF i = index THEN NewSubmission(v) ELSE submissions[i]]
          /\ wallet' = wallet
          /\ quest'.reward_per_completion = quest.reward_per_completion
      BY <1>1, <2>1 DEF SubmitProof, QuestType, balances
    <2>4. /\ DOMAIN submissions' = DOMAIN submissions \cup {index}
          /\ submissions'[index].status = "Pending" /\ index \notin DOMAIN submissions
          /\ \A j \in DOMAIN submissions : submissions'[j] = submissions[j]
      BY <2>2, <2>3 DEF NewSubmission
    <2>5. /\ With("Approved")' = With("Approved")
          /\ \A i \in With("Approved") : submissions'[i].submitter = submissions[i].submitter
      BY <2>4 DEF With
    <2> QED
      BY <1>2, <2>3, <2>5, NothingEarned
  <1>7. CASE \E signer \in Users, i \in DOMAIN submissions : ApproveSubmission(signer, i)
    BY <1>7, ApprovalPaysEarned DEF ApproveSubmission
  <1>8. CASE \E signer \in Users, i \in DOMAIN submissions : RejectSubmission(signer, i)
    <2>1. PICK signer \in Users, i \in DOMAIN submissions : RejectSubmission(signer, i)
      BY <1>8
    <2>2. submissions[i] \in SubmissionType /\ submissions[i].status = "Pending"
      BY <2>1, HeadFacts DEF RejectSubmission, NextInLine
    <2>3. /\ submissions' = [submissions EXCEPT ![i] = [@ EXCEPT !.status = "Rejected"]]
          /\ wallet' = wallet
          /\ quest'.reward_per_completion = quest.reward_per_completion
      BY <1>1, <2>1 DEF RejectSubmission, QuestType, balances
    <2>4. /\ With("Approved")' = With("Approved")
          /\ \A j \in With("Approved") : submissions'[j].submitter = submissions[j].submitter
      BY <2>2, <2>3 DEF With, SubmissionType, Inv, TypeOK
    <2> QED
      BY <1>2, <2>3, <2>4, NothingEarned
  <1>9. CASE \E signer \in Users : CloseQuest(signer)
    <2>1. /\ submissions' = submissions /\ wallet'[u] = wallet[u]
          /\ quest'.reward_per_completion = quest.reward_per_completion
      BY <1>1, <1>9, UsersAssumption
      DEF CloseQuest, SettlePools, RefundPublisher, ForfeitToPublicGoods, QuestType, balances
    <2> QED
      BY <1>2, <1>3, <2>1
  <1>10. CASE SettleQuest
    <2>1. /\ submissions' = submissions /\ wallet'[u] = wallet[u]
          /\ quest'.reward_per_completion = quest.reward_per_completion
      BY <1>1, <1>10, UsersAssumption
      DEF SettleQuest, SettlePools, RefundPublisher, ForfeitToPublicGoods, QuestType
    <2> QED
      BY <1>2, <1>3, <2>1
  <1>11. CASE (\E amount \in Transfers : SendToPool(amount)) \/ Tick \/ UNCHANGED vars
    BY <1>2, <1>3, <1>11 DEF SendToPool, Tick, vars, accounts, balances
  <1> QED
    BY <1>4, <1>5, <1>6, <1>7, <1>8, <1>9, <1>10, <1>11 DEF Next

-----------------------------------------------------------------------------
(***************************************************************************)
(* A quest is created once, and what it owes is on its own accounts        *)
(***************************************************************************)

\* Only create_quest makes a quest of no quest, and nothing undoes it.
LEMMA CreatedOnce ==
  ASSUME Inv, [Next]_vars
  PROVE  /\ quest.status = "Absent" => quest'.status \in {"Absent", "Open"}
         /\ quest.status # "Absent" => quest'.status # "Absent"
  <1>1. quest \in QuestType
    BY DEF Inv, TypeOK
  <1>2. CASE \E args \in CreateArgs : CreateQuest(args)
    BY <1>2 DEF CreateQuest, NoQuest, Inv, TermsHold
  <1>3. CASE \E signer \in Users, args \in FundArgs : FundQuest(signer, args)
    BY <1>1, <1>3 DEF FundQuest, FundingIsOpen, QuestType
  <1>4. CASE \E u \in Submitters : SubmitProof(u)
    BY <1>1, <1>4 DEF SubmitProof, QuestType
  <1>5. CASE \E signer \in Users, i \in DOMAIN submissions : ApproveSubmission(signer, i)
    <2>1. PICK i \in DOMAIN submissions : ApproveAndPay(i)
      BY <1>5 DEF ApproveSubmission
    <2> QED
      BY <2>1, ApprovalKeepsFees
  <1>6. CASE \E signer \in Users, i \in DOMAIN submissions : RejectSubmission(signer, i)
    BY <1>1, <1>6 DEF RejectSubmission, QuestType
  <1>7. CASE \E signer \in Users : CloseQuest(signer)
    BY <1>1, <1>7 DEF CloseQuest, SettlePools, QuestType
  <1>8. CASE SettleQuest
    BY <1>1, <1>8 DEF SettleQuest, SettlePools, QuestType
  <1>9. CASE (\E amount \in Transfers : SendToPool(amount)) \/ Tick \/ UNCHANGED vars
    BY <1>9 DEF SendToPool, Tick, vars, accounts
  <1> QED
    BY <1>2, <1>3, <1>4, <1>5, <1>6, <1>7, <1>8, <1>9 DEF Next

\* Before that it owes nothing.
LEMMA AbsentQuestOwesNothing ==
  ASSUME Inv, quest.status = "Absent"
  PROVE  VaultDue = 0
  <1>1. quest.total_fee_paid = 0
    BY DEF Inv, TermsHold, NoQuest
  <1> QED
    BY <1>1, LiveQuestOwesFees DEF VaultDue

\* Earnings are a number.
LEMMA EarnedType == Inv => \A u : Earned(u) \in Nat
  <1> SUFFICES ASSUME Inv, NEW u
               PROVE  Earned(u) \in Nat
    OBVIOUS
  <1>1. Cardinality(PaidTo(u)) \in Nat /\ Reward \in Nat
    BY SetsAreFinite, FieldTypes DEF Inv, TypeOK, Reward
  <1> QED
    BY <1>1, NextProduct DEF Earned

\* Nobody earned anything before the first submission.
LEMMA NobodyEarned ==
  ASSUME DOMAIN submissions = {}, quest = NoQuest
  PROVE  \A u : Earned(u) = 0
  <1> SUFFICES ASSUME NEW u
               PROVE  Earned(u) = 0
    OBVIOUS
  <1>1. PaidTo(u) = {} /\ Reward = 0
    BY DEF PaidTo, With, Reward, NoQuest
  <1>2. Cardinality({}) = 0 /\ 0 * 0 = 0
    BY FS_EmptySet
  <1> QED
    BY <1>1, <1>2 DEF Earned

\* The books, the dues and the earnings are on the quest's own accounts.
LEMMA OwnAccountsSayAll ==
  ASSUME UNCHANGED <<quest, submissions, rewardPool, depositPool, sent>>
  PROVE  /\ Books => Books'
         /\ VaultDue' = VaultDue
         /\ \A u : Earned(u)' = Earned(u)
  <1>1. PaidFromReward' = PaidFromReward /\ PaidFromDeposit' = PaidFromDeposit
    BY DEF PaidFromReward, PaidFromDeposit
  <1>2. Books => Books'
    BY <1>1 DEF Books, UnpaidWhilePending, RecordsExplainPools, Live, sent
  <1>3. VaultDue' = VaultDue
    BY <1>1 DEF VaultDue, CancellationFee, SettledDeposit, Fee, CANCELLATION_FEE_BPS, sent
  <1>4. \A u : Earned(u)' = Earned(u)
    BY DEF Earned, PaidTo, With, Reward
  <1> QED
    BY <1>2, <1>3, <1>4
=============================================================================
