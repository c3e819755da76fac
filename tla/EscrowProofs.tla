----------------------------- MODULE EscrowProofs -----------------------------
(***************************************************************************)
(* The quest implements the promise of Escrow, reviewed by hand or by a    *)
(* verifier.                                                               *)
(***************************************************************************)
EXTENDS AutoProofs

\* Deciding the head of the queue decides the head of the claims, and no other.
LEMMA DecisionDecidesClaim ==
  ASSUME Inv, NEW i \in DOMAIN submissions, NextInLine(i),
         NEW s \in {"Approved", "Rejected"},
         submissions'[i].status = s,
         submissions'[i].submitter = submissions[i].submitter,
         DOMAIN submissions' = DOMAIN submissions,
         \A j \in DOMAIN submissions : j # i => submissions'[j] = submissions[j]
  PROVE  /\ Claims' = [Claims EXCEPT ![quest.next_review_index] =
                         [@ EXCEPT !.state = ClaimState(s)]]
         /\ Claims[quest.next_review_index].owner = submissions[i].submitter
  <1>1. i = quest.next_review_index
    BY HeadFacts
  <1>2. Claims'[i] = [owner |-> submissions[i].submitter, state |-> ClaimState(s)]
    BY DEF Claims, ClaimState
  <1>3. \A j \in DOMAIN submissions : j # i => Claims'[j] = Claims[j]
    BY DEF Claims, ClaimState
  <1>4. Claims[i] = [owner |-> submissions[i].submitter,
                     state |-> ClaimState(submissions[i].status)]
    BY DEF Claims
  <1>5. DOMAIN Claims' = DOMAIN submissions /\ DOMAIN Claims = DOMAIN submissions
    BY DEF Claims
  <1>6. Claims' = [j \in DOMAIN submissions |-> Claims'[j]]
    BY <1>5 DEF Claims
  <1>7. [Claims EXCEPT ![i] = [@ EXCEPT !.state = ClaimState(s)]]
          = [j \in DOMAIN submissions |->
              IF j = i
              THEN [owner |-> submissions[i].submitter, state |-> ClaimState(s)]
              ELSE Claims[j]]
    <2>1. [Claims[i] EXCEPT !.state = ClaimState(s)]
            = [owner |-> submissions[i].submitter, state |-> ClaimState(s)]
      BY <1>4
    <2> HIDE DEF Claims
    <2> QED
      BY <1>5, <2>1
  <1> HIDE DEF Claims
  <1> QED
    BY <1>1, <1>2, <1>3, <1>4, <1>6, <1>7

\* An accepted proof is a claim paid: its owner gets the price, and what can
\* pay claims is less by just that, unless an Open quest stops with it: what the
\* reward pool still has, which is less than a price, pays nobody from then on,
\* and the deposit covers all who still wait.
LEMMA ApprovalPays ==
  ASSUME Inv, NEW i \in DOMAIN submissions, ApproveAndPay(i)
  PROVE  Promise!Pay
  <1> DEFINE user == submissions[i].submitter
  <1>1. /\ quest \in QuestType /\ rewardPool \in Nat /\ depositPool \in Nat
        /\ Reward \in Nat \ {0}
        /\ quest.status \in {"Open", "Closing"}
        /\ NextInLine(i)
    BY FieldTypes
    DEF Inv, TypeOK, TermsHold, Reward, MIN_REWARD_AMOUNT, ApproveAndPay
  <1>2. /\ submissions'[i].status = "Approved"
        /\ submissions' \in [DOMAIN submissions -> SubmissionType]
        /\ \A j \in DOMAIN submissions : j # i => submissions'[j] = submissions[j]
    BY ApprovalTypes
  <1>3. submissions'[i].submitter = user
    <2>1. submissions[i] \in SubmissionType
      BY <1>1, HeadFacts
    <2> QED
      BY <2>1 DEF ApproveAndPay, FromRewardPool, FromDepositPool, SubmissionType
  <1>4. /\ Claims' = [Claims EXCEPT ![quest.next_review_index] =
                         [@ EXCEPT !.state = "Paid"]]
        /\ Claims[quest.next_review_index].owner = user
    BY <1>1, <1>2, <1>3, DecisionDecidesClaim DEF ClaimState
  <1>5. quest.next_submission_index - quest.next_review_index > 0
    <2>1. /\ quest.next_review_index \in Nat
          /\ quest.next_review_index < quest.next_submission_index
      BY <1>1, HeadFacts
    <2>2. quest.next_submission_index \in Nat
      BY FieldTypes DEF Inv, TypeOK
    <2> QED
      BY <2>1, <2>2
  <1>6. PICK q \in QuestType :
          /\ quest' = CountApproval(q)
          /\ q.next_submission_index = quest.next_submission_index
          /\ q.next_review_index = quest.next_review_index
          /\ q.reward_per_completion = quest.reward_per_completion
          /\ q.pending_count = quest.pending_count
          /\ \/ FromRewardPool(i) /\ q.status = quest.status
             \/ FromDepositPool(i) /\ q.status = "Closing"
    <2>1. CASE FromRewardPool(i)
      BY <1>1, <2>1 DEF FromRewardPool
    <2>2. CASE FromDepositPool(i)
      BY <1>1, <2>2, StopFacts DEF FromDepositPool, Inv, TypeOK
    <2> QED
      BY <2>1, <2>2 DEF ApproveAndPay
  <1>7. /\ quest'.next_review_index = quest.next_review_index + 1
        /\ quest'.next_submission_index = quest.next_submission_index
        /\ quest'.reward_per_completion = quest.reward_per_completion
        /\ quest'.status = q.status
    <2>1. q.pending_count # 0
      BY <1>1, <1>6, HeadFacts
    <2> QED
      BY <1>6, <2>1, CountFacts
  <1>8. \/ quest'.status = quest.status /\ Payable' = Payable - Reward
        \/ /\ quest.status = "Open" /\ quest'.status = "Closing"
           /\ Payable' \in (quest.next_submission_index - quest.next_review_index - 1) * Reward
                             .. Payable - Reward
    <2>1. CASE FromRewardPool(i) /\ q.status = quest.status
      <3>1. /\ rewardPool' = rewardPool - Reward
            /\ depositPool' = depositPool
            /\ quest.status = "Open" /\ quest'.status = "Open"
        BY <1>7, <2>1 DEF FromRewardPool, RewardPoolPays, Reward
      <3>2. Payable = depositPool + rewardPool
            /\ Payable' = depositPool + (rewardPool - Reward)
        BY <3>1 DEF Payable
      <3>3. Payable' = Payable - Reward
        BY <1>1, <3>2 DEF Reward
      <3> QED
        BY <3>1, <3>3
    <2>2. CASE FromDepositPool(i) /\ q.status = "Closing"
      <3>1. /\ depositPool' = depositPool - Reward
            /\ ~RewardPoolPays
            /\ quest'.status = "Closing"
        BY <1>7, <2>2 DEF FromDepositPool, Reward
      <3>2. Payable' = depositPool - Reward
        BY <1>1, <3>1 DEF Payable
      <3>3. CASE quest.status = "Closing"
        <4>1. Payable = depositPool
          BY <1>1, <3>3 DEF Payable
        <4> QED
          BY <3>1, <3>2, <3>3, <4>1
      <3>4. CASE quest.status = "Open"
        <4> DEFINE waiting == quest.next_submission_index - quest.next_review_index
        <4>1. /\ quest.queue_max \in Nat /\ quest.pending_count \in Nat
              /\ quest.next_submission_index \in Nat /\ quest.next_review_index \in Nat
          BY <1>1, FieldTypes
        <4>2. waiting = quest.pending_count /\ quest.pending_count <= quest.queue_max
          BY <4>1 DEF Inv, QueueIsConsistent
        <4>3. waiting \in Nat \ {0}
          BY <1>5, <4>1
        <4> HIDE DEF waiting
        <4>4. waiting * Reward <= (quest.queue_max + 1) * Reward
          BY <1>1, <4>1, <4>2, <4>3, ProductGrows
        <4>5. depositPool >= (quest.queue_max + 1) * Reward
          BY <3>4 DEF Inv, DepositCoversQueue
        <4>6. (waiting - 1) * Reward = waiting * Reward - Reward
          <5>1. waiting - 1 \in Nat /\ (waiting - 1) + 1 = waiting
            BY <4>3
          <5>2. ((waiting - 1) + 1) * Reward = (waiting - 1) * Reward + Reward
            BY <1>1, <5>1, NextProduct
          <5>3. (waiting - 1) * Reward \in Nat
            BY <1>1, <5>1
          <5> QED
            BY <1>1, <5>1, <5>2, <5>3
        <4>7. waiting * Reward \in Nat /\ (quest.queue_max + 1) * Reward \in Nat
          BY <1>1, <4>1, <4>3
        <4>8. Payable = depositPool + rewardPool
          BY <3>4 DEF Payable
        <4>9. Payable' \in (waiting - 1) * Reward .. Payable - Reward
          BY <1>1, <3>2, <4>4, <4>5, <4>6, <4>7, <4>8
        <4> QED
          BY <3>1, <3>4, <4>9 DEF waiting
      <3> QED
        BY <1>1, <3>3, <3>4
    <2> QED
      BY <1>6, <2>1, <2>2
  <1>9. Received' = [u \in Payees |-> IF u = user
                                     THEN Received[u] + quest.reward_per_completion
                                     ELSE Received[u]]
    <2>1. wallet' = [wallet EXCEPT ![user] = @ + quest.reward_per_completion]
      BY DEF ApproveAndPay
    <2>2. wallet \in [Users -> Nat] /\ Payees \subseteq Users
      BY UsersAssumption DEF Inv, TypeOK, Payees
    <2>3. \A u \in Payees : wallet'[u] = IF u = user
                                         THEN wallet[u] + quest.reward_per_completion
                                         ELSE wallet[u]
      BY <2>1, <2>2
    <2> QED
      BY <2>3 DEF Received
  <1>10. Promise!DecideHead("Paid")
    BY <1>1, <1>4, <1>5, <1>7 DEF Promise!DecideHead, Promise!Waiting
  <1>11. \/ quest'.status = quest.status /\ Payable' = Payable - quest.reward_per_completion
         \/ Promise!PayAndStop
    BY <1>8 DEF Promise!PayAndStop, Promise!Waiting, Reward
  <1> HIDE DEF user
  <1> QED
    BY <1>4, <1>9, <1>10, <1>11 DEF Promise!Pay

\* A rejected proof is a claim refused, and costs the promise nothing.
LEMMA RejectionRefuses ==
  ASSUME Inv, NEW signer \in Users, NEW i \in DOMAIN submissions,
         RejectSubmission(signer, i)
  PROVE  Promise!Refuse
  <1>1. /\ NextInLine(i)
        /\ quest.status # "Closed"
        /\ submissions' = [submissions EXCEPT ![i] = [@ EXCEPT !.status = "Rejected"]]
        /\ quest' = [quest EXCEPT !.next_review_index = @ + 1,
                                  !.pending_count = @ - 1,
                                  !.total_rejected = @ + 1]
        /\ UNCHANGED <<rewardPool, depositPool, wallet>>
    BY DEF RejectSubmission, balances
  <1>2. quest \in QuestType /\ quest.status \in Statuses
    BY DEF Inv, TypeOK, QuestType
  <1>3. /\ quest'.next_review_index = quest.next_review_index + 1
        /\ quest'.next_submission_index = quest.next_submission_index
        /\ quest'.reward_per_completion = quest.reward_per_completion
        /\ quest'.status = quest.status
    BY <1>1, <1>2 DEF QuestType
  <1>4. /\ quest.next_submission_index - quest.next_review_index > 0
        /\ submissions[i] \in SubmissionType
    BY <1>1, <1>2, HeadFacts, FieldTypes DEF Inv, QueueIsConsistent
  <1>5. quest.status \in {"Open", "Closing"}
    <2>1. i \in DOMAIN submissions => quest.status # "Absent"
      BY BlankQuest
    <2> QED
      BY <1>1, <1>2, <2>1 DEF Statuses
  <1>6. Claims' = [Claims EXCEPT ![quest.next_review_index] =
                    [@ EXCEPT !.state = "Refused"]]
    <2>1. submissions \in [DOMAIN submissions -> SubmissionType]
      BY DEF Inv, TypeOK
    <2>2. /\ DOMAIN submissions' = DOMAIN submissions
          /\ submissions'[i] = [submissions[i] EXCEPT !.status = "Rejected"]
          /\ \A j \in DOMAIN submissions : j # i => submissions'[j] = submissions[j]
      BY <1>1, <2>1
    <2>3. /\ submissions'[i].status = "Rejected"
          /\ submissions'[i].submitter = submissions[i].submitter
      BY <1>4, <2>2 DEF SubmissionType
    <2>4. Claims' = [Claims EXCEPT ![quest.next_review_index] =
                      [@ EXCEPT !.state = ClaimState("Rejected")]]
      BY <1>1, <2>2, <2>3, DecisionDecidesClaim
    <2> QED
      BY <2>4 DEF ClaimState
  <1>7. Payable' = Payable /\ Received' = Received
    BY <1>1, <1>3 DEF Payable, Received
  <1> QED
    BY <1>3, <1>4, <1>5, <1>6, <1>7
    DEF Promise!Refuse, Promise!DecideHead, Promise!Waiting

\* A proof sent is a claim the deposit covers: the queue had room for it.
LEMMA SubmissionClaims ==
  ASSUME Inv, NEW u \in Submitters, SubmitProof(u)
  PROVE  Promise!Claim(u)
  <1> DEFINE index == quest.next_submission_index
  <1>1. /\ quest.status = "Open"
        /\ quest.pending_count < quest.queue_max
        /\ submissions' = [i \in 0 .. index |->
                            IF i = index THEN NewSubmission(u) ELSE submissions[i]]
        /\ quest' = [quest EXCEPT !.next_submission_index = @ + 1,
                                  !.total_submissions = @ + 1,
                                  !.pending_count = @ + 1]
        /\ UNCHANGED <<rewardPool, depositPool, wallet>>
    BY DEF SubmitProof, QueueHasRoom, balances
  <1>2. quest \in QuestType /\ rewardPool \in Nat /\ depositPool \in Nat
    BY DEF Inv, TypeOK
  <1>3. /\ index \in Nat /\ quest.next_review_index \in Nat
        /\ quest.pending_count \in Nat /\ quest.queue_max \in Nat /\ Reward \in Nat
    BY <1>2, FieldTypes DEF Reward
  <1>4. /\ quest'.next_review_index = quest.next_review_index
        /\ quest'.next_submission_index = index + 1
        /\ quest'.reward_per_completion = quest.reward_per_completion
        /\ quest'.status = quest.status
    BY <1>1, <1>2 DEF QuestType
  <1>5. Payable >= (index - quest.next_review_index + 1) * quest.reward_per_completion
    <2>1. index - quest.next_review_index = quest.pending_count
      BY <1>3 DEF Inv, QueueIsConsistent
    <2>2. depositPool >= (quest.queue_max + 1) * Reward
      BY <1>1 DEF Inv, DepositCoversQueue
    <2>3. (quest.pending_count + 1) * Reward <= (quest.queue_max + 1) * Reward
      BY <1>1, <1>3, ProductGrows
    <2>4. /\ (quest.pending_count + 1) * Reward \in Nat
          /\ (quest.queue_max + 1) * Reward \in Nat
      BY <1>3
    <2>5. Payable = depositPool + rewardPool
      BY <1>1 DEF Payable
    <2>6. Payable >= (quest.pending_count + 1) * Reward
      BY <1>2, <2>2, <2>3, <2>4, <2>5
    <2> QED
      BY <2>1, <2>6 DEF Reward
  <1>6. Claims' = [i \in 0 .. index |->
                    IF i = index
                    THEN [owner |-> u, state |-> "Waiting"]
                    ELSE Claims[i]]
    <2>1. DOMAIN submissions' = 0 .. index /\ DOMAIN submissions = 0 .. index - 1
      BY <1>1, <1>2 DEF Inv, TypeOK
    <2>2. /\ submissions'[index].submitter = u
          /\ submissions'[index].status = "Pending"
      BY <1>1, <1>3 DEF NewSubmission
    <2>3. ASSUME NEW i \in 0 .. index, i # index
          PROVE  /\ i \in DOMAIN submissions
                 /\ submissions'[i] = submissions[i]
      BY <1>1, <1>3, <2>1, <2>3
    <2> QED
      BY <2>1, <2>2, <2>3 DEF Claims, ClaimState
  <1>7. Payable' = Payable /\ Received' = Received
    BY <1>1, <1>4 DEF Payable, Received
  <1> QED
    BY <1>1, <1>4, <1>5, <1>6, <1>7 DEF Promise!Claim, Promise!Waiting

\* What the publisher pays or gets back is nobody else's money.
LEMMA PublisherIsNoPayee ==
  ASSUME NEW amount, wallet' = [wallet EXCEPT ![Publisher] = amount]
  PROVE  Received' = Received
  BY DEF Received, Payees

\* A quest that is created is an escrow that opens, with a price and the money
\* for a first claim.
LEMMA CreationOpens ==
  ASSUME Inv, NEW args \in CreateArgs, CreateQuest(args)
  PROVE  Promise!Open
  <1> DEFINE r == args.reward_per_completion
  <1>1. /\ args.initial_reward_funding \in Nat /\ args.deposit_amount \in Nat
        /\ args.queue_max \in Nat /\ r \in Nat
    BY CreateAssumption, WidthAssumption DEF CreateArgType, U64
  <1>2. /\ quest.status = "Absent"
        /\ r >= MIN_REWARD_AMOUNT
        /\ args.deposit_amount >= (args.queue_max + 1) * r
        /\ rewardPool' = rewardPool + args.initial_reward_funding
        /\ depositPool' = depositPool + args.deposit_amount
        /\ UNCHANGED submissions
    BY DEF CreateQuest, DepositSuffices, RequiredDeposit, PayIn
  <1>3. Received' = Received
    BY PublisherIsNoPayee DEF CreateQuest, PayIn
  <1>4. /\ quest = NoQuest /\ rewardPool \in Nat /\ depositPool \in Nat
    BY <1>2 DEF Inv, TypeOK, TermsHold
  <1>5. /\ quest'.status = "Open"
        /\ quest'.reward_per_completion = r
        /\ quest'.next_submission_index = quest.next_submission_index
        /\ quest'.next_review_index = quest.next_review_index
    BY <1>4 DEF CreateQuest, NoQuest
  <1>6. Payable' >= r
    <2>1. Payable' = (depositPool + args.deposit_amount)
                       + (rewardPool + args.initial_reward_funding)
      BY <1>1, <1>2, <1>4, <1>5 DEF Payable
    <2>2. (args.queue_max + 1) * r = args.queue_max * r + r /\ args.queue_max * r \in Nat
      BY <1>1, NextProduct
    <2> QED
      BY <1>1, <1>2, <1>4, <2>1, <2>2
  <1>7. Claims' = Claims
    BY <1>2 DEF Claims
  <1>8. r > 0
    BY <1>1, <1>2 DEF MIN_REWARD_AMOUNT
  <1> QED
    BY <1>2, <1>3, <1>5, <1>6, <1>7, <1>8 DEF Promise!Open

\* Later funding is a deposit.
LEMMA FundingDeposits ==
  ASSUME Inv, NEW signer \in Users, NEW args \in FundArgs, FundQuest(signer, args)
  PROVE  Promise!Deposit
  <1>1. /\ args.reward_funding_amount \in Nat
        /\ args.additional_deposit_amount \in Nat
        /\ quest \in QuestType /\ rewardPool \in Nat /\ depositPool \in Nat
    BY FundAssumption, WidthAssumption DEF U64, Inv, TypeOK
  <1>2. /\ quest.status = "Open"
        /\ rewardPool' = rewardPool + args.reward_funding_amount
        /\ depositPool' = depositPool + args.additional_deposit_amount
        /\ UNCHANGED submissions
    BY DEF FundQuest, FundingIsOpen, PayIn
  <1>3. Received' = Received
    BY PublisherIsNoPayee DEF FundQuest, PayIn
  <1>4. /\ quest'.status = quest.status
        /\ quest'.reward_per_completion = quest.reward_per_completion
        /\ quest'.next_submission_index = quest.next_submission_index
        /\ quest'.next_review_index = quest.next_review_index
    BY <1>1 DEF FundQuest, QuestType
  <1>5. Payable' >= Payable
    BY <1>1, <1>2, <1>4 DEF Payable
  <1>6. Claims' = Claims
    BY <1>2 DEF Claims
  <1> QED
    BY <1>2, <1>3, <1>4, <1>5, <1>6 DEF Promise!Deposit

\* So is what somebody sends to a pool: the promise never gets less by it.
LEMMA TransferDeposits ==
  ASSUME Inv, NEW amount \in Transfers, SendToPool(amount)
  PROVE  Promise!Deposit
  <1>1. UNCHANGED <<quest, submissions, wallet>>
    BY SendFacts
  <1>2. PICK toReward \in Nat, toDeposit \in Nat :
          /\ rewardPool' = rewardPool + toReward
          /\ depositPool' = depositPool + toDeposit
    BY SendFacts
  <1>3. rewardPool \in Nat /\ depositPool \in Nat
    BY DEF Inv, TypeOK
  <1>4. Payable' >= Payable
    BY <1>1, <1>2, <1>3 DEF Payable
  <1>5. Claims' = Claims /\ Received' = Received
    BY <1>1 DEF Claims, Received
  <1> QED
    BY <1>1, <1>4, <1>5 DEF Promise!Deposit

\* Settling the pools settles the escrow: nobody waits, no payee gets anything.
LEMMA SettlementSettles ==
  ASSUME Inv, quest.status \in {"Open", "Closing"}, QueueIsClear,
         NEW q \in QuestType, SettlePools(q), UNCHANGED submissions,
         q.reward_per_completion = quest.reward_per_completion,
         q.next_submission_index = quest.next_submission_index,
         q.next_review_index = quest.next_review_index
  PROVE  Promise!Settle
  <1>1. /\ quest'.status = "Closed"
        /\ quest'.reward_per_completion = quest.reward_per_completion
        /\ quest'.next_submission_index = quest.next_submission_index
        /\ quest'.next_review_index = quest.next_review_index
        /\ rewardPool' = 0 /\ depositPool' = 0
    BY DEF SettlePools, QuestType
  <1>2. Received' = Received
    BY PublisherIsNoPayee
    DEF SettlePools, RefundPublisher, ForfeitToPublicGoods, Received
  <1>3. quest.next_submission_index - quest.next_review_index = 0
    BY FieldTypes DEF Inv, TypeOK, QueueIsConsistent, QueueIsClear
  <1>4. Payable' = 0 /\ Claims' = Claims
    BY <1>1 DEF Payable, Claims
  <1> QED
    BY <1>1, <1>2, <1>3, <1>4 DEF Promise!Settle, Promise!Waiting

\* Closing a quest that somebody waits in stops the escrow: the reward pool no
\* longer pays, and the deposit covers all who wait.
LEMMA ClosingStops ==
  ASSUME Inv, NEW signer \in Users, CloseQuest(signer)
  PROVE  Promise!Stop \/ Promise!Settle
  <1> DEFINE closing == [quest EXCEPT
                          !.status = "Closing", !.close_requested_at = now,
                          !.closing_reason = IF now >= quest.expires_at
                                             THEN "Expired"
                                             ELSE "EarlyManual"]
  <1>1. quest \in QuestType /\ now \in Nat /\ rewardPool \in Nat /\ depositPool \in Nat
    BY DEF Inv, TypeOK
  <1>2. /\ closing \in QuestType
        /\ closing.status = "Closing"
        /\ closing.reward_per_completion = quest.reward_per_completion
        /\ closing.next_submission_index = quest.next_submission_index
        /\ closing.next_review_index = quest.next_review_index
    BY <1>1 DEF QuestType, Statuses, Reasons
  <1>3. /\ quest.status = "Open"
        /\ \/ QueueIsClear /\ SettlePools(closing)
           \/ quest' = closing /\ UNCHANGED balances
        /\ UNCHANGED submissions
    BY DEF CloseQuest
  <1> HIDE DEF closing
  <1>4. CASE QueueIsClear /\ SettlePools(closing)
    BY <1>2, <1>3, <1>4, SettlementSettles
  <1>5. CASE quest' = closing /\ UNCHANGED balances
    <2>1. /\ Reward \in Nat /\ quest.queue_max \in Nat /\ quest.pending_count \in Nat
          /\ quest.next_submission_index \in Nat /\ quest.next_review_index \in Nat
      BY <1>1, FieldTypes DEF Reward
    <2> DEFINE waiting == quest.next_submission_index - quest.next_review_index
    <2>2. waiting = quest.pending_count /\ quest.pending_count <= quest.queue_max
      BY <2>1 DEF Inv, QueueIsConsistent
    <2>3. /\ Payable = depositPool + rewardPool /\ Payable' = depositPool
          /\ Claims' = Claims /\ Received' = Received
      <3>1. /\ depositPool' = depositPool /\ wallet' = wallet
            /\ submissions' = submissions
        BY <1>3, <1>5 DEF balances
      <3>2. quest'.status = "Closing"
        BY <1>2, <1>5
      <3>3. Payable = depositPool + rewardPool
        BY <1>3 DEF Payable
      <3>4. Payable' = depositPool
        BY <1>1, <3>1, <3>2 DEF Payable
      <3> QED
        BY <3>1, <3>3, <3>4 DEF Claims, Received
    <2>4. waiting * Reward \in Nat /\ waiting * Reward <= depositPool
      <3>1. waiting * Reward <= (quest.queue_max + 1) * Reward
        BY <2>1, <2>2, ProductGrows
      <3>2. depositPool >= (quest.queue_max + 1) * Reward
        BY <1>3 DEF Inv, DepositCoversQueue
      <3>3. waiting * Reward \in Nat /\ (quest.queue_max + 1) * Reward \in Nat
        BY <2>1, <2>2
      <3> QED
        BY <1>1, <3>1, <3>2, <3>3
    <2> HIDE DEF waiting
    <2>5. Payable' \in waiting * Reward .. Payable
      BY <1>1, <2>3, <2>4
    <2> QED
      BY <1>2, <1>3, <1>5, <2>3, <2>5
      DEF Promise!Stop, Promise!Waiting, Reward, waiting
  <1> QED
    BY <1>3, <1>4, <1>5

\* Every step of the program is a step of the promise, or no step of it at all.
LEMMA NextKeepsPromise ==
  ASSUME Inv, [Next]_vars
  PROVE  [Promise!Next]_(Promise!escrowVars)
  <1> USE DEF Promise!Next
  <1>1. CASE \E args \in CreateArgs : CreateQuest(args)
    BY <1>1, CreationOpens
  <1>2. CASE \E signer \in Users, args \in FundArgs : FundQuest(signer, args)
    BY <1>2, FundingDeposits
  <1>3. CASE \E u \in Submitters : SubmitProof(u)
    BY <1>3, SubmissionClaims
  <1>4. CASE \E signer \in Users, i \in DOMAIN submissions : ApproveSubmission(signer, i)
    BY <1>4, ApprovalPays DEF ApproveSubmission
  <1>5. CASE \E signer \in Users, i \in DOMAIN submissions : RejectSubmission(signer, i)
    BY <1>5, RejectionRefuses
  <1>6. CASE \E signer \in Users : CloseQuest(signer)
    BY <1>6, ClosingStops
  <1>7. CASE SettleQuest
    BY <1>7, SettlementSettles DEF SettleQuest, Inv, TypeOK
  <1>8. CASE Tick \/ UNCHANGED vars
    BY <1>8
    DEF Tick, vars, accounts, balances, Promise!escrowVars, Claims, Payable, Received
  <1>9. CASE \E amount \in Transfers : SendToPool(amount)
    BY <1>9, TransferDeposits
  <1> QED
    BY <1>1, <1>2, <1>3, <1>4, <1>5, <1>6, <1>7, <1>8, <1>9 DEF Next

\* In the first state nothing is promised.
LEMMA InitPromisesNothing ==
  Init => Promise!Init
  <1> SUFFICES ASSUME Init
               PROVE  Promise!Init
    OBVIOUS
  <1>1. Claims = [i \in {} |-> "None"]
    BY DEF Init, Claims
  <1>2. Received = [u \in Payees |-> 0]
    <2>1. \A u \in Payees : u \in Users /\ u # Publisher
      BY UsersAssumption DEF Payees
    <2> QED
      BY <2>1 DEF Init, Received
  <1>3. Payable = 0
    BY DEF Init, NoQuest, Payable
  <1> QED
    BY <1>1, <1>2, <1>3 DEF Init, NoQuest, Promise!Init

\* The quest implements the escrow: whatever its users do, in whatever order, the
\* submitters see only what the escrow allows.
THEOREM QuestKeepsPromise == Spec => KeepsPromise
  <1>1. Inv /\ [Next]_vars => [Promise!Next]_(Promise!escrowVars)
    BY NextKeepsPromise
  <1> QED
    BY <1>1, InitPromisesNothing, Invariance, PTL DEF Spec, KeepsPromise, Promise!Spec

\* So does the quest whose proofs a verifier accepts.
THEOREM AutoReviewKeepsPromise == AutoSpec => KeepsPromise
  <1>1. AutoInit => Promise!Init
    BY InitPromisesNothing DEF AutoInit
  <1>2. Inv /\ [AutoNext]_autoVars => [Promise!Next]_(Promise!escrowVars)
    <2> SUFFICES ASSUME Inv, [AutoNext]_autoVars
                 PROVE  [Promise!Next]_(Promise!escrowVars)
      OBVIOUS
    <2>1. CASE \E r \in signed, i \in DOMAIN submissions : AutoApproveSubmission(r, i)
      BY <2>1, ApprovalPays DEF AutoApproveSubmission, Promise!Next
    <2>2. CASE [Next]_vars
      BY <2>2, NextKeepsPromise
    <2> QED
      BY <2>1, <2>2 DEF AutoNext, Sign, autoVars
  <1> QED
    BY <1>1, <1>2, AutoKeepsEscrow, PTL DEF AutoSpec, KeepsPromise, Promise!Spec
=============================================================================
