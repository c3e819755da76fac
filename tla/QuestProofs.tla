----------------------------- MODULE QuestProofs -----------------------------
(***************************************************************************)
(* Theorems about Quest for every value of its constants: any number of    *)
(* users, any arguments, any window, any width of integers. Inv is         *)
(* inductive; the first lemmas are arithmetic, then comes one lemma for    *)
(* each instruction, and the theorems are at the end.                      *)
(***************************************************************************)
EXTENDS Quest, TLAPS

\* A multiple of the reward (a pool's balance, say, less what was sent there) is
\* some whole number of rewards.
LEMMA MultipleExists ==
  ASSUME NEW a \in Int, NEW r \in Nat \ {0}, a % r = 0
  PROVE  \E k \in Int : a = k * r
  <1>1. a = (a \div r) * r /\ a \div r \in Int
    OBVIOUS
  <1> QED BY <1>1

\* Funding a pool of whole rewards with whole rewards leaves whole rewards.
LEMMA AddMultiple ==
  ASSUME NEW a \in Int, NEW b \in Int, NEW r \in Nat \ {0},
         a % r = 0, b % r = 0
  PROVE  (a + b) % r = 0
  <1>1. PICK j \in Int : a = j * r
    BY MultipleExists
  <1>2. PICK k \in Int : b = k * r
    BY MultipleExists
  <1>3. a + b = (j + k) * r
    BY <1>1, <1>2
  <1>4. ((j + k) * r) % r = 0
    OBVIOUS
  <1> QED BY <1>3, <1>4

\* Paying one reward out of a pool of whole rewards leaves whole rewards.
LEMMA SubMultiple ==
  ASSUME NEW a \in Int, NEW r \in Nat \ {0}, a % r = 0
  PROVE  (a - r) % r = 0
  <1>1. PICK k \in Int : a = k * r
    BY MultipleExists
  <1>2. a - r = (k - 1) * r /\ k - 1 \in Int
    BY <1>1
  <1>3. ((k - 1) * r) % r = 0
    BY <1>2
  <1> QED BY <1>2, <1>3

\* A pool of whole rewards that is not empty can pay one.
LEMMA PositiveMultiple ==
  ASSUME NEW a \in Int, NEW r \in Nat \ {0}, a % r = 0, a > 0
  PROVE  a >= r
  OBVIOUS

\* A fee is a whole amount, and the cancellation fee is at most the deposit that
\* pays it, so the settlement's deposit - fee does not underflow.
LEMMA FeeIsPart ==
  ASSUME NEW a \in Nat
  PROVE  /\ Fee(a, PLATFORM_FEE_BPS) \in Nat
         /\ Fee(a, CANCELLATION_FEE_BPS) \in Nat
         /\ Fee(a, CANCELLATION_FEE_BPS) <= a
  BY DEF Fee, PLATFORM_FEE_BPS, CANCELLATION_FEE_BPS, BPS_DENOMINATOR

\* One more place in the queue is worth one more reward.
LEMMA NextProduct ==
  ASSUME NEW n \in Nat, NEW r \in Nat
  PROVE  (n + 1) * r = n * r + r /\ n * r \in Nat
  OBVIOUS

\* A longer queue is not worth less.
LEMMA ProductGrows ==
  ASSUME NEW m \in Nat, NEW n \in Nat, NEW r \in Nat, m <= n
  PROVE  m * r <= n * r
  OBVIOUS

-----------------------------------------------------------------------------
\* Before create_quest the invariant holds, whatever wallets and vaults hold:
\* nothing is there but what others sent.
LEMMA NothingThereHasInv ==
  ASSUME quest = NoQuest, submissions = [i \in {} |-> NoQuest],
         progress = [u \in Submitters |-> NewProgress],
         rewardPool = rewardSent, depositPool = depositSent,
         rewardSent \in Nat, depositSent \in Nat,
         RentExempt(rewardPool), RentExempt(depositPool), now \in Nat,
         feeVault \in Nat, publicGoods \in Nat, wallet \in [Users -> Nat]
  PROVE  Inv
  <1> USE DEF NoQuest
  <1>1. TypeOK
    <2>1. quest \in QuestType
      BY DEF QuestType, Statuses, Modes, ReviewModes, Reasons
    <2>2. progress \in [Submitters -> ProgressType]
      BY WindowAssumption DEF NewProgress, ProgressType, Slots, EMPTY, CycleStates
    <2>3. submissions \in [0 .. quest.next_submission_index - 1 -> SubmissionType]
      OBVIOUS
    <2> QED
      BY <2>1, <2>2, <2>3 DEF TypeOK
  <1>2. TermsHold
    BY DEF TermsHold
  <1>3. QueueIsConsistent
    BY DEF QueueIsConsistent
  <1> QED
    BY <1>1, <1>2, <1>3
    DEF Inv, WholeRewards, PoolsAreAlive, DepositCoversQueue, PoolsMatchTotals,
        ReasonMatchesDeadline, DepletedPoolIsSpent, Live

\* The invariant holds before the quest is created.
LEMMA InitHasInv == Init => Inv
  <1> SUFFICES ASSUME Init
               PROVE  Inv
    OBVIOUS
  <1>1. now \in Nat /\ wallet \in [Users -> Nat]
    BY BoundsAssumption DEF Init, U64
  <1>2. RentExempt(rewardPool) /\ RentExempt(depositPool)
    BY DEF Init, RentExempt
  <1> QED
    BY <1>1, <1>2, NothingThereHasInv DEF Init

\* create_quest establishes the promises: its checks make the pools hold whole
\* rewards and the deposit cover a full queue and one reward more.
LEMMA CreateKeepsInv ==
  ASSUME Inv, NEW args \in CreateArgs, CreateQuest(args)
  PROVE  Inv'
  <1> DEFINE fee == Fee(args.initial_reward_funding, PLATFORM_FEE_BPS)
             r == args.reward_per_completion
             q == [NoQuest EXCEPT
                    !.status = "Open", !.mode = args.mode,
                    !.review_mode = args.review_mode,
                    !.authorized_verifier = args.authorized_verifier,
                    !.template_config_hash = args.template_config_hash,
                    !.reward_per_completion = args.reward_per_completion,
                    !.period_seconds = args.period_seconds,
                    !.start_at = now, !.expires_at = now + args.duration_seconds,
                    !.queue_max = args.queue_max,
                    !.total_reward_funded = args.initial_reward_funding,
                    !.total_deposit_funded = args.deposit_amount,
                    !.total_fee_paid = fee]
  <1>1. /\ args.mode \in Modes
        /\ args.review_mode \in ReviewModes
        /\ args.authorized_verifier \in VerifierKeys \cup {NO_KEY}
        /\ args.template_config_hash \in ConfigHashes \cup {NO_HASH}
        /\ r \in Nat
        /\ args.initial_reward_funding \in Nat
        /\ args.deposit_amount \in Nat
        /\ args.duration_seconds \in Int
        /\ args.period_seconds \in Int
        /\ args.queue_max \in Nat
    BY CreateAssumption, WidthAssumption DEF CreateArgType, U64
  <1>2. /\ r >= MIN_REWARD_AMOUNT
        /\ args.duration_seconds >= 60
        /\ PeriodFitsMode(args)
        /\ args.initial_reward_funding % r = 0
        /\ args.deposit_amount % r = 0
        /\ args.deposit_amount >= (args.queue_max + 1) * r
    BY DEF CreateQuest, IsMultiple, DepositSuffices, RequiredDeposit,
           MIN_QUEST_DURATION_SECONDS
  <1>3. fee \in Nat
    BY <1>1, FeeIsPart
  <1>4. /\ now \in Nat
        /\ submissions \in [0 .. quest.next_submission_index - 1 -> SubmissionType]
        /\ progress \in [Submitters -> ProgressType]
        /\ feeVault \in Nat /\ publicGoods \in Nat
        /\ wallet \in [Users -> Nat]
        /\ rewardSent \in Nat /\ depositSent \in Nat
    BY DEF Inv, TypeOK
  <1>5. quest = NoQuest /\ rewardPool = rewardSent /\ depositPool = depositSent
    BY DEF CreateQuest, Inv, TermsHold
  <1>6. UNCHANGED <<now, submissions, progress>> /\ quest' = q
    BY DEF CreateQuest
  <1>7. /\ rewardPool' = rewardSent + args.initial_reward_funding
        /\ depositPool' = depositSent + args.deposit_amount
        /\ PoolsAreAlive'
        /\ UNCHANGED <<publicGoods, rewardSent, depositSent>>
    BY <1>1, <1>5 DEF CreateQuest, PayIn, PoolsAreAlive, sent
  <1>8. feeVault' \in Nat /\ wallet' \in [Users -> Nat]
    <2>1. VaultTopUp \in Nat
      BY RentAssumption DEF VaultTopUp
    <2> DEFINE total == args.initial_reward_funding + args.deposit_amount + fee
                          + VaultTopUp
    <2>2. /\ wallet[Publisher] >= total
          /\ wallet' = [wallet EXCEPT ![Publisher] = @ - total]
          /\ feeVault' = feeVault + fee + VaultTopUp
      BY DEF CreateQuest, PayIn
    <2>3. total \in Nat
      BY <1>1, <1>3, <2>1
    <2> HIDE DEF total, fee
    <2> QED
      BY <1>3, <1>4, <2>1, <2>2, <2>3, UsersAssumption
  <1>9. /\ quest'.status = "Open"
        /\ quest'.mode = args.mode
        /\ quest'.reward_per_completion = r
        /\ quest'.period_seconds = args.period_seconds
        /\ quest'.start_at = now
        /\ quest'.queue_max = args.queue_max
        /\ quest'.pending_count = 0
        /\ quest'.next_submission_index = 0
        /\ quest'.next_review_index = 0
        /\ quest'.total_approved = 0
        /\ quest'.total_rejected = 0
        /\ quest'.total_paid_amount = 0
        /\ quest'.total_reward_funded = args.initial_reward_funding
        /\ quest'.total_deposit_funded = args.deposit_amount
    BY <1>6 DEF NoQuest
  <1>10. TypeOK'
    <2>1. quest' \in QuestType
      <3>1. now + args.duration_seconds \in Nat
        BY <1>1, <1>2, <1>4
      <3>2. args.period_seconds \in Nat
        BY <1>1, <1>2 DEF PeriodFitsMode
      <3>3. now \in Nat /\ quest' = q
        BY <1>4, <1>6
      <3>4. NoQuest \in QuestType
        BY DEF NoQuest, QuestType, Statuses, Modes, ReviewModes, Reasons
      <3> DEFINE expiry == now + args.duration_seconds
                 a == [NoQuest EXCEPT
                        !.status = "Open", !.mode = args.mode,
                        !.review_mode = args.review_mode,
                        !.authorized_verifier = args.authorized_verifier,
                        !.template_config_hash = args.template_config_hash]
                 b == [a EXCEPT
                        !.reward_per_completion = r,
                        !.period_seconds = args.period_seconds,
                        !.start_at = now, !.expires_at = expiry]
      <3>5. a \in QuestType
        BY <1>1, <3>4 DEF QuestType, Statuses
      <3>6. b \in QuestType
        <4>1. expiry \in Nat
          BY <3>1
        <4> HIDE DEF a, r, expiry
        <4> QED
          BY <1>1, <3>2, <3>3, <3>5, <4>1 DEF QuestType
      <3>7. [b EXCEPT !.queue_max = args.queue_max,
                      !.total_reward_funded = args.initial_reward_funding,
                      !.total_deposit_funded = args.deposit_amount,
                      !.total_fee_paid = fee] \in QuestType
        <4> HIDE DEF b, fee
        <4> QED
          BY <1>1, <1>3, <3>6 DEF QuestType
      <3>8. q = [b EXCEPT !.queue_max = args.queue_max,
                          !.total_reward_funded = args.initial_reward_funding,
                          !.total_deposit_funded = args.deposit_amount,
                          !.total_fee_paid = fee]
        <4> HIDE DEF fee
        <4> QED
          BY DEF NoQuest
      <3> QED
        BY <3>3, <3>7, <3>8
    <2>2. (submissions \in [0 .. quest.next_submission_index - 1 -> SubmissionType])'
      BY <1>4, <1>5, <1>6, <1>9 DEF NoQuest
    <2> QED
      BY <1>1, <1>4, <1>6, <1>7, <1>8, <2>1, <2>2 DEF TypeOK
  <1>11. TermsHold'
    BY <1>2, <1>4, <1>6, <1>9 DEF TermsHold, Reward, PeriodFitsMode
  <1>12. QueueIsConsistent'
    BY <1>1, <1>4, <1>5, <1>6, <1>9 DEF QueueIsConsistent, NoQuest
  <1>13. WholeRewards'
    <2>1. rewardPool' - rewardSent' = args.initial_reward_funding
      BY <1>1, <1>4, <1>7
    <2> QED
      BY <1>2, <1>9, <2>1 DEF WholeRewards, Reward
  <1>14. DepositCoversQueue' /\ PoolsMatchTotals'
    <2>1. (args.queue_max + 1) * r \in Nat
      BY <1>1
    <2>2. depositPool' >= (args.queue_max + 1) * r
      BY <1>1, <1>2, <1>4, <1>7, <2>1
    <2> QED
      BY <1>1, <1>4, <1>7, <1>9, <2>2 DEF DepositCoversQueue, PoolsMatchTotals, Reward
  <1> QED
    BY <1>7, <1>9, <1>10, <1>11, <1>12, <1>13, <1>14
    DEF Inv, ReasonMatchesDeadline, DepletedPoolIsSpent

\* The fields of a Quest account, one by one, for steps that do arithmetic.
LEMMA FieldTypes ==
  ASSUME NEW q \in QuestType
  PROVE  /\ q.reward_per_completion \in Nat
         /\ q.period_seconds \in Nat
         /\ q.start_at \in Nat
         /\ q.expires_at \in Nat
         /\ q.close_requested_at \in Nat
         /\ q.queue_max \in Nat
         /\ q.pending_count \in Nat
         /\ q.next_submission_index \in Nat
         /\ q.next_review_index \in Nat
         /\ q.total_submissions \in Nat
         /\ q.total_approved \in Nat
         /\ q.total_rejected \in Nat
         /\ q.total_paid_amount \in Nat
         /\ q.total_reward_funded \in Nat
         /\ q.total_deposit_funded \in Nat
         /\ q.total_fee_paid \in Nat
  BY DEF QuestType

\* fund_quest only adds whole rewards and moves the deadline of an Open quest.
LEMMA FundKeepsInv ==
  ASSUME Inv, NEW signer \in Users, NEW args \in FundArgs, FundQuest(signer, args)
  PROVE  Inv'
  <1> DEFINE funding == args.reward_funding_amount
             deposit == args.additional_deposit_amount
             fee     == Fee(funding, PLATFORM_FEE_BPS)
             topUp   == IF funding > 0 THEN VaultTopUp ELSE 0
             total   == funding + deposit + fee + topUp
  <1>1. /\ funding \in Nat /\ deposit \in Nat
        /\ args.extend_duration_seconds \in Nat
    BY FundAssumption, WidthAssumption DEF U64, FundQuest
  <1>2. fee \in Nat
    BY <1>1, FeeIsPart
  <1>3. topUp \in Nat
    BY RentAssumption DEF VaultTopUp
  <1>4. /\ quest \in QuestType
        /\ submissions \in [0 .. quest.next_submission_index - 1 -> SubmissionType]
        /\ rewardPool \in Nat /\ depositPool \in Nat
        /\ feeVault \in Nat
        /\ wallet \in [Users -> Nat]
        /\ rewardSent \in Nat /\ depositSent \in Nat
    BY DEF Inv, TypeOK
  <1>5. /\ quest.status = "Open"
        /\ quest' = [quest EXCEPT
                      !.total_reward_funded = @ + funding,
                      !.total_fee_paid = @ + fee,
                      !.total_deposit_funded = @ + deposit,
                      !.expires_at = @ + args.extend_duration_seconds]
        /\ UNCHANGED <<now, submissions, progress>>
        /\ funding > 0 => funding % Reward = 0
        /\ deposit > 0 => deposit % Reward = 0
    BY DEF FundQuest, FundingIsOpen, IsMultiple, Reward
  <1>6. /\ wallet[Publisher] >= total
        /\ wallet' = [wallet EXCEPT ![Publisher] = @ - total]
        /\ rewardPool' = rewardPool + funding
        /\ depositPool' = depositPool + deposit
        /\ feeVault' = feeVault + fee + topUp
        /\ PoolsAreAlive'
        /\ UNCHANGED <<publicGoods, rewardSent, depositSent>>
    BY DEF FundQuest, PayIn, PoolsAreAlive, sent
  <1>7. Reward \in Nat \ {0} /\ Reward >= MIN_REWARD_AMOUNT
    BY <1>4, <1>5 DEF Inv, TermsHold, Reward, QuestType, MIN_REWARD_AMOUNT
  <1>8. funding % Reward = 0 /\ deposit % Reward = 0
    <2>1. 0 % Reward = 0
      BY <1>7
    <2> HIDE DEF funding, deposit
    <2> QED
      BY <1>1, <1>5, <2>1
  <1> HIDE DEF funding, deposit, fee, topUp
  <1>9. total \in Nat
    BY <1>1, <1>2, <1>3
  <1> HIDE DEF total
  <1>10. TypeOK'
    <2>1. quest' \in QuestType
      <3>1. /\ quest.total_reward_funded + funding \in Nat
            /\ quest.total_fee_paid + fee \in Nat
            /\ quest.total_deposit_funded + deposit \in Nat
            /\ quest.expires_at + args.extend_duration_seconds \in Nat
        <4>1. /\ quest.total_reward_funded \in Nat
              /\ quest.total_fee_paid \in Nat
              /\ quest.total_deposit_funded \in Nat
              /\ quest.expires_at \in Nat
          BY <1>4 DEF QuestType
        <4>2. /\ quest.total_reward_funded + funding \in Nat
              /\ quest.total_deposit_funded + deposit \in Nat
          BY <1>1, <4>1
        <4>3. quest.total_fee_paid + fee \in Nat
          BY <1>2, <4>1
        <4>4. quest.expires_at + args.extend_duration_seconds \in Nat
          BY <1>1, <4>1
        <4> QED BY <4>2, <4>3, <4>4
      <3> QED
        BY <1>4, <1>5, <3>1 DEF QuestType
    <2>2. feeVault' \in Nat /\ rewardPool' \in Nat /\ depositPool' \in Nat
      BY <1>1, <1>2, <1>3, <1>4, <1>6
    <2>3. wallet' \in [Users -> Nat]
      BY <1>4, <1>6, <1>9, UsersAssumption
    <2>4. quest'.next_submission_index = quest.next_submission_index
      BY <1>4, <1>5 DEF QuestType
    <2> QED
      BY <1>5, <1>6, <2>1, <2>2, <2>3, <2>4 DEF TypeOK, Inv
  <1>11. /\ quest'.status = "Open"
         /\ quest'.reward_per_completion = quest.reward_per_completion
         /\ quest'.mode = quest.mode
         /\ quest'.period_seconds = quest.period_seconds
         /\ quest'.start_at = quest.start_at
         /\ quest'.queue_max = quest.queue_max
         /\ quest'.pending_count = quest.pending_count
         /\ quest'.next_submission_index = quest.next_submission_index
         /\ quest'.next_review_index = quest.next_review_index
         /\ quest'.total_approved = quest.total_approved
         /\ quest'.total_rejected = quest.total_rejected
         /\ quest'.total_paid_amount = quest.total_paid_amount
         /\ quest'.total_reward_funded = quest.total_reward_funded + funding
         /\ quest'.total_deposit_funded = quest.total_deposit_funded + deposit
    BY <1>4, <1>5 DEF QuestType
  <1>12. TermsHold'
    BY <1>5, <1>11 DEF Inv, TermsHold, Reward
  <1>13. QueueIsConsistent'
    BY <1>5, <1>11 DEF Inv, QueueIsConsistent
  <1>14. WholeRewards'
    <2>1. (rewardPool - rewardSent) % Reward = 0 /\ rewardPool - rewardSent \in Int
      BY <1>4, <1>5 DEF Inv, WholeRewards, Live
    <2>2. ((rewardPool - rewardSent) + funding) % Reward = 0
      <3> DEFINE own == rewardPool - rewardSent
      <3>1. /\ own \in Int /\ funding \in Int /\ Reward \in Nat \ {0}
            /\ own % Reward = 0 /\ funding % Reward = 0
        BY <1>1, <1>7, <1>8, <2>1
      <3> HIDE DEF own
      <3>2. (own + funding) % Reward = 0
        BY <3>1, AddMultiple, Zenon
      <3> QED BY <3>2 DEF own
    <2>3. rewardPool' - rewardSent' = (rewardPool - rewardSent) + funding
      <3>1. rewardPool' = rewardPool + funding /\ rewardSent' = rewardSent
        BY <1>6
      <3>2. rewardPool \in Nat /\ rewardSent \in Nat /\ funding \in Nat
        BY <1>1, <1>4
      <3>3. (rewardPool + funding) - rewardSent = (rewardPool - rewardSent) + funding
        BY <3>2
      <3> QED BY <3>1, <3>3
    <2> QED
      BY <1>11, <2>2, <2>3 DEF WholeRewards, Reward
  <1>15. DepositCoversQueue'
    <2>1. depositPool >= (quest.queue_max + 1) * Reward
      BY <1>5 DEF Inv, DepositCoversQueue
    <2>2. (quest.queue_max + 1) * Reward \in Nat
      <3>1. quest.queue_max + 1 \in Nat
        BY <1>4 DEF QuestType
      <3> QED
        BY <1>7, <3>1, NextProduct
    <2>3. depositPool' >= (quest.queue_max + 1) * Reward
      BY <1>1, <1>4, <1>6, <2>1, <2>2
    <2> QED
      BY <1>11, <2>3 DEF DepositCoversQueue, Reward
  <1>16. PoolsMatchTotals'
    <2>1. rewardPool + depositPool + quest.total_paid_amount
            = quest.total_reward_funded + quest.total_deposit_funded
                + rewardSent + depositSent
      BY <1>5 DEF Inv, PoolsMatchTotals, Live
    <2>2. /\ quest.total_paid_amount \in Nat
          /\ quest.total_reward_funded \in Nat
          /\ quest.total_deposit_funded \in Nat
      BY <1>4, FieldTypes
    <2>3. rewardPool' + depositPool' + quest.total_paid_amount
            = (quest.total_reward_funded + funding)
                + (quest.total_deposit_funded + deposit) + rewardSent + depositSent
      <3>1. rewardPool' = rewardPool + funding /\ depositPool' = depositPool + deposit
        BY <1>6
      <3>2. /\ rewardPool \in Nat /\ depositPool \in Nat
            /\ rewardSent \in Nat /\ depositSent \in Nat
        BY <1>4
      <3>3. funding \in Nat /\ deposit \in Nat
        BY <1>1
      <3> QED
        BY <2>1, <2>2, <3>1, <3>2, <3>3
    <2> QED
      BY <1>6, <1>11, <2>3 DEF PoolsMatchTotals
  <1> QED
    BY <1>6, <1>10, <1>11, <1>12, <1>13, <1>14, <1>15, <1>16
    DEF Inv, ReasonMatchesDeadline, DepletedPoolIsSpent

-----------------------------------------------------------------------------
\* prune_old_cycles returns a progress account.
LEMMA PruneType ==
  ASSUME NEW p \in ProgressType, NEW current
  PROVE  prune_old_cycles(p, current) \in ProgressType
  BY DEF prune_old_cycles, ProgressType, EMPTY, CycleStates

\* set_cycle_state returns a progress account: the cursor stays in the window.
LEMMA SetType ==
  ASSUME NEW p \in ProgressType, NEW cycle \in Nat, NEW state \in CycleStates
  PROVE  set_cycle_state(p, cycle, state) \in ProgressType
  <1> DEFINE at == p.recent_cycle_cursor % RECENT_CYCLE_WINDOW
  <1>1. at \in Slots
    BY WindowAssumption DEF ProgressType, Slots
  <1>2. NextSlot(at) \in Slots
    BY <1>1, WindowAssumption DEF NextSlot, Slots
  <1> HIDE DEF at
  <1>3. [p EXCEPT !.recent_cycle_states[Min(SlotsHolding(p, cycle))] = state]
          \in ProgressType
    BY DEF ProgressType
  <1>4. [p EXCEPT !.recent_cycles[at] = cycle,
                  !.recent_cycle_states[at] = state,
                  !.recent_cycle_cursor = NextSlot(at)] \in ProgressType
    BY <1>2 DEF ProgressType
  <1> QED
    BY <1>3, <1>4 DEF set_cycle_state, at

\* set_cycle_state_in_window returns a progress account.
LEMMA SetInWindowType ==
  ASSUME NEW p \in ProgressType, NEW cycle \in Nat, NEW state \in CycleStates,
         NEW current
  PROVE  set_cycle_state_in_window(p, cycle, state, current) \in ProgressType
  BY PruneType, SetType DEF set_cycle_state_in_window

\* The current cycle is a natural number: the clock is past start_at, and the
\* period of a Recurring quest is positive.
LEMMA CurrentCycleType ==
  ASSUME Inv, quest.status # "Absent"
  PROVE  CurrentCycle \in Nat
  <1>1. /\ now \in Nat /\ quest.start_at \in Nat /\ quest.period_seconds \in Nat
        /\ quest.mode \in {"OneTime", "Recurring"}
    BY DEF Inv, TypeOK, QuestType, Modes
  <1>2. CASE quest.mode = "OneTime"
    BY <1>2 DEF CurrentCycle
  <1>3. CASE quest.mode = "Recurring"
    <2>1. now - quest.start_at \in Nat /\ quest.period_seconds \in Nat \ {0}
      BY <1>1, <1>3 DEF Inv, TermsHold
    <2>2. (now - quest.start_at) \div quest.period_seconds \in Nat
      BY <2>1
    <2> QED
      BY <1>3, <2>2 DEF CurrentCycle
  <1> QED
    BY <1>1, <1>2, <1>3

\* submit_proof adds one submission at the tail and counts it; the deposit still
\* covers the queue, which stays within queue_max.
LEMMA SubmitKeepsInv ==
  ASSUME Inv, NEW u \in Submitters, SubmitProof(u)
  PROVE  Inv'
  <1> DEFINE index == quest.next_submission_index
  <1>1. /\ quest.status = "Open"
        /\ quest.pending_count < quest.queue_max
        /\ progress' = [progress EXCEPT ![u] = RecordSubmit(@)]
        /\ submissions' = [i \in 0 .. index |->
                            IF i = index THEN NewSubmission(u) ELSE submissions[i]]
        /\ quest' = [quest EXCEPT
                      !.next_submission_index = @ + 1,
                      !.total_submissions = @ + 1,
                      !.pending_count = @ + 1]
        /\ UNCHANGED <<now, balances, sent>>
    BY DEF SubmitProof, QueueHasRoom
  <1>2. /\ quest \in QuestType
        /\ submissions \in [0 .. quest.next_submission_index - 1 -> SubmissionType]
        /\ progress \in [Submitters -> ProgressType]
    BY DEF Inv, TypeOK
  <1>3. CurrentCycle \in Nat
    BY <1>1, CurrentCycleType
  <1>4. /\ quest'.status = "Open"
        /\ quest'.reward_per_completion = quest.reward_per_completion
        /\ quest'.mode = quest.mode
        /\ quest'.period_seconds = quest.period_seconds
        /\ quest'.start_at = quest.start_at
        /\ quest'.queue_max = quest.queue_max
        /\ quest'.pending_count = quest.pending_count + 1
        /\ quest'.next_submission_index = index + 1
        /\ quest'.next_review_index = quest.next_review_index
        /\ quest'.total_approved = quest.total_approved
        /\ quest'.total_rejected = quest.total_rejected
        /\ quest'.total_paid_amount = quest.total_paid_amount
        /\ quest'.total_reward_funded = quest.total_reward_funded
        /\ quest'.total_deposit_funded = quest.total_deposit_funded
    BY <1>1, <1>2 DEF QuestType
  <1>5. NewSubmission(u) \in SubmissionType
    BY <1>3 DEF NewSubmission, SubmissionType
  <1>6. index \in Nat /\ quest.pending_count \in Nat /\ quest.queue_max \in Nat
        /\ quest.next_review_index \in Nat
    BY <1>2, FieldTypes
  <1>7. TypeOK'
    <2>1. quest' \in QuestType
      <3>1. index + 1 \in Nat /\ quest.total_submissions + 1 \in Nat
            /\ quest.pending_count + 1 \in Nat
        BY <1>2, FieldTypes
      <3> QED
        BY <1>1, <1>2, <3>1 DEF QuestType
    <2>2. submissions' \in [0 .. index -> SubmissionType]
      BY <1>1, <1>2, <1>5, <1>6
    <2>3. (submissions \in [0 .. quest.next_submission_index - 1 -> SubmissionType])'
      BY <1>4, <1>6, <2>2
    <2>4. RecordSubmit(progress[u]) \in ProgressType
      <3> DEFINE p == progress[u]
                 w == set_cycle_state(prune_old_cycles(p, CurrentCycle),
                                      CurrentCycle, PENDING)
      <3>1. p \in ProgressType
        BY <1>2
      <3>2. w \in ProgressType
        BY <1>3, <3>1, PruneType, SetType DEF PENDING, CycleStates
      <3> HIDE DEF w, p
      <3>3. [w EXCEPT !.last_submitted_cycle = CurrentCycle] \in ProgressType
        BY <1>3, <3>2 DEF ProgressType
      <3>4. [p EXCEPT !.pending_one_time = TRUE, !.last_submitted_cycle = 0]
              \in ProgressType
        BY <3>1 DEF ProgressType
      <3> QED
        BY <3>3, <3>4 DEF RecordSubmit, w, p
    <2>5. progress' \in [Submitters -> ProgressType]
      BY <1>1, <1>2, <2>4
    <2> QED
      BY <1>1, <2>1, <2>3, <2>5 DEF TypeOK, Inv, balances, sent
  <1>8. TermsHold'
    BY <1>1, <1>4 DEF Inv, TermsHold, Reward
  <1>9. QueueIsConsistent'
    <2>1. /\ quest.next_review_index + quest.pending_count = index
          /\ quest.total_approved + quest.total_rejected = quest.next_review_index
          /\ \A i \in 0 .. index - 1 :
               (submissions[i].status = "Pending") <=> (i >= quest.next_review_index)
      BY <1>2, <1>6 DEF Inv, QueueIsConsistent
    <2>2. DOMAIN submissions' = 0 .. index
      BY <1>1
    <2>3. ASSUME NEW i \in 0 .. index
          PROVE  (submissions'[i].status = "Pending") <=> (i >= quest.next_review_index)
      <3>1. CASE i = index
        BY <1>1, <1>6, <2>1, <3>1 DEF NewSubmission
      <3>2. CASE i # index
        <4>1. i \in 0 .. index - 1 /\ submissions'[i] = submissions[i]
          BY <1>1, <1>6, <3>2
        <4> QED
          BY <2>1, <4>1
      <3> QED
        BY <3>1, <3>2
    <2>4. quest.next_review_index + (quest.pending_count + 1) = index + 1
      BY <1>6, <2>1
    <2>5. quest.pending_count + 1 <= quest.queue_max
      BY <1>1, <1>6
    <2> QED
      BY <1>4, <2>1, <2>2, <2>3, <2>4, <2>5 DEF QueueIsConsistent
  <1>10. WholeRewards' /\ PoolsAreAlive' /\ DepositCoversQueue' /\ PoolsMatchTotals'
    BY <1>1, <1>4
    DEF Inv, WholeRewards, PoolsAreAlive, DepositCoversQueue, PoolsMatchTotals, Reward,
        Live, balances, sent
  <1> QED
    BY <1>4, <1>7, <1>8, <1>9, <1>10
    DEF Inv, ReasonMatchesDeadline, DepletedPoolIsSpent

-----------------------------------------------------------------------------
\* The submission a review may name is the head of a queue that is not empty.
LEMMA HeadFacts ==
  ASSUME Inv, NEW i \in DOMAIN submissions, NextInLine(i)
  PROVE  /\ i = quest.next_review_index
         /\ i \in Nat /\ i < quest.next_submission_index
         /\ quest.pending_count \in Nat \ {0}
         /\ submissions[i] \in SubmissionType
  <1>1. /\ quest \in QuestType
        /\ submissions \in [0 .. quest.next_submission_index - 1 -> SubmissionType]
    BY DEF Inv, TypeOK
  <1>2. /\ quest.pending_count \in Nat
        /\ quest.next_submission_index \in Nat
        /\ quest.next_review_index \in Nat
    BY <1>1, FieldTypes
  <1>3. quest.next_review_index + quest.pending_count = quest.next_submission_index
    BY DEF Inv, QueueIsConsistent
  <1> QED
    BY <1>1, <1>2, <1>3 DEF NextInLine

\* What a decision about the head does to the queue, whoever is paid for it.
LEMMA DecisionKeepsQueue ==
  ASSUME Inv, NEW i \in DOMAIN submissions, NextInLine(i),
         quest'.next_review_index = quest.next_review_index + 1,
         quest'.pending_count = quest.pending_count - 1,
         quest'.next_submission_index = quest.next_submission_index,
         quest'.queue_max = quest.queue_max,
         quest'.total_approved + quest'.total_rejected
           = quest.total_approved + quest.total_rejected + 1,
         DOMAIN submissions' = DOMAIN submissions,
         submissions'[i].status # "Pending",
         \A j \in DOMAIN submissions : j # i => submissions'[j] = submissions[j]
  PROVE  QueueIsConsistent'
  <1>1. /\ quest \in QuestType
        /\ DOMAIN submissions = 0 .. quest.next_submission_index - 1
    BY DEF Inv, TypeOK
  <1>2. /\ quest.pending_count \in Nat /\ quest.queue_max \in Nat
        /\ quest.next_submission_index \in Nat
        /\ quest.next_review_index \in Nat
    BY <1>1, FieldTypes
  <1>3. /\ quest.next_review_index + quest.pending_count = quest.next_submission_index
        /\ quest.pending_count <= quest.queue_max
        /\ quest.total_approved + quest.total_rejected = quest.next_review_index
    BY DEF Inv, QueueIsConsistent
  <1>4. i = quest.next_review_index
    BY DEF NextInLine
  <1>5. ASSUME NEW j \in DOMAIN submissions
        PROVE  (submissions'[j].status = "Pending")
                 <=> (j >= quest.next_review_index + 1)
    <2>1. CASE j = i
      BY <1>2, <1>4, <2>1
    <2>2. CASE j # i
      <3>1. (submissions[j].status = "Pending") <=> (j >= quest.next_review_index)
        BY DEF Inv, QueueIsConsistent
      <3>2. j \in Int
        BY <1>1
      <3> QED
        BY <1>2, <1>4, <2>2, <3>1, <3>2
    <2> QED
      BY <2>1, <2>2
  <1>6. quest'.next_review_index + quest'.pending_count = quest'.next_submission_index
    BY <1>2, <1>3
  <1>7. quest'.pending_count <= quest'.queue_max
    BY <1>2, <1>3
  <1> QED
    BY <1>3, <1>5, <1>6, <1>7 DEF QueueIsConsistent

\* What a review writes to a progress account is a progress account.
LEMMA RecordTypes ==
  ASSUME NEW p \in ProgressType, NEW cycle \in Nat
  PROVE  /\ RecordApproval(p, cycle) \in ProgressType
         /\ RecordRejection(p, cycle) \in ProgressType
  <1> DEFINE a == set_cycle_state_in_window(p, cycle, APPROVED, WindowAnchor(p, cycle))
             e == set_cycle_state_in_window(p, cycle, EMPTY, WindowAnchor(p, cycle))
  <1>1. a \in ProgressType
    BY SetInWindowType DEF APPROVED, CycleStates
  <1>2. e \in ProgressType
    BY SetInWindowType DEF EMPTY, CycleStates
  <1> HIDE DEF a, e
  <1>3. [a EXCEPT !.total_approved = @ + 1] \in ProgressType
    BY <1>1 DEF ProgressType
  <1>4. [p EXCEPT !.pending_one_time = FALSE, !.one_time_completed = TRUE,
                  !.total_approved = @ + 1] \in ProgressType
    <2>1. p.total_approved + 1 \in Nat
      BY DEF ProgressType
    <2> QED
      BY <2>1 DEF ProgressType
  <1>5. [p EXCEPT !.pending_one_time = FALSE] \in ProgressType
    BY DEF ProgressType
  <1> QED
    BY <1>2, <1>3, <1>4, <1>5 DEF RecordApproval, RecordRejection, a, e

\* The quest a review that pays from the deposit leaves behind, before it counts.
LEMMA StopFacts ==
  ASSUME quest \in QuestType, now \in Nat, quest.status \in {"Open", "Closing"},
         NEW q, q = StopForDepletion(quest)
  PROVE  /\ q \in QuestType
         /\ q.status = "Closing"
         /\ q.mode = quest.mode
         /\ q.reward_per_completion = quest.reward_per_completion
         /\ q.period_seconds = quest.period_seconds
         /\ q.start_at = quest.start_at
         /\ q.expires_at = quest.expires_at
         /\ q.queue_max = quest.queue_max
         /\ q.pending_count = quest.pending_count
         /\ q.next_submission_index = quest.next_submission_index
         /\ q.next_review_index = quest.next_review_index
         /\ q.total_approved = quest.total_approved
         /\ q.total_rejected = quest.total_rejected
         /\ q.total_paid_amount = quest.total_paid_amount
         /\ q.total_reward_funded = quest.total_reward_funded
         /\ q.total_deposit_funded = quest.total_deposit_funded
         /\ quest.status = "Open" =>
              /\ q.close_requested_at = now
              /\ q.closing_reason = IF now < quest.expires_at
                                    THEN "RewardPoolDepleted" ELSE "Expired"
         /\ quest.status = "Closing" => q = quest
  BY DEF StopForDepletion, QuestType, Statuses, Reasons

\* What CountApproval changes in a Quest account, and what it keeps.
LEMMA CountFacts ==
  ASSUME NEW q \in QuestType, q.pending_count # 0, NEW c, c = CountApproval(q)
  PROVE  /\ c \in QuestType
         /\ c.status = q.status
         /\ c.mode = q.mode
         /\ c.reward_per_completion = q.reward_per_completion
         /\ c.period_seconds = q.period_seconds
         /\ c.start_at = q.start_at
         /\ c.expires_at = q.expires_at
         /\ c.close_requested_at = q.close_requested_at
         /\ c.closing_reason = q.closing_reason
         /\ c.queue_max = q.queue_max
         /\ c.pending_count = q.pending_count - 1
         /\ c.next_submission_index = q.next_submission_index
         /\ c.next_review_index = q.next_review_index + 1
         /\ c.total_approved = q.total_approved + 1
         /\ c.total_rejected = q.total_rejected
         /\ c.total_paid_amount = q.total_paid_amount + q.reward_per_completion
         /\ c.total_reward_funded = q.total_reward_funded
         /\ c.total_deposit_funded = q.total_deposit_funded
  <1>1. /\ q.total_paid_amount + q.reward_per_completion \in Nat
        /\ q.total_approved + 1 \in Nat
        /\ q.next_review_index + 1 \in Nat
        /\ q.pending_count - 1 \in Nat
    BY FieldTypes
  <1> QED
    BY <1>1 DEF CountApproval, QuestType

\* What every accepted proof does, whichever pool pays.
LEMMA ApprovalTypes ==
  ASSUME Inv, NEW i \in DOMAIN submissions, ApproveAndPay(i)
  PROVE  /\ submissions'[i].status = "Approved"
         /\ submissions' \in [DOMAIN submissions -> SubmissionType]
         /\ \A j \in DOMAIN submissions : j # i => submissions'[j] = submissions[j]
         /\ progress' \in [Submitters -> ProgressType]
         /\ wallet' \in [Users -> Nat]
         /\ PoolsAreAlive'
         /\ UNCHANGED <<now, feeVault, publicGoods, rewardSent, depositSent>>
  <1>1. /\ quest.reward_per_completion \in Nat
        /\ submissions \in [DOMAIN submissions -> SubmissionType]
        /\ progress \in [Submitters -> ProgressType]
        /\ wallet \in [Users -> Nat]
    BY FieldTypes DEF Inv, TypeOK
  <1> DEFINE user == submissions[i].submitter
  <1>2. user \in Submitters /\ submissions[i].cycle_index \in Nat
    BY <1>1 DEF SubmissionType
  <1>3. /\ submissions'[i].status = "Approved"
        /\ submissions' \in [DOMAIN submissions -> SubmissionType]
        /\ \A j \in DOMAIN submissions : j # i => submissions'[j] = submissions[j]
    <2>1. CASE FromRewardPool(i)
      <3>1. [submissions[i] EXCEPT !.status = "Approved",
                !.paid_from_reward_pool = quest.reward_per_completion] \in SubmissionType
        BY <1>1 DEF SubmissionType
      <3> QED
        BY <1>1, <2>1, <3>1 DEF FromRewardPool, SubmissionType
    <2>2. CASE FromDepositPool(i)
      <3>1. [submissions[i] EXCEPT !.status = "Approved",
                !.paid_from_deposit_pool = quest.reward_per_completion] \in SubmissionType
        BY <1>1 DEF SubmissionType
      <3> QED
        BY <1>1, <2>2, <3>1 DEF FromDepositPool, SubmissionType
    <2> QED
      BY <2>1, <2>2 DEF ApproveAndPay
  <1>4. RecordApproval(progress[user], submissions[i].cycle_index) \in ProgressType
    BY <1>1, <1>2, RecordTypes
  <1>5. progress' = [progress EXCEPT
                      ![user] = RecordApproval(@, submissions[i].cycle_index)]
    BY DEF ApproveAndPay
  <1>6. wallet' = [wallet EXCEPT ![user] = @ + quest.reward_per_completion]
        /\ PoolsAreAlive'
        /\ UNCHANGED <<now, feeVault, publicGoods, rewardSent, depositSent>>
    BY DEF ApproveAndPay, PoolsAreAlive, sent
  <1> HIDE DEF user
  <1>7. progress' \in [Submitters -> ProgressType]
    BY <1>1, <1>2, <1>4, <1>5
  <1>8. wallet' \in [Users -> Nat]
    BY <1>1, <1>2, <1>6, UsersAssumption
  <1> QED
    BY <1>3, <1>6, <1>7, <1>8

\* An approval paid by the reward pool: the pool gives a whole reward, the deposit
\* is untouched and the queue shrinks.
LEMMA RewardPoolPaysKeepsInv ==
  ASSUME Inv, NEW i \in DOMAIN submissions, ApproveAndPay(i), FromRewardPool(i)
  PROVE  Inv'
  <1>1. /\ quest \in QuestType
        /\ rewardPool \in Nat /\ depositPool \in Nat
        /\ feeVault \in Nat /\ publicGoods \in Nat /\ now \in Nat
        /\ rewardSent \in Nat /\ depositSent \in Nat
        /\ submissions \in [0 .. quest.next_submission_index - 1 -> SubmissionType]
    BY DEF Inv, TypeOK
  <1>2. /\ quest.status = "Open" /\ rewardPool >= Reward
        /\ rewardPool' = rewardPool - Reward /\ depositPool' = depositPool
        /\ quest' = CountApproval(quest)
    BY DEF FromRewardPool, RewardPoolPays, Reward
  <1>3. NextInLine(i)
    BY DEF ApproveAndPay
  <1>4. quest.pending_count # 0
    BY <1>3, HeadFacts
  <1>5. /\ quest' \in QuestType
        /\ quest'.status = "Open"
        /\ quest'.mode = quest.mode
        /\ quest'.reward_per_completion = quest.reward_per_completion
        /\ quest'.period_seconds = quest.period_seconds
        /\ quest'.start_at = quest.start_at
        /\ quest'.queue_max = quest.queue_max
        /\ quest'.pending_count = quest.pending_count - 1
        /\ quest'.next_submission_index = quest.next_submission_index
        /\ quest'.next_review_index = quest.next_review_index + 1
        /\ quest'.total_approved = quest.total_approved + 1
        /\ quest'.total_rejected = quest.total_rejected
        /\ quest'.total_paid_amount = quest.total_paid_amount + Reward
        /\ quest'.total_reward_funded = quest.total_reward_funded
        /\ quest'.total_deposit_funded = quest.total_deposit_funded
    BY <1>1, <1>2, <1>4, CountFacts DEF Reward
  <1>6. /\ submissions'[i].status = "Approved"
        /\ submissions' \in [DOMAIN submissions -> SubmissionType]
        /\ \A j \in DOMAIN submissions : j # i => submissions'[j] = submissions[j]
        /\ progress' \in [Submitters -> ProgressType]
        /\ wallet' \in [Users -> Nat]
        /\ PoolsAreAlive'
        /\ UNCHANGED <<now, feeVault, publicGoods, rewardSent, depositSent>>
    BY ApprovalTypes
  <1>7. Reward \in Nat \ {0}
    BY <1>1, <1>2, FieldTypes DEF Inv, TermsHold, Reward, MIN_REWARD_AMOUNT
  <1>8. TypeOK'
    <2>1. rewardPool' \in Nat
      BY <1>1, <1>2, <1>7
    <2>2. DOMAIN submissions = 0 .. quest.next_submission_index - 1
      BY <1>1
    <2>3. (submissions \in [0 .. quest.next_submission_index - 1 -> SubmissionType])'
      BY <1>5, <1>6, <2>2
    <2> QED
      BY <1>1, <1>2, <1>5, <1>6, <2>1, <2>3 DEF TypeOK
  <1>9. TermsHold'
    BY <1>2, <1>5, <1>6 DEF Inv, TermsHold, Reward
  <1>10. QueueIsConsistent'
    <2>1. quest'.total_approved + quest'.total_rejected
            = quest.total_approved + quest.total_rejected + 1
      BY <1>1, <1>5, FieldTypes
    <2> QED
      BY <1>3, <1>5, <1>6, <2>1, DecisionKeepsQueue
  <1>11. WholeRewards'
    <2>1. (rewardPool - rewardSent) % Reward = 0 /\ rewardPool - rewardSent \in Int
      BY <1>1, <1>2 DEF Inv, WholeRewards, Live
    <2>2. ((rewardPool - rewardSent) - Reward) % Reward = 0
      BY <1>7, <2>1, SubMultiple
    <2>3. rewardPool' - rewardSent' = (rewardPool - rewardSent) - Reward
      BY <1>1, <1>2, <1>6, <1>7
    <2> QED
      BY <1>5, <2>2, <2>3 DEF WholeRewards, Reward
  <1>12. DepositCoversQueue'
    BY <1>2, <1>5 DEF Inv, DepositCoversQueue, Reward
  <1>13. PoolsMatchTotals'
    <2>1. rewardPool + depositPool + quest.total_paid_amount
            = quest.total_reward_funded + quest.total_deposit_funded
                + rewardSent + depositSent
      BY <1>2 DEF Inv, PoolsMatchTotals, Live
    <2>2. quest.total_paid_amount \in Nat
      BY <1>1, FieldTypes
    <2>3. (rewardPool - Reward) + depositPool + (quest.total_paid_amount + Reward)
            = quest.total_reward_funded + quest.total_deposit_funded
                + rewardSent + depositSent
      BY <1>1, <1>7, <2>1, <2>2
    <2> QED
      BY <1>2, <1>5, <1>6, <2>3 DEF PoolsMatchTotals
  <1> QED
    BY <1>5, <1>6, <1>8, <1>9, <1>10, <1>11, <1>12, <1>13
    DEF Inv, ReasonMatchesDeadline, DepletedPoolIsSpent

\* An approval paid by the deposit: it takes one reward from a deposit that
\* covered the queue with this proof in it, and closes an Open quest, whose
\* reward pool has then spent its funding.
LEMMA DepositPoolPaysKeepsInv ==
  ASSUME Inv, NEW i \in DOMAIN submissions, ApproveAndPay(i), FromDepositPool(i)
  PROVE  Inv'
  <1> DEFINE q == StopForDepletion(quest)
  <1>1. /\ quest \in QuestType
        /\ rewardPool \in Nat /\ depositPool \in Nat
        /\ feeVault \in Nat /\ publicGoods \in Nat /\ now \in Nat
        /\ rewardSent \in Nat /\ depositSent \in Nat
        /\ submissions \in [0 .. quest.next_submission_index - 1 -> SubmissionType]
    BY DEF Inv, TypeOK
  <1>2. /\ quest.status \in {"Open", "Closing"}
        /\ ~RewardPoolPays
        /\ depositPool >= Reward
        /\ depositPool' = depositPool - Reward /\ rewardPool' = rewardPool
        /\ quest' = CountApproval(q)
    BY DEF FromDepositPool, ApproveAndPay, Reward
  <1>3. NextInLine(i)
    BY DEF ApproveAndPay
  <1>4. quest.pending_count \in Nat \ {0}
    BY <1>3, HeadFacts
  <1>5. /\ q \in QuestType
        /\ q.pending_count = quest.pending_count
        /\ quest.status = "Open" =>
             /\ q.close_requested_at = now
             /\ q.closing_reason = IF now < quest.expires_at
                                   THEN "RewardPoolDepleted" ELSE "Expired"
        /\ quest.status = "Closing" => q = quest
    BY <1>1, <1>2, StopFacts
  <1>6. /\ quest' \in QuestType
        /\ quest'.status = "Closing"
        /\ quest'.mode = quest.mode
        /\ quest'.reward_per_completion = quest.reward_per_completion
        /\ quest'.period_seconds = quest.period_seconds
        /\ quest'.start_at = quest.start_at
        /\ quest'.expires_at = quest.expires_at
        /\ quest'.close_requested_at = q.close_requested_at
        /\ quest'.closing_reason = q.closing_reason
        /\ quest'.queue_max = quest.queue_max
        /\ quest'.pending_count = quest.pending_count - 1
        /\ quest'.next_submission_index = quest.next_submission_index
        /\ quest'.next_review_index = quest.next_review_index + 1
        /\ quest'.total_approved = quest.total_approved + 1
        /\ quest'.total_rejected = quest.total_rejected
        /\ quest'.total_paid_amount = quest.total_paid_amount + Reward
        /\ quest'.total_reward_funded = quest.total_reward_funded
        /\ quest'.total_deposit_funded = quest.total_deposit_funded
    <2> HIDE DEF q
    <2>1. q.pending_count # 0
      BY <1>4, <1>5
    <2> QED
      BY <1>1, <1>2, <1>5, <2>1, StopFacts, CountFacts DEF Reward, q
  <1> HIDE DEF q
  <1>7. /\ submissions'[i].status = "Approved"
        /\ submissions' \in [DOMAIN submissions -> SubmissionType]
        /\ \A j \in DOMAIN submissions : j # i => submissions'[j] = submissions[j]
        /\ progress' \in [Submitters -> ProgressType]
        /\ wallet' \in [Users -> Nat]
        /\ PoolsAreAlive'
        /\ UNCHANGED <<now, feeVault, publicGoods, rewardSent, depositSent>>
    BY ApprovalTypes
  <1>8. Reward \in Nat \ {0}
    BY <1>1, <1>2, FieldTypes DEF Inv, TermsHold, Reward, MIN_REWARD_AMOUNT
  <1>9. TypeOK'
    <2>1. depositPool' \in Nat
      BY <1>1, <1>2, <1>8
    <2>2. DOMAIN submissions = 0 .. quest.next_submission_index - 1
      BY <1>1
    <2>3. (submissions \in [0 .. quest.next_submission_index - 1 -> SubmissionType])'
      BY <1>6, <1>7, <2>2
    <2> QED
      BY <1>1, <1>2, <1>6, <1>7, <2>1, <2>3 DEF TypeOK
  <1>10. TermsHold'
    BY <1>2, <1>6, <1>7 DEF Inv, TermsHold, Reward
  <1>11. QueueIsConsistent'
    <2>1. quest'.total_approved + quest'.total_rejected
            = quest.total_approved + quest.total_rejected + 1
      BY <1>1, <1>6, FieldTypes
    <2> QED
      BY <1>3, <1>6, <1>7, <2>1, DecisionKeepsQueue
  <1>12. (rewardPool - rewardSent) % Reward = 0 /\ rewardPool - rewardSent \in Int
    BY <1>1, <1>2 DEF Inv, WholeRewards, Live
  <1>13. WholeRewards'
    BY <1>2, <1>6, <1>7, <1>12 DEF WholeRewards, Reward
  <1>14. DepositCoversQueue'
    <2>1. depositPool >= (quest.pending_count + 1) * Reward
      <3>1. CASE quest.status = "Open"
        <4>1. depositPool >= (quest.queue_max + 1) * Reward
          BY <3>1 DEF Inv, DepositCoversQueue
        <4>2. quest.queue_max \in Nat /\ quest.pending_count <= quest.queue_max
          BY <1>1, FieldTypes DEF Inv, QueueIsConsistent
        <4>3. (quest.pending_count + 1) * Reward <= (quest.queue_max + 1) * Reward
          BY <1>4, <1>8, <4>2, ProductGrows
        <4>4. /\ (quest.pending_count + 1) * Reward \in Nat
              /\ (quest.queue_max + 1) * Reward \in Nat
          BY <1>4, <1>8, <4>2
        <4> QED
          BY <1>1, <4>1, <4>3, <4>4
      <3>2. CASE quest.status = "Closing"
        BY <3>2 DEF Inv, DepositCoversQueue
      <3> QED
        BY <1>2, <3>1, <3>2
    <2>2. /\ (quest.pending_count + 1) * Reward = quest.pending_count * Reward + Reward
          /\ quest.pending_count * Reward \in Nat
      BY <1>4, <1>8, NextProduct
    <2>3. depositPool - Reward >= quest.pending_count * Reward
      BY <1>1, <1>8, <2>1, <2>2
    <2>4. quest'.pending_count + 1 = quest.pending_count
      BY <1>4, <1>6
    <2> QED
      BY <1>2, <1>6, <2>3, <2>4 DEF DepositCoversQueue, Reward
  <1>15. PoolsMatchTotals'
    <2>1. rewardPool + depositPool + quest.total_paid_amount
            = quest.total_reward_funded + quest.total_deposit_funded
                + rewardSent + depositSent
      BY <1>2 DEF Inv, PoolsMatchTotals, Live
    <2>2. quest.total_paid_amount \in Nat
      BY <1>1, FieldTypes
    <2>3. rewardPool + (depositPool - Reward) + (quest.total_paid_amount + Reward)
            = quest.total_reward_funded + quest.total_deposit_funded
                + rewardSent + depositSent
      BY <1>1, <1>8, <2>1, <2>2
    <2> QED
      BY <1>2, <1>6, <1>7, <2>3 DEF PoolsMatchTotals
  <1>16. ReasonMatchesDeadline'
    <2>1. quest.expires_at \in Nat
      BY <1>1, FieldTypes
    <2>2. CASE quest.status = "Open"
      BY <1>1, <1>5, <1>6, <2>1, <2>2 DEF ReasonMatchesDeadline
    <2>3. CASE quest.status = "Closing"
      BY <1>5, <1>6, <2>3 DEF Inv, ReasonMatchesDeadline
    <2> QED
      BY <1>2, <2>2, <2>3
  <1>17. DepletedPoolIsSpent'
    <2>1. CASE quest.status = "Open"
      <3>1. rewardPool < Reward
        BY <1>1, <1>2, <1>8, <2>1 DEF RewardPoolPays, Reward
      <3>2. rewardPool - rewardSent < Reward
        BY <1>1, <1>8, <3>1
      <3>3. ~(rewardPool - rewardSent > 0)
        BY <1>8, <1>12, <3>2, PositiveMultiple
      <3>4. rewardPool <= rewardSent
        BY <1>1, <3>3
      <3> QED
        BY <1>2, <1>7, <3>4 DEF DepletedPoolIsSpent
    <2>2. CASE quest.status = "Closing"
      BY <1>2, <1>5, <1>6, <1>7, <2>2 DEF Inv, DepletedPoolIsSpent
    <2> QED
      BY <1>2, <2>1, <2>2
  <1> QED
    BY <1>7, <1>9, <1>10, <1>11, <1>13, <1>14, <1>15, <1>16, <1>17 DEF Inv

\* approve_submission keeps the invariant, whichever pool pays.
LEMMA ApproveKeepsInv ==
  ASSUME Inv, NEW i \in DOMAIN submissions, ApproveAndPay(i)
  PROVE  Inv'
  <1>1. FromRewardPool(i) \/ FromDepositPool(i)
    BY DEF ApproveAndPay
  <1> QED
    BY <1>1, RewardPoolPaysKeepsInv, DepositPoolPaysKeepsInv

\* reject_submission keeps the invariant: it shortens the queue and moves no money.
LEMMA RejectKeepsInv ==
  ASSUME Inv, NEW signer \in Users, NEW i \in DOMAIN submissions,
         RejectSubmission(signer, i)
  PROVE  Inv'
  <1> DEFINE user == submissions[i].submitter
  <1>1. /\ NextInLine(i)
        /\ submissions' = [submissions EXCEPT ![i] = [@ EXCEPT !.status = "Rejected"]]
        /\ quest' = [quest EXCEPT !.next_review_index = @ + 1,
                                  !.pending_count = @ - 1,
                                  !.total_rejected = @ + 1]
        /\ progress' = [progress EXCEPT
                         ![user] = RecordRejection(@, submissions[i].cycle_index)]
        /\ UNCHANGED <<now, rewardPool, depositPool, feeVault, publicGoods, wallet,
                       rewardSent, depositSent>>
    BY DEF RejectSubmission, balances, sent
  <1>2. /\ quest \in QuestType
        /\ submissions \in [0 .. quest.next_submission_index - 1 -> SubmissionType]
        /\ progress \in [Submitters -> ProgressType]
    BY DEF Inv, TypeOK
  <1>3. quest.pending_count \in Nat \ {0} /\ submissions[i] \in SubmissionType
    BY <1>1, HeadFacts
  <1>4. /\ quest' \in QuestType
        /\ quest'.status = quest.status
        /\ quest'.mode = quest.mode
        /\ quest'.reward_per_completion = quest.reward_per_completion
        /\ quest'.period_seconds = quest.period_seconds
        /\ quest'.start_at = quest.start_at
        /\ quest'.expires_at = quest.expires_at
        /\ quest'.close_requested_at = quest.close_requested_at
        /\ quest'.closing_reason = quest.closing_reason
        /\ quest'.queue_max = quest.queue_max
        /\ quest'.pending_count = quest.pending_count - 1
        /\ quest'.next_submission_index = quest.next_submission_index
        /\ quest'.next_review_index = quest.next_review_index + 1
        /\ quest'.total_approved = quest.total_approved
        /\ quest'.total_rejected = quest.total_rejected + 1
        /\ quest'.total_paid_amount = quest.total_paid_amount
        /\ quest'.total_reward_funded = quest.total_reward_funded
        /\ quest'.total_deposit_funded = quest.total_deposit_funded
    <2>1. /\ quest.next_review_index + 1 \in Nat
          /\ quest.pending_count - 1 \in Nat
          /\ quest.total_rejected + 1 \in Nat
      BY <1>2, <1>3, FieldTypes
    <2> QED
      BY <1>1, <1>2, <2>1 DEF QuestType
  <1>5. /\ submissions'[i].status = "Rejected"
        /\ submissions' \in [DOMAIN submissions -> SubmissionType]
        /\ \A j \in DOMAIN submissions : j # i => submissions'[j] = submissions[j]
    <2>1. [submissions[i] EXCEPT !.status = "Rejected"] \in SubmissionType
      BY <1>3 DEF SubmissionType
    <2>2. [submissions[i] EXCEPT !.status = "Rejected"].status = "Rejected"
      BY <1>3 DEF SubmissionType
    <2> QED
      BY <1>1, <1>2, <2>1, <2>2
  <1>6. TypeOK'
    <2>1. user \in Submitters /\ submissions[i].cycle_index \in Nat
      BY <1>3 DEF SubmissionType
    <2>2. RecordRejection(progress[user], submissions[i].cycle_index) \in ProgressType
      BY <1>2, <2>1, RecordTypes
    <2>3. progress' \in [Submitters -> ProgressType]
      BY <1>1, <1>2, <2>1, <2>2
    <2>4. DOMAIN submissions = 0 .. quest.next_submission_index - 1
      BY <1>2
    <2>5. (submissions \in [0 .. quest.next_submission_index - 1 -> SubmissionType])'
      BY <1>4, <1>5, <2>4
    <2> QED
      BY <1>1, <1>4, <2>3, <2>5 DEF Inv, TypeOK
  <1>7. quest.status # "Absent"
    <2>1. i \in 0 .. quest.next_submission_index - 1
      BY <1>2
    <2> QED
      BY <2>1 DEF Inv, TermsHold, NoQuest
  <1>8. TermsHold'
    BY <1>1, <1>4, <1>7 DEF Inv, TermsHold, Reward
  <1>9. QueueIsConsistent'
    <2>1. quest'.total_approved + quest'.total_rejected
            = quest.total_approved + quest.total_rejected + 1
      <3>1. quest.total_approved \in Nat /\ quest.total_rejected \in Nat
        BY <1>2, FieldTypes
      <3>2. /\ quest'.total_approved = quest.total_approved
            /\ quest'.total_rejected = quest.total_rejected + 1
        BY <1>4
      <3> QED
        BY <3>1, <3>2
    <2> QED
      BY <1>1, <1>4, <1>5, <2>1, DecisionKeepsQueue
  <1>10. WholeRewards' /\ PoolsAreAlive' /\ PoolsMatchTotals'
    BY <1>1, <1>4 DEF Inv, WholeRewards, PoolsAreAlive, PoolsMatchTotals, Live, Reward
  <1>11. DepositCoversQueue'
    <2>1. CASE quest.status = "Open"
      BY <1>1, <1>4, <2>1 DEF Inv, DepositCoversQueue, Reward
    <2>2. CASE quest.status = "Closing"
      <3>1. depositPool >= (quest.pending_count + 1) * Reward
        BY <2>2 DEF Inv, DepositCoversQueue
      <3>2. Reward \in Nat /\ depositPool \in Nat
        BY <1>2, FieldTypes DEF Reward, Inv, TypeOK
      <3>3. /\ (quest.pending_count + 1) * Reward = quest.pending_count * Reward + Reward
            /\ quest.pending_count * Reward \in Nat
        BY <1>3, <3>2, NextProduct
      <3>4. depositPool >= quest.pending_count * Reward
        BY <3>1, <3>2, <3>3
      <3>5. quest'.pending_count + 1 = quest.pending_count
        BY <1>3, <1>4
      <3> QED
        BY <1>1, <1>4, <2>2, <3>4, <3>5 DEF DepositCoversQueue, Reward
    <2> QED
      BY <1>4, <2>1, <2>2 DEF DepositCoversQueue
  <1>12. ReasonMatchesDeadline' /\ DepletedPoolIsSpent'
    BY <1>1, <1>4 DEF Inv, ReasonMatchesDeadline, DepletedPoolIsSpent
  <1> QED
    BY <1>6, <1>8, <1>9, <1>10, <1>11, <1>12 DEF Inv

-----------------------------------------------------------------------------
\* A settlement closes the quest it is given and keeps everything but the money.
LEMMA SettlePoolsTypes ==
  ASSUME Inv, NEW q \in QuestType, SettlePools(q)
  PROVE  /\ quest' = [q EXCEPT !.status = "Closed"]
         /\ quest' \in QuestType
         /\ q.closing_reason # "None"
         /\ rewardPool' = 0 /\ depositPool' = 0
         /\ feeVault' \in Nat /\ publicGoods' \in Nat
         /\ wallet' \in [Users -> Nat]
  <1>1. /\ rewardPool \in Nat /\ depositPool \in Nat
        /\ feeVault \in Nat /\ publicGoods \in Nat
        /\ wallet \in [Users -> Nat]
    BY DEF Inv, TypeOK
  <1>2. quest' = [q EXCEPT !.status = "Closed"] /\ rewardPool' = 0 /\ depositPool' = 0
    BY DEF SettlePools
  <1>3. quest' \in QuestType
    BY <1>2 DEF QuestType, Statuses
  <1>4. CASE q.closing_reason = "Expired" /\ RefundPublisher
    BY <1>1, <1>2, <1>3, <1>4, UsersAssumption DEF RefundPublisher
  <1>5. CASE /\ q.closing_reason \in {"EarlyManual", "RewardPoolDepleted"}
             /\ ForfeitToPublicGoods
    <2> DEFINE fee == Fee(depositPool, CANCELLATION_FEE_BPS)
    <2>1. fee \in Nat /\ fee <= depositPool
      BY <1>1, FeeIsPart
    <2>2. /\ feeVault' = feeVault + fee
          /\ publicGoods' = publicGoods + rewardPool + (depositPool - fee)
          /\ UNCHANGED wallet
      BY <1>5 DEF ForfeitToPublicGoods
    <2> HIDE DEF fee
    <2> QED
      BY <1>1, <1>2, <1>3, <1>5, <2>1, <2>2
  <1> QED
    BY <1>4, <1>5 DEF SettlePools

\* close_quest keeps the invariant, settling at once or leaving the queue to wait.
LEMMA CloseKeepsInv ==
  ASSUME Inv, NEW signer \in Users, CloseQuest(signer)
  PROVE  Inv'
  <1> DEFINE closing == [quest EXCEPT
                          !.status = "Closing", !.close_requested_at = now,
                          !.closing_reason = IF now >= quest.expires_at
                                             THEN "Expired"
                                             ELSE "EarlyManual"]
  <1>1. /\ quest \in QuestType /\ now \in Nat
        /\ submissions \in [0 .. quest.next_submission_index - 1 -> SubmissionType]
        /\ progress \in [Submitters -> ProgressType]
        /\ feeVault \in Nat /\ publicGoods \in Nat /\ wallet \in [Users -> Nat]
        /\ rewardPool \in Nat /\ depositPool \in Nat
        /\ rewardSent \in Nat /\ depositSent \in Nat
    BY DEF Inv, TypeOK
  <1>2. /\ quest.status = "Open"
        /\ \/ SettlePools(closing)
           \/ quest' = closing /\ UNCHANGED balances
        /\ UNCHANGED <<now, submissions, progress, rewardSent, depositSent>>
    BY DEF CloseQuest, sent
  <1>3. closing \in QuestType
    BY <1>1 DEF QuestType, Statuses, Reasons
  <1>4. /\ closing.mode = quest.mode
        /\ closing.status = "Closing"
        /\ closing.reward_per_completion = quest.reward_per_completion
        /\ closing.period_seconds = quest.period_seconds
        /\ closing.start_at = quest.start_at
        /\ closing.expires_at = quest.expires_at
        /\ closing.close_requested_at = now
        /\ closing.closing_reason \in {"Expired", "EarlyManual"}
        /\ closing.closing_reason = "Expired" <=> now >= quest.expires_at
        /\ closing.queue_max = quest.queue_max
        /\ closing.pending_count = quest.pending_count
        /\ closing.next_submission_index = quest.next_submission_index
        /\ closing.next_review_index = quest.next_review_index
        /\ closing.total_approved = quest.total_approved
        /\ closing.total_rejected = quest.total_rejected
        /\ closing.total_paid_amount = quest.total_paid_amount
        /\ closing.total_reward_funded = quest.total_reward_funded
        /\ closing.total_deposit_funded = quest.total_deposit_funded
    BY <1>1 DEF QuestType
  <1> HIDE DEF closing
  <1>5. /\ quest' \in QuestType
        /\ quest'.status \in {"Closing", "Closed"}
        /\ quest'.mode = quest.mode
        /\ quest'.reward_per_completion = quest.reward_per_completion
        /\ quest'.period_seconds = quest.period_seconds
        /\ quest'.start_at = quest.start_at
        /\ quest'.expires_at = quest.expires_at
        /\ quest'.close_requested_at = now
        /\ quest'.closing_reason \in {"Expired", "EarlyManual"}
        /\ quest'.closing_reason = "Expired" <=> now >= quest.expires_at
        /\ quest'.queue_max = quest.queue_max
        /\ quest'.pending_count = quest.pending_count
        /\ quest'.next_submission_index = quest.next_submission_index
        /\ quest'.next_review_index = quest.next_review_index
        /\ quest'.total_approved = quest.total_approved
        /\ quest'.total_rejected = quest.total_rejected
        /\ quest'.total_paid_amount = quest.total_paid_amount
        /\ quest'.total_reward_funded = quest.total_reward_funded
        /\ quest'.total_deposit_funded = quest.total_deposit_funded
        /\ feeVault' \in Nat /\ publicGoods' \in Nat /\ wallet' \in [Users -> Nat]
        /\ quest'.status = "Closing" => UNCHANGED <<rewardPool, depositPool>>
        /\ rewardPool' \in Nat /\ depositPool' \in Nat
        /\ PoolsAreAlive'
    <2>1. CASE SettlePools(closing)
      <3>1. /\ quest' = [closing EXCEPT !.status = "Closed"]
            /\ quest' \in QuestType
            /\ rewardPool' = 0 /\ depositPool' = 0
            /\ feeVault' \in Nat /\ publicGoods' \in Nat /\ wallet' \in [Users -> Nat]
        BY <1>3, <2>1, SettlePoolsTypes
      <3> QED
        BY <1>3, <1>4, <3>1 DEF QuestType, PoolsAreAlive, RentExempt
    <2>2. CASE quest' = closing /\ UNCHANGED balances
      BY <1>1, <1>3, <1>4, <2>2 DEF balances, Inv, PoolsAreAlive
    <2> QED
      BY <1>2, <2>1, <2>2
  <1>6. TypeOK'
    BY <1>1, <1>2, <1>5 DEF TypeOK
  <1>7. TermsHold'
    BY <1>2, <1>5 DEF Inv, TermsHold, Reward
  <1>8. QueueIsConsistent'
    BY <1>2, <1>5 DEF Inv, QueueIsConsistent
  <1>9. WholeRewards'
    BY <1>2, <1>5 DEF Inv, WholeRewards, Live, Reward
  <1>10. PoolsMatchTotals'
    BY <1>2, <1>5 DEF Inv, PoolsMatchTotals, Live
  <1>11. DepositCoversQueue'
    <2>1. depositPool >= (quest.pending_count + 1) * Reward
      <3>1. depositPool >= (quest.queue_max + 1) * Reward
        BY <1>2 DEF Inv, DepositCoversQueue
      <3>2. /\ quest.queue_max \in Nat /\ quest.pending_count \in Nat
            /\ Reward \in Nat /\ quest.pending_count <= quest.queue_max
        BY <1>1, FieldTypes DEF Reward, Inv, QueueIsConsistent
      <3>3. (quest.pending_count + 1) * Reward <= (quest.queue_max + 1) * Reward
        BY <3>2, ProductGrows
      <3>4. /\ (quest.pending_count + 1) * Reward \in Nat
            /\ (quest.queue_max + 1) * Reward \in Nat
        BY <3>2
      <3> QED
        BY <1>1, <3>1, <3>3, <3>4
    <2> QED
      BY <1>5, <2>1 DEF DepositCoversQueue, Reward
  <1>12. ReasonMatchesDeadline' /\ DepletedPoolIsSpent'
    BY <1>5 DEF ReasonMatchesDeadline, DepletedPoolIsSpent
  <1> QED
    BY <1>5, <1>6, <1>7, <1>8, <1>9, <1>10, <1>11, <1>12 DEF Inv

\* settle_quest keeps the invariant: it closes the quest with its reason and
\* deadline unchanged.
LEMMA SettleKeepsInv ==
  ASSUME Inv, SettleQuest
  PROVE  Inv'
  <1>1. /\ quest \in QuestType
        /\ quest.status = "Closing"
        /\ SettlePools(quest)
        /\ UNCHANGED <<now, submissions, progress, rewardSent, depositSent>>
    BY DEF SettleQuest, Inv, TypeOK, sent
  <1>2. /\ quest' = [quest EXCEPT !.status = "Closed"]
        /\ quest' \in QuestType
        /\ rewardPool' = 0 /\ depositPool' = 0
        /\ feeVault' \in Nat /\ publicGoods' \in Nat /\ wallet' \in [Users -> Nat]
    BY <1>1, SettlePoolsTypes
  <1>3. /\ quest'.status = "Closed"
        /\ quest'.mode = quest.mode
        /\ quest'.reward_per_completion = quest.reward_per_completion
        /\ quest'.period_seconds = quest.period_seconds
        /\ quest'.start_at = quest.start_at
        /\ quest'.expires_at = quest.expires_at
        /\ quest'.close_requested_at = quest.close_requested_at
        /\ quest'.closing_reason = quest.closing_reason
        /\ quest'.queue_max = quest.queue_max
        /\ quest'.pending_count = quest.pending_count
        /\ quest'.next_submission_index = quest.next_submission_index
        /\ quest'.next_review_index = quest.next_review_index
        /\ quest'.total_approved = quest.total_approved
        /\ quest'.total_rejected = quest.total_rejected
    BY <1>1, <1>2 DEF QuestType
  <1>4. TypeOK'
    BY <1>1, <1>2, <1>3 DEF Inv, TypeOK
  <1>5. TermsHold'
    BY <1>1, <1>3 DEF Inv, TermsHold, Reward
  <1>6. QueueIsConsistent'
    BY <1>1, <1>3 DEF Inv, QueueIsConsistent
  <1>7. ReasonMatchesDeadline'
    BY <1>1, <1>3 DEF Inv, ReasonMatchesDeadline
  <1>8. PoolsAreAlive'
    BY <1>2 DEF PoolsAreAlive, RentExempt
  <1> QED
    BY <1>3, <1>4, <1>5, <1>6, <1>7, <1>8
    DEF Inv, WholeRewards, PoolsMatchTotals, DepositCoversQueue,
        DepletedPoolIsSpent, Live

\* What happens outside a quest's own accounts breaks nothing: the recorded reason
\* does not depend on the clock, and no promise is about the shared vaults.
LEMMA OwnAccountsKeepInv ==
  ASSUME Inv, UNCHANGED <<quest, submissions, progress, rewardPool, depositPool,
                          rewardSent, depositSent>>,
         now' \in Nat, now <= now',
         feeVault' \in Nat, publicGoods' \in Nat, wallet' \in [Users -> Nat]
  PROVE  Inv'
  <1>1. TypeOK'
    BY DEF Inv, TypeOK
  <1>2. TermsHold'
    <2>1. now \in Nat /\ quest.start_at \in Nat
      BY FieldTypes DEF Inv, TypeOK
    <2> QED
      BY <2>1 DEF Inv, TermsHold, Reward
  <1> QED
    BY <1>1, <1>2
    DEF Inv, QueueIsConsistent, WholeRewards, PoolsAreAlive, PoolsMatchTotals,
        DepositCoversQueue, ReasonMatchesDeadline, DepletedPoolIsSpent, Live, Reward

\* A transfer puts as much into a pool as it adds to what was sent there, and
\* touches nothing else.
LEMMA SendFacts ==
  ASSUME Inv, NEW amount \in Transfers, SendToPool(amount)
  PROVE  /\ UNCHANGED <<now, quest, submissions, progress, feeVault, publicGoods, wallet>>
         /\ \E toReward \in Nat, toDeposit \in Nat :
              /\ rewardPool' = rewardPool + toReward
              /\ rewardSent' = rewardSent + toReward
              /\ depositPool' = depositPool + toDeposit
              /\ depositSent' = depositSent + toDeposit
  <1>1. /\ rewardPool \in Nat /\ depositPool \in Nat
        /\ rewardSent \in Nat /\ depositSent \in Nat
        /\ amount \in Nat
    BY BoundsAssumption DEF Inv, TypeOK
  <1>2. UNCHANGED <<now, quest, submissions, progress, feeVault, publicGoods, wallet>>
    BY DEF SendToPool, accounts
  <1>3. CASE /\ rewardPool' = rewardPool + amount
             /\ rewardSent' = rewardSent + amount
             /\ UNCHANGED <<depositPool, depositSent>>
    <2>1. depositPool' = depositPool + 0 /\ depositSent' = depositSent + 0
      BY <1>1, <1>3
    <2> QED BY <1>1, <1>2, <1>3, <2>1
  <1>4. CASE /\ depositPool' = depositPool + amount
             /\ depositSent' = depositSent + amount
             /\ UNCHANGED <<rewardPool, rewardSent>>
    <2>1. rewardPool' = rewardPool + 0 /\ rewardSent' = rewardSent + 0
      BY <1>1, <1>4
    <2> QED BY <1>1, <1>2, <1>4, <2>1
  <1> QED BY <1>3, <1>4 DEF SendToPool

\* A transfer to a pool adds nothing to what the promises count but what was sent.
LEMMA SendKeepsInv ==
  ASSUME Inv, NEW amount \in Transfers, SendToPool(amount)
  PROVE  Inv'
  <1>1. /\ rewardPool \in Nat /\ depositPool \in Nat
        /\ rewardSent \in Nat /\ depositSent \in Nat
    BY DEF Inv, TypeOK
  <1>2. UNCHANGED <<now, quest, submissions, progress, feeVault, publicGoods, wallet>>
    BY SendFacts
  <1>3. PICK toReward \in Nat, toDeposit \in Nat :
          /\ rewardPool' = rewardPool + toReward
          /\ rewardSent' = rewardSent + toReward
          /\ depositPool' = depositPool + toDeposit
          /\ depositSent' = depositSent + toDeposit
    BY SendFacts
  <1>4. TypeOK'
    <2>1. /\ rewardPool' \in Nat /\ depositPool' \in Nat
          /\ rewardSent' \in Nat /\ depositSent' \in Nat
      BY <1>1, <1>3
    <2> QED BY <1>2, <2>1 DEF Inv, TypeOK
  <1>5. TermsHold'
    BY <1>1, <1>2, <1>3 DEF Inv, TermsHold, Reward
  <1>6. QueueIsConsistent' /\ ReasonMatchesDeadline'
    BY <1>2 DEF Inv, QueueIsConsistent, ReasonMatchesDeadline
  <1>7. WholeRewards' /\ PoolsAreAlive'
    <2>1. rewardPool' - rewardSent' = rewardPool - rewardSent
      <3>1. (rewardPool + toReward) - (rewardSent + toReward) = rewardPool - rewardSent
        BY <1>1
      <3> QED BY <1>3, <3>1
    <2> QED
      BY <1>2, <2>1 DEF Inv, WholeRewards, PoolsAreAlive, Live, Reward, SendToPool
  <1>8. DepositCoversQueue'
    <2>1. /\ quest.queue_max \in Nat /\ quest.pending_count \in Nat /\ Reward \in Nat
      BY FieldTypes DEF Inv, TypeOK, Reward
    <2>2. (quest.queue_max + 1) * Reward \in Nat /\ (quest.pending_count + 1) * Reward \in Nat
      BY <2>1
    <2> QED
      BY <1>1, <1>2, <1>3, <2>2 DEF Inv, DepositCoversQueue, Reward
  <1>9. PoolsMatchTotals'
    <2>1. /\ quest.total_paid_amount \in Nat
          /\ quest.total_reward_funded \in Nat
          /\ quest.total_deposit_funded \in Nat
      BY FieldTypes DEF Inv, TypeOK
    <2>2. ASSUME Live
          PROVE  (rewardPool + toReward) + (depositPool + toDeposit)
                     + quest.total_paid_amount
                   = quest.total_reward_funded + quest.total_deposit_funded
                       + (rewardSent + toReward) + (depositSent + toDeposit)
      <3>1. rewardPool + depositPool + quest.total_paid_amount
              = quest.total_reward_funded + quest.total_deposit_funded
                  + rewardSent + depositSent
        BY <2>2 DEF Inv, PoolsMatchTotals
      <3> DEFINE paid    == quest.total_paid_amount
                 rewards == quest.total_reward_funded
                 deposit == quest.total_deposit_funded
      <3>2. paid \in Nat /\ rewards \in Nat /\ deposit \in Nat
        BY <2>1
      <3>3. rewardPool + depositPool + paid = rewards + deposit + rewardSent + depositSent
        BY <3>1
      <3> HIDE DEF paid, rewards, deposit
      <3>4. (rewardPool + toReward) + (depositPool + toDeposit) + paid
              = rewards + deposit + (rewardSent + toReward) + (depositSent + toDeposit)
        BY <1>1, <3>2, <3>3
      <3> QED
        BY <3>4 DEF paid, rewards, deposit
    <2> QED
      BY <1>2, <1>3, <2>2 DEF PoolsMatchTotals, Live
  <1>10. DepletedPoolIsSpent'
    <2>1. rewardPool <= rewardSent => rewardPool + toReward <= rewardSent + toReward
      BY <1>1
    <2> QED
      BY <1>2, <1>3, <2>1 DEF Inv, DepletedPoolIsSpent
  <1> QED
    BY <1>4, <1>5, <1>6, <1>7, <1>8, <1>9, <1>10 DEF Inv

\* Only Tick moves the clock, and never backwards.
LEMMA ClockGoesOn ==
  ASSUME Inv, [Next]_vars
  PROVE  now \in Nat /\ now' \in Nat /\ now <= now'
  <1>1. now \in Nat
    BY DEF Inv, TypeOK
  <1>2. CASE Tick
    BY <1>1, <1>2, BoundsAssumption DEF Tick
  <1>3. CASE UNCHANGED now
    BY <1>1, <1>3
  <1>4. Tick \/ UNCHANGED now
    BY DEF Next, CreateQuest, FundQuest, SubmitProof, ApproveSubmission, ApproveAndPay,
           RejectSubmission, CloseQuest, SettleQuest, SendToPool, vars
  <1> QED
    BY <1>2, <1>3, <1>4

\* The clock changes nothing but the time, which only goes on.
LEMMA TickKeepsInv ==
  ASSUME Inv, Tick
  PROVE  Inv'
  <1>1. UNCHANGED <<quest, submissions, progress, rewardPool, depositPool,
                    feeVault, publicGoods, wallet, rewardSent, depositSent>>
    BY DEF Tick, accounts, balances, sent
  <1>2. /\ now' \in Nat /\ now <= now'
        /\ feeVault \in Nat /\ publicGoods \in Nat /\ wallet \in [Users -> Nat]
    BY ClockGoesOn DEF Next, Inv, TypeOK
  <1> QED
    BY <1>1, <1>2, OwnAccountsKeepInv

-----------------------------------------------------------------------------
(***************************************************************************)
(* The theorems                                                            *)
(***************************************************************************)

\* Every step of the program keeps the invariant.
LEMMA NextKeepsInv ==
  ASSUME Inv, [Next]_vars
  PROVE  Inv'
  <1>1. CASE \E args \in CreateArgs : CreateQuest(args)
    BY <1>1, CreateKeepsInv
  <1>2. CASE \E signer \in Users, args \in FundArgs : FundQuest(signer, args)
    BY <1>2, FundKeepsInv
  <1>3. CASE \E u \in Submitters : SubmitProof(u)
    BY <1>3, SubmitKeepsInv
  <1>4. CASE \E signer \in Users, i \in DOMAIN submissions : ApproveSubmission(signer, i)
    BY <1>4, ApproveKeepsInv DEF ApproveSubmission
  <1>5. CASE \E signer \in Users, i \in DOMAIN submissions : RejectSubmission(signer, i)
    BY <1>5, RejectKeepsInv
  <1>6. CASE \E signer \in Users : CloseQuest(signer)
    BY <1>6, CloseKeepsInv
  <1>7. CASE SettleQuest
    BY <1>7, SettleKeepsInv
  <1>8. CASE \E amount \in Transfers : SendToPool(amount)
    BY <1>8, SendKeepsInv
  <1>9. CASE Tick
    BY <1>9, TickKeepsInv
  <1>10. CASE UNCHANGED vars
    <2>1. UNCHANGED <<now, quest, submissions, progress, rewardPool, depositPool,
                      feeVault, publicGoods, wallet, rewardSent, depositSent>>
      BY <1>10 DEF vars, accounts, balances, sent
    <2> QED
      BY <2>1
      DEF Inv, TypeOK, TermsHold, QueueIsConsistent, WholeRewards, PoolsAreAlive,
          DepositCoversQueue, PoolsMatchTotals, ReasonMatchesDeadline,
          DepletedPoolIsSpent, Live, Reward
  <1> QED
    BY <1>1, <1>2, <1>3, <1>4, <1>5, <1>6, <1>7, <1>8, <1>9, <1>10 DEF Next

\* The inductive invariant holds in every state the program reaches.
THEOREM Invariance == Spec => []Inv
  <1>1. Init => Inv
    BY InitHasInv
  <1>2. Inv /\ [Next]_vars => Inv'
    BY NextKeepsInv
  <1> QED
    BY <1>1, <1>2, PTL DEF Spec

\* No balance, counter or cycle number leaves its type, whatever users do.
THEOREM TypeCorrect == Spec => []TypeOK
  <1>1. Inv => TypeOK
    BY DEF Inv
  <1> QED
    BY <1>1, Invariance, PTL

\* The queue is decided in order of submission and its counters agree.
THEOREM QueueInOrder == Spec => []QueueIsConsistent
  <1>1. Inv => QueueIsConsistent
    BY DEF Inv
  <1> QED
    BY <1>1, Invariance, PTL

\* The deposit covers whoever waits, and a reward more.
THEOREM QueueCovered == Spec => []DepositCoversQueue
  <1>1. Inv => DepositCoversQueue
    BY DEF Inv
  <1> QED
    BY <1>1, Invariance, PTL

\* Until the settlement the pools hold all that came in and was not paid out.
THEOREM Ledger == Spec => []PoolsMatchTotals
  <1>1. Inv => PoolsMatchTotals
    BY DEF Inv
  <1> QED
    BY <1>1, Invariance, PTL

\* The recorded reason agrees with the deadline the quest has.
THEOREM ReasonRight == Spec => []ReasonMatchesDeadline
  <1>1. Inv => ReasonMatchesDeadline
    BY DEF Inv
  <1> QED
    BY <1>1, Invariance, PTL

\* A depleted quest has no reward funding left to forfeit: what is still in its
\* reward pool others sent there, before or after.
THEOREM DepletedIsSpent == Spec => []DepletedPoolIsSpent
  <1>1. Inv => DepletedPoolIsSpent
    BY DEF Inv
  <1> QED
    BY <1>1, Invariance, PTL

\* Two balances that are whole rewards apart leave the same remainder.
LEMMA SameRemainder ==
  ASSUME NEW a \in Nat, NEW b \in Nat, NEW r \in Nat \ {0}, (a - b) % r = 0
  PROVE  a % r = b % r
  <1>1. PICK k \in Int : a - b = k * r
    <2>1. a - b \in Int
      OBVIOUS
    <2> QED BY <2>1, MultipleExists
  <1>2. a = k * r + b
    BY <1>1
  <1>3. (k * r + b) % r = b % r
    <2>1. b = (b \div r) * r + (b % r) /\ b \div r \in Nat /\ b % r \in 0 .. r - 1
      OBVIOUS
    <2>2. k * r + b = (k + (b \div r)) * r + (b % r)
      BY <2>1
    <2>3. \A q \in Int, s \in 0 .. r - 1 : (q * r + s) % r = s
      OBVIOUS
    <2> QED BY <2>1, <2>2, <2>3
  <1> QED BY <1>2, <1>3

\* Whoever is at the head of the queue can be paid in full, by the pool the
\* program picks, and what stays in that pool keeps it alive; the one exception is
\* a reward pool down to one reward and the remainder of what others sent there.
THEOREM ReviewCanPay == Spec => []HeadIsPayable
  <1>1. Inv => HeadIsPayable
    <2> SUFFICES ASSUME Inv, Live, quest.pending_count > 0
                 PROVE  HeadCanBePaid \/ HeadIsBlocked
      BY DEF HeadIsPayable
    <2>1. /\ quest \in QuestType /\ rewardPool \in Nat /\ depositPool \in Nat
          /\ rewardSent \in Nat
      BY DEF Inv, TypeOK
    <2>2. /\ Reward \in Nat \ {0} /\ Reward >= RENT_MINIMUM
          /\ quest.pending_count \in Nat \ {0} /\ quest.queue_max \in Nat
          /\ quest.pending_count <= quest.queue_max
      BY <2>1, FieldTypes, RentAssumption
      DEF Inv, TermsHold, Live, Reward, MIN_REWARD_AMOUNT, QueueIsConsistent
    <2>3. CASE RewardPoolPays
      <3> DEFINE left == rewardPool - Reward
      <3>1. left \in Nat
        BY <2>1, <2>2, <2>3 DEF RewardPoolPays, Reward
      <3>2. CASE left >= Reward
        BY <2>2, <2>3, <3>1, <3>2, RentAssumption DEF HeadCanBePaid, RentExempt
      <3>3. CASE left < Reward
        <4>1. (rewardPool - rewardSent) % Reward = 0
          BY DEF Inv, WholeRewards
        <4>2. (left - rewardSent) % Reward = 0
          <5> DEFINE own == rewardPool - rewardSent
          <5>1. (own - Reward) % Reward = 0
            <6>1. own \in Int /\ own % Reward = 0
              BY <2>1, <4>1
            <6> HIDE DEF own
            <6> QED BY <2>2, <6>1, SubMultiple
          <5>2. (rewardPool - rewardSent) - Reward = left - rewardSent
            BY <2>1, <2>2
          <5> QED BY <5>1, <5>2
        <4>3. left % Reward = Remainder
          BY <2>1, <2>2, <3>1, <4>2, SameRemainder DEF Remainder
        <4>4. left % Reward = left
          BY <2>2, <3>1, <3>3
        <4>5. left = Remainder /\ rewardPool = Reward + Remainder
          BY <2>1, <2>2, <4>3, <4>4
        <4> QED
          BY <2>3, <4>5 DEF HeadCanBePaid, HeadIsBlocked
      <3> QED
        BY <2>2, <3>1, <3>2, <3>3
    <2>4. CASE ~RewardPoolPays
      <3>1. PICK n \in Nat \ {0} : depositPool >= (n + 1) * Reward
        BY <2>2 DEF Inv, DepositCoversQueue, Live
      <3>2. (n + 1) * Reward >= 2 * Reward /\ (n + 1) * Reward \in Nat
        BY <2>2, <3>1, ProductGrows
      <3>3. depositPool >= Reward /\ depositPool - Reward >= RENT_MINIMUM
        BY <2>1, <2>2, <3>1, <3>2, RentAssumption
      <3> QED
        BY <2>4, <3>3 DEF HeadCanBePaid, RentExempt
    <2> QED
      BY <2>3, <2>4
  <1> QED
    BY <1>1, Invariance, PTL

\* A quest that left Open keeps its terms, and a Closed one all its accounts.
THEOREM TermsFinal == Spec => ClosingIsFinal
  <1>1. Inv /\ [Next]_vars => [KeepsTerms]_vars
    <2> SUFFICES ASSUME Inv, Next, quest.status \in {"Closing", "Closed"}
                 PROVE  KeepsTerms
      BY DEF KeepsTerms
    <2>1. quest \in QuestType
      BY DEF Inv, TypeOK
    <2>2. CASE \E args \in CreateArgs : CreateQuest(args)
      BY <2>2 DEF CreateQuest
    <2>3. CASE \E signer \in Users, args \in FundArgs : FundQuest(signer, args)
      BY <2>3 DEF FundQuest, FundingIsOpen
    <2>4. CASE \E u \in Submitters : SubmitProof(u)
      BY <2>4 DEF SubmitProof
    <2>5. CASE \E signer \in Users, i \in DOMAIN submissions : ApproveSubmission(signer, i)
      <3>1. PICK i \in DOMAIN submissions : ApproveAndPay(i)
        BY <2>5 DEF ApproveSubmission
      <3>2. quest.status = "Closing" /\ NextInLine(i)
        BY <3>1 DEF ApproveAndPay
      <3>3. quest.pending_count # 0
        BY <3>2, HeadFacts
      <3>4. quest' = CountApproval(quest)
        BY <3>1, <3>2
        DEF ApproveAndPay, FromRewardPool, FromDepositPool, RewardPoolPays,
            StopForDepletion
      <3> QED
        BY <2>1, <3>2, <3>3, <3>4, CountFacts DEF KeepsTerms
    <2>6. CASE \E signer \in Users, i \in DOMAIN submissions : RejectSubmission(signer, i)
      <3>1. /\ quest.status = "Closing"
            /\ quest' = [quest EXCEPT !.next_review_index = @ + 1,
                                      !.pending_count = @ - 1,
                                      !.total_rejected = @ + 1]
        BY <2>6 DEF RejectSubmission
      <3> QED
        BY <2>1, <3>1 DEF KeepsTerms, QuestType
    <2>7. CASE \E signer \in Users : CloseQuest(signer)
      BY <2>7 DEF CloseQuest
    <2>8. CASE SettleQuest
      <3>1. /\ quest.status = "Closing"
            /\ quest' = [quest EXCEPT !.status = "Closed"]
        BY <2>8 DEF SettleQuest, SettlePools
      <3> QED
        BY <2>1, <3>1 DEF KeepsTerms, QuestType
    <2>9. CASE \E amount \in Transfers : SendToPool(amount)
      <3>1. PICK amount \in Transfers : SendToPool(amount)
        BY <2>9
      <3>2. rewardPool \in Nat /\ depositPool \in Nat /\ amount \in Nat
        BY BoundsAssumption DEF Inv, TypeOK
      <3>3. rewardPool' >= rewardPool /\ depositPool' >= depositPool
        BY <3>1, <3>2 DEF SendToPool
      <3> QED
        BY <3>1, <3>3 DEF SendToPool, KeepsTerms, accounts
    <2>10. CASE Tick
      <3>1. rewardPool' >= rewardPool /\ depositPool' >= depositPool
        BY <2>10 DEF Tick, balances, Inv, TypeOK
      <3> QED
        BY <2>10, <3>1 DEF Tick, KeepsTerms, accounts, balances
    <2> QED
      BY <2>2, <2>3, <2>4, <2>5, <2>6, <2>7, <2>8, <2>9, <2>10 DEF Next
  <1> QED
    BY <1>1, Invariance, PTL DEF ClosingIsFinal, Spec

\* A settlement that pays out pays everything, with nobody waiting, and the
\* publisher gets it exactly when the quest stopped after its deadline.
LEMMA SettlementPaysEverything ==
  ASSUME Inv, NEW q \in QuestType, SettlePools(q), Inv',
         quest.pending_count = 0, PaidOut > 0
  PROVE  PaysEverything
  <1>1. /\ rewardPool \in Nat /\ depositPool \in Nat
        /\ wallet \in [Users -> Nat]
    BY DEF Inv, TypeOK
  <1>2. /\ quest' = [q EXCEPT !.status = "Closed"]
        /\ rewardPool' = 0 /\ depositPool' = 0
    BY DEF SettlePools
  <1>3. quest'.status = "Closed" /\ quest'.closing_reason = q.closing_reason
    BY <1>2 DEF QuestType
  <1>4. quest'.closing_reason = "Expired"
          <=> quest'.close_requested_at >= quest'.expires_at
    BY <1>3 DEF Inv, ReasonMatchesDeadline
  <1>5. PaidOut = rewardPool + depositPool
    BY <1>1, <1>2 DEF PaidOut
  <1>6. CASE q.closing_reason = "Expired" /\ RefundPublisher
    <2>1. wallet'[Publisher] = wallet[Publisher] + rewardPool + depositPool
      BY <1>1, <1>6, UsersAssumption DEF RefundPublisher
    <2>2. wallet[Publisher] \in Nat
      BY <1>1, UsersAssumption
    <2>3. wallet'[Publisher] = wallet[Publisher] + PaidOut
      BY <1>1, <1>5, <2>1, <2>2
    <2> QED
      BY <1>2, <1>3, <1>4, <1>6, <2>3 DEF PaysEverything
  <1>7. CASE q.closing_reason # "Expired" /\ UNCHANGED wallet
    BY <1>2, <1>3, <1>4, <1>7 DEF PaysEverything
  <1> QED
    BY <1>6, <1>7 DEF SettlePools, ForfeitToPublicGoods

\* What an approval takes out of the pools is one reward, for the head of the queue.
LEMMA ApprovalPaysHead ==
  ASSUME Inv, NEW i \in DOMAIN submissions, ApproveAndPay(i)
  PROVE  PaysTheHead
  <1>1. quest \in QuestType /\ rewardPool \in Nat /\ depositPool \in Nat
    BY DEF Inv, TypeOK
  <1>2. NextInLine(i)
    BY DEF ApproveAndPay
  <1>3. i = quest.next_review_index /\ quest.pending_count > 0
    BY <1>2, HeadFacts
  <1>4. Reward \in Nat
    BY <1>1, FieldTypes DEF Reward
  <1>5. PaidOut = Reward
    <2>1. \/ rewardPool' = rewardPool - Reward /\ depositPool' = depositPool
          \/ depositPool' = depositPool - Reward /\ rewardPool' = rewardPool
      BY DEF ApproveAndPay, FromRewardPool, FromDepositPool, Reward
    <2> QED
      BY <1>1, <1>4, <2>1 DEF PaidOut
  <1> QED
    BY <1>3, <1>5 DEF ApproveAndPay, PaysTheHead, Reward

\* No step but a review and a settlement takes anything out.
LEMMA StepPaysByRule ==
  ASSUME Inv, Next, PaidOut > 0
  PROVE  PaysTheHead \/ PaysEverything
  <1>1. /\ quest \in QuestType /\ rewardPool \in Nat /\ depositPool \in Nat
        /\ Inv'
    BY NextKeepsInv DEF Inv, TypeOK
  <1>2. ~UNCHANGED <<rewardPool, depositPool>>
    BY <1>1 DEF PaidOut
  <1>3. CASE \E args \in CreateArgs : CreateQuest(args)
    <2>1. PICK args \in CreateArgs :
            /\ rewardPool' = rewardPool + args.initial_reward_funding
            /\ depositPool' = depositPool + args.deposit_amount
      BY <1>3 DEF CreateQuest, PayIn
    <2>2. args.initial_reward_funding \in Nat /\ args.deposit_amount \in Nat
      BY CreateAssumption, WidthAssumption DEF CreateArgType, U64
    <2>3. rewardPool \in Nat /\ depositPool \in Nat
      BY <1>1
    <2>4. PaidOut <= 0 /\ PaidOut \in Int
      BY <2>1, <2>2, <2>3 DEF PaidOut
    <2> QED
      BY <2>4
  <1>4. CASE \E signer \in Users, args \in FundArgs : FundQuest(signer, args)
    <2>1. PICK args \in FundArgs :
            /\ rewardPool' = rewardPool + args.reward_funding_amount
            /\ depositPool' = depositPool + args.additional_deposit_amount
      BY <1>4 DEF FundQuest, PayIn
    <2>2. args.reward_funding_amount \in Nat /\ args.additional_deposit_amount \in Nat
      BY FundAssumption, WidthAssumption DEF U64
    <2>3. rewardPool \in Nat /\ depositPool \in Nat
      BY <1>1
    <2>4. PaidOut <= 0 /\ PaidOut \in Int
      BY <2>1, <2>2, <2>3 DEF PaidOut
    <2> QED
      BY <2>4
  <1>5. CASE \E u \in Submitters : SubmitProof(u)
    BY <1>2, <1>5 DEF SubmitProof, balances
  <1>6. CASE \E signer \in Users, i \in DOMAIN submissions : ApproveSubmission(signer, i)
    <2>1. PICK i \in DOMAIN submissions : ApproveAndPay(i)
      BY <1>6 DEF ApproveSubmission
    <2> QED
      BY <2>1, ApprovalPaysHead
  <1>7. CASE \E signer \in Users, i \in DOMAIN submissions : RejectSubmission(signer, i)
    BY <1>2, <1>7 DEF RejectSubmission, balances
  <1>8. CASE \E signer \in Users : CloseQuest(signer)
    <2> DEFINE closing == [quest EXCEPT
                            !.status = "Closing", !.close_requested_at = now,
                            !.closing_reason = IF now >= quest.expires_at
                                               THEN "Expired"
                                               ELSE "EarlyManual"]
    <2>1. closing \in QuestType
      <3>1. now \in Nat
        BY DEF Inv, TypeOK
      <3> QED
        BY <1>1, <3>1 DEF QuestType, Statuses, Reasons
    <2>2. \/ QueueIsClear /\ SettlePools(closing)
          \/ UNCHANGED balances
      BY <1>8 DEF CloseQuest
    <2> HIDE DEF closing
    <2>3. QueueIsClear /\ SettlePools(closing)
      BY <1>2, <2>2 DEF balances
    <2> QED
      BY <1>1, <2>1, <2>3, SettlementPaysEverything DEF QueueIsClear
  <1>9. CASE SettleQuest
    BY <1>1, <1>9, SettlementPaysEverything DEF SettleQuest, QueueIsClear
  <1>10. CASE \E amount \in Transfers : SendToPool(amount)
    <2>1. PICK amount \in Nat :
            \/ rewardPool' = rewardPool + amount /\ depositPool' = depositPool
            \/ depositPool' = depositPool + amount /\ rewardPool' = rewardPool
      BY <1>10, BoundsAssumption DEF SendToPool
    <2>2. PaidOut <= 0 /\ PaidOut \in Int
      BY <1>1, <2>1 DEF PaidOut
    <2> QED
      BY <2>2
  <1>11. CASE Tick
    BY <1>2, <1>11 DEF Tick, balances
  <1> QED
    BY <1>3, <1>4, <1>5, <1>6, <1>7, <1>8, <1>9, <1>10, <1>11 DEF Next

\* Lamports leave the pools by the two rules and in no other way.
THEOREM PaymentsByRule == Spec => PoolsPayByRule
  <1>1. Inv /\ [Next]_vars => [PaidOut > 0 => PaysTheHead \/ PaysEverything]_vars
    BY StepPaysByRule
  <1> QED
    BY <1>1, Invariance, PTL DEF PoolsPayByRule, Spec
=============================================================================
