-------------------------------- MODULE Quest --------------------------------
(***************************************************************************)
(* One quest of the LootLoop program, from create_quest to its settlement: *)
(* the Quest account, its Submission and UserProgress accounts, the reward *)
(* and deposit pools, the fee vault, the public goods pool and the wallets *)
(* the program moves lamports between. Each instruction handler is one     *)
(* action: a Solana transaction runs alone and either takes effect whole   *)
(* or not at all, so a failed require!, checked_* or transfer is a guard.  *)
(*                                                                         *)
(* Left out, because no instruction reads them back: URIs, bumps, the      *)
(* submitted_at and reviewed_at stamps, requested_reward (a copy of        *)
(* reward_per_completion), the rent the payers of new accounts put down    *)
(* and transaction fees. publisher and reviewer never change and are       *)
(* constants. Anybody may send lamports to the address of a pool, without  *)
(* the program; transfers to the two vaults and to wallets are left out.   *)
(***************************************************************************)
EXTENDS Lamports, UserProgress, Functions

CONSTANTS
  Users,            \* everybody who can sign
  Publisher,        \* quest.publisher
  Reviewer,         \* quest.reviewer
  Submitters,       \* the users who send proofs
  VerifierKeys,     \* keys an AutoVerified quest may name
  NO_KEY,           \* Pubkey::default()
  ConfigHashes,     \* template hashes an AutoVerified quest may name
  NO_HASH,          \* [0; 32]
  CreateArgs,       \* the arguments create_quest is tried with
  FundArgs,         \* the arguments fund_quest is tried with
  INITIAL_FUNDS,    \* the publisher's wallet before create_quest
  CLOCK_START,      \* unix time of the first state
  TickSteps,        \* by how many seconds the cluster's clock may advance
  MAX_TIME,         \* bound on the clock
  Transfers,        \* amounts that are sent to a pool without the program
  MAX_SENT,         \* bound on their sum
  MAX_SUBMISSIONS   \* bound on the submissions of the quest

Modes       == {"OneTime", "Recurring"}
ReviewModes == {"Manual", "AutoVerified"}
Statuses    == {"Absent", "Open", "Closing", "Closed"}
Reasons     == {"None", "EarlyManual", "RewardPoolDepleted", "Expired"}

ASSUME UsersAssumption ==
  /\ IsFiniteSet(Users)
  /\ Publisher \in Users
  /\ Reviewer \in Users
  /\ Submitters \subseteq Users

\* What create_quest is called with, without the texts.
CreateArgType ==
  [mode : Modes, review_mode : ReviewModes,
   authorized_verifier : VerifierKeys \cup {NO_KEY},
   template_config_hash : ConfigHashes \cup {NO_HASH},
   has_schema : BOOLEAN,
   reward_per_completion : U64, initial_reward_funding : U64,
   deposit_amount : U64, duration_seconds : Int, period_seconds : Int,
   queue_max : Nat]

ASSUME CreateAssumption == CreateArgs \subseteq CreateArgType

ASSUME FundAssumption ==
  FundArgs \subseteq
    [reward_funding_amount : U64, additional_deposit_amount : U64,
     extend_duration_seconds : Int]

ASSUME BoundsAssumption ==
  /\ INITIAL_FUNDS \in U64
  /\ CLOCK_START \in Nat \ {0}
  /\ TickSteps \subseteq Nat \ {0}
  /\ MAX_TIME \in Nat
  /\ Transfers \subseteq Nat \ {0}
  /\ MAX_SENT \in Nat
  /\ MAX_SUBMISSIONS \in Nat

VARIABLES
  now,           \* Clock::get()?.unix_timestamp: it never goes back
  quest,         \* the Quest account
  submissions,   \* the Submission accounts, by submission_index
  progress,      \* the UserProgress accounts, by user
  rewardPool, depositPool, feeVault, publicGoods,   \* lamports
  wallet,        \* lamports the program paid to or took from a user
  rewardSent, depositSent   \* history: lamports sent to a pool without the program

accounts == <<quest, submissions, progress>>
balances == <<rewardPool, depositPool, feeVault, publicGoods, wallet>>
sent     == <<rewardSent, depositSent>>
vars     == <<now, accounts, balances, sent>>

QuestType ==
  [status : Statuses, mode : Modes, review_mode : ReviewModes,
   authorized_verifier : VerifierKeys \cup {NO_KEY},
   template_config_hash : ConfigHashes \cup {NO_HASH},
   reward_per_completion : Nat, period_seconds : Nat,
   start_at : Nat, expires_at : Nat, close_requested_at : Nat,
   closing_reason : Reasons, queue_max : Nat, pending_count : Nat,
   next_submission_index : Nat, next_review_index : Nat,
   total_submissions : Nat, total_approved : Nat, total_rejected : Nat,
   total_paid_amount : Nat, total_reward_funded : Nat,
   total_deposit_funded : Nat, total_fee_paid : Nat]

SubmissionType ==
  [submitter : Submitters, cycle_index : Nat,
   status : {"Pending", "Approved", "Rejected"},
   paid_from_reward_pool : Nat, paid_from_deposit_pool : Nat]

\* The state before create_quest: an account nobody has initialised.
NoQuest ==
  [status |-> "Absent", mode |-> "OneTime", review_mode |-> "Manual",
   authorized_verifier |-> NO_KEY, template_config_hash |-> NO_HASH,
   reward_per_completion |-> 0, period_seconds |-> 0,
   start_at |-> 0, expires_at |-> 0, close_requested_at |-> 0,
   closing_reason |-> "None", queue_max |-> 0, pending_count |-> 0,
   next_submission_index |-> 0, next_review_index |-> 0,
   total_submissions |-> 0, total_approved |-> 0, total_rejected |-> 0,
   total_paid_amount |-> 0, total_reward_funded |-> 0,
   total_deposit_funded |-> 0, total_fee_paid |-> 0]

Init ==
  /\ now = CLOCK_START
  /\ quest = NoQuest
  /\ submissions = [i \in {} |-> NoQuest]
  /\ progress = [u \in Submitters |-> NewProgress]
  /\ rewardPool = 0
  /\ depositPool = 0
  /\ feeVault = 0
  /\ publicGoods = 0
  /\ wallet = [u \in Users |-> IF u = Publisher THEN INITIAL_FUNDS ELSE 0]
  /\ rewardSent = 0
  /\ depositSent = 0

-----------------------------------------------------------------------------
(***************************************************************************)
(* Slips: plausible mistakes in the definitions below. No action uses one; *)
(* putting a slip in place of its definition breaks the property it names. *)
(***************************************************************************)

\* QueueIsConsistent: an off-by-one in the queue's limit.
QueueHasOneMorePlace == quest.pending_count <= quest.queue_max

\* DepositCoversQueue: the reward beyond the queue is forgotten.
DepositForQueueOnly(args) == args.queue_max * args.reward_per_completion

\* Inv, HeadIsPayable, ReviewsGoOn: the quest stays Open on its deposit.
StayOpen(q) == q

\* ReasonMatchesDeadline: the deadline itself counts as early.
StopBeforeDeadline(q) ==
  IF q.status = "Open"
  THEN [q EXCEPT !.status = "Closing", !.close_requested_at = now,
                 !.closing_reason = IF now <= q.expires_at
                                    THEN "RewardPoolDepleted"
                                    ELSE "Expired"]
  ELSE q

\* ClosingIsSettled, SettlementIsPayable: the reason is not recorded.
StopWithoutReason(q) ==
  IF q.status = "Open"
  THEN [q EXCEPT !.status = "Closing", !.close_requested_at = now]
  ELSE q

\* PoolsMatchTotals: the running total of payments is not kept.
CountReviewOnly(q) ==
  [q EXCEPT !.total_approved = @ + 1, !.next_review_index = @ + 1,
            !.pending_count = @ - 1]

\* PaidOncePerApproval: a decided submission may be reviewed again.
ReviewedBefore(i) == i <= quest.next_review_index

\* EveryProofIsDecided (AutoReview): who cannot approve cannot reject either.
MayReviewByHand(signer) ==
  quest.review_mode = "Manual" /\ signer \in {Reviewer, Publisher}

\* LamportsConserved: the refund forgets the deposit it takes.
RefundRewardOnly ==
  /\ wallet' = [wallet EXCEPT ![Publisher] = @ + rewardPool]
  /\ UNCHANGED <<feeVault, publicGoods>>

\* VaultHoldsFees (Market): whoever creates a quest brings the vault's rent.
TopUpEachQuest == IF quest.status = "Absent" THEN RENT_MINIMUM ELSE 0

\* SettledWhenDepositFits: the fee is taken of both pools.
ForfeitBothPools ==
  LET left == rewardPool + depositPool
      fee  == Fee(left, CANCELLATION_FEE_BPS)
  IN  /\ FeeFits(left, CANCELLATION_FEE_BPS)
      /\ feeVault' = feeVault + fee
      /\ publicGoods' = publicGoods + (left - fee)
      /\ UNCHANGED wallet

\* Inv, DepletedPoolIsSpent: funding need not be a multiple of the reward.
AnyAmount(amount, reward) == TRUE

\* ClosingIsFinal: a quest that is closing can be funded.
FundableUntilClosed == quest.status \in {"Open", "Closing"}

\* PoolsPayByRule: the pools are settled while proofs wait.
IgnoreQueue == TRUE

\* TypeOK: the operands of the cycle's subtraction are swapped.
CycleBackwards ==
  IF quest.mode = "OneTime"
  THEN 0
  ELSE (quest.start_at - now) \div quest.period_seconds

\* ProgressShowsLatestProof: a late review takes its cycle for the latest one.
AnchorAtReviewed(p, cycle) == cycle

\* OneProofPerCycle: a pending proof does not block another one.
MaySubmitWhilePending(u) ==
  IF quest.mode = "OneTime"
  THEN ~progress[u].one_time_completed
  ELSE LET cycle == (now - quest.start_at) \div quest.period_seconds
       IN  cycle_state(progress[u], cycle) # APPROVED

-----------------------------------------------------------------------------
(***************************************************************************)
(* create_quest and fund_quest                                             *)
(***************************************************************************)

\* ensure_rent_exempt_system_account followed by the fee transfer: the first
\* payment into an empty vault also brings its rent.
VaultTopUp == IF feeVault = 0 THEN RENT_MINIMUM ELSE 0

\* The publisher pays funding and fee in one transaction; a transfer the
\* wallet cannot cover fails it.
PayIn(funding, deposit, fee, topUp) ==
  LET total == funding + deposit + fee + topUp
  IN  /\ wallet[Publisher] >= total
      /\ wallet' = [wallet EXCEPT ![Publisher] = @ - total]
      /\ rewardPool' = rewardPool + funding
      /\ depositPool' = depositPool + deposit
      /\ feeVault' = feeVault + fee + topUp
      /\ RentExempt(rewardPool')
      /\ RentExempt(depositPool')
      /\ RentExempt(feeVault')
      /\ UNCHANGED <<publicGoods, sent>>

PeriodFitsMode(args) ==
  \/ args.mode = "OneTime" /\ args.period_seconds = 0
  \/ args.mode = "Recurring" /\ args.period_seconds > 0

VerifierConfigured(args) ==
  args.review_mode = "AutoVerified" =>
    /\ args.authorized_verifier # NO_KEY
    /\ args.template_config_hash # NO_HASH
    /\ args.has_schema

\* One reward for every place in the queue, and one more.
RequiredDeposit(args) == (args.queue_max + 1) * args.reward_per_completion

DepositSuffices(args) ==
  /\ RequiredDeposit(args) <= U64_MAX
  /\ args.deposit_amount >= RequiredDeposit(args)

IsMultiple(amount, reward) == amount % reward = 0

CreateQuest(args) ==
  LET fee == Fee(args.initial_reward_funding, PLATFORM_FEE_BPS)
  IN
  /\ quest.status = "Absent"
  /\ args.reward_per_completion >= MIN_REWARD_AMOUNT
  /\ args.queue_max > 0
  /\ args.duration_seconds >= MIN_QUEST_DURATION_SECONDS
  /\ PeriodFitsMode(args)
  /\ VerifierConfigured(args)
  /\ args.initial_reward_funding >= MIN_FUNDING_AMOUNT
  /\ IsMultiple(args.initial_reward_funding, args.reward_per_completion)
  /\ IsMultiple(args.deposit_amount, args.reward_per_completion)
  /\ DepositSuffices(args)
  /\ FeeFits(args.initial_reward_funding, PLATFORM_FEE_BPS)
  /\ now + args.duration_seconds <= I64_MAX
  /\ quest' =
       [NoQuest EXCEPT
         !.status = "Open", !.mode = args.mode,
         !.review_mode = args.review_mode,
         !.authorized_verifier = args.authorized_verifier,
         !.template_config_hash = args.template_config_hash,
         !.reward_per_completion = args.reward_per_completion,
         !.period_seconds = args.period_seconds,
         !.start_at = now, !.expires_at = now + args.duration_seconds,
         !.queue_max = args.queue_max,
         !.total_reward_funded = args.initial_reward_funding,
         !.total_deposit_funded = args.deposit_amount,
         !.total_fee_paid = fee]
  /\ PayIn(args.initial_reward_funding, args.deposit_amount, fee, VaultTopUp)
  /\ UNCHANGED <<now, submissions, progress>>

FundingIsOpen == quest.status = "Open"

\* A fee, and the vault's rent, are due only on reward funding.
FundQuest(signer, args) ==
  LET funding == args.reward_funding_amount
      deposit == args.additional_deposit_amount
      fee     == Fee(funding, PLATFORM_FEE_BPS)
  IN
  /\ signer = Publisher
  /\ FundingIsOpen
  /\ args.extend_duration_seconds >= 0
  /\ funding > 0 =>
       /\ funding >= MIN_FUNDING_AMOUNT
       /\ IsMultiple(funding, quest.reward_per_completion)
       /\ FeeFits(funding, PLATFORM_FEE_BPS)
       /\ quest.total_reward_funded + funding <= U64_MAX
       /\ quest.total_fee_paid + fee <= U64_MAX
  /\ deposit > 0 =>
       /\ IsMultiple(deposit, quest.reward_per_completion)
       /\ quest.total_deposit_funded + deposit <= U64_MAX
  /\ quest.expires_at + args.extend_duration_seconds <= I64_MAX
  /\ quest' = [quest EXCEPT
                !.total_reward_funded = @ + funding,
                !.total_fee_paid = @ + fee,
                !.total_deposit_funded = @ + deposit,
                !.expires_at = @ + args.extend_duration_seconds]
  /\ PayIn(funding, deposit, fee, IF funding > 0 THEN VaultTopUp ELSE 0)
  /\ UNCHANGED <<now, submissions, progress>>

-----------------------------------------------------------------------------
(***************************************************************************)
(* submit_proof                                                            *)
(***************************************************************************)

CurrentCycle ==
  IF quest.mode = "OneTime"
  THEN 0
  ELSE (now - quest.start_at) \div quest.period_seconds

\* A OneTime user has neither a pending nor an accepted proof; a Recurring
\* user's window shows nothing for the current cycle once it is pruned.
MaySubmit(u) ==
  IF quest.mode = "OneTime"
  THEN ~progress[u].one_time_completed /\ ~progress[u].pending_one_time
  ELSE cycle_state(prune_old_cycles(progress[u], CurrentCycle), CurrentCycle)
         = EMPTY

RecordSubmit(p) ==
  IF quest.mode = "OneTime"
  THEN [p EXCEPT !.pending_one_time = TRUE, !.last_submitted_cycle = 0]
  ELSE [set_cycle_state(prune_old_cycles(p, CurrentCycle), CurrentCycle, PENDING)
          EXCEPT !.last_submitted_cycle = CurrentCycle]

NewSubmission(u) ==
  [submitter |-> u, cycle_index |-> CurrentCycle, status |-> "Pending",
   paid_from_reward_pool |-> 0, paid_from_deposit_pool |-> 0]

QueueHasRoom == quest.pending_count < quest.queue_max

SubmitProof(u) ==
  LET index == quest.next_submission_index
  IN
  /\ index < MAX_SUBMISSIONS
  /\ quest.status = "Open"
  /\ now < quest.expires_at
  /\ QueueHasRoom
  /\ MaySubmit(u)
  /\ progress' = [progress EXCEPT ![u] = RecordSubmit(@)]
  /\ submissions' = [i \in 0 .. index |->
                      IF i = index THEN NewSubmission(u) ELSE submissions[i]]
  /\ quest' = [quest EXCEPT
                !.next_submission_index = @ + 1,
                !.total_submissions = @ + 1,
                !.pending_count = @ + 1]
  /\ UNCHANGED <<now, balances, sent>>

-----------------------------------------------------------------------------
(***************************************************************************)
(* approve_submission and reject_submission                                *)
(***************************************************************************)

MayReview(signer) == signer \in {Reviewer, Publisher}

\* The head of the queue: the only submission a review may name.
NextInLine(i) ==
  /\ submissions[i].status = "Pending"
  /\ i = quest.next_review_index

\* The cycle the window is pruned against when a review writes to it.
WindowAnchor(p, cycle) == Max({p.last_submitted_cycle, cycle})

RecordApproval(p, cycle) ==
  IF quest.mode = "OneTime"
  THEN [p EXCEPT !.pending_one_time = FALSE, !.one_time_completed = TRUE,
                 !.total_approved = @ + 1]
  ELSE [set_cycle_state_in_window(p, cycle, APPROVED, WindowAnchor(p, cycle))
          EXCEPT !.total_approved = @ + 1]

RecordRejection(p, cycle) ==
  IF quest.mode = "OneTime"
  THEN [p EXCEPT !.pending_one_time = FALSE]
  ELSE set_cycle_state_in_window(p, cycle, EMPTY, WindowAnchor(p, cycle))

RewardPoolPays ==
  /\ quest.status = "Open"
  /\ rewardPool >= quest.reward_per_completion

\* What a payment the reward pool could not make does to an Open quest.
StopForDepletion(q) ==
  IF q.status = "Open"
  THEN [q EXCEPT !.status = "Closing", !.close_requested_at = now,
                 !.closing_reason = IF now < q.expires_at
                                    THEN "RewardPoolDepleted"
                                    ELSE "Expired"]
  ELSE q

CountApproval(q) ==
  [q EXCEPT !.total_paid_amount = @ + q.reward_per_completion,
            !.total_approved = @ + 1,
            !.next_review_index = @ + 1,
            !.pending_count = @ - 1]

\* Slip for RecordsExplainPools: the payment is recorded under the other pool.
RecordedAsDeposit(i) ==
  LET reward == quest.reward_per_completion
  IN  /\ RewardPoolPays
      /\ rewardPool' = rewardPool - reward
      /\ submissions' = [submissions EXCEPT
                          ![i] = [@ EXCEPT !.status = "Approved",
                                           !.paid_from_deposit_pool = reward]]
      /\ quest' = CountApproval(quest)
      /\ UNCHANGED depositPool

FromRewardPool(i) ==
  LET reward == quest.reward_per_completion
  IN  /\ RewardPoolPays
      /\ rewardPool' = rewardPool - reward
      /\ submissions' = [submissions EXCEPT
                          ![i] = [@ EXCEPT !.status = "Approved",
                                           !.paid_from_reward_pool = reward]]
      /\ quest' = CountApproval(quest)
      /\ UNCHANGED depositPool

FromDepositPool(i) ==
  LET reward == quest.reward_per_completion
  IN  /\ ~RewardPoolPays
      /\ depositPool >= reward
      /\ depositPool' = depositPool - reward
      /\ submissions' = [submissions EXCEPT
                          ![i] = [@ EXCEPT !.status = "Approved",
                                           !.paid_from_deposit_pool = reward]]
      /\ quest' = CountApproval(StopForDepletion(quest))
      /\ UNCHANGED rewardPool

\* approve_and_pay_submission: approval and payment are one step.
ApproveAndPay(i) ==
  LET user == submissions[i].submitter
  IN
  /\ quest.status \in {"Open", "Closing"}
  /\ NextInLine(i)
  /\ quest.total_paid_amount + quest.reward_per_completion <= U64_MAX
  /\ FromRewardPool(i) \/ FromDepositPool(i)
  /\ RentExempt(rewardPool')
  /\ RentExempt(depositPool')
  /\ wallet' = [wallet EXCEPT ![user] = @ + quest.reward_per_completion]
  /\ progress' = [progress EXCEPT
                   ![user] = RecordApproval(@, submissions[i].cycle_index)]
  /\ UNCHANGED <<now, feeVault, publicGoods, sent>>

ApproveSubmission(signer, i) ==
  /\ quest.review_mode = "Manual"
  /\ MayReview(signer)
  /\ ApproveAndPay(i)

RejectSubmission(signer, i) ==
  LET user == submissions[i].submitter
  IN
  /\ MayReview(signer)
  /\ quest.status # "Closed"
  /\ NextInLine(i)
  /\ submissions' = [submissions EXCEPT ![i] = [@ EXCEPT !.status = "Rejected"]]
  /\ quest' = [quest EXCEPT !.next_review_index = @ + 1,
                            !.pending_count = @ - 1,
                            !.total_rejected = @ + 1]
  /\ progress' = [progress EXCEPT
                   ![user] = RecordRejection(@, submissions[i].cycle_index)]
  /\ UNCHANGED <<now, balances, sent>>

-----------------------------------------------------------------------------
(***************************************************************************)
(* close_quest and settle_quest                                            *)
(***************************************************************************)

\* settle_pools: the reason recorded when q left Open says who gets what is
\* left; q is the quest as the handler has it in hand.
RefundPublisher ==
  /\ wallet' = [wallet EXCEPT ![Publisher] = @ + rewardPool + depositPool]
  /\ UNCHANGED <<feeVault, publicGoods>>

ForfeitToPublicGoods ==
  LET fee == Fee(depositPool, CANCELLATION_FEE_BPS)
  IN  /\ FeeFits(depositPool, CANCELLATION_FEE_BPS)
      /\ feeVault' = feeVault + fee
      /\ publicGoods' = publicGoods + rewardPool + (depositPool - fee)
      /\ RentExempt(feeVault')
      /\ RentExempt(publicGoods')
      /\ UNCHANGED wallet

SettlePools(q) ==
  /\ \/ q.closing_reason = "Expired" /\ RefundPublisher
     \/ /\ q.closing_reason \in {"EarlyManual", "RewardPoolDepleted"}
        /\ ForfeitToPublicGoods
  /\ rewardPool' = 0
  /\ depositPool' = 0
  /\ quest' = [q EXCEPT !.status = "Closed"]

QueueIsClear == quest.pending_count = 0

CloseQuest(signer) ==
  LET closing == [quest EXCEPT
                   !.status = "Closing", !.close_requested_at = now,
                   !.closing_reason = IF now >= quest.expires_at
                                      THEN "Expired"
                                      ELSE "EarlyManual"]
  IN
  /\ signer = Publisher
  /\ quest.status = "Open"
  /\ \/ QueueIsClear /\ SettlePools(closing)
     \/ ~QueueIsClear /\ quest' = closing /\ UNCHANGED balances
  /\ UNCHANGED <<now, submissions, progress, sent>>

\* Anybody may call settle_quest.
SettleQuest ==
  /\ quest.status = "Closing"
  /\ QueueIsClear
  /\ quest.next_review_index = quest.next_submission_index
  /\ SettlePools(quest)
  /\ UNCHANGED <<now, submissions, progress, sent>>

-----------------------------------------------------------------------------
(***************************************************************************)
(* What happens without the program                                        *)
(***************************************************************************)

\* A plain transfer to the address of a pool, which asks nobody and comes in
\* any state of the quest, even before create_quest and after the settlement.
SendToPool(amount) ==
  /\ rewardSent + depositSent + amount <= MAX_SENT
  /\ \/ /\ rewardPool' = rewardPool + amount
        /\ rewardSent' = rewardSent + amount
        /\ UNCHANGED <<depositPool, depositSent>>
     \/ /\ depositPool' = depositPool + amount
        /\ depositSent' = depositSent + amount
        /\ UNCHANGED <<rewardPool, rewardSent>>
  /\ RentExempt(rewardPool')
  /\ RentExempt(depositPool')
  /\ UNCHANGED <<now, accounts, feeVault, publicGoods, wallet>>

\* The cluster's clock between two transactions.
Tick ==
  \E step \in TickSteps :
    /\ now + step <= MAX_TIME
    /\ now' = now + step
    /\ UNCHANGED <<accounts, balances, sent>>

-----------------------------------------------------------------------------
Next ==
  \/ \E args \in CreateArgs : CreateQuest(args)
  \/ \E signer \in Users, args \in FundArgs : FundQuest(signer, args)
  \/ \E u \in Submitters : SubmitProof(u)
  \/ \E signer \in Users, i \in DOMAIN submissions : ApproveSubmission(signer, i)
  \/ \E signer \in Users, i \in DOMAIN submissions : RejectSubmission(signer, i)
  \/ \E signer \in Users : CloseQuest(signer)
  \/ SettleQuest
  \/ \E amount \in Transfers : SendToPool(amount)
  \/ Tick

Spec == Init /\ [][Next]_vars

Approval == \E signer \in Users, i \in DOMAIN submissions :
              ApproveSubmission(signer, i)

\* Nobody is obliged to do anything: a transaction is somebody's choice. What
\* is assumed is one reviewer who goes on accepting the head of the queue and
\* one caller of settle_quest, as long as the program lets them.
FairSpec == Spec /\ WF_vars(Approval) /\ WF_vars(SettleQuest)

-----------------------------------------------------------------------------
(***************************************************************************)
(* What the program promises                                               *)
(***************************************************************************)

Reward == quest.reward_per_completion

Live == quest.status \in {"Open", "Closing"}

With(status) == {i \in DOMAIN submissions : submissions[i].status = status}

\* Every variable keeps its type: in particular no balance, counter or cycle
\* number that the handlers subtract from goes below zero.
TypeOK ==
  /\ now \in Nat
  /\ quest \in QuestType
  /\ submissions \in [0 .. quest.next_submission_index - 1 -> SubmissionType]
  /\ progress \in [Submitters -> ProgressType]
  /\ rewardPool \in Nat
  /\ depositPool \in Nat
  /\ feeVault \in Nat
  /\ publicGoods \in Nat
  /\ wallet \in [Users -> Nat]
  /\ rewardSent \in Nat
  /\ depositSent \in Nat

\* The queue is first in, first out and bounded: the submissions up to
\* next_review_index have been decided, the others wait, and pending_count, which
\* submit, approve and reject maintain apart from the two indices, is their number.
QueueIsConsistent ==
  /\ quest.next_review_index + quest.pending_count = quest.next_submission_index
  /\ quest.pending_count <= quest.queue_max
  /\ \A i \in DOMAIN submissions :
       (submissions[i].status = "Pending") <=> (i >= quest.next_review_index)
  /\ quest.total_approved + quest.total_rejected = quest.next_review_index

\* The deposit always covers every proof that waits, or may still be queued,
\* and one reward more that a settlement can forfeit.
DepositCoversQueue ==
  /\ quest.status = "Open" => depositPool >= (quest.queue_max + 1) * Reward
  /\ quest.status = "Closing" => depositPool >= (quest.pending_count + 1) * Reward

\* The pool that approve_and_pay_submission picks has one reward, and what the
\* payment leaves there is rent exempt.
HeadCanBePaid ==
  IF RewardPoolPays
  THEN RentExempt(rewardPool - Reward)
  ELSE depositPool >= Reward /\ RentExempt(depositPool - Reward)

\* What was sent to the reward pool, less whole rewards.
Remainder == rewardSent % Reward

\* The reward pool has one reward and beside it only the remainder, which is too
\* little to stay in an account alone.
HeadIsBlocked ==
  /\ RewardPoolPays
  /\ rewardPool = Reward + Remainder
  /\ ~RentExempt(Remainder)

\* A review that accepts the head of the queue can pay, unless transfers left just
\* such a remainder. The deposit can always pay, whatever was sent to either pool.
HeadIsPayable ==
  Live /\ quest.pending_count > 0 => HeadCanBePaid \/ HeadIsBlocked

\* settle_pools of a quest nobody waits in can fail for one reason only, a deposit
\* whose fee product does not fit a u64: the indices and the reason are as it
\* wants them, and what a forfeit brings to the two vaults keeps them alive.
SettlementIsPayable ==
  Live /\ quest.pending_count = 0 =>
    LET fee == Fee(depositPool, CANCELLATION_FEE_BPS)
    IN  /\ quest.next_review_index = quest.next_submission_index
        /\ quest.status = "Closing" => quest.closing_reason # "None"
        /\ RentExempt(feeVault + fee)
        /\ RentExempt(publicGoods + rewardPool + (depositPool - fee))

\* Until the settlement, what came in and was not paid out lies in the pools.
PoolsMatchTotals ==
  Live => rewardPool + depositPool + quest.total_paid_amount
            = quest.total_reward_funded + quest.total_deposit_funded
                + rewardSent + depositSent

PaidFromReward ==
  SumFunction([i \in DOMAIN submissions |-> submissions[i].paid_from_reward_pool])

PaidFromDeposit ==
  SumFunction([i \in DOMAIN submissions |-> submissions[i].paid_from_deposit_pool])

\* What the submissions say they were paid, and from which pool, explains what is
\* left in each of the two pools: no payment is on record under the other pool.
RecordsExplainPools ==
  Live => /\ rewardPool + PaidFromReward = quest.total_reward_funded + rewardSent
          /\ depositPool + PaidFromDeposit
               = quest.total_deposit_funded + depositSent

\* Every accepted proof was paid once, in full and from one pool; no other proof
\* was paid; and the totals of the quest and of its users agree with that.
PaidOncePerApproval ==
  /\ \A i \in DOMAIN submissions :
       {submissions[i].paid_from_reward_pool, submissions[i].paid_from_deposit_pool}
         = IF submissions[i].status = "Approved" THEN {0, Reward} ELSE {0}
  /\ quest.total_approved = Cardinality(With("Approved"))
  /\ quest.total_paid_amount = quest.total_approved * Reward
  /\ \A u \in Submitters :
       LET paid == {i \in With("Approved") : submissions[i].submitter = u}
       IN  /\ progress[u].total_approved = Cardinality(paid)
           /\ u # Publisher => wallet[u] = Cardinality(paid) * Reward

\* No lamport appears or disappears.
LamportsConserved ==
  INITIAL_FUNDS + rewardSent + depositSent
    = rewardPool + depositPool + feeVault + publicGoods + SumFunction(wallet)

\* A quest that stopped at or after its deadline is Expired and one that
\* stopped earlier is not, by the deadline it has now: the publisher cannot
\* move the deadline once the reason is on record.
ReasonMatchesDeadline ==
  quest.status \in {"Closing", "Closed"} =>
    /\ quest.closing_reason # "None"
    /\ quest.closing_reason = "Expired"
         <=> quest.close_requested_at >= quest.expires_at

\* A quest is RewardPoolDepleted with no more in its reward pool than others have
\* sent there, so the forfeit takes no reward funding from a publisher who let
\* the pool run dry.
DepletedPoolIsSpent ==
  quest.status = "Closing" /\ quest.closing_reason = "RewardPoolDepleted" =>
    rewardPool <= rewardSent

\* One cycle, and a OneTime quest as a whole, accepts at most one proof of a
\* user: of two proofs for the same cycle one has been rejected.
OneProofPerCycle ==
  \A i, j \in DOMAIN submissions :
    /\ i # j
    /\ submissions[i].submitter = submissions[j].submitter
    /\ submissions[i].cycle_index = submissions[j].cycle_index
    => "Rejected" \in {submissions[i].status, submissions[j].status}

-----------------------------------------------------------------------------
StateOf(status) ==
  CASE status = "Pending"  -> PENDING
    [] status = "Approved" -> APPROVED
    [] status = "Rejected" -> EMPTY

\* The progress account says of a user's latest proof what became of it: this is
\* all that keeps the user from being paid twice for a cycle.
ProgressShowsLatestProof ==
  \A u \in Submitters :
    LET own    == {i \in DOMAIN submissions : submissions[i].submitter = u}
        latest == submissions[Max(own)]
        p      == progress[u]
    IN  own # {} =>
          IF quest.mode = "OneTime"
          THEN /\ p.pending_one_time <=> latest.status = "Pending"
               /\ p.one_time_completed <=> latest.status = "Approved"
          ELSE /\ p.last_submitted_cycle = latest.cycle_index
               /\ cycle_state(p, latest.cycle_index) = StateOf(latest.status)

\* The window shows what became of i, the last proof of its user for a cycle that
\* is still recent.
CycleIsShown(i) ==
  LET p      == progress[submissions[i].submitter]
      cycle  == submissions[i].cycle_index
      repeat == {j \in DOMAIN submissions :
                  /\ submissions[j].submitter = submissions[i].submitter
                  /\ submissions[j].cycle_index = cycle}
  IN  /\ quest.mode = "Recurring"
      /\ ~OutOfWindow(cycle, p.last_submitted_cycle)
      /\ i = Max(repeat)
      => cycle_state(p, cycle) = StateOf(submissions[i].status)

\* From the second cycle on the window is right about every recent cycle, in
\* whatever order proofs were sent, reviewed late and sent again.
WindowShowsLaterCycles ==
  \A i \in DOMAIN submissions : submissions[i].cycle_index > 0 => CycleIsShown(i)

\* What a step may not touch after the quest has left Open.
KeepsTerms ==
  /\ quest.status = "Closing" =>
       /\ quest'.status \in {"Closing", "Closed"}
       /\ quest'.closing_reason = quest.closing_reason
       /\ quest'.close_requested_at = quest.close_requested_at
       /\ quest'.expires_at = quest.expires_at
       /\ quest'.next_submission_index = quest.next_submission_index
       /\ quest'.total_reward_funded = quest.total_reward_funded
       /\ quest'.total_deposit_funded = quest.total_deposit_funded
  /\ quest.status = "Closed" =>
       /\ UNCHANGED <<accounts, feeVault, publicGoods, wallet>>
       /\ rewardPool' >= rewardPool
       /\ depositPool' >= depositPool

\* Once a quest has left Open its terms are settled: no deadline, reason, funding
\* total or queue place changes any more, and after Closed no account does; what
\* is sent to a pool then stays there.
ClosingIsFinal == [][KeepsTerms]_vars

PaidOut == (rewardPool + depositPool) - (rewardPool' + depositPool')

PaysTheHead ==
  LET u == submissions[quest.next_review_index].submitter
  IN  /\ quest.pending_count > 0
      /\ PaidOut = Reward
      /\ wallet' = [wallet EXCEPT ![u] = @ + Reward]

PaysEverything ==
  /\ quest.pending_count = 0
  /\ rewardPool' = 0 /\ depositPool' = 0
  /\ quest'.status = "Closed"
  /\ wallet'[Publisher] = IF quest'.close_requested_at >= quest'.expires_at
                          THEN wallet[Publisher] + PaidOut
                          ELSE wallet[Publisher]

\* Lamports leave the pools in two ways only: one reward to the user at the head
\* of the queue, or everything at once when nobody waits, and then a publisher
\* who stopped before the deadline gets nothing back.
PoolsPayByRule == [][PaidOut > 0 => PaysTheHead \/ PaysEverything]_vars

\* A reviewer who goes on accepting is stuck by nothing but a remainder that was
\* sent to the reward pool: every proof in the queue is decided in the end,
\* whichever pool has to pay, unless the head is found blocked by one.
ReviewsGoOn ==
  \A i \in 0 .. MAX_SUBMISSIONS - 1 :
    i \in With("Pending") ~> i \notin With("Pending") \/ HeadIsBlocked

\* Every proof in the queue is decided in the end.
EveryProofIsDecided ==
  \A i \in 0 .. MAX_SUBMISSIONS - 1 :
    i \in With("Pending") ~> i \notin With("Pending")

\* A quest that is closing is settled in the end.
ClosingIsSettled == quest.status = "Closing" ~> quest.status = "Closed"

\* A closing quest is settled even where a u64 is narrow, once the fee of its
\* deposit fits (and no transfer makes it too large again) or the deposit goes
\* back to the publisher.
CanBeSettled ==
  /\ quest.status = "Closing"
  /\ \/ quest.closing_reason = "Expired"
     \/ FeeFits(depositPool, CANCELLATION_FEE_BPS)

SettledWhenDepositFits == CanBeSettled ~> quest.status = "Closed" \/ ~CanBeSettled

-----------------------------------------------------------------------------
(***************************************************************************)
(* The inductive invariant                                                 *)
(***************************************************************************)

\* An account nobody created is blank, and a quest keeps what create_quest checked.
TermsHold ==
  /\ quest.status = "Absent" =>
       quest = NoQuest /\ rewardPool = rewardSent /\ depositPool = depositSent
  /\ quest.status # "Absent" =>
       /\ Reward >= MIN_REWARD_AMOUNT
       /\ quest.start_at <= now
       /\ quest.mode = "Recurring" => quest.period_seconds > 0

\* The program pays whole rewards into and out of the reward pool, so what the pool
\* has beside what others sent there is a number of them.
WholeRewards == Live => (rewardPool - rewardSent) % Reward = 0

\* The rent rule, as the runtime keeps it for the pools.
PoolsAreAlive == RentExempt(rewardPool) /\ RentExempt(depositPool)

\* Neither the queue's, the pools' nor the deadline's promise is inductive alone:
\* an approval keeps the deposit above the queue's worth only because the queue
\* shrinks with it, and finds a sufficient reward pool, or one whose funding is
\* spent, only because the program moves whole rewards.
Inv ==
  /\ TypeOK
  /\ TermsHold
  /\ QueueIsConsistent
  /\ WholeRewards
  /\ PoolsAreAlive
  /\ DepositCoversQueue
  /\ PoolsMatchTotals
  /\ ReasonMatchesDeadline
  /\ DepletedPoolIsSpent

\* The first payment into the fee vault brought its rent, and what a settlement
\* adds to a vault is enough to live on.
VaultsAreAlive ==
  /\ RentExempt(feeVault)
  /\ RentExempt(publicGoods)
  /\ Live => feeVault >= RENT_MINIMUM

-----------------------------------------------------------------------------
(***************************************************************************)
(* What makes one proof per cycle, whatever the size of the window         *)
(***************************************************************************)

ProofsOf(u) == {i \in DOMAIN submissions : submissions[i].submitter = u}

SameCycle(i, j) ==
  /\ submissions[i].submitter = submissions[j].submitter
  /\ submissions[i].cycle_index = submissions[j].cycle_index

\* A user sends a proof again only after the one before was turned down.
RepeatsFollowRejection ==
  \A i, j \in DOMAIN submissions :
    i < j /\ SameCycle(i, j) => submissions[i].status = "Rejected"

\* Cycles only go up, and last_submitted_cycle is the one of the latest proof.
CyclesGoUp(u) ==
  LET last == progress[u].last_submitted_cycle
  IN  /\ quest.status # "Absent" => last <= CurrentCycle
      /\ \A i \in ProofsOf(u) :
           /\ submissions[i].cycle_index <= last
           /\ (\A j \in ProofsOf(u) : j <= i) => submissions[i].cycle_index = last

\* How many slots have been written since this one.
SlotAge(p, slot) ==
  IF slot < p.recent_cycle_cursor
  THEN p.recent_cycle_cursor - 1 - slot
  ELSE p.recent_cycle_cursor - 1 - slot + RECENT_CYCLE_WINDOW

\* A slot that was written so long ago remembers a cycle at least as old, so the
\* slot under the cursor never remembers a cycle that is still recent.
RingIsOrdered(p) ==
  /\ SlotsHolding(p, p.last_submitted_cycle) # {}
  /\ \A s \in Slots :
       p.recent_cycles[s] # 0 =>
         p.recent_cycles[s] <= p.last_submitted_cycle - SlotAge(p, s)

\* The entry of cycle 0 is told from an empty slot only until another cycle starts.
IsRemembered(p, cycle) ==
  /\ ~OutOfWindow(cycle, p.last_submitted_cycle)
  /\ cycle > 0 \/ p.last_submitted_cycle = 0

ProgressShows(i) ==
  LET p     == progress[submissions[i].submitter]
      proof == submissions[i]
  IN  IF quest.mode = "OneTime"
      THEN /\ p.pending_one_time <=> proof.status = "Pending"
           /\ p.one_time_completed <=> proof.status = "Approved"
      ELSE IsRemembered(p, proof.cycle_index) =>
             cycle_state(p, proof.cycle_index) = StateOf(proof.status)

\* Neither one proof per cycle nor what the window shows is inductive alone: the
\* window is right about a cycle only because a review never takes the slot of
\* another recent cycle, and that because the slots are in the order of the cycles.
CycleInv ==
  /\ quest.status = "Absent" => progress = [u \in Submitters |-> NewProgress]
  /\ RepeatsFollowRejection
  /\ \A u \in Submitters : CyclesGoUp(u) /\ RingIsOrdered(progress[u])
  /\ \A i \in DOMAIN submissions :
       (\A j \in DOMAIN submissions : SameCycle(i, j) => j <= i) => ProgressShows(i)

-----------------------------------------------------------------------------
(***************************************************************************)
(* The promise to submitters, and how the quest keeps it                   *)
(***************************************************************************)

Payees == Submitters \ {Publisher}

ClaimState(status) ==
  CASE status = "Pending"  -> "Waiting"
    [] status = "Approved" -> "Paid"
    [] status = "Rejected" -> "Refused"

Claims ==
  [i \in DOMAIN submissions |-> [owner |-> submissions[i].submitter,
                                 state |-> ClaimState(submissions[i].status)]]

\* The deposit pays claims to the end, the reward pool only while Open.
Payable == depositPool + (IF quest.status = "Open" THEN rewardPool ELSE 0)

\* The publisher, who also pays in, is no payee.
Received == [u \in Payees |-> wallet[u]]

Promise == INSTANCE Escrow WITH
  Claimants <- Submitters,
  Payees    <- Payees,
  phase     <- quest.status,
  price     <- quest.reward_per_completion,
  claims    <- Claims,
  admitted  <- quest.next_submission_index,
  decided   <- quest.next_review_index,
  payable   <- Payable,
  received  <- Received

\* The quest implements the escrow: fees, clock, cycles, two pools and two ways
\* to stop are details of it that no submitter can tell from the promise.
KeepsPromise == Promise!Spec

-----------------------------------------------------------------------------
(***************************************************************************)
(* What the documentation says and the code does not do                    *)
(***************************************************************************)

\* docs/flow.md 109, README.md 94: an approval that the reward pool of an Open
\* quest cannot pay closes the quest as RewardPoolDepleted. After the deadline
\* approve_and_pay_submission records Expired, and the publisher is refunded.
DepletionIsRecorded ==
  [][/\ quest.status = "Open" /\ quest'.status = "Closing"
     /\ quest'.total_approved > quest.total_approved
     => quest'.closing_reason = "RewardPoolDepleted"]_vars

\* docs/demo-script.md 36, docs/flow.md 291: the window records the recent cycles
\* as empty, pending or approved. The entry of the first cycle is written to a
\* slot that still looks free, and the next cycle's entry takes that slot.
WindowShowsRecentCycles == \A i \in DOMAIN submissions : CycleIsShown(i)

\* docs/flow.md 108: an Open quest with a full reward in its reward pool pays an
\* approval from there. The handler looks at the balance and not at what the
\* payment leaves; where that is too little to stay, the transaction fails, and
\* the deposit is not asked.
FullRewardIsPaid ==
  quest.status = "Open" /\ quest.pending_count > 0 /\ rewardPool >= Reward =>
    RentExempt(rewardPool - Reward)
=============================================================================
