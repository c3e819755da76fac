------------------------------- MODULE Market -------------------------------
(***************************************************************************)
(* Two quests of different publishers on one cluster. The accounts of a    *)
(* quest are its own: their addresses derive from the quest's key, and     *)
(* where an instruction is handed an account by whoever calls it, the      *)
(* Submission of a review, the handler compares the quest it names. The    *)
(* clock, the fee vault, the public goods pool and everybody's wallets are *)
(* shared. One of the publishers may well work for the other.              *)
(***************************************************************************)
EXTENDS Quest

CONSTANTS
  OtherPublisher,    \* the publisher of the other quest
  OtherCreateArgs    \* the arguments it is created with

ASSUME OtherAssumption ==
  /\ OtherPublisher \in Users
  /\ OtherPublisher # Publisher
  /\ OtherCreateArgs \subseteq CreateArgType

VARIABLES
  otherQuest, otherSubmissions, otherProgress, otherRewardPool, otherDepositPool,
  otherRewardSent, otherDepositSent

ownAccounts   == <<quest, submissions, progress, rewardPool, depositPool, sent>>
otherAccounts ==
  <<otherQuest, otherSubmissions, otherProgress, otherRewardPool, otherDepositPool,
    otherRewardSent, otherDepositSent>>
marketVars    == <<vars, otherAccounts>>

Other == INSTANCE Quest WITH
  Publisher   <- OtherPublisher,
  CreateArgs  <- OtherCreateArgs,
  quest       <- otherQuest,
  submissions <- otherSubmissions,
  progress    <- otherProgress,
  rewardPool  <- otherRewardPool,
  depositPool <- otherDepositPool,
  rewardSent  <- otherRewardSent,
  depositSent <- otherDepositSent

MarketInit ==
  /\ now = CLOCK_START
  /\ quest = NoQuest /\ otherQuest = NoQuest
  /\ submissions = [i \in {} |-> NoQuest]
  /\ otherSubmissions = [i \in {} |-> NoQuest]
  /\ progress = [u \in Submitters |-> NewProgress]
  /\ otherProgress = [u \in Submitters |-> NewProgress]
  /\ rewardPool = 0 /\ otherRewardPool = 0
  /\ depositPool = 0 /\ otherDepositPool = 0
  /\ rewardSent = 0 /\ otherRewardSent = 0
  /\ depositSent = 0 /\ otherDepositSent = 0
  /\ feeVault = 0
  /\ publicGoods = 0
  /\ wallet = [u \in Users |-> IF u \in {Publisher, OtherPublisher}
                               THEN INITIAL_FUNDS
                               ELSE 0]

-----------------------------------------------------------------------------
\* Slip for EarningsMatch and QuestsKeepInv: a review takes the Submission it is
\* handed for one of the quest. The other addresses still derive from the quest.
Misled == INSTANCE Quest WITH submissions <- otherSubmissions

StepOnAnySubmission ==
  \/ Next /\ UNCHANGED otherAccounts
  \/ /\ \E signer \in Users, i \in DOMAIN otherSubmissions :
          \/ Misled!ApproveSubmission(signer, i)
          \/ Misled!RejectSubmission(signer, i)
     /\ UNCHANGED <<submissions, otherQuest, otherProgress,
                    otherRewardPool, otherDepositPool,
                    otherRewardSent, otherDepositSent>>

-----------------------------------------------------------------------------
\* An instruction of one quest, or the clock.
Step == Next /\ UNCHANGED otherAccounts

OtherStep == Other!Next /\ UNCHANGED ownAccounts

MarketNext == Step \/ OtherStep

MarketSpec == MarketInit /\ [][MarketNext]_marketVars

-----------------------------------------------------------------------------
\* Each of the two quests keeps every promise of a single one: nothing that
\* happens to one, nor to the vaults they share, can break those of the other.
QuestsKeepInv == Inv /\ Other!Inv

\* The first payment of the two settlements finds the vaults in whatever state the
\* other quest left them, and goes through.
QuestsCanBeSettled == SettlementIsPayable /\ Other!SettlementIsPayable

Accepted(claims, u) ==
  {i \in DOMAIN claims : claims[i].status = "Approved" /\ claims[i].submitter = u}

\* Whoever publishes nothing has earned exactly the reward of each of their
\* accepted proofs, by the quest it was sent to.
EarningsMatch ==
  \A u \in Submitters \ {Publisher, OtherPublisher} :
    wallet[u] = Cardinality(Accepted(submissions, u)) * quest.reward_per_completion
                + Cardinality(Accepted(otherSubmissions, u))
                    * otherQuest.reward_per_completion

\* What a settlement found in the deposit pool, and the fee of that: what came in
\* (also from others), less what the submissions were paid, and
\* less what others sent since and still lies there.
Cancellation(q, claims, sentToPool, inPool) ==
  LET paid == [i \in DOMAIN claims |-> claims[i].paid_from_deposit_pool]
      left == q.total_deposit_funded - SumFunction(paid) + sentToPool - inPool
  IN  IF q.status = "Closed" /\ q.closing_reason # "Expired"
      THEN Fee(left, CANCELLATION_FEE_BPS)
      ELSE 0

\* The fee vault holds every fee either quest paid and its rent, which only the
\* first of them brought.
VaultHoldsFees ==
  feeVault = quest.total_fee_paid + otherQuest.total_fee_paid
               + Cancellation(quest, submissions, depositSent, depositPool)
               + Cancellation(otherQuest, otherSubmissions,
                              otherDepositSent, otherDepositPool)
               + (IF {quest.status, otherQuest.status} = {"Absent"}
                  THEN 0
                  ELSE RENT_MINIMUM)

\* No lamport appears or disappears between the two quests.
MarketConservesLamports ==
  2 * INITIAL_FUNDS + rewardSent + depositSent + otherRewardSent + otherDepositSent
    = rewardPool + depositPool + otherRewardPool + otherDepositPool
        + feeVault + publicGoods + SumFunction(wallet)
=============================================================================
