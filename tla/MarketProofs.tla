----------------------------- MODULE MarketProofs -----------------------------
(***************************************************************************)
(* Each of two quests keeps the promises of one, whatever happens to the   *)
(* other: what is proved about Quest holds of the other quest by renaming, *)
(* and neither minds what the other does to the clock and the vaults.      *)
(***************************************************************************)
EXTENDS Market, PaymentProofs

\* The facts about one quest, said of the other one.
Facts == INSTANCE PaymentProofs WITH
  Publisher   <- OtherPublisher,
  CreateArgs  <- OtherCreateArgs,
  quest       <- otherQuest,
  submissions <- otherSubmissions,
  progress    <- otherProgress,
  rewardPool  <- otherRewardPool,
  depositPool <- otherDepositPool,
  rewardSent  <- otherRewardSent,
  depositSent <- otherDepositSent

-----------------------------------------------------------------------------
(***************************************************************************)
(* Other and Facts rename Quest in the same way: the provers see it once   *)
(* the definitions of both are expanded                                    *)
(***************************************************************************)

\* The methods of a progress account.
LEMMA SameProgress ==
  /\ \A p, cycle : Other!cycle_state(p, cycle) = Facts!cycle_state(p, cycle)
  /\ \A p, current : Other!prune_old_cycles(p, current) = Facts!prune_old_cycles(p, current)
  /\ \A p, cycle, state :
       Other!set_cycle_state(p, cycle, state) = Facts!set_cycle_state(p, cycle, state)
  /\ \A p, cycle, state, current :
       Other!set_cycle_state_in_window(p, cycle, state, current)
         = Facts!set_cycle_state_in_window(p, cycle, state, current)
  /\ \A p, cycle : Other!WindowAnchor(p, cycle) = Facts!WindowAnchor(p, cycle)
  <1>1. ASSUME NEW p, NEW cycle
        PROVE  Other!cycle_state(p, cycle) = Facts!cycle_state(p, cycle)
    BY SMT
       DEF Other!cycle_state, Facts!cycle_state, Other!SlotsHolding, Facts!SlotsHolding,
           Other!Slots, Facts!Slots, Other!EMPTY, Facts!EMPTY, Other!Min, Facts!Min
  <1>2. ASSUME NEW p, NEW current
        PROVE  Other!prune_old_cycles(p, current) = Facts!prune_old_cycles(p, current)
    BY SMT
       DEF Other!prune_old_cycles, Facts!prune_old_cycles, Other!Slots, Facts!Slots,
           Other!EMPTY, Facts!EMPTY, Other!OutOfWindow, Facts!OutOfWindow
  <1>3. ASSUME NEW p, NEW cycle, NEW state
        PROVE  Other!set_cycle_state(p, cycle, state) = Facts!set_cycle_state(p, cycle, state)
    BY SMT
       DEF Other!set_cycle_state, Facts!set_cycle_state, Other!SlotsHolding,
           Facts!SlotsHolding, Other!Slots, Facts!Slots, Other!Min, Facts!Min,
           Other!NextSlot, Facts!NextSlot
  <1>4. ASSUME NEW p, NEW cycle, NEW state, NEW current
        PROVE  Other!set_cycle_state_in_window(p, cycle, state, current)
                 = Facts!set_cycle_state_in_window(p, cycle, state, current)
    BY <1>2, <1>3, SMT
       DEF Other!set_cycle_state_in_window, Facts!set_cycle_state_in_window,
           Other!OutOfWindow, Facts!OutOfWindow
  <1>5. ASSUME NEW p, NEW cycle
        PROVE  Other!WindowAnchor(p, cycle) = Facts!WindowAnchor(p, cycle)
    BY SMT
       DEF Other!WindowAnchor, Facts!WindowAnchor, Other!Max, Facts!Max
  <1> QED
    BY <1>1, <1>2, <1>3, <1>4, <1>5

\* What a submission and either review record.
LEMMA SameRecords ==
  /\ \A u : Other!MaySubmit(u) <=> Facts!MaySubmit(u)
  /\ \A p : Other!RecordSubmit(p) = Facts!RecordSubmit(p)
  /\ \A p, cycle : Other!RecordApproval(p, cycle) = Facts!RecordApproval(p, cycle)
  /\ \A p, cycle : Other!RecordRejection(p, cycle) = Facts!RecordRejection(p, cycle)
  <1>1. ASSUME NEW u
        PROVE  Other!MaySubmit(u) <=> Facts!MaySubmit(u)
    BY SameProgress, SMT
       DEF Other!MaySubmit, Facts!MaySubmit, Other!CurrentCycle, Facts!CurrentCycle,
           Other!EMPTY, Facts!EMPTY
  <1>2. ASSUME NEW p
        PROVE  Other!RecordSubmit(p) = Facts!RecordSubmit(p)
    BY SameProgress, SMT
       DEF Other!RecordSubmit, Facts!RecordSubmit, Other!CurrentCycle, Facts!CurrentCycle,
           Other!PENDING, Facts!PENDING
  <1>3. ASSUME NEW p, NEW cycle
        PROVE  Other!RecordApproval(p, cycle) = Facts!RecordApproval(p, cycle)
    BY SameProgress, SMT
       DEF Other!RecordApproval, Facts!RecordApproval, Other!APPROVED, Facts!APPROVED
  <1>4. ASSUME NEW p, NEW cycle
        PROVE  Other!RecordRejection(p, cycle) = Facts!RecordRejection(p, cycle)
    BY SameProgress, SMT
       DEF Other!RecordRejection, Facts!RecordRejection, Other!EMPTY, Facts!EMPTY
  <1> QED
    BY <1>1, <1>2, <1>3, <1>4

\* Every instruction, hence the next-state relation.
LEMMA SameNext == Other!Next <=> Facts!Next
  <1>1. ASSUME NEW args
        PROVE  Other!CreateQuest(args) <=> Facts!CreateQuest(args)
    BY SMT
       DEF Other!CreateQuest, Facts!CreateQuest, Other!sent, Facts!sent,
           Other!Fee, Facts!Fee,
           Other!BPS_DENOMINATOR, Facts!BPS_DENOMINATOR, Other!PLATFORM_FEE_BPS,
           Facts!PLATFORM_FEE_BPS, Other!MIN_REWARD_AMOUNT, Facts!MIN_REWARD_AMOUNT,
           Other!MIN_QUEST_DURATION_SECONDS, Facts!MIN_QUEST_DURATION_SECONDS,
           Other!PeriodFitsMode, Facts!PeriodFitsMode, Other!VerifierConfigured,
           Facts!VerifierConfigured, Other!MIN_FUNDING_AMOUNT, Facts!MIN_FUNDING_AMOUNT,
           Other!IsMultiple, Facts!IsMultiple, Other!DepositSuffices,
           Facts!DepositSuffices, Other!RequiredDeposit, Facts!RequiredDeposit,
           Other!FeeFits, Facts!FeeFits, Other!NoQuest, Facts!NoQuest, Other!PayIn,
           Facts!PayIn, Other!RentExempt, Facts!RentExempt, Other!VaultTopUp,
           Facts!VaultTopUp
  <1>2. ASSUME NEW signer, NEW args
        PROVE  Other!FundQuest(signer, args) <=> Facts!FundQuest(signer, args)
    BY SMT
       DEF Other!FundQuest, Facts!FundQuest, Other!sent, Facts!sent,
           Other!Fee, Facts!Fee, Other!BPS_DENOMINATOR,
           Facts!BPS_DENOMINATOR, Other!PLATFORM_FEE_BPS, Facts!PLATFORM_FEE_BPS,
           Other!FundingIsOpen, Facts!FundingIsOpen, Other!MIN_FUNDING_AMOUNT,
           Facts!MIN_FUNDING_AMOUNT, Other!IsMultiple, Facts!IsMultiple, Other!FeeFits,
           Facts!FeeFits, Other!PayIn, Facts!PayIn, Other!RentExempt, Facts!RentExempt,
           Other!VaultTopUp, Facts!VaultTopUp
  <1>3. ASSUME NEW u
        PROVE  Other!SubmitProof(u) <=> Facts!SubmitProof(u)
    BY SameRecords, SMT
       DEF Other!SubmitProof, Facts!SubmitProof, Other!sent, Facts!sent,
           Other!QueueHasRoom, Facts!QueueHasRoom,
           Other!NewSubmission, Facts!NewSubmission, Other!CurrentCycle,
           Facts!CurrentCycle, Other!balances, Facts!balances
  <1>4. ASSUME NEW signer, NEW i
        PROVE  Other!ApproveSubmission(signer, i) <=> Facts!ApproveSubmission(signer, i)
    BY SameRecords, SMT
       DEF Other!ApproveSubmission, Facts!ApproveSubmission, Other!sent, Facts!sent,
           Other!MayReview,
           Facts!MayReview, Other!ApproveAndPay, Facts!ApproveAndPay, Other!NextInLine,
           Facts!NextInLine, Other!FromRewardPool, Facts!FromRewardPool,
           Other!RewardPoolPays, Facts!RewardPoolPays, Other!CountApproval,
           Facts!CountApproval, Other!FromDepositPool, Facts!FromDepositPool,
           Other!StopForDepletion, Facts!StopForDepletion, Other!RentExempt,
           Facts!RentExempt
  <1>5. ASSUME NEW signer, NEW i
        PROVE  Other!RejectSubmission(signer, i) <=> Facts!RejectSubmission(signer, i)
    BY SameRecords, SMT
       DEF Other!RejectSubmission, Facts!RejectSubmission, Other!sent, Facts!sent,
           Other!MayReview,
           Facts!MayReview, Other!NextInLine, Facts!NextInLine, Other!balances,
           Facts!balances
  <1>6. ASSUME NEW signer
        PROVE  Other!CloseQuest(signer) <=> Facts!CloseQuest(signer)
    BY SMT
       DEF Other!CloseQuest, Facts!CloseQuest, Other!sent, Facts!sent,
           Other!QueueIsClear, Facts!QueueIsClear,
           Other!SettlePools, Facts!SettlePools, Other!RefundPublisher,
           Facts!RefundPublisher, Other!ForfeitToPublicGoods, Facts!ForfeitToPublicGoods,
           Other!Fee, Facts!Fee, Other!BPS_DENOMINATOR, Facts!BPS_DENOMINATOR,
           Other!CANCELLATION_FEE_BPS, Facts!CANCELLATION_FEE_BPS, Other!FeeFits,
           Facts!FeeFits, Other!RentExempt, Facts!RentExempt, Other!balances,
           Facts!balances
  <1>7. Other!SettleQuest <=> Facts!SettleQuest
    BY SMT
       DEF Other!SettleQuest, Facts!SettleQuest, Other!sent, Facts!sent,
           Other!QueueIsClear, Facts!QueueIsClear,
           Other!SettlePools, Facts!SettlePools, Other!RefundPublisher,
           Facts!RefundPublisher, Other!ForfeitToPublicGoods, Facts!ForfeitToPublicGoods,
           Other!Fee, Facts!Fee, Other!BPS_DENOMINATOR, Facts!BPS_DENOMINATOR,
           Other!CANCELLATION_FEE_BPS, Facts!CANCELLATION_FEE_BPS, Other!FeeFits,
           Facts!FeeFits, Other!RentExempt, Facts!RentExempt
  <1>8. Other!Tick <=> Facts!Tick
    BY SMT
       DEF Other!Tick, Facts!Tick, Other!accounts, Facts!accounts, Other!balances,
           Facts!balances, Other!sent, Facts!sent
  <1>9. ASSUME NEW amount
        PROVE  Other!SendToPool(amount) <=> Facts!SendToPool(amount)
    BY SMT
       DEF Other!SendToPool, Facts!SendToPool, Other!RentExempt, Facts!RentExempt,
           Other!accounts, Facts!accounts
  <1> QED
    BY <1>1, <1>2, <1>3, <1>4, <1>5, <1>6, <1>7, <1>8, <1>9, SMT
       DEF Other!Next, Facts!Next

\* The invariants.
LEMMA SameProperties ==
  /\ Other!Inv <=> Facts!Inv
  /\ Other!VaultsAreAlive <=> Facts!VaultsAreAlive
  /\ Other!SettlementIsPayable <=> Facts!SettlementIsPayable
  <1>1. Other!Inv <=> Facts!Inv
    BY SMT
       DEF Other!Inv, Facts!Inv, Other!TypeOK, Facts!TypeOK, Other!QuestType,
           Facts!QuestType, Other!Statuses, Facts!Statuses, Other!Modes, Facts!Modes,
           Other!ReviewModes, Facts!ReviewModes, Other!Reasons, Facts!Reasons,
           Other!SubmissionType, Facts!SubmissionType, Other!ProgressType,
           Facts!ProgressType, Other!Slots, Facts!Slots, Other!CycleStates,
           Facts!CycleStates, Other!EMPTY, Facts!EMPTY, Other!PENDING, Facts!PENDING,
           Other!APPROVED, Facts!APPROVED, Other!TermsHold, Facts!TermsHold,
           Other!NoQuest, Facts!NoQuest, Other!Reward, Facts!Reward,
           Other!MIN_REWARD_AMOUNT, Facts!MIN_REWARD_AMOUNT, Other!QueueIsConsistent,
           Facts!QueueIsConsistent, Other!WholeRewards,
           Facts!WholeRewards, Other!PoolsAreAlive, Facts!PoolsAreAlive,
           Other!RentExempt, Facts!RentExempt, Other!Live, Facts!Live, Other!DepositCoversQueue,
           Facts!DepositCoversQueue, Other!PoolsMatchTotals, Facts!PoolsMatchTotals,
           Other!ReasonMatchesDeadline, Facts!ReasonMatchesDeadline,
           Other!DepletedPoolIsSpent, Facts!DepletedPoolIsSpent
  <1>2. Other!VaultsAreAlive <=> Facts!VaultsAreAlive
    BY SMT
       DEF Other!VaultsAreAlive, Facts!VaultsAreAlive, Other!RentExempt, Facts!RentExempt,
           Other!Live, Facts!Live
  <1>3. Other!SettlementIsPayable <=> Facts!SettlementIsPayable
    BY SMT
       DEF Other!SettlementIsPayable, Facts!SettlementIsPayable, Other!Live, Facts!Live,
           Other!Fee, Facts!Fee, Other!BPS_DENOMINATOR, Facts!BPS_DENOMINATOR,
           Other!CANCELLATION_FEE_BPS, Facts!CANCELLATION_FEE_BPS, Other!RentExempt,
           Facts!RentExempt
  <1> QED
    BY <1>1, <1>2, <1>3

\* A quest and a progress account nobody created.
LEMMA SameStart ==
  /\ NoQuest = Facts!NoQuest
  /\ NewProgress = Facts!NewProgress
  BY DEF NoQuest, Facts!NoQuest, NewProgress, Facts!NewProgress, Slots, Facts!Slots,
         EMPTY, Facts!EMPTY

-----------------------------------------------------------------------------
(***************************************************************************)
(* The other quest                                                         *)
(***************************************************************************)

\* What a library definition says does not depend on where it is said.
LEMMA FiniteUsers == Facts!IsFiniteSet(Users)
  <1>1. IsFiniteSet(Users)
    BY UsersAssumption
  <1>2. ASSUME NEW S, IsFiniteSet(S)
        PROVE  Facts!IsFiniteSet(S)
    BY <1>2 DEF IsFiniteSet, Facts!IsFiniteSet
  <1> QED
    BY <1>1, <1>2

\* Counting and adding up are the same under both names.
LEMMA SameSums ==
  /\ \A S : Facts!Cardinality(S) = Cardinality(S)
  /\ \A f : Facts!SumFunction(f) = SumFunction(f)
  <1>1. \A S : Facts!Cardinality(S) = Cardinality(S)
    BY DEF Cardinality, Facts!Cardinality
  <1>2. \A f : Facts!SumFunction(f) = SumFunction(f)
    BY DEF SumFunction, Facts!SumFunction, SumFunctionOnSet, Facts!SumFunctionOnSet,
           FoldFunctionOnSet, Facts!FoldFunctionOnSet, MapThenFoldSet,
           Facts!MapThenFoldSet
  <1> QED
    BY <1>1, <1>2

\* Facts hold under Quest's assumptions, here said of the other quest's constants.
LEMMA OtherSteps ==
  ASSUME Other!Inv, Other!VaultsAreAlive, Other!Next
  PROVE  /\ Other!Inv' /\ Other!VaultsAreAlive'
         /\ now' \in Nat /\ now <= now' /\ feeVault' >= feeVault
  <1>1. Facts!Inv /\ Facts!VaultsAreAlive /\ Facts!Next
    BY SameNext, SameProperties
  <1>2. Facts!Inv' /\ Facts!VaultsAreAlive' => Other!Inv' /\ Other!VaultsAreAlive'
    BY SameProperties, PTL
  <1> USE UsersAssumption, FiniteUsers, FundAssumption, BoundsAssumption, RentAssumption,
          WidthAssumption, WindowAssumption, OtherAssumption
      DEF CreateArgType, Modes, ReviewModes, U64, MIN_REWARD_AMOUNT,
          Facts!CreateArgType, Facts!Modes, Facts!ReviewModes, Facts!U64,
          Facts!MIN_REWARD_AMOUNT
  <1>3. Facts!Inv'
    BY <1>1, Facts!NextKeepsInv
  <1>4. Facts!VaultsAreAlive'
    BY <1>1, Facts!NextKeepsVaults
  <1>5. now' \in Nat /\ now <= now'
    BY <1>1, Facts!ClockGoesOn
  <1>6. feeVault' >= feeVault
    BY <1>1, Facts!FeeVaultGrows
  <1> QED
    BY <1>2, <1>3, <1>4, <1>5, <1>6

\* Nothing of the other quest depends on what this one does to what they share.
LEMMA OtherLeftAlone ==
  ASSUME Other!Inv, UNCHANGED otherAccounts, now' \in Nat, now <= now',
         feeVault' \in Nat, publicGoods' \in Nat, wallet' \in [Users -> Nat]
  PROVE  Other!Inv'
  <1>1. Facts!Inv
    BY SameProperties
  <1>2. Facts!Inv' => Other!Inv'
    BY SameProperties, PTL
  <1>3. UNCHANGED <<otherQuest, otherSubmissions, otherProgress, otherRewardPool,
                    otherDepositPool, otherRewardSent, otherDepositSent>>
    BY DEF otherAccounts
  <1>4. Facts!Inv'
    BY <1>1, <1>3, Facts!OwnAccountsKeepInv, FiniteUsers, UsersAssumption, FundAssumption,
       BoundsAssumption, RentAssumption, WidthAssumption, WindowAssumption,
       OtherAssumption
    DEF CreateArgType, Modes, ReviewModes, U64, MIN_REWARD_AMOUNT,
        Facts!CreateArgType, Facts!Modes, Facts!ReviewModes, Facts!U64,
        Facts!MIN_REWARD_AMOUNT
  <1> QED
    BY <1>2, <1>4

\* What a step of the other quest does to its books and to what both share.
LEMMA OtherStepMoves ==
  ASSUME Other!Inv, Other!Inv', Other!VaultsAreAlive, Facts!Books, Other!Next
  PROVE  /\ Facts!Books'
         /\ Facts!ProgramHolds' + SumFunction(wallet')
              = Facts!ProgramHolds + SumFunction(wallet)
         /\ feeVault' + Facts!VaultDue = feeVault + Facts!VaultDue' + Facts!RentBrought
         /\ \A u \in Users \ {OtherPublisher} :
              wallet'[u] + Facts!Earned(u) = wallet[u] + Facts!Earned(u)'
         /\ otherQuest.status = "Absent" => otherQuest'.status \in {"Absent", "Open"}
         /\ otherQuest.status # "Absent" => otherQuest'.status # "Absent"
  <1>1. Facts!Inv /\ Facts!VaultsAreAlive /\ Facts!Next
    BY SameNext, SameProperties
  <1>2. Facts!Inv'
    <2>1. (Other!Inv <=> Facts!Inv)'
      BY SameProperties, PTL
    <2> QED
      BY <2>1
  <1> USE UsersAssumption, FiniteUsers, FundAssumption, BoundsAssumption, RentAssumption,
          WidthAssumption, WindowAssumption, OtherAssumption
      DEF CreateArgType, Modes, ReviewModes, U64, MIN_REWARD_AMOUNT,
          Facts!CreateArgType, Facts!Modes, Facts!ReviewModes, Facts!U64,
          Facts!MIN_REWARD_AMOUNT
  <1>3. Facts!Books'
    BY <1>1, <1>2, Facts!NextKeepsBooks
  <1>4. Facts!ProgramHolds' + Facts!SumFunction(wallet')
          = Facts!ProgramHolds + Facts!SumFunction(wallet)
    BY <1>1, <1>2, Facts!StepKeepsSum
  <1>5. feeVault' + Facts!VaultDue = feeVault + Facts!VaultDue' + Facts!RentBrought
    BY <1>1, <1>2, Facts!VaultGetsDue
  <1>6. ASSUME NEW u \in Users \ {OtherPublisher}
        PROVE  wallet'[u] + Facts!Earned(u) = wallet[u] + Facts!Earned(u)'
    BY <1>1, Facts!WalletGetsEarned
  <1>7. /\ otherQuest.status = "Absent" => otherQuest'.status \in {"Absent", "Open"}
        /\ otherQuest.status # "Absent" => otherQuest'.status # "Absent"
    BY <1>1, Facts!CreatedOnce
  <1> QED
    BY <1>3, <1>4, <1>5, <1>6, <1>7, SameSums

\* What the other quest owes is a number, and nothing before it is created.
LEMMA OtherDues ==
  ASSUME Other!Inv
  PROVE  /\ Facts!VaultDue \in Int
         /\ otherQuest.total_fee_paid \in Nat /\ Facts!CancellationFee \in Int
         /\ \A u : Facts!Earned(u) \in Nat
         /\ otherQuest.status = "Absent" => Facts!VaultDue = 0
  <1>1. Facts!Inv
    BY SameProperties
  <1> USE UsersAssumption, FiniteUsers, FundAssumption, BoundsAssumption, RentAssumption,
          WidthAssumption, WindowAssumption, OtherAssumption
      DEF CreateArgType, Modes, ReviewModes, U64, MIN_REWARD_AMOUNT,
          Facts!CreateArgType, Facts!Modes, Facts!ReviewModes, Facts!U64,
          Facts!MIN_REWARD_AMOUNT
  <1>2. Facts!VaultDue \in Int
    BY <1>1, Facts!DueType
  <1>3. \A u : Facts!Earned(u) \in Nat
    BY <1>1, Facts!EarnedType
  <1>4. otherQuest.status = "Absent" => Facts!VaultDue = 0
    BY <1>1, Facts!AbsentQuestOwesNothing
  <1>5. otherQuest.total_fee_paid \in Nat /\ Facts!CancellationFee \in Int
    BY <1>1, Facts!DuePartTypes
  <1> QED
    BY <1>2, <1>3, <1>4, <1>5

\* Its books, dues and earnings are its own too.
LEMMA OtherSaysAll ==
  ASSUME UNCHANGED otherAccounts
  PROVE  /\ Facts!Books => Facts!Books'
         /\ Facts!VaultDue' = Facts!VaultDue
         /\ \A u : Facts!Earned(u)' = Facts!Earned(u)
  <1>1. UNCHANGED <<otherQuest, otherSubmissions, otherRewardPool, otherDepositPool,
                    Facts!sent>>
    BY DEF otherAccounts, Facts!sent
  <1> QED
    BY <1>1, Facts!OwnAccountsSayAll, FiniteUsers, UsersAssumption, FundAssumption,
       BoundsAssumption, RentAssumption, WidthAssumption, WindowAssumption,
       OtherAssumption
    DEF CreateArgType, Modes, ReviewModes, U64, MIN_REWARD_AMOUNT,
        Facts!CreateArgType, Facts!Modes, Facts!ReviewModes, Facts!U64,
        Facts!MIN_REWARD_AMOUNT

\* The other quest's settlement can be paid like the one's.
LEMMA OtherIsPayable ==
  ASSUME Other!Inv, Other!VaultsAreAlive
  PROVE  Other!SettlementIsPayable
  <1>1. Facts!Inv /\ Facts!VaultsAreAlive
    BY SameProperties
  <1>2. Facts!SettlementIsPayable
    BY <1>1, Facts!ForfeitIsPayable, FiniteUsers, UsersAssumption, FundAssumption,
       BoundsAssumption, RentAssumption, WidthAssumption, WindowAssumption,
       OtherAssumption
    DEF CreateArgType, Modes, ReviewModes, U64, MIN_REWARD_AMOUNT,
        Facts!CreateArgType, Facts!Modes, Facts!ReviewModes, Facts!U64,
        Facts!MIN_REWARD_AMOUNT
  <1> QED
    BY <1>2, SameProperties

-----------------------------------------------------------------------------
(***************************************************************************)
(* Both quests                                                             *)
(***************************************************************************)

\* The vault's rent is there as soon as one of the quests is.
RentIsThere == {quest.status, otherQuest.status} # {"Absent"} => feeVault >= RENT_MINIMUM

\* The vaults are shared, so both quests must know that they are alive.
MarketInv ==
  /\ QuestsKeepInv
  /\ VaultsAreAlive /\ Other!VaultsAreAlive
  /\ Books /\ Facts!Books
  /\ RentIsThere

\* The invariant of the two quests holds before either is created.
LEMMA MarketInitHasInv == MarketInit => MarketInv
  <1> SUFFICES ASSUME MarketInit
               PROVE  MarketInv
    OBVIOUS
  <1>1. /\ now \in Nat /\ feeVault = 0 /\ publicGoods = 0 /\ wallet \in [Users -> Nat]
    BY BoundsAssumption DEF MarketInit, U64
  <1>2. Inv
    BY <1>1, NothingThereHasInv DEF MarketInit, RentExempt
  <1>3. Facts!Inv
    BY <1>1, SameStart, Facts!NothingThereHasInv, FiniteUsers, UsersAssumption,
       FundAssumption, BoundsAssumption, RentAssumption, WidthAssumption,
       WindowAssumption, OtherAssumption
    DEF MarketInit, CreateArgType, Modes, ReviewModes, U64, MIN_REWARD_AMOUNT,
        Facts!CreateArgType, Facts!Modes, Facts!ReviewModes, Facts!U64,
        Facts!MIN_REWARD_AMOUNT, Facts!RentExempt
  <1>4. VaultsAreAlive /\ Other!VaultsAreAlive
    BY <1>1 DEF MarketInit, VaultsAreAlive, Other!VaultsAreAlive, RentExempt,
                Other!RentExempt, Live, Other!Live, NoQuest
  <1>5. Books /\ Facts!Books
    BY DEF MarketInit, NoQuest, Books, UnpaidWhilePending, RecordsExplainPools, Live,
           Facts!Books, Facts!UnpaidWhilePending, Facts!RecordsExplainPools, Facts!Live
  <1>6. RentIsThere
    BY DEF MarketInit, NoQuest, RentIsThere
  <1> QED
    BY <1>2, <1>3, <1>4, <1>5, <1>6, SameProperties DEF MarketInv, QuestsKeepInv

\* A quest that is created is alive, so its fee vault is; and nothing is taken out.
LEMMA RentStays ==
  ASSUME RentIsThere, VaultsAreAlive', Other!VaultsAreAlive',
         feeVault \in Nat, feeVault' \in Nat, feeVault' >= feeVault,
         quest.status = "Absent" => quest'.status \in {"Absent", "Open"},
         otherQuest.status = "Absent" => otherQuest'.status \in {"Absent", "Open"}
  PROVE  RentIsThere'
  <1>1. RENT_MINIMUM \in Nat
    BY RentAssumption
  <1>2. CASE quest.status = "Absent" /\ otherQuest.status = "Absent"
    <2>1. CASE quest'.status = "Open"
      BY <2>1 DEF VaultsAreAlive, Live, RentIsThere
    <2>2. CASE otherQuest'.status = "Open"
      BY <2>2 DEF Other!VaultsAreAlive, Other!Live, RentIsThere
    <2>3. CASE quest'.status = "Absent" /\ otherQuest'.status = "Absent"
      BY <2>3 DEF RentIsThere
    <2> QED
      BY <1>2, <2>1, <2>2, <2>3
  <1>3. CASE ~ (quest.status = "Absent" /\ otherQuest.status = "Absent")
    <2>1. feeVault >= RENT_MINIMUM
      BY <1>3 DEF RentIsThere
    <2>2. feeVault' >= RENT_MINIMUM
      BY <1>1, <2>1
    <2> QED
      BY <2>2 DEF RentIsThere
  <1> QED
    BY <1>2, <1>3

\* A step of either quest keeps its own promises, as it would alone; the other
\* quest's accounts stay, and it finds no less in the fee vault than before.
LEMMA MarketNextKeepsInv ==
  ASSUME MarketInv, [MarketNext]_marketVars
  PROVE  MarketInv'
  <1>1. /\ Inv /\ Other!Inv /\ VaultsAreAlive /\ Other!VaultsAreAlive
        /\ Books /\ Facts!Books /\ RentIsThere
        /\ feeVault \in Nat /\ RENT_MINIMUM \in Nat
    BY RentAssumption DEF MarketInv, QuestsKeepInv, Inv, TypeOK
  <1>2. CASE Step
    <2>1. Inv' /\ VaultsAreAlive'
      BY <1>1, <1>2, NextKeepsInv, NextKeepsVaults DEF Step
    <2>2. now' \in Nat /\ now <= now' /\ feeVault' >= feeVault
      BY <1>1, <1>2, ClockGoesOn, FeeVaultGrows DEF Step
    <2>3. feeVault' \in Nat /\ publicGoods' \in Nat /\ wallet' \in [Users -> Nat]
      BY <2>1 DEF Inv, TypeOK
    <2>4. Other!Inv'
      BY <1>1, <1>2, <2>2, <2>3, OtherLeftAlone DEF Step
    <2>5. Other!VaultsAreAlive'
      BY <1>1, <1>2, <2>1, <2>2, <2>3
      DEF Step, otherAccounts, VaultsAreAlive, Other!VaultsAreAlive, RentExempt,
          Other!RentExempt, Other!Live
    <2>6. Books' /\ Facts!Books'
      BY <1>1, <1>2, <2>1, NextKeepsBooks, OtherSaysAll DEF Step
    <2>7. RentIsThere'
      BY <1>1, <1>2, <2>1, <2>2, <2>3, <2>5, CreatedOnce, RentStays
      DEF Step, otherAccounts
    <2> QED
      BY <2>1, <2>4, <2>5, <2>6, <2>7 DEF MarketInv, QuestsKeepInv
  <1>3. CASE OtherStep
    <2>1. /\ Other!Inv' /\ Other!VaultsAreAlive'
          /\ now' \in Nat /\ now <= now' /\ feeVault' >= feeVault
      BY <1>1, <1>3, OtherSteps DEF OtherStep
    <2>2. feeVault' \in Nat /\ publicGoods' \in Nat /\ wallet' \in [Users -> Nat]
      BY <2>1 DEF Other!Inv, Other!TypeOK
    <2>3. UNCHANGED <<quest, submissions, progress, rewardPool, depositPool,
                      rewardSent, depositSent, sent>>
      BY <1>3 DEF OtherStep, ownAccounts, sent
    <2>4. Inv'
      BY <1>1, <2>1, <2>2, <2>3, OwnAccountsKeepInv
    <2>5. VaultsAreAlive'
      BY <1>1, <2>1, <2>2, <2>3
      DEF VaultsAreAlive, Other!VaultsAreAlive, RentExempt, Other!RentExempt, Live
    <2>6. /\ Books' /\ Facts!Books'
          /\ otherQuest.status = "Absent" => otherQuest'.status \in {"Absent", "Open"}
      BY <1>1, <1>3, <2>1, <2>3, OtherStepMoves, OwnAccountsSayAll DEF OtherStep
    <2>7. RentIsThere'
      BY <1>1, <2>1, <2>2, <2>3, <2>5, <2>6, RentStays
    <2> QED
      BY <2>1, <2>4, <2>5, <2>6, <2>7 DEF MarketInv, QuestsKeepInv
  <1>4. CASE UNCHANGED marketVars
    <2>1. /\ UNCHANGED <<now, quest, submissions, rewardPool, depositPool, feeVault,
                         publicGoods, wallet, sent>>
          /\ UNCHANGED otherAccounts
      BY <1>4 DEF marketVars, vars, accounts, balances
    <2>2. Inv' /\ VaultsAreAlive'
      BY <1>1, <1>4, NextKeepsInv, NextKeepsVaults DEF marketVars
    <2>3. now' \in Nat /\ now <= now' /\ feeVault' \in Nat /\ publicGoods' \in Nat
          /\ wallet' \in [Users -> Nat]
      BY <2>1, <2>2 DEF Inv, TypeOK
    <2>4. Other!Inv'
      BY <1>1, <2>1, <2>3, OtherLeftAlone
    <2>5. Other!VaultsAreAlive'
      BY <1>1, <2>1
      DEF otherAccounts, Other!VaultsAreAlive, Other!RentExempt, Other!Live
    <2>6. Books' /\ Facts!Books' /\ RentIsThere'
      BY <1>1, <2>1, OwnAccountsSayAll, OtherSaysAll DEF RentIsThere, otherAccounts
    <2> QED
      BY <2>2, <2>4, <2>5, <2>6 DEF MarketInv, QuestsKeepInv
  <1> QED
    BY <1>2, <1>3, <1>4 DEF MarketNext

\* It holds in every state.
LEMMA MarketInvariance == MarketSpec => []MarketInv
  BY MarketInitHasInv, MarketNextKeepsInv, PTL DEF MarketSpec

\* Two quests that share clock, vaults and users keep, each of them, everything a
\* single quest promises.
THEOREM NeitherDisturbsTheOther == MarketSpec => []QuestsKeepInv
  <1>1. MarketInv => QuestsKeepInv
    BY DEF MarketInv
  <1> QED
    BY <1>1, MarketInvariance, PTL

\* Whatever the other quest left in the vaults, a settlement can make its payments.
THEOREM BothCanBeSettled == MarketSpec => []QuestsCanBeSettled
  <1>1. MarketInv => QuestsCanBeSettled
    BY ForfeitIsPayable, OtherIsPayable DEF MarketInv, QuestsKeepInv, QuestsCanBeSettled
  <1> QED
    BY <1>1, MarketInvariance, PTL

-----------------------------------------------------------------------------
(***************************************************************************)
(* Lamports between the quests. What one quest does to the vaults and the  *)
(* wallets is proved of it alone; here the two accounts are added up.      *)
(***************************************************************************)

\* What is added up below are numbers.
Amounts ==
  /\ rewardPool \in Nat /\ depositPool \in Nat
  /\ otherRewardPool \in Nat /\ otherDepositPool \in Nat
  /\ rewardSent \in Nat /\ depositSent \in Nat
  /\ otherRewardSent \in Nat /\ otherDepositSent \in Nat
  /\ feeVault \in Nat /\ publicGoods \in Nat
  /\ wallet \in [Users -> Nat] /\ SumFunction(wallet) \in Int
  /\ VaultDue \in Int /\ Facts!VaultDue \in Int
  /\ \A u : Earned(u) \in Nat /\ Facts!Earned(u) \in Nat

\* What both quests' accounts hold is a number, and so is what wallets hold.
LEMMA MarketTypes == MarketInv => Amounts
  <1> SUFFICES ASSUME MarketInv
               PROVE  Amounts
    OBVIOUS
  <1>1. Inv /\ Other!Inv
    BY DEF MarketInv, QuestsKeepInv
  <1>2. /\ rewardPool \in Nat /\ depositPool \in Nat
        /\ rewardSent \in Nat /\ depositSent \in Nat
        /\ feeVault \in Nat /\ publicGoods \in Nat /\ wallet \in [Users -> Nat]
    BY <1>1 DEF Inv, TypeOK
  <1>3. /\ otherRewardPool \in Nat /\ otherDepositPool \in Nat
        /\ otherRewardSent \in Nat /\ otherDepositSent \in Nat
    BY <1>1 DEF Other!Inv, Other!TypeOK
  <1>4. SumFunction(wallet) \in Int
    <2>1. /\ DOMAIN wallet = Users /\ IsFiniteSet(Users)
          /\ \A u \in Users : wallet[u] \in Int
      BY <1>2, UsersAssumption
    <2>2. SumFunctionOnSet(wallet, Users) \in Int
      BY <2>1, SumType
    <2> QED
      BY <2>1, <2>2 DEF SumFunction
  <1> QED
    BY <1>1, <1>2, <1>3, <1>4, DueType, EarnedType, OtherDues DEF Amounts

\* What a quest has in its pools beside what others sent there.
OwnPools      == (rewardPool - rewardSent) + (depositPool - depositSent)
OtherOwnPools == (otherRewardPool - otherRewardSent) + (otherDepositPool - otherDepositSent)

\* What the vaults and the wallets have, which the two quests share.
SharedLamports == feeVault + publicGoods + SumFunction(wallet)

\* The lamports of the market that others did not send to a pool.
MarketHolds == OwnPools + OtherOwnPools + SharedLamports

\* The books of the market say that this sum is what the two publishers had at first.
LEMMA MarketBooksAreASum ==
  ASSUME Amounts
  PROVE  /\ OwnPools \in Int /\ OtherOwnPools \in Int /\ SharedLamports \in Int
         /\ OwnPools + feeVault + publicGoods + SumFunction(wallet)
              = OwnPools + SharedLamports
         /\ OtherOwnPools + feeVault + publicGoods + SumFunction(wallet)
              = OtherOwnPools + SharedLamports
         /\ MarketConservesLamports <=> MarketHolds = 2 * INITIAL_FUNDS
  <1>1. /\ rewardPool \in Nat /\ depositPool \in Nat
        /\ otherRewardPool \in Nat /\ otherDepositPool \in Nat
        /\ rewardSent \in Nat /\ depositSent \in Nat
        /\ otherRewardSent \in Nat /\ otherDepositSent \in Nat
        /\ feeVault \in Nat /\ publicGoods \in Nat
        /\ 2 * INITIAL_FUNDS \in Nat
    BY BoundsAssumption, WidthAssumption DEF Amounts, U64
  <1>2. SumFunction(wallet) \in Int
    BY DEF Amounts
  <1>3. \A w, funds \in Int :
          funds + rewardSent + depositSent + otherRewardSent + otherDepositSent
            = rewardPool + depositPool + otherRewardPool + otherDepositPool
                + feeVault + publicGoods + w
          <=> ((rewardPool - rewardSent) + (depositPool - depositSent))
                + ((otherRewardPool - otherRewardSent)
                     + (otherDepositPool - otherDepositSent))
                + (feeVault + publicGoods + w) = funds
    BY <1>1
  <1>4. MarketConservesLamports <=> MarketHolds = 2 * INITIAL_FUNDS
    BY <1>1, <1>2, <1>3
    DEF MarketConservesLamports, MarketHolds, OwnPools, OtherOwnPools, SharedLamports
  <1>5. OwnPools \in Int /\ OtherOwnPools \in Int
    BY <1>1 DEF OwnPools, OtherOwnPools
  <1> QED
    BY <1>1, <1>2, <1>4, <1>5 DEF SharedLamports

\* The lamports of the market add up to the same after each step of either quest.
LEMMA MarketNextConserves ==
  ASSUME MarketInv, MarketInv', MarketConservesLamports, [MarketNext]_marketVars
  PROVE  MarketConservesLamports'
  <1>1. /\ OwnPools \in Int /\ OtherOwnPools \in Int /\ SharedLamports \in Int
        /\ OwnPools + feeVault + publicGoods + SumFunction(wallet)
             = OwnPools + SharedLamports
        /\ OtherOwnPools + feeVault + publicGoods + SumFunction(wallet)
             = OtherOwnPools + SharedLamports
        /\ MarketHolds = 2 * INITIAL_FUNDS
    BY MarketTypes, MarketBooksAreASum
  <1>2. /\ OwnPools' \in Int /\ OtherOwnPools' \in Int /\ SharedLamports' \in Int
        /\ OwnPools' + feeVault' + publicGoods' + SumFunction(wallet')
             = OwnPools' + SharedLamports'
        /\ OtherOwnPools' + feeVault' + publicGoods' + SumFunction(wallet')
             = OtherOwnPools' + SharedLamports'
        /\ MarketHolds' = 2 * INITIAL_FUNDS => MarketConservesLamports'
    <2>1. (MarketInv => Amounts)'
      BY MarketTypes, PTL
    <2>2. (Amounts =>
             /\ OwnPools \in Int /\ OtherOwnPools \in Int /\ SharedLamports \in Int
             /\ OwnPools + feeVault + publicGoods + SumFunction(wallet)
                  = OwnPools + SharedLamports
             /\ OtherOwnPools + feeVault + publicGoods + SumFunction(wallet)
                  = OtherOwnPools + SharedLamports
             /\ MarketConservesLamports <=> MarketHolds = 2 * INITIAL_FUNDS)'
      BY MarketBooksAreASum, PTL
    <2> QED
      BY <2>1, <2>2
  <1>3. /\ Inv /\ Inv' /\ Other!Inv /\ Other!Inv' /\ Other!VaultsAreAlive /\ Facts!Books
    BY DEF MarketInv, QuestsKeepInv
  <1> SUFFICES MarketHolds' = MarketHolds
    BY <1>1, <1>2
  <1>4. CASE Step
    <2>1. ProgramHolds' + SumFunction(wallet') = ProgramHolds + SumFunction(wallet)
      BY <1>3, <1>4, StepKeepsSum DEF Step
    <2>2. OtherOwnPools' = OtherOwnPools
      BY <1>4 DEF Step, otherAccounts, OtherOwnPools
    <2>3. OwnPools' + SharedLamports' = OwnPools + SharedLamports
      BY <1>1, <1>2, <2>1 DEF ProgramHolds, OwnPools
    <2>4. \A own, shared \in Int :
            own + shared = OwnPools + SharedLamports
              => own + OtherOwnPools + shared = OwnPools + OtherOwnPools + SharedLamports
      BY <1>1
    <2>5. OwnPools' + OtherOwnPools + SharedLamports'
            = OwnPools + OtherOwnPools + SharedLamports
      BY <1>2, <2>3, <2>4
    <2> QED
      BY <2>2, <2>5 DEF MarketHolds
  <1>5. CASE OtherStep
    <2>1. Facts!ProgramHolds' + SumFunction(wallet')
            = Facts!ProgramHolds + SumFunction(wallet)
      BY <1>3, <1>5, OtherStepMoves DEF OtherStep
    <2>2. OwnPools' = OwnPools
      BY <1>5 DEF OtherStep, ownAccounts, sent, OwnPools
    <2>3. OtherOwnPools' + SharedLamports' = OtherOwnPools + SharedLamports
      BY <1>1, <1>2, <2>1 DEF Facts!ProgramHolds, OtherOwnPools
    <2>4. \A other, shared \in Int :
            other + shared = OtherOwnPools + SharedLamports
              => OwnPools + other + shared = OwnPools + OtherOwnPools + SharedLamports
      BY <1>1
    <2>5. OwnPools + OtherOwnPools' + SharedLamports'
            = OwnPools + OtherOwnPools + SharedLamports
      BY <1>2, <2>3, <2>4
    <2> QED
      BY <2>2, <2>5 DEF MarketHolds
  <1>6. CASE UNCHANGED marketVars
    BY <1>6 DEF marketVars, vars, accounts, balances, sent, otherAccounts,
                MarketHolds, OwnPools, OtherOwnPools, SharedLamports
  <1> QED
    BY <1>4, <1>5, <1>6 DEF MarketNext

\* At first the two publishers have everything there is.
LEMMA MarketInitConserves == MarketInit => MarketConservesLamports
  <1> SUFFICES ASSUME MarketInit
               PROVE  MarketConservesLamports
    OBVIOUS
  <1> DEFINE rest == Users \ {Publisher}
             none == rest \ {OtherPublisher}
  <1>1. /\ wallet = [u \in Users |-> IF u \in {Publisher, OtherPublisher}
                                    THEN INITIAL_FUNDS
                                    ELSE 0]
        /\ INITIAL_FUNDS \in Nat /\ Publisher \in Users /\ OtherPublisher \in rest
        /\ IsFiniteSet(Users)
    BY UsersAssumption, BoundsAssumption, OtherAssumption DEF MarketInit, U64
  <1>2. IsFiniteSet(rest) /\ IsFiniteSet(none)
    BY <1>1, FS_Subset
  <1>3. /\ \A u \in Users : wallet[u] \in Int
        /\ \A u \in rest : wallet[u] \in Int
        /\ \A u \in none : wallet[u] = 0
        /\ wallet[Publisher] = INITIAL_FUNDS /\ wallet[OtherPublisher] = INITIAL_FUNDS
        /\ DOMAIN wallet = Users
    BY <1>1
  <1>4. SumFunction(wallet) = SumFunctionOnSet(wallet, Users)
    BY <1>3 DEF SumFunction
  <1>5. SumFunctionOnSet(wallet, Users) = wallet[Publisher] + SumFunctionOnSet(wallet, rest)
    BY <1>1, <1>3, SumTakes
  <1>6. SumFunctionOnSet(wallet, rest)
          = wallet[OtherPublisher] + SumFunctionOnSet(wallet, none)
    <2> HIDE DEF rest
    <2> QED
      BY <1>1, <1>2, <1>3, SumTakes
  <1>7. SumFunctionOnSet(wallet, none) = 0
    <2> HIDE DEF none
    <2> QED
      BY <1>2, <1>3, SumOfZeros
  <1> HIDE DEF rest, none
  <1>8. SumFunction(wallet) = INITIAL_FUNDS + INITIAL_FUNDS
    BY <1>1, <1>3, <1>4, <1>5, <1>6, <1>7
  <1>9. /\ rewardPool = 0 /\ otherRewardPool = 0
        /\ depositPool = 0 /\ otherDepositPool = 0
        /\ feeVault = 0 /\ publicGoods = 0
        /\ rewardSent = 0 /\ depositSent = 0
        /\ otherRewardSent = 0 /\ otherDepositSent = 0
    BY DEF MarketInit
  <1> QED
    BY <1>1, <1>8, <1>9 DEF MarketConservesLamports

\* Two quests that share vaults and users lose no lamport between them and make none.
THEOREM NothingIsLostBetween == MarketSpec => []MarketConservesLamports
  <1>1. MarketInv /\ MarketInv' /\ MarketConservesLamports /\ [MarketNext]_marketVars
          => MarketConservesLamports'
    BY MarketNextConserves
  <1> QED
    BY <1>1, MarketInitConserves, MarketInvariance, PTL DEF MarketSpec

-----------------------------------------------------------------------------
\* What the two quests paid, said of each by its own account of it.
LEMMA EarningsAreOfEach ==
  EarningsMatch <=> \A u \in Submitters \ {Publisher, OtherPublisher} :
                      wallet[u] = Earned(u) + Facts!Earned(u)
  <1>1. \A u : Earned(u) = Cardinality(Accepted(submissions, u))
                             * quest.reward_per_completion
    BY DEF Earned, PaidTo, With, Accepted, Reward
  <1>2. ASSUME NEW u
        PROVE  Facts!Earned(u) = Cardinality(Accepted(otherSubmissions, u))
                                   * otherQuest.reward_per_completion
    <2>1. Facts!PaidTo(u) = Accepted(otherSubmissions, u)
      BY DEF Facts!PaidTo, Facts!With, Accepted
    <2> QED
      BY <2>1, SameSums DEF Facts!Earned, Facts!Reward
  <1> QED
    BY <1>1, <1>2 DEF EarningsMatch

\* A step of either quest pays what it owes for it; the other owes what it did.
LEMMA MarketNextPaysEarnings ==
  ASSUME MarketInv, MarketInv', EarningsMatch, [MarketNext]_marketVars
  PROVE  EarningsMatch'
  <1> SUFFICES ASSUME NEW u \in Submitters \ {Publisher, OtherPublisher}
               PROVE  wallet'[u] = Earned(u)' + Facts!Earned(u)'
    <2>1. (EarningsMatch <=> \A u \in Submitters \ {Publisher, OtherPublisher} :
                               wallet[u] = Earned(u) + Facts!Earned(u))'
      BY EarningsAreOfEach, PTL
    <2> QED
      BY <2>1
  <1>1. u \in Users \ {Publisher} /\ u \in Users \ {OtherPublisher}
    BY UsersAssumption
  <1>2. /\ wallet[u] = Earned(u) + Facts!Earned(u)
        /\ wallet[u] \in Nat /\ Earned(u) \in Nat /\ Facts!Earned(u) \in Nat
    BY <1>1, EarningsAreOfEach, MarketTypes DEF Amounts
  <1>3. wallet'[u] \in Nat /\ Earned(u)' \in Nat /\ Facts!Earned(u)' \in Nat
    <2>1. (MarketInv => Amounts)'
      BY MarketTypes, PTL
    <2> QED
      BY <1>1, <2>1 DEF Amounts
  <1>4. Inv /\ Other!Inv /\ Other!Inv' /\ Other!VaultsAreAlive /\ Facts!Books
    BY DEF MarketInv, QuestsKeepInv
  <1>5. CASE Step
    <2>1. wallet'[u] + Earned(u) = wallet[u] + Earned(u)'
      BY <1>1, <1>4, <1>5, WalletGetsEarned DEF Step
    <2>2. Facts!Earned(u)' = Facts!Earned(u)
      BY <1>5, OtherSaysAll DEF Step
    <2> QED
      BY <1>2, <1>3, <2>1, <2>2
  <1>6. CASE OtherStep
    <2>1. wallet'[u] + Facts!Earned(u) = wallet[u] + Facts!Earned(u)'
      BY <1>1, <1>4, <1>6, OtherStepMoves DEF OtherStep
    <2>2. Earned(u)' = Earned(u)
      BY <1>6, OwnAccountsSayAll DEF OtherStep, ownAccounts
    <2> QED
      BY <1>2, <1>3, <2>1, <2>2
  <1>7. CASE UNCHANGED marketVars
    <2>1. /\ UNCHANGED <<quest, submissions, rewardPool, depositPool, sent>>
          /\ UNCHANGED otherAccounts /\ UNCHANGED wallet
      BY <1>7 DEF marketVars, vars, accounts, balances
    <2> QED
      BY <1>2, <2>1, OwnAccountsSayAll, OtherSaysAll
  <1> QED
    BY <1>5, <1>6, <1>7 DEF MarketNext

\* Nobody has earned anything before there is a quest.
LEMMA MarketInitPaysNobody == MarketInit => EarningsMatch
  <1> SUFFICES ASSUME MarketInit, NEW u \in Submitters \ {Publisher, OtherPublisher}
               PROVE  wallet[u] = Earned(u) + Facts!Earned(u)
    BY EarningsAreOfEach
  <1>1. wallet[u] = 0
    BY UsersAssumption DEF MarketInit
  <1>2. Earned(u) = 0
    BY NobodyEarned DEF MarketInit
  <1>3. Facts!Earned(u) = 0
    BY SameStart, Facts!NobodyEarned, FiniteUsers, UsersAssumption, FundAssumption,
       BoundsAssumption, RentAssumption, WidthAssumption, WindowAssumption,
       OtherAssumption
    DEF MarketInit, CreateArgType, Modes, ReviewModes, U64, MIN_REWARD_AMOUNT,
        Facts!CreateArgType, Facts!Modes, Facts!ReviewModes, Facts!U64,
        Facts!MIN_REWARD_AMOUNT
  <1> QED
    BY <1>1, <1>2, <1>3

\* A user who works for both publishers has the rewards of each, and no more.
THEOREM EachQuestPaysItsOwn == MarketSpec => []EarningsMatch
  <1>1. MarketInv /\ MarketInv' /\ EarningsMatch /\ [MarketNext]_marketVars
          => EarningsMatch'
    BY MarketNextPaysEarnings
  <1> QED
    BY <1>1, MarketInitPaysNobody, MarketInvariance, PTL DEF MarketSpec

-----------------------------------------------------------------------------
\* The rent of the fee vault, and what the two quests owe it.
VaultRent == IF {quest.status, otherQuest.status} = {"Absent"} THEN 0 ELSE RENT_MINIMUM

\* VaultHoldsFees, said of each quest by its own account of what it owes.
LEMMA VaultHoldsDues ==
  MarketInv => (VaultHoldsFees <=> feeVault = VaultDue + Facts!VaultDue + VaultRent)
  <1> SUFFICES ASSUME MarketInv
               PROVE  VaultHoldsFees <=> feeVault = VaultDue + Facts!VaultDue + VaultRent
    OBVIOUS
  <1>1. Cancellation(quest, submissions, depositSent, depositPool) = CancellationFee
    BY DEF Cancellation, CancellationFee, SettledDeposit, PaidFromDeposit
  <1>2. Cancellation(otherQuest, otherSubmissions, otherDepositSent, otherDepositPool)
          = Facts!CancellationFee
    BY SameSums
    DEF Cancellation, Facts!CancellationFee, Facts!SettledDeposit,
        Facts!PaidFromDeposit, Fee, Facts!Fee,
        CANCELLATION_FEE_BPS, Facts!CANCELLATION_FEE_BPS, BPS_DENOMINATOR,
        Facts!BPS_DENOMINATOR
  <1>3. /\ quest.total_fee_paid \in Nat /\ CancellationFee \in Int
        /\ otherQuest.total_fee_paid \in Nat /\ Facts!CancellationFee \in Int
        /\ VaultRent \in Nat
    BY DuePartTypes, OtherDues, RentAssumption DEF MarketInv, QuestsKeepInv, VaultRent
  <1>4. VaultDue = quest.total_fee_paid + CancellationFee
    BY DEF VaultDue
  <1>5. Facts!VaultDue = otherQuest.total_fee_paid + Facts!CancellationFee
    BY DEF Facts!VaultDue
  <1>6. quest.total_fee_paid + otherQuest.total_fee_paid
          + CancellationFee + Facts!CancellationFee + VaultRent
          = VaultDue + Facts!VaultDue + VaultRent
    BY <1>3, <1>4, <1>5
  <1>7. VaultHoldsFees <=> feeVault = quest.total_fee_paid + otherQuest.total_fee_paid
                             + CancellationFee + Facts!CancellationFee + VaultRent
    BY <1>1, <1>2 DEF VaultHoldsFees, VaultRent
  <1> QED
    BY <1>6, <1>7

\* The first of the two brings the rent: the vault is empty just as long as
\* neither is there.
LEMMA FirstBringsRent ==
  ASSUME MarketInv, feeVault = VaultDue + Facts!VaultDue + VaultRent
  PROVE  /\ VaultRent = 0 => feeVault = 0
         /\ VaultRent # 0 => feeVault # 0
         /\ VaultRent \in {0, RENT_MINIMUM} /\ RENT_MINIMUM \in Nat \ {0}
         /\ VaultRent = 0 <=> quest.status = "Absent" /\ otherQuest.status = "Absent"
  <1>1. RENT_MINIMUM \in Nat \ {0} /\ feeVault \in Nat
    BY RentAssumption, MarketTypes DEF Amounts
  <1>2. VaultRent = 0 <=> quest.status = "Absent" /\ otherQuest.status = "Absent"
    BY <1>1 DEF VaultRent
  <1>3. VaultRent = 0 => feeVault = 0
    BY <1>2, AbsentQuestOwesNothing, OtherDues DEF MarketInv, QuestsKeepInv
  <1>4. VaultRent # 0 => feeVault # 0
    <2>1. VaultRent # 0 => feeVault >= RENT_MINIMUM
      BY DEF MarketInv, RentIsThere, VaultRent
    <2> QED
      BY <1>1, <2>1
  <1> QED
    BY <1>1, <1>2, <1>3, <1>4 DEF VaultRent

\* A step of either quest pays the vault what it owes for it, and the rent if it
\* creates the first quest.
LEMMA MarketNextPaysVault ==
  ASSUME MarketInv, MarketInv', VaultHoldsFees, [MarketNext]_marketVars
  PROVE  VaultHoldsFees'
  <1>1. /\ feeVault = VaultDue + Facts!VaultDue + VaultRent
        /\ feeVault \in Nat /\ VaultDue \in Int /\ Facts!VaultDue \in Int
    BY VaultHoldsDues, MarketTypes DEF Amounts
  <1>2. feeVault' \in Nat /\ VaultDue' \in Int /\ Facts!VaultDue' \in Int
    <2>1. (MarketInv => Amounts)'
      BY MarketTypes, PTL
    <2> QED
      BY <2>1 DEF Amounts
  <1> SUFFICES feeVault' = VaultDue' + Facts!VaultDue' + VaultRent'
    <2>1. (MarketInv =>
            (VaultHoldsFees <=> feeVault = VaultDue + Facts!VaultDue + VaultRent))'
      BY VaultHoldsDues, PTL
    <2> QED
      BY <2>1
  <1>3. /\ VaultRent = 0 => feeVault = 0
        /\ VaultRent # 0 => feeVault # 0
        /\ VaultRent \in {0, RENT_MINIMUM} /\ RENT_MINIMUM \in Nat \ {0}
        /\ VaultRent = 0 <=> quest.status = "Absent" /\ otherQuest.status = "Absent"
    BY <1>1, FirstBringsRent
  <1>4. VaultRent' = IF quest'.status = "Absent" /\ otherQuest'.status = "Absent"
                     THEN 0
                     ELSE RENT_MINIMUM
    BY DEF VaultRent
  <1>5. /\ Inv /\ Inv' /\ VaultsAreAlive /\ Books
        /\ Other!Inv /\ Other!Inv' /\ Other!VaultsAreAlive /\ Facts!Books
    BY DEF MarketInv, QuestsKeepInv
  <1>6. CASE Step
    <2>1. feeVault' + VaultDue = feeVault + VaultDue' + RentBrought
      BY <1>5, <1>6, VaultGetsDue DEF Step
    <2>2. Facts!VaultDue' = Facts!VaultDue /\ otherQuest' = otherQuest
      BY <1>6, OtherSaysAll DEF Step, otherAccounts
    <2>3. quest.status # "Absent" => quest'.status # "Absent"
      BY <1>5, <1>6, CreatedOnce DEF Step
    <2>4. VaultRent' = VaultRent + RentBrought /\ RentBrought \in Nat
      BY <1>3, <1>4, <2>2, <2>3 DEF RentBrought, VaultTopUp
    <2>5. \A vault, due \in Int :
            vault + VaultDue = feeVault + due + RentBrought
              => vault = due + Facts!VaultDue + (VaultRent + RentBrought)
      BY <1>1, <1>3, <2>4
    <2>6. feeVault' = VaultDue' + Facts!VaultDue + (VaultRent + RentBrought)
      BY <1>2, <2>1, <2>5
    <2> QED
      BY <2>2, <2>4, <2>6
  <1>7. CASE OtherStep
    <2>1. /\ feeVault' + Facts!VaultDue = feeVault + Facts!VaultDue' + Facts!RentBrought
          /\ otherQuest.status # "Absent" => otherQuest'.status # "Absent"
      BY <1>5, <1>7, OtherStepMoves DEF OtherStep
    <2>2. VaultDue' = VaultDue /\ quest' = quest
      BY <1>7, OwnAccountsSayAll DEF OtherStep, ownAccounts
    <2>3. VaultRent' = VaultRent + Facts!RentBrought /\ Facts!RentBrought \in Nat
      BY <1>3, <1>4, <2>1, <2>2 DEF Facts!RentBrought, Facts!VaultTopUp
    <2>4. \A vault, due \in Int :
            vault + Facts!VaultDue = feeVault + due + Facts!RentBrought
              => vault = VaultDue + due + (VaultRent + Facts!RentBrought)
      BY <1>1, <1>3, <2>3
    <2>5. feeVault' = VaultDue + Facts!VaultDue' + (VaultRent + Facts!RentBrought)
      BY <1>2, <2>1, <2>4
    <2> QED
      BY <2>2, <2>3, <2>5
  <1>8. CASE UNCHANGED marketVars
    <2>1. /\ UNCHANGED <<quest, submissions, rewardPool, depositPool, sent, feeVault>>
          /\ UNCHANGED otherAccounts /\ otherQuest' = otherQuest
      BY <1>8 DEF marketVars, vars, accounts, balances, otherAccounts
    <2>2. VaultDue' = VaultDue /\ Facts!VaultDue' = Facts!VaultDue
      BY <2>1, OwnAccountsSayAll, OtherSaysAll
    <2>3. VaultRent' = VaultRent
      BY <2>1 DEF VaultRent
    <2> QED
      BY <1>1, <2>1, <2>2, <2>3
  <1> QED
    BY <1>6, <1>7, <1>8 DEF MarketNext

\* The vault does not exist before the first quest.
LEMMA MarketInitVault == MarketInit => VaultHoldsFees
  <1> SUFFICES ASSUME MarketInit
               PROVE  VaultHoldsFees
    OBVIOUS
  <1>1. MarketInv
    BY MarketInitHasInv
  <1>2. quest.status = "Absent" /\ otherQuest.status = "Absent" /\ feeVault = 0
    BY DEF MarketInit, NoQuest
  <1>3. VaultDue = 0 /\ Facts!VaultDue = 0
    BY <1>1, <1>2, AbsentQuestOwesNothing, OtherDues DEF MarketInv, QuestsKeepInv
  <1>4. VaultRent = 0
    BY <1>2 DEF VaultRent
  <1> QED
    BY <1>1, <1>2, <1>3, <1>4, VaultHoldsDues

\* The fee vault two quests pay into holds just what both owe it and one rent,
\* whichever was created first and whichever is settled last.
THEOREM VaultHasTheFees == MarketSpec => []VaultHoldsFees
  <1>1. MarketInv /\ MarketInv' /\ VaultHoldsFees /\ [MarketNext]_marketVars
          => VaultHoldsFees'
    BY MarketNextPaysVault
  <1> QED
    BY <1>1, MarketInitVault, MarketInvariance, PTL DEF MarketSpec
=============================================================================
