# LootLoop: a verification of the quest program

LootLoop is a Solana program (Anchor, Rust) that pays rewards for work: a
*publisher* creates a quest and puts its rewards and a security deposit into
escrow, *submitters* send proofs of work into a bounded queue, a *reviewer* (or a
verifier's signature) accepts or rejects them in order, and an accepted proof is
paid in the same transaction. This directory models the program in TLA+, checks
it with TLC and proves its main promises with TLAPS.

Paths below are relative to `programs/lootloop/src/` unless they start with
`docs/` or `app/`.

## 1. The system

| Component | State | Operations | Hard behaviour |
|---|---|---|---|
| Quest life cycle and escrow (`instructions/*.rs`, `state.rs`) | the Quest account (terms, status, reason, queue indices, totals), one Submission account per proof, the reward pool and deposit pool of the quest | `create_quest`, `fund_quest`, `submit_proof`, `approve_submission`, `reject_submission`, `close_quest`, `settle_quest` | calls of several signers in any order; the deadline passing between any two; the reward pool running dry in the middle of a queue; lamports that somebody sends to a pool |
| User progress (`state.rs`) | per quest and user: two flags for a OneTime quest, an array of 32 recent cycles with a cursor for a Recurring one | `cycle_state`, `prune_old_cycles`, `set_cycle_state`, `set_cycle_state_in_window` | reviews that come cycles late; slots used again; zero meaning both "free" and "cycle 0" |
| Amounts, fees, rent (`constants.rs`, helpers of the handlers) | the fee vault, the public goods pool | checked fees, transfers, first top-up of the vault | overflow, remainders, the rent-exempt minimum |
| Automatic review (`approve_submission.rs`) | UsedProof accounts; the verifier's signed VerificationResult | `auto_approve_submission` | statements that are old, sent twice or made for another head of the queue |
| Several quests | PDA seeds that bind accounts to a quest and a user; the two vaults all quests share | the constraints of every `#[derive(Accounts)]` | accounts of one quest used with another |
| Client (`app/src/App.tsx`) | what the page last read: the quest, `reviewIndexInput`, `currentReviewSubmission` | `fetchQuest`, `loadCurrentReviewSubmission`, `submitProof`, `approveOrReject` | overlapping loads; what was read is stale when the transaction runs; a click repeated after a lost answer |
| Dispatch (`lib.rs`), errors, IDL, tests | none | `lib.rs` hands each instruction to its handler | – |

The components meet in the accounts: every handler reads and writes the Quest
account; `submit_proof` and the reviews also write a Submission and the user's
progress; the reviews and the settlement move lamports out of pools. A Solana
transaction locks the accounts it writes and takes effect whole or not at all, so
the handlers do not interleave *inside*: what is hard is the order of whole calls
by different signers, against a clock none of them controls.

What makes each part correct:

- **Escrow**: the deposit is worth what waits in the queue at any moment; an
  approval pays in full, and is refused for nothing but a remainder that
  somebody sent to the reward pool (section 5); one payment per accepted proof;
  every lamport is accounted for; what is left goes to the party the reason for
  stopping names.
- **Life cycle**: Open, Closing, Closed in this order; the reason and the terms are
  final once the quest leaves Open; a closing quest can be settled.
- **Queue**: first in, first out, at most `queue_max` waiting, nobody skipped.
- **Progress**: a user is paid at most once for a cycle (or for a OneTime quest),
  however late the reviews are; a rejected user may try again.
- **Automatic review**: a payment needs a fresh statement of the verifier about
  exactly this submission, and a proof is used once.
- **Several quests**: nothing that happens to one quest changes what another one
  owes, or keeps it from being settled.
- **Client**: a late, repeated or contrary transaction of a page does no harm, and
  what a reviewer decides is what the page displays.

## 2. The modules

| Module | What it models |
|---|---|
| `Lamports` | the protocol's constants, checked fees, integer widths, the rent rule |
| `UserProgress` | the progress account and its methods, as pure operators |
| `Quest` | one quest: extends the two above; one action per instruction handler |
| `AutoReview` | `auto_approve_submission` beside the actions of `Quest`: extends it by signed statements and UsedProof accounts |
| `Escrow` | the abstract specification: claims, the money that can pay them, and the order they are decided in |
| `Market` | two quests side by side: extends `Quest` by a second instance of it with accounts of its own |
| `Client` | the web page beside the program: extends `Quest` by pages, their loads and the transactions they send |
| `MCQuest`, `MCAuto`, `MCMarket`, `MCClient` | arguments and model values for TLC |
| `QuestProofs` | the inductive invariant of `Quest` and what follows from it |
| `SumProofs` | what a sum over a finite set is: any term can be taken out, one can change or be put in |
| `PaymentProofs` | where the lamports go: a settlement can be paid, a proof is paid once, the books balance |
| `CycleProofs` | one proof per cycle, and what the window shows, for every size of the window |
| `EscrowProofs` | `Quest` and `AutoReview` implement `Escrow` |
| `AutoProofs`, `MarketProofs`, `ClientProofs` | theorems about `AutoReview`, `Market` and `Client` |

### How `Quest` corresponds to the code

| Variable | In the program |
|---|---|
| `now` | `Clock::get()?.unix_timestamp`; the action `Tick` advances it between transactions |
| `quest` | the Quest account, field names kept; status `Absent` is an account not yet created |
| `submissions` | the Submission accounts by `submission_index` (the seed of their address) |
| `progress` | the UserProgress accounts by user; an account not yet created is all zeros, which is what `submit_proof` writes when it creates one |
| `rewardPool`, `depositPool`, `feeVault`, `publicGoods` | lamports of the system accounts |
| `wallet` | lamports the program took from the publisher or paid to a user |
| `rewardSent`, `depositSent` | history: lamports sent to a pool without the program |

`CreateQuest`, `FundQuest`, `SubmitProof`, `ApproveSubmission`, `RejectSubmission`,
`CloseQuest` and `SettleQuest` are the handlers of the same name, each from its
account constraints to its last transfer. A failed `require!`, `checked_*` or
transfer aborts the transaction, so each is a conjunct of the guard.
`ApproveAndPay` is `approve_and_pay_submission`, which both kinds of approval
call. Signers are parameters, and the authority checks are guards on them.

Modelled by what they do: fees (`Fee`, with the overflow of the intermediate product in
`FeeFits`), the required deposit, the first payment into the fee vault (`VaultTopUp`),
and the runtime's refusal of an account below the rent-exempt minimum (`RentExempt`,
external to the program, wherever a handler changes a pool or a vault).

Left out: URIs and bumps, time stamps and counters that are written and never
read, transaction fees and the rent of new accounts, and `checked_add` on counters
that go up by one. `publisher` and `reviewer` never change and are constants.

Anybody can send lamports to a pool's address by a plain transfer, as
`tests/lootloop.ts:1596` does; the handlers then work with the raw balance. `SendToPool` is this transfer. It is
external to the program, comes in any state of the quest (also before `create_quest`, and
after the settlement, when the lamports stay where they are), and obeys the rent rule like any other.
`rewardSent` and `depositSent` remember what came in this way, so that the properties can
tell it from what the program moved.

Assumed: nobody sends lamports to the two vaults. `VaultHoldsFees` and the conservation of lamports are
about such vaults; a vault that somebody did send lamports to is only further from the rent
minimum. The wallet of a submitter is an account that may hold any balance.

`close_quest.rs` and `settle_quest.rs` each have a `settle_pools`. The two are the same text,
so `SettlePools` stands for both; whoever changes one of them has to split it.

### How `AutoReview` corresponds to the code

| Variable | In the program |
|---|---|
| `signed` | the VerificationResults that somebody signed, with the signing key; a statement never disappears, so it can be handed in late, again or never |
| `usedProofs` | the UsedProof accounts of the quest, by `external_proof_hash` (the seed of their address) |

`AutoApproveSubmission` is `auto_approve_submission_handler` with its account
constraints (`UnusedProof` is the `init` of the `used_proof` account), and ends in the same
`ApproveAndPay` as the manual approval; the other instructions are `Next` of `Quest`.
`Sign` is external: a key, the right one or another, signs a statement about a
submission that exists, or about the one a user expects to send next (which
another user's submission may then displace). `SignedByVerifier` is what
`verify_previous_ed25519_instruction` establishes together with the runtime's Ed25519
program: exactly this message was signed with the quest's key. The offsets in the
instruction's bytes are not modelled. `here` stands for the four fields that name
the domain, the program, the quest and the template.

### How `Quest` implements `Escrow`

`Escrow` is what a submitter may rely on without knowing of pools, fees, clocks,
cycles or reviewers: a claim is admitted only while the money that can pay it is
there; claims are decided in order; a paid claim brings its owner the full price;
a decision stands; and other than by payments that money leaves only when the escrow
stops admitting, down to what the waiting claims need, or when no claim waits. The mapping
`Promise` in `Quest`:

| `Escrow` | `Quest` |
|---|---|
| `phase`, `price` | `quest.status`, `quest.reward_per_completion` |
| `claims` | the submissions, as owner and Waiting, Paid or Refused |
| `admitted`, `decided` | `next_submission_index`, `next_review_index` |
| `payable` | the deposit pool, and the reward pool as long as the quest is Open |
| `received` | the wallets of the submitters, except the publisher's, who also pays in |

`CreateQuest` is `Open`, `FundQuest` and `SendToPool` are a `Deposit`, `SubmitProof` a `Claim`, both kinds of approval
`Pay`, `RejectSubmission` `Refuse`, `CloseQuest` `Stop` or `Settle`, `SettleQuest` `Settle`; the clock
and the signatures stutter. An approval that stops an Open quest takes the reward pool
out of `payable` in the same step as the reward. It is a `Pay` that stops (`PayAndStop`): what that pool
may still have, less than a price that was sent there, no longer counts, but what does count
covers everybody who goes on waiting.

### How `Market` corresponds to the code

The variables of `Quest` are one quest's, `otherQuest` ... `otherDepositPool` the accounts of another
by another publisher; `now`, `feeVault`, `publicGoods` and `wallet` are shared.
Addresses of pools, progress and new submissions derive from the quest's key
(`seeds = [...]` in every `#[derive(Accounts)]`), so each quest has its own. One account does not:
the Submission of a review is handed in by the caller, and the handlers compare
`submission.quest` (`approve_submission.rs:281`, `reject_submission.rs:44`).
`Step` and `OtherStep` are what these checks leave; `StepOnAnySubmission` is the program without
the first kind of check. Two quests are enough: what a quest sees of all others is
the state of the vaults and of the clock. Transfers to the other quest's pools are in
`otherRewardSent` and `otherDepositSent`. The two publishers are distinct; by the seeds one
publisher may have several quests, and that case is not modelled.

### How `Client` corresponds to the code

| Variable | In `App.tsx` |
|---|---|
| `page[p].status`, `can_submit` | what `questDetail` shows: the status and whether the submit button works |
| `page[p].review_index` | `reviewIndexInput` |
| `page[p].shown` | the index of `currentReviewSubmission`, or nothing |
| `loads[p]` | the calls of `fetchQuest` and `loadCurrentReviewSubmission` under way |
| `requests` | transactions, with the status they want, the index they name, what was on display at the click, and their outcome |

A load is three steps that others interleave with: it reads the quest (`ReadQuest`), the
answer arrives and sets the quest and the index (`QuestArrives`), the submission
arrives and is displayed (`ItemArrives`). Any read may fail (`LoadFails`), and nothing in the page
cancels an older load. *Load Next* runs `fetchQuest` and then
`loadCurrentReviewSubmission` again (`again`). `ClickSubmit` is `submitProof`, whose fresh read of the quest
names the Submission's address; `ClickReview` is `approveOrReject`, which names the submission of
`reviewIndexInput`. `Run` is the transaction on chain, at any later time or never, with the handler of
`Quest` as its effect; `Confirm` is the sender's reload. A user who clicks again sends a second
request. `Elsewhere` is everything that does not come from these tabs, other users'
transactions included.

Left out: several reads of one load are taken as one; so are a click on *Submit* and the fresh
read of the quest that `submitProof` awaits (the answer could be older than the click, but it is the
transaction that names the index, and that may run at any later time); a transaction's expiry by its
blockhash (without it, a request may run later than it could, which only adds
behaviours); the forms that create, fund, close and settle, and the one that
approves automatically, which send what was typed and are instruction calls of
`Elsewhere`; the list of quests; pages about another quest than the one modelled.

### The slips

The sections "Slips" of `Quest`, `AutoReview` and `Client`, `RecordedAsDeposit` in `Quest`,
`StepOnAnySubmission` in `Market`, and `SameSlot` in `UserProgress`, hold plausible
mistakes in the definitions below them: an off-by-one in the queue's limit, a
deposit that forgets the extra reward, a review that may be repeated, and so on.
No action uses one. Each is there for a property: put in its definition's place,
TLC finds that property violated, so the property does depend on that line of the code.

## 3. Properties and runs

| Run | Instance | Result |
|---|---|---|
| `money` | OneTime or Recurring quest, two submitters, queue of 1 or 2, up to 4 proofs, deadline after two ticks and extendable, funding with and without remainders, transfers to the pools | 2,467,723 states, all hold |
| `cycles` | Recurring quest (period of one tick or two) or OneTime quest, one submitter, up to 6 proofs, window of 2 | 225,258 states, all hold |
| `reviewed` | Recurring quest, smallest funding and deposit, transfers, with fairness | 360,261 states, all hold |
| `auto` | AutoVerified Recurring quest, two submitters (symmetric), up to 3 submissions, two statements out of six kinds | 5,865,966 states, all hold |
| `silent` | AutoVerified quest, one submitter, queue of 1, up to 3 proofs, two statements, with fairness | 192,934 states, all hold |
| `width` | OneTime quest with a u64 of 450,000,000, funding and extension, with fairness | 384,717 states, all hold |
| `market` | two OneTime quests with rewards of one and two million, queues of 1, up to 2 proofs each; one publisher works for the other | 3,012,919 states, all hold |
| `client` | OneTime quest with a queue of 2, pages of the publisher and of a reviewer who also submits, one user without a page; one load per page and two transactions | 3,127,864 states, all hold |
| `reason` | OneTime quest, as `money`, no transfers | violated: see 5 |
| `blocked` | the same with transfers to the pools | violated: see 5 |
| `window` | Recurring quest, window of 3 | violated: see 5 |
| `shown` | as `client`, one page, two loads, one transaction | violated: see 5 |

`money` asks whether the escrow keeps its promises:

- `QueueIsConsistent`: decided submissions below `next_review_index`, waiting ones
  above, and `pending_count`, kept apart by three handlers, is their number.
- `DepositCoversQueue`: the deposit is worth the queue and one reward more: the
  full queue while Open (the requirement of `create_quest` never erodes), the
  waiting ones while Closing.
- `HeadIsPayable`: an approval of the head never runs into
  `InsufficientDepositForGuaranteedPayment`, nor into the rent rule, unless it is
  `HeadIsBlocked`: an Open quest's reward pool has exactly one reward and, beside it, a
  remainder of what was sent there that is below the rent minimum. No other amount and
  no transfer to the deposit pool does this.
- `PoolsMatchTotals`, `RecordsExplainPools`, `LamportsConserved`, `PaidOncePerApproval`: the
  books balance, per quest, per pool and submission, over all accounts and per user, with
  what was sent to the pools counted as such.
- `ReasonMatchesDeadline`, `ClosingIsFinal`: why the quest stopped is recorded right, and
  stays right, through extensions of the deadline before and calls of anyone after.
- `DepletedPoolIsSpent`: a quest is `RewardPoolDepleted` only with its reward funding spent:
  what its pool still has, or gets while it is closing, was sent there by others.
- `PoolsPayByRule`: a step that takes lamports out of the pools pays one reward
  to the head of the queue, or everything, with nobody waiting; the publisher only
  gets it after the deadline.
- `SettlementIsPayable`: with nobody waiting, `settle_pools` is refused for no reason but a
  fee product beyond u64; indices and reason fit and both vaults stay rent exempt.
- `KeepsPromise`: the quest implements `Escrow`.
- `Inv`: the inductive invariant of the proofs.

`cycles` asks whether the window keeps users honest: `OneProofPerCycle`,
`ProgressShowsLatestProof` (what the program remembers of a user's latest proof is
true) and `WindowShowsLaterCycles` (so it is for every cycle still in the
window, except cycle 0), with reviews up to five cycles late. `CycleInv` is the inductive
invariant of their proofs (section 4); it notices a window that takes a cycle for recent one
cycle longer than it has slots.

`reviewed` asks whether anything can get stuck. With a reviewer who only accepts, every proof
is decided unless the head is found blocked as above (`ReviewsGoOn`), and a closing
quest is settled (`ClosingIsSettled`), as it pays from the deposit, which no transfer can spoil.

`silent` asks the same of an AutoVerified quest whose verifier falls silent after two
statements, some of them made too early: approvals are out of anybody's hands, but a
rejection never is and moves no lamports, so every proof is decided (`EveryProofIsDecided`), whatever was sent to the
pools, and the settlement follows.

`width` asks what becomes of a quest whose deposit is so large that the 1% fee of a
forfeit overflows (`close_quest.rs:115`): `SettledWhenDepositFits` says that a closing quest is settled as
soon as its deposit fits or the deposit goes back to the publisher. The condition matters: the
run also reaches quests that stay Closing, as no later call shrinks their deposit.
On chain that takes a deposit above 1.8 * 10^17 lamports.

`market` asks whether quests are independent: `QuestsKeepInv` and `QuestsCanBeSettled` are `Inv` and
`SettlementIsPayable` of both; `EarningsMatch` says that whoever publishes nothing has earned the reward
of each accepted proof *of the quest it was sent to*; `VaultHoldsFees` that the shared fee
vault holds every fee and one rent; `MarketConservesLamports` that nothing is lost between
the two.

`client` asks what stale pages can do: `RequestsActOnce` (of all transactions that name a
submission, one sends it and one decides it, and both had their way), `RequestsAreNeverAhead` (a late transaction
finds its submission decided or its address taken, and never hits one whose turn
is still to come) and `DecisionsStand` (no late or contrary review changes a decision).

`auto` asks whether automatic review pays for what it should: `ProofsMatchPayments`
(payments and used proofs are in one-to-one correspondence; a refused attempt
leaves no UsedProof) and `PaidOnFreshStatement` (each was attested by the quest's
verifier, for that index, user and cycle, and the statement was neither from the
future nor too old nor too long-lived), with `Inv`, `PoolsPayByRule` and `KeepsPromise` again, as
the escrow must not care who approves.

**Bounds.** TLC's integers end at 2^31, so `U64_MAX` is 2147483647 and amounts are the
program's own minima (a reward is 1,000,000 lamports); the fee products stay below. The clock,
the number of submissions and what others send to the pools are bounded by `MAX_TIME`, `MAX_SUBMISSIONS` and
`MAX_SENT`. `money`, `reviewed` and `silent` have transfers of one reward and a lamport, which block the head, and
of a remainder that joins a pool that is alive (`MoneyTransfers`); `width`, `market` and `auto` have one of a
whole reward, which could be taken for funding (`WholeTransfers`). The other runs are not about the pools and have
none. The bounds leave room for what matters:
a quest lives two ticks (`money`) to six (`cycles`), so calls fall before, at and
after the deadline, and four proofs are enough to fill a queue of two, empty it,
exhaust the reward pool and be paid from the deposit in both states. The window
is 2 or 3 instead of 32: what matters is that it wraps around and that a review
comes after its cycle has left it, and six cycles make both happen; `money`, which is
not about cycles, has a window of 1. In `auto` a tick is half an hour, so a
statement is used at once, at its last moment, at its expiry or after it; two
statements are enough for a repeated proof, a displaced submission and a
statement overtaken by another. Its two submitters are interchangeable, as are those of `money`, so these
runs use them symmetrically; they have no liveness property. In `width`, `U64_MAX` is chosen
so that the fee product of four rewards fits and that of five does not, so deposits fit, fit
after a payment, or never, and a transfer may make one too large again. In `market` two proofs per quest let the second be
paid from the deposit, and different rewards show a payment from the wrong pool. In `client` the
clock stands still, which `money` has moving; two transactions are enough for one
to be late, repeated or contrary to another, and a third reviewer acts without
a page. `client` has one load per page, `shown` two: with two loads, one page and
two transactions the three invariants were also found to hold (12.75 million states, too many to keep as a
run). Runs allow deadlock, as
Closed has no successor once the clock is at its bound.

**Fairness.** Nothing in the program runs by itself, so `Spec` has none, and every
safety property holds without it. `FairSpec` assumes one reviewer who goes on
accepting the head of the queue as long as the program lets them, and somebody
who calls `settle_quest`, which anybody may. It does not assume that the publisher closes
or that the clock advances. Weak fairness is enough because an
approval that is enabled stays so until the head is decided, unless a transfer blocks the head; that it is
enabled at all is what the program has to provide. `FairAutoSpec` (`silent`) assumes a reviewer who goes on
rejecting instead, as nobody can make a verifier sign and `approve_submission` is closed to an
AutoVerified quest; of the verifier it assumes nothing. `Market` and `Client` have no fairness: they state safety only.

## 4. Proofs

`QuestProofs` proves, for any users, arguments, window, clock and integer width
(`UsersAssumption`, `CreateAssumption`, `FundAssumption`, `BoundsAssumption`,
`WidthAssumption`, `WindowAssumption`, `RentAssumption`):

| Theorem | States |
|---|---|
| `Invariance` | `Spec => []Inv` |
| `TypeCorrect`, `QueueInOrder`, `QueueCovered`, `Ledger`, `ReasonRight`, `DepletedIsSpent` | `Spec => []P` for `TypeOK`, `QueueIsConsistent`, `DepositCoversQueue`, `PoolsMatchTotals`, `ReasonMatchesDeadline`, `DepletedPoolIsSpent` |
| `ReviewCanPay` | `Spec => []HeadIsPayable`: guaranteed payment, up to the one case in which a remainder blocks the head |
| `TermsFinal` | `Spec => ClosingIsFinal` |
| `PaymentsByRule` | `Spec => PoolsPayByRule` |

`PaymentProofs`, `CycleProofs` and `EscrowProofs` go on from there:

| Theorem | States |
|---|---|
| `SettlementCanPay` | `Spec => []SettlementIsPayable` |
| `PaidOnce` | `Spec => []PaidOncePerApproval` |
| `NothingIsLost` | `Spec => []LamportsConserved` |
| `PoolsAreExplained` | `Spec => []RecordsExplainPools` |
| `CycleInvariance` | `Spec => []CycleInv` |
| `OneAcceptedPerCycle`, `AutoOneAcceptedPerCycle` | `Spec => []OneProofPerCycle`, `AutoSpec => []OneProofPerCycle`: nobody is paid twice for a cycle |
| `LatestProofIsShown`, `LaterCyclesShown` | `Spec => []ProgressShowsLatestProof`, `Spec => []WindowShowsLaterCycles` |
| `QuestKeepsPromise`, `AutoReviewKeepsPromise` | `Spec => KeepsPromise`, `AutoSpec => KeepsPromise`: the refinement of `Escrow` |

`MarketProofs` (with `OtherAssumption`) and `ClientProofs` (with `ClientAssumption`):

| Theorem | States |
|---|---|
| `NeitherDisturbsTheOther` | `MarketSpec => []QuestsKeepInv` |
| `BothCanBeSettled` | `MarketSpec => []QuestsCanBeSettled` |
| `NothingIsLostBetween` | `MarketSpec => []MarketConservesLamports` |
| `EachQuestPaysItsOwn` | `MarketSpec => []EarningsMatch` |
| `VaultHasTheFees` | `MarketSpec => []VaultHoldsFees` |
| `ClientDrivesQuest` | `ClientSpec => Spec`: pages can do nothing to a quest that signers cannot |
| `ClientInvariance`, `ClientTypeCorrect` | `ClientSpec => []ClientInv`, `ClientSpec => []ClientTypeOK` |
| `OneRequestActs`, `RequestsLagBehind` | `ClientSpec => []P` for `RequestsActOnce`, `RequestsAreNeverAhead` |
| `DecisionIsFinal` | `ClientSpec => DecisionsStand` |

and in `AutoProofs`, for any statements, keys and proofs besides (`SignAssumption`):

| Theorem | States |
|---|---|
| `AutoInvariance`, `AutoTypeCorrect` | `AutoSpec => []AutoInv`, `AutoSpec => []AutoTypeOK` |
| `AutoKeepsEscrow` | `AutoSpec => []Inv` |
| `OneProofOnePayment` | `AutoSpec => []ProofsMatchPayments` |
| `PaymentsAreAttested` | `AutoSpec => []PaidOnFreshStatement` |
| `AutoPaymentsByRule` | `AutoSpec => PoolsPayByRule` |
| `AutoSettlementCanPay`, `AutoPaidOnce`, `AutoNothingIsLost`, `AutoPoolsAreExplained` | `AutoSpec => []P` for `SettlementIsPayable`, `PaidOncePerApproval`, `LamportsConserved`, `RecordsExplainPools` |

By `ClientDrivesQuest`, every theorem about `Spec` is one about `ClientSpec` too.

The argument. None of these is inductive alone. An approval from the deposit keeps the
deposit above the queue's worth because the queue shrinks by the proof it pays, which needs
`QueueIsConsistent`. When that approval stops an Open quest, the deposit was worth a full
queue and a reward; afterwards it is worth what waits and a reward. The quest is
then depleted with its funding *spent* only because the program moves whole rewards
(`WholeRewards`: the reward pool, less what was sent there, is a number of them, positive or
negative): a pool with less than one reward then has at most what was sent. The
same fact gives the rent rule: paying a reward from a pool of at least two leaves
`MIN_REWARD_AMOUNT`, which is above the rent-exempt minimum (`RentAssumption`; on chain
890,880); of a pool with one to two, a remainder of what was sent is left, which is
nothing, enough to stay, or `HeadIsBlocked`. The deposit keeps a reward beyond the queue while the quest
is live. `PoolsAreAlive` is the runtime's rule for what the handlers start from. `TermsHold` keeps what
`create_quest` checked (a positive reward, a period for a Recurring quest, a
start in the past), so that no remainder or cycle is taken of zero. `Inv` is the conjunction;
there is one lemma per instruction, one step per conjunct in it, and
the theorems follow from `Inv`. `RentAssumption` also asks that the
smallest forfeit stays above the minimum after its 1% fee.

For `AutoReview` the invariant is `Inv` with the type of the new variables and the two
properties. `ApprovalFacts` says what an approval of either kind does to the submissions and terms,
`OtherStepFacts` that no other instruction accepts anything in an AutoVerified quest
or changes whose and about what a submission is. A new used proof is for a submission
that was pending, so for none that an older proof accepted; this is where the relation
stays one-to-one. `ApproveKeepsInv` is about `ApproveAndPay` and serves both kinds.

For the refinement, `Inv` gives each step its abstract one. The two points that need
it: a submission finds `payable` above what waits because the deposit covers the full
queue, and after the approval that stops the quest the deposit alone covers those who still wait, so that
`payable` may drop by the remainder of the reward pool beside the price. A transfer only adds to
`payable` (`TransferDeposits`), or leaves it as it is, when it comes to the reward pool of a closing quest. `AutoReviewKeepsPromise` reuses the step of `ApproveAndPay`.

`SettlementCanPay` adds `VaultsAreAlive`: the first payment into the fee vault brought its rent and
nothing ever leaves a vault; a forfeit to an empty public goods pool brings at least 99% of a
deposit that is empty or worth a reward. `PaidOnce` counts sets of submissions; the
step to show is that the accepted ones grow by exactly the head, or not at all, which is
one cardinality fact (`FS_AddElement`).

`LamportsConserved` and `RecordsExplainPools` are about sums, over the wallets and over the
submissions. `SumFunction` of the community modules folds a set in an order that a `CHOOSE`
decides, and the library's induction theorems cannot be instantiated. `SumProofs` does without them: if a
statement fails for some subset of a finite set it fails for a smallest one (`SmallestSubset`, from the
well-founded order of finite subsets), and that one, less the chosen element, is a
contradiction. So the recursive function behind the fold exists (`TotalsExist`), any element
can be taken out first (`SumTakes`), and a sum changes by just the term that changes (`SumChanges`) or is
put in (`SumGrows`). With these the steps are short. A step exchanges lamports between
the program and *one* user (`PaysOrTakes`, `StepMovesLamports`), so the sum of the wallets changes by
what the program's accounts lose; the initial sum is the publisher's term and zeros. For the
records, `Books` adds that a waiting submission has no payment on it (`UnpaidWhilePending`): a decided
one then contributes what this step paid. Sums over infinitely many users mean nothing; `UsersAssumption` therefore
says that there are finitely many, as there are accounts on a cluster.

The same for `AutoReview`: a step of it is one of `Quest`, or leaves its variables alone, or is an
approval (`AutoStepIsStep`), and the lemmas about approvals are about `ApproveAndPay`.

`CycleInv` relates the slots of a window to the history of its user's submissions. Its core is
`RingIsOrdered`: a slot that was written *d* cycles ago by the cursor (`SlotAge`) holds a
number at least *d* below `last_submitted_cycle`, or zero. So the slot under the cursor, the
oldest, holds nothing recent, and a new cycle may take it (`SubmitKeepsWindow`). A late review must not: it
finds the slot of its cycle, which is still there because the account shows the proof as
pending; for cycle 0 it finds a zero, because while cycle 0 is recent the slot under the cursor
is one (`ZeroHasSlot`, `ReviewKeepsWindow`). It therefore never moves the cursor and changes no other entry.
`RepeatsFollowRejection` makes the proof under review the latest of its cycle, and the
guard of `submit_proof` sees the state of exactly that one (`CycleIsFree`). `DecisionKeepsCycles` is about
decisions of any kind, so that `AutoOneAcceptedPerCycle` reuses it. `LeastExists` says that
the first slot of a set exists: the library's well-foundedness of finite sets, applied to the
intervals up to each slot.

For `Market`, everything proved about `Quest` and its payments is instantiated for the other quest
(`Facts`); what remains is that neither invariant minds what the other quest does to the shared
variables: the clock goes on and the vaults only grow. `PaymentProofs` says what one quest does to
the shared accounts in terms of its own: the fee vault grows by what the quest comes to owe it
(`VaultGetsDue`; the fee of a forfeit is of the deposit that `Books` explains) and by the rent if
it is empty, a wallet by what its user came to earn (`WalletGetsEarned`), the program's accounts and the
wallets together by nothing (`StepKeepsSum`). The other quest's dues and earnings stay (`OwnAccountsSayAll`), so
the two accounts can be added up. That the rent is brought once needs `RentIsThere`: as soon as either quest
is there the vault is not empty, even when that quest is closed.

For `Client`, the invariant says that pages, answers and requests are at or behind the
quest's two indices, which never go back (`SubmissionsStay`), and that what a request did still shows in the
submission it names. A second request for the same index then finds the address
taken or the head moved on; `RequestsActOnce` is this, read over all pairs.

Only model-checked: liveness (`ReviewsGoOn`, `EveryProofIsDecided`, `ClosingIsSettled`, `SettledWhenDepositFits`),
which is out of TLAPS's reach. Every invariant and every action property the passing runs
check is a theorem.

## 5. Where documents and code differ

- `DepletionIsRecorded`: `docs/flow.md` and the README say that an approval the reward
  pool cannot pay closes an Open quest as `RewardPoolDepleted`. After the deadline
  `approve_and_pay_submission` records `Expired` instead, and the settlement refunds the
  publisher. The run `reason` shows it: create, submit twice, let the deadline
  pass, approve twice.
- `WindowShowsRecentCycles`: the documents say the window records the recent cycles. Cycle
  0 is found in the first zeroed slot, so it is written without moving the cursor, and
  cycle 1 overwrites it. No double payment follows, as cycle 0 is over by then
  (`OneProofPerCycle` is a theorem), and `WindowShowsLaterCycles` holds for
  all other cycles.
- `FullRewardIsPaid`: `docs/flow.md:108` says that an Open quest whose reward pool has at least one full
  reward pays an approval from there. `approve_submission.rs:296` picks the pool by its raw balance, and
  the runtime then refuses the payment if what stays is positive but below the rent-exempt minimum; the deposit
  is not tried. The program's own amounts never come to that, but anybody can send lamports to the pool. The run
  `blocked`: create with funding for one proof, submit twice, approve, send the empty pool one reward and
  a lamport; the second proof can no longer be approved. (One lamport sent to a pool that still has
  one reward does the same.) `docs/invariants.md` knows "unexpected lamport movement" as a risk
  to the deposit only, and counts on whole multiples against "reward pool dust". Approvals
  are held up, no money is lost: funding, closing or a further transfer that leaves enough
  makes them work again, and nothing worse happens (`HeadIsPayable`, `ReviewsGoOn`).
- `ReviewsDecideWhatIsShown`: `docs/demo-walkthrough.md` has the reviewer load the next
  proof, look at it and click *Approve*. `loadCurrentReviewSubmission` sets `reviewIndexInput` after one `await` and
  `currentReviewSubmission` after another, and nothing cancels an older load. The run `shown`: load (index 0), the
  head is decided elsewhere, load again (index 1), the older load's proof arrives last and is displayed, and
  *Approve* decides proof 1. `docs/invariants.md` counts on the chain to reject stale reviews
  as out of order; this one is in order. `approveOrReject` would be safe if it took the
  index from `currentReviewSubmission`.

A smaller one without a run: the comment at `settle_quest.rs:37` says that the public goods pool must
already exist, and the README (line 71) that `create_quest` initialises it. No instruction does, and none asks: the
first forfeit goes into an empty account. That is harmless, because a forfeit is nothing or
large enough to stay there (`SettlementIsPayable`, theorem `SettlementCanPay`).

## 6. Not modelled, and what could follow

- `error.rs`, the IDL, account layout, the tests, the migration script and the built page: no state
  or control of their own.
- The page's forms for creating, funding, closing, settling and automatic approval: they send what was
  typed, and what they read first the program checks again, as it does with any other
  caller's transaction; `Elsewhere` has them at any time.
- The offsets inside the Ed25519 instruction, transfers from outside to the vaults, and several quests
  of one publisher (section 2).

Open for a next step: each of the two quests of `Market` as an `Escrow` of its own, with what
it paid (`Earned`) for `received`, as the wallets are shared; `AutoReview` in two quests at once, for the
UsedProof accounts that are per quest.
