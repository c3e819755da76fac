------------------------------- MODULE MCQuest -------------------------------
(***************************************************************************)
(* Instances of Quest for TLC. Amounts are the program's own minima, so a  *)
(* fee product stays below TLC's 2^31; a quest runs for two ticks, so the  *)
(* deadline falls between, on and after the other steps.                   *)
(***************************************************************************)
EXTENDS Quest, TLC

CONSTANTS publisher, reviewer, alice, bob, verifierKey, noKey, configHash, noHash

R == MIN_REWARD_AMOUNT

\* Less than one reward, one too little to stay in an account and one enough.
Dust == R \div 2
Rest == R - 50000

OneTimeQuest(funding, deposit, queue) ==
  [mode |-> "OneTime", review_mode |-> "Manual",
   authorized_verifier |-> noKey, template_config_hash |-> noHash,
   has_schema |-> FALSE,
   reward_per_completion |-> R, initial_reward_funding |-> funding,
   deposit_amount |-> deposit, duration_seconds |-> 60, period_seconds |-> 0,
   queue_max |-> queue]

RecurringQuest(period, duration, queue) ==
  [OneTimeQuest(R, (queue + 1) * R, queue) EXCEPT
    !.mode = "Recurring", !.period_seconds = period,
    !.duration_seconds = duration]

Fund(reward, deposit, seconds) ==
  [reward_funding_amount |-> reward, additional_deposit_amount |-> deposit,
   extend_duration_seconds |-> seconds]

UsersAlike == Permutations({alice, bob})

-----------------------------------------------------------------------------
\* MCMoney: a queue of one or two places, a deposit that is exact, too small,
\* too large or no multiple, and the same for later funding.
MoneyCreateArgs ==
  {OneTimeQuest(R, 2 * R, 1), OneTimeQuest(R, 3 * R, 2),
   OneTimeQuest(R, R, 1), OneTimeQuest(R + Dust, 3 * R, 1),
   OneTimeQuest(R + Rest, 3 * R, 1), RecurringQuest(30, 60, 1)}

MoneyFundArgs ==
  {Fund(R, 0, 0), Fund(R + Rest, 0, 0), Fund(0, R, 0), Fund(0, Dust, 0),
   Fund(0, 0, 30), Fund(2 * R, R, 0)}

\* One transfer: more than a reward by too little, or less than a reward.
MoneyTransfers == {R + 1, Rest}

\* One reward too much, which could be taken for funding.
WholeTransfers == {R}

\* MCCycles: a period of one tick or two, and room for a proof of each cycle
\* of the window to wait while the window moves past it.
CyclesCreateArgs ==
  {RecurringQuest(10, 60, 3), RecurringQuest(20, 60, 3), OneTimeQuest(R, 3 * R, 2)}

\* MCReviewed: one reward of funding and the smallest deposit, so that a quest
\* runs out of both unless it stops.
ReviewedCreateArgs == {RecurringQuest(10, 60, 1)}

ReviewedFundArgs == {Fund(R, R, 0)}

\* MCWidth: with a u64 that holds the fee product of four rewards of deposit and
\* not of five, a deposit that fits, and one that fits after a payment or never.
WidthCreateArgs == {OneTimeQuest(R, 3 * R, 1), OneTimeQuest(R, 5 * R, 2)}

WidthFundArgs == {Fund(R, 0, 0), Fund(0, R, 0), Fund(2 * R, 0, 0), Fund(0, 0, 30)}

\* MCReason and MCWindow: what the documentation says and the code does not do.
ReasonCreateArgs == {OneTimeQuest(R, 3 * R, 2)}

WindowCreateArgs == {RecurringQuest(20, 60, 2)}
=============================================================================
