------------------------------ MODULE Lamports ------------------------------
(***************************************************************************)
(* Money in the LootLoop program: the protocol's constants (constants.rs), *)
(* the checked u64 arithmetic its handlers use, and the runtime's rule     *)
(* that an account a transaction wrote to is empty or rent exempt.         *)
(* Times and durations (i64) are checked in the same way.                  *)
(***************************************************************************)
EXTENDS Integers

CONSTANTS
  U64_MAX,       \* largest u64: 2^64 - 1 on chain, smaller in the TLC models
  I64_MAX,       \* largest i64, the type of times: 2^63 - 1 on chain
  RENT_MINIMUM   \* Rent::get()?.minimum_balance(0): 890880 lamports on chain

MIN_REWARD_AMOUNT    == 1000000
MIN_FUNDING_AMOUNT   == 1000000
PLATFORM_FEE_BPS     == 200
CANCELLATION_FEE_BPS == 100
BPS_DENOMINATOR      == 10000
MIN_QUEST_DURATION_SECONDS == 60

\* A settlement's smallest payment, one minimum reward less the cancellation
\* fee, is enough to keep an account alive.
ASSUME RentAssumption ==
  /\ RENT_MINIMUM \in Nat \ {0}
  /\ RENT_MINIMUM <= MIN_REWARD_AMOUNT - MIN_REWARD_AMOUNT \div 100

ASSUME WidthAssumption == U64_MAX \in Nat /\ I64_MAX \in Nat

U64 == 0 .. U64_MAX

\* checked_mul(bps).checked_div(BPS_DENOMINATOR): a value only when the
\* intermediate product fits a u64.
FeeFits(amount, bps) == amount * bps <= U64_MAX

Fee(amount, bps) == (amount * bps) \div BPS_DENOMINATOR

\* The runtime refuses a transaction that leaves a data-free account with a
\* balance between zero and the rent-exempt minimum.
RentExempt(lamports) == lamports = 0 \/ lamports >= RENT_MINIMUM
=============================================================================
