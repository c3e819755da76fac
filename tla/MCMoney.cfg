SPECIFICATION Spec
CONSTANTS
  publisher = publisher
  reviewer = reviewer
  alice = alice
  bob = bob
  verifierKey = verifierKey
  noKey = noKey
  configHash = configHash
  noHash = noHash
  Users = {publisher, reviewer, alice, bob}
  Publisher = publisher
  Reviewer = reviewer
  Submitters = {alice, bob}
  VerifierKeys = {verifierKey}
  NO_KEY = noKey
  ConfigHashes = {configHash}
  NO_HASH = noHash
  CreateArgs <- MoneyCreateArgs
  FundArgs <- MoneyFundArgs
  RECENT_CYCLE_WINDOW = 1
  U64_MAX = 2147483647
  I64_MAX = 91
  RENT_MINIMUM = 890880
  INITIAL_FUNDS = 7000000
  CLOCK_START = 1
  TickSteps = {30}
  MAX_TIME = 91
  Transfers <- MoneyTransfers
  MAX_SENT = 1000001
  MAX_SUBMISSIONS = 4
INVARIANTS
  Inv
  QueueIsConsistent
  DepositCoversQueue
  HeadIsPayable
  SettlementIsPayable
  PoolsMatchTotals
  RecordsExplainPools
  PaidOncePerApproval
  LamportsConserved
  ReasonMatchesDeadline
  DepletedPoolIsSpent
PROPERTIES
  ClosingIsFinal
  PoolsPayByRule
  KeepsPromise
SYMMETRY UsersAlike
CHECK_DEADLOCK FALSE
