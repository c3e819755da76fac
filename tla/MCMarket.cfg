SPECIFICATION MarketSpec
CONSTANTS
  publisher = publisher
  reviewer = reviewer
  alice = alice
  bob = bob
  verifierKey = verifierKey
  noKey = noKey
  configHash = configHash
  noHash = noHash
  Users = {publisher, reviewer, alice, bob}
  Publisher = publisher
  Reviewer = reviewer
  Submitters = {publisher, alice}
  VerifierKeys = {verifierKey}
  NO_KEY = noKey
  ConfigHashes = {configHash}
  NO_HASH = noHash
  CreateArgs <- MarketCreateArgs
  FundArgs = {}
  RECENT_CYCLE_WINDOW = 1
  U64_MAX = 2147483647
  I64_MAX = 91
  RENT_MINIMUM = 890880
  INITIAL_FUNDS = 8000000
  CLOCK_START = 1
  TickSteps = {30}
  MAX_TIME = 61
  Transfers <- WholeTransfers
  MAX_SENT = 1000000
  MAX_SUBMISSIONS = 2
  OtherPublisher = bob
  OtherCreateArgs <- MarketOtherCreateArgs
INVARIANTS
  QuestsKeepInv
  QuestsCanBeSettled
  EarningsMatch
  VaultHoldsFees
  MarketConservesLamports
CHECK_DEADLOCK FALSE
