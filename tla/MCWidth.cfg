SPECIFICATION FairSpec
CONSTANTS
  publisher = publisher
  reviewer = reviewer
  alice = alice
  bob = bob
  verifierKey = verifierKey
  noKey = noKey
  configHash = configHash
  noHash = noHash
  Users = {publisher, reviewer, alice, bob}
  Publisher = publisher
  Reviewer = reviewer
  Submitters = {alice, bob}
  VerifierKeys = {verifierKey}
  NO_KEY = noKey
  ConfigHashes = {configHash}
  NO_HASH = noHash
  CreateArgs <- WidthCreateArgs
  FundArgs <- WidthFundArgs
  RECENT_CYCLE_WINDOW = 1
  U64_MAX = 450000000
  I64_MAX = 91
  RENT_MINIMUM = 890880
  INITIAL_FUNDS = 10000000
  CLOCK_START = 1
  TickSteps = {30}
  MAX_TIME = 91
  Transfers <- WholeTransfers
  MAX_SENT = 1000000
  MAX_SUBMISSIONS = 3
PROPERTIES
  SettledWhenDepositFits
CHECK_DEADLOCK FALSE
