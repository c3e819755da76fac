SPECIFICATION Spec
CONSTANTS
  publisher = publisher
  reviewer = reviewer
  alice = alice
  bob = bob
  verifierKey = verifierKey
  noKey = noKey
  configHash = configHash
  noHash = noHash
  Users = {publisher, reviewer, alice, bob}
  Publisher = publisher
  Reviewer = reviewer
  Submitters = {alice, bob}
  VerifierKeys = {verifierKey}
  NO_KEY = noKey
  ConfigHashes = {configHash}
  NO_HASH = noHash
  CreateArgs <- ReasonCreateArgs
  FundArgs = {}
  RECENT_CYCLE_WINDOW = 2
  U64_MAX = 2147483647
  I64_MAX = 61
  RENT_MINIMUM = 890880
  INITIAL_FUNDS = 7000000
  CLOCK_START = 1
  TickSteps = {30}
  MAX_TIME = 61
  Transfers = {}
  MAX_SENT = 0
  MAX_SUBMISSIONS = 2
PROPERTIES
  DepletionIsRecorded
CHECK_DEADLOCK FALSE
