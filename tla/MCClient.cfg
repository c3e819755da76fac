SPECIFICATION ClientSpec
CONSTANTS
  publisher = publisher
  reviewer = reviewer
  alice = alice
  bob = bob
  verifierKey = verifierKey
  noKey = noKey
  configHash = configHash
  noHash = noHash
  Users = {publisher, reviewer, alice}
  Publisher = publisher
  Reviewer = reviewer
  Submitters = {reviewer, alice}
  VerifierKeys = {verifierKey}
  NO_KEY = noKey
  ConfigHashes = {configHash}
  NO_HASH = noHash
  CreateArgs <- ClientCreateArgs
  FundArgs = {}
  RECENT_CYCLE_WINDOW = 2
  U64_MAX = 2147483647
  I64_MAX = 61
  RENT_MINIMUM = 890880
  INITIAL_FUNDS = 7000000
  CLOCK_START = 1
  TickSteps = {}
  MAX_TIME = 61
  Transfers = {}
  MAX_SENT = 0
  MAX_SUBMISSIONS = 2
  Pages = {reviewer, publisher}
  MAX_LOADS = 1
  MAX_REQUESTS = 2
INVARIANTS
  ClientTypeOK
  RequestsActOnce
  RequestsAreNeverAhead
PROPERTIES
  DecisionsStand
CHECK_DEADLOCK FALSE
