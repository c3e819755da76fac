SPECIFICATION FairAutoSpec
CONSTANTS
  publisher = publisher
  reviewer = reviewer
  alice = alice
  bob = bob
  verifierKey = verifierKey
  noKey = noKey
  configHash = configHash
  noHash = noHash
  otherKey = otherKey
  proof1 = proof1
  proof2 = proof2
  Users = {publisher, reviewer, alice}
  Publisher = publisher
  Reviewer = reviewer
  Submitters = {alice}
  VerifierKeys = {verifierKey, otherKey}
  NO_KEY = noKey
  ConfigHashes = {configHash}
  NO_HASH = noHash
  CreateArgs <- SilentCreateArgs
  FundArgs = {}
  RECENT_CYCLE_WINDOW = 2
  U64_MAX = 2147483647
  I64_MAX = 3601
  RENT_MINIMUM = 890880
  INITIAL_FUNDS = 8000000
  CLOCK_START = 1
  TickSteps = {1800}
  MAX_TIME = 3601
  Transfers <- MoneyTransfers
  MAX_SENT = 1000001
  MAX_SUBMISSIONS = 3
  ProofHashes = {proof1, proof2}
  SignArgs <- SilentSignArgs
  MAX_SIGNED = 2
PROPERTIES
  EveryProofIsDecided
  ClosingIsSettled
CHECK_DEADLOCK FALSE
