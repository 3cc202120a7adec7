CONSTANTS
  VALIDATOR_SLOTS = 2
  CHUNKS = 2
  BYTE_BITS = 1
  v1 = v1
  v2 = v2
  v3 = v3
  h1 = h1
  g1 = g1
  g2 = g2
  Validators = {v1, v2}
  PrevKeys <- MCPrevKeys
  OtherKeyLists = {}
  Headers = {h1}
  NextKeySets <- MCNextKeySets
  BlockNumbers = {6}
  SumGenG1 = g1
  SumGenG2 = g2
  MAX_NON_SIGNERS = 2
  EPOCH_LENGTH = 4
  BN_WIDTH = 3
  Faulty = {}
  InitialBlockNumber = 6
  CanonicalHeader = h1
  CanonicalNextKeys <- MCCanonicalNextKeys

SPECIFICATION Spec
CHECK_DEADLOCK FALSE
INVARIANT ChunkedCommitAggregateIsDirect
