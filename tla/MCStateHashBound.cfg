CONSTANTS
  VALIDATOR_SLOTS = 3
  v1 = v1
  v2 = v2
  h1 = h1
  g1 = g1
  g2 = g2
  Validators = {v1, v2}
  PrevKeys <- MCPrevKeys
  Headers = {h1}
  NextKeySets <- MCNextKeySets
  BlockNumbers = {6}
  SumGenG1 = g1
  SumGenG2 = g2
  MAX_NON_SIGNERS = 1
  EPOCH_LENGTH = 4
  BN_WIDTH = 3
  BYTE_BITS = 3
  X_BITS = 4
  KeyX <- MCKeyX
  KeyYBit <- MCKeyYBit
  LIMBS = 2
  LIMB_BYTES = 1
  Faulty = {v1}
  OtherKeyLists <- MCOtherKeyLists
  InitialBlockNumber = 6
  CanonicalHeader = h1
  CanonicalNextKeys <- MCCanonicalNextKeys

SPECIFICATION Spec
CHECK_DEADLOCK FALSE
INVARIANT HonestTransitionAccepted
