CONSTANTS
  VALIDATOR_SLOTS = 4
  v1 = v1
  v2 = v2
  v3 = v3
  h1 = h1
  g1 = g1
  g2 = g2
  Validators = {v1, v2, v3}
  PrevKeys <- MCPrevKeys
  Headers = {h1}
  NextKeySets <- MCNextKeySets
  BlockNumbers = {0}
  max_non_signers = 2
  SumGenG1 = g1
  SumGenG2 = g2

SPECIFICATION Spec
CHECK_DEADLOCK FALSE
INVARIANT CommitAggregateIsAnd
