CONSTANTS
  o1 = o1
  o2 = o2
  Owners = {o1, o2}
  HEIGHT_BITS = 3
  VALUE_BITS = 4
  BUILD = "release"
  Balances = {12}
  Starts = {2, 5}
  StepBlocks = {0, 2}
  StepAmounts = {0, 4}
  Totals = {12}
  MaxTxs = 2
  InitHeights = {1}
  Values = {1, 4}
  Fees = {0, 1}
SPECIFICATION Spec
INVARIANT VestedFloor
