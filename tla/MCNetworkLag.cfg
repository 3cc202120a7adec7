CONSTANTS
  p1 = p1
  p2 = p2
  Peers = {p1, p2}
  BCAST_CAP = 1
  ACTION_CAP = 1
  MaxEvents = 4
  MaxDials = 3
SPECIFICATION Spec
CHECK_DEADLOCK FALSE
INVARIANT SwarmTaskEndsOnlyWithNetwork
