CONSTANTS
  p1 = p1
  p2 = p2
  Peers = {p1, p2}
  BCAST_CAP = 1
  ACTION_CAP = 2
  MaxEvents = 6
  MaxDials = 4
SPECIFICATION Spec
CHECK_DEADLOCK FALSE
INVARIANT TypeOK
INVARIANT PeersMatchConnections
INVARIANT NoPanic
PROPERTY SwarmTaskTerminates
PROPERTY DialReturns
PROPERTY DialPerformed
PROPERTY ImplementsActionChannel
