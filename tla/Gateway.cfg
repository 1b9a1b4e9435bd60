CONSTANTS
  r1 = r1 r2 = r2 s1 = s1 s2 = s2 g1 = g1 g2 = g2
  Principals <- Seeds
  Clients <- MCClients
  Keys = {k1}
  NoKey = NoKey
  MaxRequests = 4
  Subjects = {"u1"}
  Callers <- MCCallers
  AccessTTL = 1
  RefreshTTL = 2
  MaxTime = 2
  MaxPairs = 3
  Calls <- MCCalls
  MaxRetries = 1
  MaxReplays = 1
  Targets <- MCTargets
SPECIFICATION Spec
SYMMETRY MCSymmetry
INVARIANTS ReplayAfterAnswer RotatedOnce CallsAccounted
CHECK_DEADLOCK FALSE
