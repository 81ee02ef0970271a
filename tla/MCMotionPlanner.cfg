SPECIFICATION FairSpec
CONSTANTS
  fa = fa
  fb = fb
  e1 = e1
  Nobody = Nobody
  Files = {fa, fb}
  EndEffectors = {e1}
  MaxRequests = 2
  MaxSockets = 2
  MaxStops = 1
INVARIANTS
  TypeOK
  SolvingIsInFlight
PROPERTIES
  EveryRequestSettles
