SPECIFICATION FairSpec
CONSTANTS
  p = p
  q = q
  p1 = p1
  q1 = q1
  wp = wp
  wq = wq
  Free = Free
  Processes = {p, q}
  Operations = {p1, q1}
  Leases = {wp, wq}
  Home <- MCHome
  Mortal = {q}
INVARIANTS
  NothingAbandoned
PROPERTIES
  ImplementsDevice
  LeaseGivenUp
