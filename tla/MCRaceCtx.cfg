SPECIFICATION FairSpec
CONSTANTS
  q1 = q1  q2 = q2
  d1 = d1  d2 = d2
  NoDial = NoDial
  Requests = {q1, q2}
  Dials = {d1, d2}
  MaxIdle = 1
INVARIANTS
  EveryStreamOwned
  NotClosedUnderUser
PROPERTIES
  CancelReturns
  LateStreamSettles
