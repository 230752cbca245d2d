SPECIFICATION FairSpec
CONSTANTS
  t1 = t1
  t2 = t2
  t3 = t3
  none = none
  QUEUE = 2
  HIGH = 3
  LOW = 1
  TICKETS = 1
  Request <- MCRequests
  Thread <- MCThreads
  NoThread <- none
  MaxFailures = 1
INVARIANTS
  SlotsBalance
  CountsRequests
  NoLostWakeUp
  NeverOversold
PROPERTIES
  DeliversInOrder
  ServerGoesOn
