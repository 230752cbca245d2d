SPECIFICATION FairSpec
CONSTANTS
  main = main
  idle = idle
  a = a
  b = b
  c = c
  null = null
  Main <- main
  Idle <- idle
  NoPage <- null
  Page <- MCPagesMore
  TIME_SLICE = 1
  MaxTid = 5
  MaxAge = 0
  MaxValue = 0
  Sleeps = {}
  Lifetimes = {}
  Sent = {}
  Maskable = {}
  Ignorable = {}
INVARIANTS
  LockWaiters
PROPERTIES
  WaitersWoken
CHECK_DEADLOCK FALSE
