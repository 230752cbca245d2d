SPECIFICATION FairSpec
CONSTANTS
  main = main
  idle = idle
  a = a
  b = b
  c = c
  null = null
  Main <- main
  Idle <- idle
  NoPage <- null
  Page <- MCPages
  TIME_SLICE = 1
  MaxTid = 3
  MaxAge = 0
  MaxValue = 0
  Sleeps = {}
  Lifetimes = {}
  Sent = {"SIG_KILL"}
  Maskable = {}
  Ignorable = {}
PROPERTIES
  ReadyRuns
CHECK_DEADLOCK FALSE
