SPECIFICATION Spec
CONSTANTS
  main = main
  idle = idle
  a = a
  b = b
  c = c
  null = null
  Main <- main
  Idle <- idle
  NoPage <- null
  Page <- MCPages
  TIME_SLICE = 1
  MaxTid = 4
  MaxAge = 0
  MaxValue = 1
  Sleeps = {"sema_down"}
  Lifetimes = {}
  Sent = {"SIG_KILL"}
  Maskable = {"SIG_KILL"}
  Ignorable = {"SIG_KILL"}
INVARIANTS
  KilledByParent
  KilledNeverRuns
  FamilyTree
  AliveCount
  LockHolder
  LockWaiters
SYMMETRY MCSymmetry
CHECK_DEADLOCK FALSE
