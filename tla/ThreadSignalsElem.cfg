SPECIFICATION Spec
CONSTANTS
  main = main
  idle = idle
  a = a
  b = b
  c = c
  null = null
  Main <- main
  Idle <- idle
  NoPage <- null
  Page <- MCPages
  TIME_SLICE = 1
  MaxTid = 4
  MaxAge = 0
  MaxValue = 1
  Sleeps = {"sema_down"}
  Lifetimes = {}
  Sent = {"SIG_UBLOCK"}
  Maskable = {}
  Ignorable = {}
INVARIANTS
  ElemOnOneList
SYMMETRY MCSymmetry
CHECK_DEADLOCK FALSE
