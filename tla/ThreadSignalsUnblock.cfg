SPECIFICATION Spec
CONSTANTS
  main = main
  idle = idle
  a = a
  b = b
  c = c
  null = null
  Main <- main
  Idle <- idle
  NoPage <- null
  Page <- MCPagesFew
  TIME_SLICE = 1
  MaxTid = 4
  MaxAge = 2
  MaxValue = 1
  Sleeps = {"thread_block", "sema_down"}
  Lifetimes = {1}
  Sent = {"SIG_UBLOCK"}
  Maskable = {}
  Ignorable = {}
INVARIANTS
  RunQueue
  OnePendingPerType
PROPERTIES
  SwitchDelivers
SYMMETRY MCSymmetry
CHECK_DEADLOCK FALSE
