SPECIFICATION Spec
CONSTANTS
  main = main
  idle = idle
  a = a
  b = b
  c = c
  null = null
  Main <- main
  Idle <- idle
  NoThread <- null
  Thread <- MCPagesMore
  TIME_SLICE = 2
  TIME_SLICE_LOW = 2
  WAITING_TIME = 2
INVARIANTS
  TypeOK
  RunQueues
  Sleepers
  OldestFirst
  SliceBound
PROPERTIES
  FirstComeFirstServed
  Dispatches
SYMMETRY MCSymmetry
