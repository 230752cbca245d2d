SPECIFICATION FairSpec
CONSTANTS
  main = main
  idle = idle
  a = a
  b = b
  c = c
  null = null
  Main <- main
  Idle <- idle
  NoThread <- null
  Thread <- MCPages
  TIME_SLICE = 1
  TIME_SLICE_LOW = 2
  WAITING_TIME = 2
PROPERTIES
  NeverStarves
  BootCompletes
