SPECIFICATION FairSpec
CONSTANTS
  Command <- MCCommand
  Program = {"a"}
  File = {"f", "g"}
  Top = 6
  OPEN_MAX = 2
  NPROC = 2
INVARIANTS
  PromptMeansDone
  WaitsForItsOwn
  RunsAsTyped
PROPERTIES
  PromptComesBack
CHECK_DEADLOCK FALSE
