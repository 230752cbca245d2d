SPECIFICATION FairSpec
CONSTANTS
  Grade = {0, 1}
  Input <- MCInput
  Querier = {"y1", "y2"}
INVARIANTS
  LengthRightOrWild
PROPERTIES
  WritesSnapshot
  UpdatesReachFile
CHECK_DEADLOCK FALSE
