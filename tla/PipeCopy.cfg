SPECIFICATION Spec
CONSTANTS
  BUF_SIZE = 2
  MaxSize = 5
  Fault = {"fork", "read", "write", "kill"}
INVARIANTS
  CopyIsPrefix
  AckMeansWritten
  MessageMeansCopied
PROPERTIES
  BothEnd
CHECK_DEADLOCK FALSE
