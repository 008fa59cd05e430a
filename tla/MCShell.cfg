SPECIFICATION Spec
CONSTANTS
  MAXARGS = 4
  MaxTokens = 3
  Scripts <- AllScripts
  NPROC = 7
  PIPESIZE = 1
  MAXFD = 8
INVARIANTS FdsAsWritten ListInOrder ParsesLine
PROPERTIES PromptReturns
CHECK_DEADLOCK FALSE
