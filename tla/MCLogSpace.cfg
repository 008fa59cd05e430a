SPECIFICATION FairSpec
CONSTANTS
  Procs = {p1, p2, p3}
  MAXOPBLOCKS = 10
  LOGSIZE = 30
  OpBlocks = 16
INVARIANTS NoTooBig
PROPERTIES SomeoneAdmitted
