SPECIFICATION Spec
CONSTANTS
  Procs = {p1, p2}
  Blocks = {b1, b2, b3}
  Vals = {v1, v2}
  LOGSIZE = 6
  MAXOPBLOCKS = 3
  NLOG = 6
  OpBlocks = 2
  Absent = Absent
SYMMETRY Symmetry
INVARIANTS EndedIsDurable
PROPERTIES AtomicSpec
