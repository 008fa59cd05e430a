SPECIFICATION Spec
CONSTANTS
  Readers = {r1, r2}
  Writers = {w1}
  Bytes = {0, 1}
  PIPESIZE = 2
  Width = 4
  MaxN = 3
  Kills = {r1, r2, w1}
  NoProc = NoProc
SYMMETRY Symmetry
INVARIANTS NoMissedWakeup FreedUnused
PROPERTIES QueueSpec EofOnlyWhenClosed
