SPECIFICATION Spec
CONSTANTS
  Procs = {p1, p2}
  Blocks = {k1, k2, k3, k4}
  Vals = {0, 1}
  NBUF = 3
  Setups <- TwoSetups
  NoBlock = NoBlock
  NoProc = NoProc
SYMMETRY Symmetry
VIEW View
INVARIANTS OneBufferOneOwner NoPanic
PROPERTIES StoreSpec
