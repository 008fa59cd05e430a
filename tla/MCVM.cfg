SPECIFICATION Spec
CONSTANTS
  NPROC = 2
  PGSIZE = 2
  NPT = 2
  ImagePages = 1
  Machines <- TwoMachines
VIEW Shape
CHECK_DEADLOCK FALSE
INVARIANTS PagesMatchSize NoLeak FramesExact
