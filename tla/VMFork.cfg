SPECIFICATION Spec
CONSTANTS
  NPROC = 2
  PGSIZE = 2
  NPT = 2
  ImagePages = 1
  Machines <- LazyMachine
VIEW Shape
INVARIANTS AllPagesToCopy
