SPECIFICATION Spec
CONSTANTS
  BSIZE = 2
  NDIRECT = 1
  NBLOCKS = 11
  Procs = {p1, p2}
  FirstProc = p1
  NFILE = 3
  NOFILE = 2
  NInodes = 3
  Made <- OneFile
  Counts = {6}
  Modes = {"rw"}
  MAXWRITE = 3
  Programs <- MCPrograms
VIEW Shape
INVARIANTS NoPanic RefsExact BlocksExact ReadsBack
