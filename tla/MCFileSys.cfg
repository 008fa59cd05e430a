SPECIFICATION Spec
CONSTANTS
  Procs = {p1, p2}
  NINODE = 8
  NInums = 3
  Names = {"a", "b"}
  Calls <- Scenes
SYMMETRY Symmetry
VIEW Live
INVARIANTS NoPanic RefsCounted CacheCoherent NamesHaveLinks FreedByLastUse NobodyStuck
CHECK_DEADLOCK FALSE
