SPECIFICATION FairSpec
CONSTANTS
  NPROC = 3
  NCPU = 1
  MaxPid = 3
  MaxSleep = 1
  KillPids = {2}
  SleepPids = {2, 3}
  Calls = {"fork", "wait", "kill", "sleep", "exit"}
INVARIANTS NoMissedTick
PROPERTIES RunnableRuns KilledDies OrphansReaped
