SPECIFICATION Spec
CONSTANTS
  NPROC = 4
  NCPU = 2
  MaxPid = 4
  MaxSleep = 1
  KillPids = {2}
  SleepPids = {3}
  Calls = {"fork", "wait", "kill", "sleep", "exit"}
INVARIANTS KernelStacksSafe ParentAlive NoMissedWakeup SchedAssertions
VIEW View
