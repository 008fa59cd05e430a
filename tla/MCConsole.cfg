SPECIFICATION Spec
VIEW View
CONSTANTS
  CPUs = {c0, c1}
  NoCpu = NoCpu
  Procs = {p1, p2}
  NoProc = NoProc
  KbdCpu = c0
  INPUT_BUF = 2
  Width = 4
  COLS = 2
  ROWS = 2
  Letters = {"a"}
  Programs <- TwoPrograms
  p1 = p1
  p2 = p2
INVARIANTS NoPanic InterruptsRestored NoMissedInput
PROPERTIES TerminalSpec
