-------------------------- MODULE ConsoleStepProofs -------------------------
(***************************************************************************)
(* The inductive invariant of Console, and that the steps of the keyboard  *)
(* interrupt and of a process preserve it.                                 *)
(*                                                                         *)
(* It gives, for each label a CPU can be at, the locks it holds, its depth *)
(* of pushcli, its interrupt flag and its intena.                          *)
(***************************************************************************)
EXTENDS Console, TLAPS

\* Zenon takes most leaves; SMT the ones with arithmetic or many cases.
USE Zenon

KbdLabels == {"off", "kacq", "kin", "wacq", "wake", "kiret"}
SchedulerLabels == {"top", "idle", "pass", "held", "halt"}
ProcLabels ==
  {"new", "ret", "user", "in", "acq", "loop", "slacq", "slrel", "ssched", "slept",
   "yacq", "ysched", "yielded", "iret", "xacq", "xsched", "dead"}

\* Where an interrupt can find a CPU
Open == {"user", "in", "ret", "top", "idle", "halt"}

SpinOK ==
  /\ lk \in [Locks -> CPUs \cup {NoCpu}]
  /\ iflag \in [CPUs -> BOOLEAN] /\ ncli \in [CPUs -> Int] /\ intena \in [CPUs -> BOOLEAN]

TypeOK ==
  /\ SpinOK
  /\ state \in [Procs -> {"runnable", "running", "sleeping", "zombie"}]
  /\ killed \in [Procs -> BOOLEAN] /\ saved \in [Procs -> BOOLEAN]
  /\ pc \in [Procs -> ProcLabels] /\ under \in [Procs -> {"user", "in", "ret"}]
  /\ cur \in [CPUs -> Procs \cup {NoProc}]
  /\ sp \in [CPUs -> SchedulerLabels] /\ ran \in [CPUs -> BOOLEAN]
  /\ kb \in [CPUs -> KbdLabels]

-----------------------------------------------------------------------------
(* What holds of a CPU at a label *)

ConsAt == {"kin", "wacq", "wake", "loop", "slacq", "slrel"}
TableAt == {"wake", "slrel", "ssched", "ysched", "xsched", "slept", "yielded", "new", "held"}
DepthAt(l) ==
  IF l \in {"user", "in", "ret", "iret", "kiret", "top", "idle", "halt"} THEN 0
  ELSE IF l \in {"slacq", "slrel", "wacq", "wake"} THEN 2 ELSE 1
EnableAt == {"acq", "loop", "slacq", "slrel", "ssched", "pass"}
DisableAt == {"yacq", "ysched", "kacq", "kin", "wacq", "wake"}

\* Locks, depth and flags are those of the label; a process about to sleep has
\* seen an empty buffer, and nothing has come since.
Local(c) ==
  /\ lk["cons"] = c <=> Label(c) \in ConsAt
  /\ lk["ptable"] = c <=> Label(c) \in TableAt
  /\ ncli[c] = DepthAt(Label(c))
  /\ Label(c) \in OnAt => iflag[c]
  /\ iflag[c] => Label(c) \in OnAt \cup {"top", "ret"}
  /\ Label(c) \in EnableAt => intena[c]
  /\ Label(c) \in DisableAt => ~intena[c]
  /\ Label(c) = "held" /\ ~ran[c] => intena[c]
  /\ Label(c) \in {"slacq", "slrel"} => r = w

\* The handler runs on top of code that holds nothing; a process runs on one
\* CPU, out of a pass of its scheduler, and is running or about to switch.
Placed(c) ==
  /\ kb[c] # "off" => (IF cur[c] = NoProc THEN sp[c] ELSE pc[cur[c]]) \in Open
  /\ cur[c] # NoProc =>
       /\ sp[c] = "held" /\ ran[c]
       /\ pc[cur[c]] # "dead"
       /\ pc[cur[c]] \in SchedLabels \/ state[cur[c]] = "running"
OneCpu == \A c, d \in CPUs : cur[c] # NoProc /\ cur[c] = cur[d] => c = d

\* What a process is doing, on a CPU and off.
Suspended(p) ==
  /\ (\A c \in CPUs : cur[c] # p) =>
       state[p] # "running" /\ pc[p] \in {"slept", "yielded", "new", "dead"}
  /\ pc[p] = "ssched" => state[p] = "sleeping"
  /\ pc[p] = "ysched" => state[p] = "runnable"
  /\ pc[p] \in {"xsched", "dead"} <=> state[p] = "zombie"
  /\ state[p] = "sleeping" => pc[p] \in {"ssched", "slept"}
  /\ pc[p] = "slept" => saved[p]
  /\ pc[p] = "yielded" => ~saved[p]

IInv ==
  /\ TypeOK
  /\ \A c \in CPUs : Local(c) /\ Placed(c)
  /\ OneCpu
  /\ \A p \in Procs : Suspended(p)
  /\ NoMissedInput

-----------------------------------------------------------------------------
(* What the operations of spinlock.c do to the CPU that executes them, and   *)
(* that they do nothing to the others                                        *)

Elsewhere(c) ==
  \A d \in CPUs \ {c} :
    /\ iflag'[d] = iflag[d] /\ ncli'[d] = ncli[d] /\ intena'[d] = intena[d]
    /\ \A l \in Locks : lk'[l] = d <=> lk[l] = d

\* What the proofs need of the constants
LEMMA Consts == NoCpu \notin CPUs /\ NoProc \notin Procs /\ KbdCpu \in CPUs
BY ConsoleAssumption

\* pushcli turns interrupts off, goes one deeper, and remembers what the
\* outermost one found.
LEMMA PushEffect ==
  ASSUME SpinOK, NEW c \in CPUs, NEW f \in BOOLEAN, PushcliAt(c, f), UNCHANGED lk
  PROVE  /\ SpinOK' /\ Elsewhere(c)
         /\ iflag'[c] = FALSE /\ ncli'[c] = ncli[c] + 1
         /\ ncli[c] = 0 => intena'[c] = f
         /\ ncli[c] # 0 => intena'[c] = intena[c]
<1>1. (IF ncli[c] = 0 THEN f ELSE intena[c]) \in BOOLEAN
  BY DEF SpinOK
<1>2. iflag' \in [CPUs -> BOOLEAN] /\ ncli' \in [CPUs -> Int] /\ intena' \in [CPUs -> BOOLEAN]
  BY <1>1, SMT DEF SpinOK, PushcliAt
<1> QED
  BY <1>2 DEF SpinOK, Elsewhere, PushcliAt

\* The end of acquire takes the free lock and changes nothing else.
LEMMA LockEffect ==
  ASSUME SpinOK, NEW c \in CPUs, NEW l \in Locks, AcquireDone(c, l)
  PROVE  /\ SpinOK' /\ Elsewhere(c)
         /\ lk'[l] = c /\ \A m \in Locks \ {l} : lk'[m] = lk[m]
         /\ iflag' = iflag /\ ncli' = ncli /\ intena' = intena
BY Consts DEF SpinOK, Elsewhere, AcquireDone

\* release frees the lock of this CPU, and enables interrupts at depth 1 if
\* they were on before.
LEMMA ReleaseEffect ==
  ASSUME SpinOK, NEW c \in CPUs, NEW l \in Locks, lk[l] = c, NEW ena \in BOOLEAN, ReleaseWith(c, l, ena)
  PROVE  /\ SpinOK' /\ Elsewhere(c)
         /\ lk'[l] = NoCpu /\ \A m \in Locks \ {l} : lk'[m] = lk[m]
         /\ ncli'[c] = ncli[c] - 1 /\ intena'[c] = ena
         /\ iflag'[c] <=> (iflag[c] \/ (ncli[c] = 1 /\ ena))
<1>1. (iflag[c] \/ Enables(c, ena)) \in BOOLEAN
  OBVIOUS
<1>2. iflag' \in [CPUs -> BOOLEAN]
  BY <1>1 DEF SpinOK, ReleaseWith, PopcliWith
<1>3. iflag'[c] = (iflag[c] \/ Enables(c, ena))
  BY DEF SpinOK, ReleaseWith, PopcliWith
<1>4. iflag'[c] <=> (iflag[c] \/ (ncli[c] = 1 /\ ena))
  BY <1>3 DEF Enables
<1> QED
  BY <1>2, <1>4, Consts, SMT DEF SpinOK, Elsewhere, ReleaseWith, PopcliWith

\* sti turns interrupts on and changes nothing else.
LEMMA StiEffect ==
  ASSUME SpinOK, NEW c \in CPUs, Sti(c)
  PROVE  /\ SpinOK' /\ Elsewhere(c)
         /\ iflag'[c] = TRUE /\ lk' = lk /\ ncli' = ncli /\ intena' = intena
BY DEF SpinOK, Elsewhere, Sti

-----------------------------------------------------------------------------
(* The frame: what a step of one CPU leaves as it was *)

Untouched(d) == kb'[d] = kb[d] /\ cur'[d] = cur[d] /\ sp'[d] = sp[d] /\ ran'[d] = ran[d]

\* What holds of a CPU at a label holds as long as it stays there.
LEMMA LocalFrame ==
  ASSUME NEW c \in CPUs, NEW d \in CPUs \ {c}, Local(d), Elsewhere(c), Untouched(d),
         Label(d)' = Label(d), Label(d) \in {"slacq", "slrel"} => r' = w'
  PROVE  Local(d)'
BY SMT DEF Local, Locks, Elsewhere, Untouched

\* Process p makes a step on CPU c and stays there.
Stays(c, p) ==
  /\ cur[c] = p /\ kb[c] = "off" /\ UNCHANGED <<cur, sp, ran, kb>>
  /\ \A q \in Procs \ {p} : pc'[q] = pc[q] /\ state'[q] = state[q] /\ saved'[q] = saved[q]
  /\ r = w => r' = w'
  /\ pc'[p] \notin {"slept", "yielded", "dead"}
  /\ \/ pc'[p] \notin SchedLabels /\ state'[p] = "running"
     \/ pc'[p] = "ssched" /\ state'[p] = "sleeping" /\ r' = w'
     \/ pc'[p] = "ysched" /\ state'[p] = "runnable"
     \/ pc'[p] = "xsched" /\ state'[p] = "zombie"

\* Then it is enough to look at c and p.
LEMMA ProcMove ==
  ASSUME IInv, NEW c \in CPUs, NEW p \in Procs, Stays(c, p), TypeOK', Local(c)', Elsewhere(c)
  PROVE  IInv'
<1> USE DEF Stays
<1>1. \A d \in CPUs \ {c} : cur[d] # p
  BY Consts DEF IInv, OneCpu
<1>2. ASSUME NEW d \in CPUs \ {c} PROVE Label(d)' = Label(d) /\ Untouched(d)
  BY <1>1, cur[d] \in Procs \cup {NoProc} DEF IInv, TypeOK, Label, Untouched
<1>3. ASSUME NEW d \in CPUs PROVE Local(d)'
  <2>1. CASE d = c
    BY <2>1
  <2>2. CASE d # c
    BY <2>2, <1>2, LocalFrame, SMT DEF IInv, Local
  <2> QED
    BY <2>1, <2>2
<1>4. ASSUME NEW d \in CPUs PROVE Placed(d)'
  <2>1. CASE d = c
    BY <2>1, Consts DEF IInv, Placed, SchedLabels
  <2>2. CASE d # c
    BY <2>2, <1>1, cur[d] \in Procs \cup {NoProc}, SMT DEF IInv, TypeOK, Placed
  <2> QED
    BY <2>1, <2>2
<1>5. OneCpu'
  BY DEF IInv, OneCpu
<1>6. ASSUME NEW q \in Procs PROVE Suspended(q)'
  <2>1. CASE q = p
    BY <2>1 DEF Suspended, SchedLabels
  <2>2. CASE q # p
    BY <2>2, SMT DEF IInv, Suspended
  <2> QED
    BY <2>1, <2>2
<1>7. NoMissedInput'
  BY DEF IInv, NoMissedInput, SchedLabels
<1> QED
  BY <1>3, <1>4, <1>5, <1>6, <1>7 DEF IInv

\* After a step of the handler or the scheduler of CPU c, it is enough to look
\* at c.
LEMMA CpuMove ==
  ASSUME IInv, NEW c \in CPUs, UNCHANGED <<cur, pc, state, saved>>,
         TypeOK', Local(c)', Placed(c)', NoMissedInput', Elsewhere(c),
         \A d \in CPUs \ {c} : Untouched(d) /\ (Label(d) \in {"slacq", "slrel"} => r' = w')
  PROVE  IInv'
<1>1. ASSUME NEW d \in CPUs \ {c} PROVE Label(d)' = Label(d)
  BY DEF Label, Untouched
<1>2. ASSUME NEW d \in CPUs PROVE Local(d)'
  <2>1. CASE d = c
    BY <2>1
  <2>2. CASE d # c
    BY <2>2, <1>1, LocalFrame DEF IInv
  <2> QED
    BY <2>1, <2>2
<1>3. ASSUME NEW d \in CPUs PROVE Placed(d)'
  BY SMT DEF IInv, Placed, Untouched
<1>4. OneCpu'
  BY DEF IInv, OneCpu
<1>5. ASSUME NEW q \in Procs PROVE Suspended(q)'
  BY DEF IInv, Suspended
<1> QED
  BY <1>2, <1>3, <1>4, <1>5 DEF IInv

-----------------------------------------------------------------------------
(* The interrupt, its locks and its line editing *)

\* The inductive invariant survives the keyboard interrupt.
LEMMA KeyboardInv ==
  ASSUME IInv, NEW c \in CPUs, Keyboard(c)
  PROVE  IInv'
<1> USE Consts
<1>1. TypeOK /\ SpinOK /\ Local(c) /\ Placed(c)
  BY DEF IInv, TypeOK
<1>2. Label(c) \in {"user", "in", "ret", "top", "idle", "halt"}
  BY <1>1 DEF Keyboard, Label, Local, OnAt
<1>3. /\ SpinOK' /\ Elsewhere(c)
      /\ iflag'[c] = FALSE /\ ncli'[c] = ncli[c] + 1 /\ lk' = lk
      /\ intena'[c] = FALSE
  <2>1. ncli[c] = 0 /\ iflag[c] \in BOOLEAN
    BY <1>1, <1>2 DEF SpinOK, Local, DepthAt, OnAt
  <2> QED
    BY <1>1, <2>1, PushEffect DEF Keyboard, AcquireStart
<1>4. TypeOK'
  BY <1>1, <1>2, <1>3 DEF TypeOK, Keyboard, KbdLabels, SchedulerLabels, inputVars, procVars, cpuVars
<1>5. Label(c)' = "kacq"
  BY <1>1, <1>2 DEF TypeOK, Keyboard, Label, inputVars, procVars, cpuVars
<1>6. Local(c)'
  <2>1. lk'["cons"] # c /\ lk'["ptable"] # c /\ ncli'[c] = 1 /\ iflag'[c] = FALSE /\ intena'[c] = FALSE
    BY <1>1, <1>2, <1>3, <1>5, SMT DEF Local, ConsAt, TableAt, DepthAt, OnAt, EnableAt, DisableAt, SpinOK
  <2> QED
    BY <1>5, <2>1 DEF Local, ConsAt, TableAt, DepthAt, OnAt, EnableAt, DisableAt
<1>7. Placed(c)'
  BY <1>1, <1>2 DEF TypeOK, Placed, Label, Open, Keyboard, inputVars, procVars, cpuVars, ProcLabels, SchedulerLabels
<1>8. NoMissedInput'
  BY <1>1 DEF IInv, TypeOK, NoMissedInput, Keyboard, inputVars, procVars, cpuVars
<1>9. \A d \in CPUs \ {c} : Untouched(d)
  BY <1>1 DEF TypeOK, Untouched, Keyboard, inputVars, procVars, cpuVars
<1>10. \A d \in CPUs : Label(d) \in {"slacq", "slrel"} => r' = w'
  <2>1. r' = r /\ w' = w
    BY DEF Keyboard, inputVars
  <2> QED
    BY <2>1 DEF IInv, Local
<1> QED
  BY <1>3, <1>4, <1>6, <1>7, <1>8, <1>9, <1>10, CpuMove DEF Keyboard, inputVars, procVars, cpuVars

\* The inductive invariant survives consoleintr taking cons.lock.
LEMMA KbdLockInv ==
  ASSUME IInv, NEW c \in CPUs, KbdLock(c)
  PROVE  IInv'
<1> USE Consts
<1>1. TypeOK /\ SpinOK /\ Local(c) /\ Placed(c)
  BY DEF IInv, TypeOK
<1>2. Label(c) = "kacq"
  BY DEF KbdLock, Label
<1>3. /\ SpinOK' /\ Elsewhere(c)
      /\ lk'["cons"] = c /\ lk'["ptable"] = lk["ptable"]
      /\ iflag' = iflag /\ ncli' = ncli /\ intena' = intena
  BY <1>1, LockEffect DEF KbdLock, Locks
<1>4. TypeOK'
  BY <1>1, <1>2, <1>3 DEF TypeOK, KbdLock, KbdLabels, SchedulerLabels, inputVars, procVars, cpuVars
<1>5. Label(c)' = "kin"
  BY <1>1, <1>2 DEF TypeOK, KbdLock, Label, inputVars, procVars, cpuVars
<1>6. Local(c)'
  <2>1. lk'["cons"] = c /\ lk'["ptable"] # c /\ ncli'[c] = 1 /\ iflag'[c] = FALSE /\ intena'[c] = FALSE
    BY <1>1, <1>2, <1>3, <1>5 DEF Local, ConsAt, TableAt, DepthAt, OnAt, EnableAt, DisableAt, SpinOK
  <2> QED
    BY <1>5, <2>1 DEF Local, ConsAt, TableAt, DepthAt, OnAt, EnableAt, DisableAt
<1>7. Placed(c)'
  BY <1>1, <1>2 DEF TypeOK, Placed, Label, Open, KbdLock, inputVars, procVars, cpuVars
<1>8. NoMissedInput'
  BY <1>1 DEF IInv, TypeOK, NoMissedInput, KbdLock, inputVars, procVars, cpuVars
<1>9. \A d \in CPUs \ {c} : Untouched(d)
  BY <1>1 DEF TypeOK, Untouched, KbdLock, inputVars, procVars, cpuVars
<1>10. \A d \in CPUs : Label(d) \in {"slacq", "slrel"} => r' = w'
  <2>1. r' = r /\ w' = w
    BY DEF KbdLock, inputVars
  <2> QED
    BY <2>1 DEF IInv, Local
<1> QED
  BY <1>3, <1>4, <1>6, <1>7, <1>8, <1>9, <1>10, CpuMove DEF KbdLock, inputVars, procVars, cpuVars

\* The inductive invariant survives consoleintr erasing characters.
LEMMA EditInv ==
  ASSUME IInv, NEW c \in CPUs, Edit(c)
  PROVE  IInv'
<1> USE Consts
<1>1. TypeOK /\ SpinOK /\ Local(c) /\ Placed(c)
  BY DEF IInv, TypeOK
<1>2. Label(c) = "kin"
  BY DEF Edit, Label
<1>3. /\ SpinOK' /\ Elsewhere(c)
      /\ lk' = lk /\ iflag' = iflag /\ ncli' = ncli /\ intena' = intena
  BY <1>1 DEF SpinOK, Elsewhere, Edit, spinVars
<1>4. TypeOK'
  BY <1>1, <1>2, <1>3 DEF TypeOK, Edit, KbdLabels, SchedulerLabels, inputVars, procVars, cpuVars
<1>5. Label(c)' = "kin"
  BY <1>1, <1>2 DEF TypeOK, Edit, Label, inputVars, procVars, cpuVars
<1>6. Local(c)'
  <2>1. lk'["cons"] = c /\ lk'["ptable"] # c /\ ncli'[c] = 1 /\ iflag'[c] = FALSE /\ intena'[c] = FALSE
    BY <1>1, <1>2, <1>3, <1>5 DEF Local, ConsAt, TableAt, DepthAt, OnAt, EnableAt, DisableAt, SpinOK
  <2> QED
    BY <1>5, <2>1 DEF Local, ConsAt, TableAt, DepthAt, OnAt, EnableAt, DisableAt
<1>7. Placed(c)'
  BY <1>1, <1>2 DEF TypeOK, Placed, Label, Open, Edit, inputVars, procVars, cpuVars
<1>8. NoMissedInput'
  BY <1>1 DEF IInv, TypeOK, NoMissedInput, Edit, inputVars, procVars, cpuVars
<1>9. \A d \in CPUs \ {c} : Untouched(d)
  BY <1>1 DEF TypeOK, Untouched, Edit, inputVars, procVars, cpuVars
<1>10. \A d \in CPUs : Label(d) \in {"slacq", "slrel"} => r' = w'
  <2>1. r' = r /\ w' = w
    BY DEF Edit, inputVars
  <2> QED
    BY <2>1 DEF IInv, Local
<1> QED
  BY <1>3, <1>4, <1>6, <1>7, <1>8, <1>9, <1>10, CpuMove DEF Edit, inputVars, procVars, cpuVars

\* The inductive invariant survives wakeup taking ptable.lock.
LEMMA WakeLockInv ==
  ASSUME IInv, NEW c \in CPUs, WakeLock(c)
  PROVE  IInv'
<1> USE Consts
<1>1. TypeOK /\ SpinOK /\ Local(c) /\ Placed(c)
  BY DEF IInv, TypeOK
<1>2. Label(c) = "wacq"
  BY DEF WakeLock, Label
<1>3. /\ SpinOK' /\ Elsewhere(c)
      /\ lk'["ptable"] = c /\ lk'["cons"] = lk["cons"]
      /\ iflag' = iflag /\ ncli' = ncli /\ intena' = intena
  BY <1>1, LockEffect DEF WakeLock, Locks
<1>4. TypeOK'
  BY <1>1, <1>2, <1>3 DEF TypeOK, WakeLock, KbdLabels, SchedulerLabels, inputVars, procVars, cpuVars
<1>5. Label(c)' = "wake"
  BY <1>1, <1>2 DEF TypeOK, WakeLock, Label, inputVars, procVars, cpuVars
<1>6. Local(c)'
  <2>1. lk'["cons"] = c /\ lk'["ptable"] = c /\ ncli'[c] = 2 /\ iflag'[c] = FALSE /\ intena'[c] = FALSE
    BY <1>1, <1>2, <1>3, <1>5 DEF Local, ConsAt, TableAt, DepthAt, OnAt, EnableAt, DisableAt, SpinOK
  <2> QED
    BY <1>5, <2>1 DEF Local, ConsAt, TableAt, DepthAt, OnAt, EnableAt, DisableAt
<1>7. Placed(c)'
  BY <1>1, <1>2 DEF TypeOK, Placed, Label, Open, WakeLock, inputVars, procVars, cpuVars
<1>8. NoMissedInput'
  BY <1>1 DEF IInv, TypeOK, NoMissedInput, WakeLock, inputVars, procVars, cpuVars
<1>9. \A d \in CPUs \ {c} : Untouched(d)
  BY <1>1 DEF TypeOK, Untouched, WakeLock, inputVars, procVars, cpuVars
<1>10. \A d \in CPUs : Label(d) \in {"slacq", "slrel"} => r' = w'
  <2>1. r' = r /\ w' = w
    BY DEF WakeLock, inputVars
  <2> QED
    BY <2>1 DEF IInv, Local
<1> QED
  BY <1>3, <1>4, <1>6, <1>7, <1>8, <1>9, <1>10, CpuMove DEF WakeLock, inputVars, procVars, cpuVars

\* The inductive invariant survives consoleintr releasing cons.lock.
LEMMA KbdDoneInv ==
  ASSUME IInv, NEW c \in CPUs, KbdDone(c)
  PROVE  IInv'
<1> USE Consts
<1>1. TypeOK /\ SpinOK /\ Local(c) /\ Placed(c)
  BY DEF IInv, TypeOK
<1>2. Label(c) = "kin"
  BY DEF KbdDone, Label
<1>3. /\ SpinOK' /\ Elsewhere(c)
      /\ lk'["cons"] = NoCpu /\ lk'["ptable"] = lk["ptable"]
      /\ ncli'[c] = ncli[c] - 1 /\ intena'[c] = intena[c]
      /\ iflag'[c] <=> (iflag[c] \/ (ncli[c] = 1 /\ intena[c]))
  <2>1. lk["cons"] = c
    BY <1>1, <1>2 DEF Local, ConsAt, TableAt
  <2>2. intena[c] \in BOOLEAN
    BY <1>1 DEF TypeOK, SpinOK
  <2> QED
    BY <1>1, <2>1, <2>2, ReleaseEffect DEF KbdDone, Release, Locks
<1>4. TypeOK'
  BY <1>1, <1>2, <1>3 DEF TypeOK, KbdDone, KbdLabels, SchedulerLabels, inputVars, procVars, cpuVars
<1>5. Label(c)' = "kiret"
  BY <1>1, <1>2 DEF TypeOK, KbdDone, Label, inputVars, procVars, cpuVars
<1>6. Local(c)'
  <2>1. lk'["cons"] # c /\ lk'["ptable"] # c /\ ncli'[c] = 0 /\ iflag'[c] = FALSE
    BY <1>1, <1>2, <1>3, <1>5, SMT DEF Local, ConsAt, TableAt, DepthAt, OnAt, EnableAt, DisableAt, SpinOK
  <2> QED
    BY <1>5, <2>1 DEF Local, ConsAt, TableAt, DepthAt, OnAt, EnableAt, DisableAt
<1>7. Placed(c)'
  BY <1>1, <1>2 DEF TypeOK, Placed, Label, Open, KbdDone, inputVars, procVars, cpuVars
<1>8. NoMissedInput'
  BY <1>1 DEF IInv, TypeOK, NoMissedInput, KbdDone, inputVars, procVars, cpuVars
<1>9. \A d \in CPUs \ {c} : Untouched(d)
  BY <1>1 DEF TypeOK, Untouched, KbdDone, inputVars, procVars, cpuVars
<1>10. \A d \in CPUs : Label(d) \in {"slacq", "slrel"} => r' = w'
  <2>1. r' = r /\ w' = w
    BY DEF KbdDone, inputVars
  <2> QED
    BY <2>1 DEF IInv, Local
<1> QED
  BY <1>3, <1>4, <1>6, <1>7, <1>8, <1>9, <1>10, CpuMove DEF KbdDone, inputVars, procVars, cpuVars

\* The inductive invariant survives the return from the interrupt.
LEMMA KbdIretInv ==
  ASSUME IInv, NEW c \in CPUs, KbdIret(c)
  PROVE  IInv'
<1> USE Consts
<1>1. TypeOK /\ SpinOK /\ Local(c) /\ Placed(c)
  BY DEF IInv, TypeOK
<1>2. Label(c) = "kiret"
  BY DEF KbdIret, Label
<1>3. /\ SpinOK' /\ Elsewhere(c)
      /\ iflag'[c] = TRUE /\ lk' = lk /\ ncli' = ncli /\ intena' = intena
  BY <1>1, StiEffect DEF KbdIret
<1>4. TypeOK'
  BY <1>1, <1>2, <1>3 DEF TypeOK, KbdIret, KbdLabels, SchedulerLabels, inputVars, procVars, cpuVars
<1>5. Label(c)' \in Open
  BY <1>1, <1>2 DEF TypeOK, KbdIret, Label, inputVars, procVars, cpuVars, Placed, Open
<1>6. Local(c)'
  <2>1. lk'["cons"] # c /\ lk'["ptable"] # c /\ ncli'[c] = 0 /\ iflag'[c] = TRUE
    BY <1>1, <1>2, <1>3, <1>5 DEF Local, ConsAt, TableAt, DepthAt, OnAt, EnableAt, DisableAt, SpinOK, Open
  <2> QED
    BY <1>5, <2>1 DEF Local, ConsAt, TableAt, DepthAt, OnAt, EnableAt, DisableAt, Open
<1>7. Placed(c)'
  BY <1>1, <1>2 DEF TypeOK, Placed, Label, Open, KbdIret, inputVars, procVars, cpuVars
<1>8. NoMissedInput'
  BY <1>1 DEF IInv, TypeOK, NoMissedInput, KbdIret, inputVars, procVars, cpuVars
<1>9. \A d \in CPUs \ {c} : Untouched(d)
  BY <1>1 DEF TypeOK, Untouched, KbdIret, inputVars, procVars, cpuVars
<1>10. \A d \in CPUs : Label(d) \in {"slacq", "slrel"} => r' = w'
  <2>1. r' = r /\ w' = w
    BY DEF KbdIret, inputVars
  <2> QED
    BY <2>1 DEF IInv, Local
<1> QED
  BY <1>3, <1>4, <1>6, <1>7, <1>8, <1>9, <1>10, CpuMove DEF KbdIret, inputVars, procVars, cpuVars

-----------------------------------------------------------------------------
(* Storing a character and waking the readers *)

\* The inductive invariant survives consoleintr storing a character, and going
\* on to wake the readers.
LEMMA TypeInv ==
  ASSUME IInv, NEW c \in CPUs, NEW ch \in Chars, Type(c, ch)
  PROVE  IInv'
<1> USE Consts
<1>1. TypeOK /\ SpinOK /\ Local(c) /\ Placed(c)
  BY DEF IInv, TypeOK
<1>2. /\ Label(c) = "kin" /\ kb[c] = "kin" /\ lk["cons"] = c /\ lk["ptable"] # c
      /\ ncli[c] = 1 /\ ncli[c] # 0 /\ intena[c] = FALSE /\ iflag[c] = FALSE
  <2>1. Label(c) = "kin" /\ kb[c] = "kin"
    BY DEF Type, Label
  <2> QED
    BY <1>1, <2>1, SMT DEF Local, SpinOK, ConsAt, TableAt, DepthAt, DisableAt, OnAt
<1>3. \A d \in CPUs \ {c} : Label(d) \notin {"slacq", "slrel"}
  BY <1>1, <1>2 DEF IInv, Local, ConsAt
<1>4. CASE AcquireStart(c) /\ kb' = [kb EXCEPT ![c] = "wacq"]
  <2>1. /\ SpinOK' /\ Elsewhere(c) /\ iflag'[c] = FALSE /\ ncli'[c] = ncli[c] + 1 /\ lk' = lk
        /\ intena'[c] = intena[c]
    BY <1>1, <1>2, <1>4, PushEffect DEF AcquireStart
  <2>2. TypeOK'
    BY <1>1, <1>4, <2>1 DEF TypeOK, Type, KbdLabels, procVars, cpuVars
  <2>3. Label(c)' = "wacq"
    BY <1>1, <1>4 DEF TypeOK, Label
  <2>4. Local(c)'
    <3>1. lk'["cons"] = c /\ lk'["ptable"] # c /\ ncli'[c] = 2
      BY <1>2, <2>1, SMT
    <3>2. iflag'[c] = FALSE /\ intena'[c] = FALSE
      BY <1>2, <2>1
    <3> QED
      BY <2>3, <3>1, <3>2 DEF Local, ConsAt, TableAt, DepthAt, OnAt, EnableAt, DisableAt
  <2>5. Placed(c)'
    BY <1>1, <1>2, <1>4 DEF TypeOK, Placed, Type, procVars, cpuVars
  <2>6. NoMissedInput'
    BY <1>1, <1>4 DEF TypeOK, NoMissedInput
  <2>7. \A d \in CPUs \ {c} : Untouched(d)
    BY <1>1, <1>4 DEF TypeOK, Untouched, Type, cpuVars
  <2> QED
    BY <1>3, <2>1, <2>2, <2>4, <2>5, <2>6, <2>7, CpuMove DEF Type, procVars, cpuVars
<1>5. CASE UNCHANGED <<w, spinVars, kb>>
  <2>1. SpinOK' /\ Elsewhere(c) /\ lk' = lk /\ iflag' = iflag /\ ncli' = ncli /\ intena' = intena
    BY <1>1, <1>5 DEF SpinOK, Elsewhere, spinVars
  <2>2. TypeOK'
    BY <1>1, <1>5, <2>1 DEF TypeOK, Type, procVars, cpuVars
  <2>3. Label(c)' = "kin"
    BY <1>1, <1>2, <1>5 DEF Label
  <2>4. Local(c)'
    <3>1. lk'["cons"] = c /\ lk'["ptable"] # c /\ ncli'[c] = 1 /\ iflag'[c] = FALSE /\ intena'[c] = FALSE
      BY <1>2, <2>1
    <3> QED
      BY <2>3, <3>1 DEF Local, ConsAt, TableAt, DepthAt, OnAt, EnableAt, DisableAt
  <2>5. Placed(c)'
    BY <1>1, <1>5 DEF Placed, Type, procVars, cpuVars
  <2>6. NoMissedInput'
    BY <1>5 DEF IInv, NoMissedInput, Type, procVars
  <2>7. \A d \in CPUs \ {c} : Untouched(d)
    BY <1>5 DEF Untouched, Type, cpuVars
  <2> QED
    BY <1>3, <2>1, <2>2, <2>4, <2>5, <2>6, <2>7, CpuMove DEF Type, procVars, cpuVars
<1> QED
  BY <1>4, <1>5 DEF Type

\* The inductive invariant survives wakeup making the sleepers runnable: with
\* ptable.lock held, no process is on its way into sched.
LEMMA WakeupInv ==
  ASSUME IInv, NEW c \in CPUs, Wakeup(c)
  PROVE  IInv'
<1> USE Consts
<1>1. TypeOK /\ SpinOK /\ Local(c) /\ Placed(c)
  BY DEF IInv, TypeOK
<1>2. Label(c) = "wake" /\ kb[c] = "wake" /\ lk["ptable"] = c
  BY <1>1 DEF Wakeup, Label, Local, ConsAt, TableAt
<1>3. /\ SpinOK' /\ Elsewhere(c)
      /\ lk'["ptable"] = NoCpu /\ lk'["cons"] = lk["cons"]
      /\ ncli'[c] = ncli[c] - 1 /\ intena'[c] = intena[c]
      /\ iflag'[c] <=> (iflag[c] \/ (ncli[c] = 1 /\ intena[c]))
  <2>1. intena[c] \in BOOLEAN
    BY <1>1 DEF SpinOK
  <2> QED
    BY <1>1, <1>2, <2>1, ReleaseEffect DEF Wakeup, Release, Locks
<1>4. TypeOK'
  BY <1>1, <1>3 DEF TypeOK, Wakeup, Woken, KbdLabels, cpuVars
<1>5. Label(c)' = "kin"
  BY <1>1 DEF TypeOK, Wakeup, Label
<1>6. \A d \in CPUs \ {c} : Untouched(d) /\ Label(d)' = Label(d)
  BY <1>1 DEF TypeOK, Wakeup, Untouched, Label, cpuVars
<1>7. ASSUME NEW d \in CPUs PROVE Local(d)'
  <2>1. CASE d = c
    <3>1. lk'["cons"] = c /\ lk'["ptable"] # c /\ ncli'[c] = 1 /\ iflag'[c] = FALSE /\ intena'[c] = FALSE
      BY <1>1, <1>2, <1>3, SMT DEF Local, ConsAt, TableAt, DepthAt, OnAt, EnableAt, DisableAt, SpinOK
    <3> QED
      BY <2>1, <1>5, <3>1 DEF Local, ConsAt, TableAt, DepthAt, OnAt, EnableAt, DisableAt
  <2>2. CASE d # c
    <3>1. Local(d) /\ (Label(d) \in {"slacq", "slrel"} => r' = w')
      BY DEF IInv, Local, Wakeup, inputVars
    <3> QED
      BY <2>2, <1>3, <1>6, <3>1, LocalFrame
  <2> QED
    BY <2>1, <2>2
<1>8. \A q \in Procs : pc[q] # "ssched"
  <2> SUFFICES ASSUME NEW q \in Procs, pc[q] = "ssched" PROVE FALSE
    OBVIOUS
  <2>1. PICK d \in CPUs : cur[d] = q
    BY DEF IInv, Suspended
  <2>2. Label(d) = "ssched"
    BY <2>1 DEF IInv, Placed, Label, Open
  <2>3. lk["ptable"] = d
    BY <2>2 DEF IInv, Local, ConsAt, TableAt
  <2> QED
    BY <1>2, <2>2, <2>3
<1>9. ASSUME NEW d \in CPUs PROVE Placed(d)'
  <2>1. cur[d] # NoProc => cur[d] \in Procs /\ (pc[cur[d]] \in SchedLabels \/ state'[cur[d]] = "running")
    BY <1>1, SMT DEF IInv, Placed, TypeOK, Wakeup, Woken
  <2>2. CASE d = c
    BY <2>1, <2>2, <1>1, <1>2 DEF Placed, Wakeup, cpuVars
  <2>3. CASE d # c
    BY <2>1, <2>3, <1>6, SMT DEF IInv, Placed, Wakeup, Untouched
  <2> QED
    BY <2>2, <2>3
<1>10. OneCpu'
  BY DEF IInv, OneCpu, Wakeup, cpuVars
<1>11. ASSUME NEW q \in Procs PROVE Suspended(q)'
  <2>1. state'[q] = IF state[q] = "sleeping" THEN "runnable" ELSE state[q]
    BY DEF Wakeup, Woken
  <2> QED
    BY <1>8, <2>1 DEF IInv, Suspended, Wakeup, cpuVars
<1>12. NoMissedInput'
  BY DEF NoMissedInput, Wakeup, Woken
<1> QED
  BY <1>4, <1>7, <1>9, <1>10, <1>11, <1>12 DEF IInv

-----------------------------------------------------------------------------
(* consoleread and consolewrite *)

\* The inductive invariant survives a system call.
LEMMA SyscallInv ==
  ASSUME IInv, NEW c \in CPUs, NEW p \in Procs, NEW f, NEW n, Syscall(c, p, f, n)
  PROVE  IInv'
<1> USE Consts
<1>1. TypeOK /\ SpinOK /\ Local(c) /\ Placed(c)
  BY DEF IInv, TypeOK
<1>2. Label(c) = "user"
  BY DEF Syscall, At, Goto, Label
<1>3. /\ SpinOK' /\ Elsewhere(c)
      /\ lk' = lk /\ iflag' = iflag /\ ncli' = ncli /\ intena' = intena
  BY <1>1 DEF SpinOK, Elsewhere, Syscall, spinVars
<1>4. TypeOK'
  BY <1>1, <1>2, <1>3 DEF TypeOK, Syscall, At, Goto, ProcLabels, inputVars, procVars, cpuVars
<1>5. Label(c)' = "in"
  BY <1>1, <1>2 DEF TypeOK, Syscall, At, Goto, Label, inputVars, procVars, cpuVars
<1>6. Local(c)'
  <2>1. lk'["cons"] # c /\ lk'["ptable"] # c /\ ncli'[c] = 0 /\ iflag'[c] = TRUE
    BY <1>1, <1>2, <1>3, <1>5 DEF Local, ConsAt, TableAt, DepthAt, OnAt, EnableAt, DisableAt, SpinOK
  <2> QED
    BY <1>5, <2>1 DEF Local, ConsAt, TableAt, DepthAt, OnAt, EnableAt, DisableAt
<1>7. Stays(c, p)
  BY <1>1, <1>2 DEF Stays, TypeOK, Placed, Local, Label, SchedLabels, Syscall, At, Goto, inputVars, procVars, cpuVars
<1> QED
  BY <1>3, <1>4, <1>6, <1>7, ProcMove

\* The inductive invariant survives consoleread or consolewrite calling acquire.
LEMMA EnterInv ==
  ASSUME IInv, NEW c \in CPUs, NEW p \in Procs, Enter(c, p)
  PROVE  IInv'
<1> USE Consts
<1>1. TypeOK /\ SpinOK /\ Local(c) /\ Placed(c)
  BY DEF IInv, TypeOK
<1>2. Label(c) = "in"
  BY DEF Enter, At, Goto, Label
<1>3. /\ SpinOK' /\ Elsewhere(c)
      /\ iflag'[c] = FALSE /\ ncli'[c] = ncli[c] + 1 /\ lk' = lk
      /\ intena'[c] = TRUE
  <2>1. ncli[c] = 0 /\ iflag[c] = TRUE /\ iflag[c] \in BOOLEAN
    BY <1>1, <1>2 DEF SpinOK, Local, DepthAt, OnAt
  <2> QED
    BY <1>1, <2>1, PushEffect DEF Enter, AcquireStart
<1>4. TypeOK'
  BY <1>1, <1>2, <1>3 DEF TypeOK, Enter, At, Goto, ProcLabels, inputVars, procVars, cpuVars
<1>5. Label(c)' = "acq"
  BY <1>1, <1>2 DEF TypeOK, Enter, At, Goto, Label, inputVars, procVars, cpuVars
<1>6. Local(c)'
  <2>1. lk'["cons"] # c /\ lk'["ptable"] # c /\ ncli'[c] = 1 /\ iflag'[c] = FALSE /\ intena'[c] = TRUE
    BY <1>1, <1>2, <1>3, <1>5, SMT DEF Local, ConsAt, TableAt, DepthAt, OnAt, EnableAt, DisableAt, SpinOK
  <2> QED
    BY <1>5, <2>1 DEF Local, ConsAt, TableAt, DepthAt, OnAt, EnableAt, DisableAt
<1>7. Stays(c, p)
  BY <1>1, <1>2 DEF Stays, TypeOK, Placed, Local, Label, SchedLabels, Enter, At, Goto, inputVars, procVars, cpuVars
<1> QED
  BY <1>3, <1>4, <1>6, <1>7, ProcMove

\* The inductive invariant survives a process taking cons.lock.
LEMMA ConsLockInv ==
  ASSUME IInv, NEW c \in CPUs, NEW p \in Procs, ConsLock(c, p)
  PROVE  IInv'
<1> USE Consts
<1>1. TypeOK /\ SpinOK /\ Local(c) /\ Placed(c)
  BY DEF IInv, TypeOK
<1>2. Label(c) = "acq"
  BY DEF ConsLock, At, Goto, Label
<1>3. /\ SpinOK' /\ Elsewhere(c)
      /\ lk'["cons"] = c /\ lk'["ptable"] = lk["ptable"]
      /\ iflag' = iflag /\ ncli' = ncli /\ intena' = intena
  BY <1>1, LockEffect DEF ConsLock, Locks
<1>4. TypeOK'
  BY <1>1, <1>2, <1>3 DEF TypeOK, ConsLock, At, Goto, ProcLabels, inputVars, procVars, cpuVars
<1>5. Label(c)' = "loop"
  BY <1>1, <1>2 DEF TypeOK, ConsLock, At, Goto, Label, inputVars, procVars, cpuVars
<1>6. Local(c)'
  <2>1. lk'["cons"] = c /\ lk'["ptable"] # c /\ ncli'[c] = 1 /\ iflag'[c] = FALSE /\ intena'[c] = TRUE
    BY <1>1, <1>2, <1>3, <1>5 DEF Local, ConsAt, TableAt, DepthAt, OnAt, EnableAt, DisableAt, SpinOK
  <2> QED
    BY <1>5, <2>1 DEF Local, ConsAt, TableAt, DepthAt, OnAt, EnableAt, DisableAt
<1>7. Stays(c, p)
  BY <1>1, <1>2 DEF Stays, TypeOK, Placed, Local, Label, SchedLabels, ConsLock, At, Goto, inputVars, procVars, cpuVars
<1> QED
  BY <1>3, <1>4, <1>6, <1>7, ProcMove

\* The inductive invariant survives consoleread calling sleep.
LEMMA SleepInv ==
  ASSUME IInv, NEW c \in CPUs, NEW p \in Procs, Sleep(c, p)
  PROVE  IInv'
<1> USE Consts
<1>1. TypeOK /\ SpinOK /\ Local(c) /\ Placed(c)
  BY DEF IInv, TypeOK
<1>2. Label(c) = "loop"
  BY DEF Sleep, At, Goto, Label
<1>3. /\ SpinOK' /\ Elsewhere(c)
      /\ iflag'[c] = FALSE /\ ncli'[c] = ncli[c] + 1 /\ lk' = lk
      /\ intena'[c] = intena[c]
  <2>1. ncli[c] # 0 /\ iflag[c] \in BOOLEAN
    BY <1>1, <1>2, SMT DEF SpinOK, Local, DepthAt, OnAt
  <2> QED
    BY <1>1, <2>1, PushEffect DEF Sleep, AcquireStart
<1>4. TypeOK'
  BY <1>1, <1>2, <1>3 DEF TypeOK, Sleep, At, Goto, ProcLabels, inputVars, procVars, cpuVars
<1>5. Label(c)' = "slacq" /\ r' = w'
  BY <1>1, <1>2 DEF TypeOK, Sleep, At, Goto, Label, inputVars, procVars, cpuVars
<1>6. Local(c)'
  <2>1. lk'["cons"] = c /\ lk'["ptable"] # c /\ ncli'[c] = 2 /\ iflag'[c] = FALSE /\ intena'[c] = TRUE /\ r' = w'
    BY <1>1, <1>2, <1>3, <1>5, SMT DEF Local, ConsAt, TableAt, DepthAt, OnAt, EnableAt, DisableAt, SpinOK
  <2> QED
    BY <1>5, <2>1 DEF Local, ConsAt, TableAt, DepthAt, OnAt, EnableAt, DisableAt
<1>7. Stays(c, p)
  BY <1>1, <1>2 DEF Stays, TypeOK, Placed, Local, Label, SchedLabels, Sleep, At, Goto, inputVars, procVars, cpuVars
<1> QED
  BY <1>3, <1>4, <1>6, <1>7, ProcMove

\* The inductive invariant survives sleep taking ptable.lock.
LEMMA SleepLockInv ==
  ASSUME IInv, NEW c \in CPUs, NEW p \in Procs, SleepLock(c, p)
  PROVE  IInv'
<1> USE Consts
<1>1. TypeOK /\ SpinOK /\ Local(c) /\ Placed(c)
  BY DEF IInv, TypeOK
<1>2. Label(c) = "slacq"
  BY DEF SleepLock, At, Goto, Label
<1>3. /\ SpinOK' /\ Elsewhere(c)
      /\ lk'["ptable"] = c /\ lk'["cons"] = lk["cons"]
      /\ iflag' = iflag /\ ncli' = ncli /\ intena' = intena
  BY <1>1, LockEffect DEF SleepLock, Locks
<1>4. TypeOK'
  BY <1>1, <1>2, <1>3 DEF TypeOK, SleepLock, At, Goto, ProcLabels, inputVars, procVars, cpuVars
<1>5. Label(c)' = "slrel" /\ r' = r /\ w' = w
  BY <1>1, <1>2 DEF TypeOK, SleepLock, At, Goto, Label, inputVars, procVars, cpuVars
<1>6. Local(c)'
  <2>1. lk'["cons"] = c /\ lk'["ptable"] = c /\ ncli'[c] = 2 /\ iflag'[c] = FALSE /\ intena'[c] = TRUE /\ r' = w'
    BY <1>1, <1>2, <1>3, <1>5 DEF Local, ConsAt, TableAt, DepthAt, OnAt, EnableAt, DisableAt, SpinOK
  <2> QED
    BY <1>5, <2>1 DEF Local, ConsAt, TableAt, DepthAt, OnAt, EnableAt, DisableAt
<1>7. Stays(c, p)
  BY <1>1, <1>2 DEF Stays, TypeOK, Placed, Local, Label, SchedLabels, SleepLock, At, Goto, inputVars, procVars, cpuVars
<1> QED
  BY <1>3, <1>4, <1>6, <1>7, ProcMove

\* The inductive invariant survives sleep giving up cons.lock.
LEMMA SleepReleaseInv ==
  ASSUME IInv, NEW c \in CPUs, NEW p \in Procs, SleepRelease(c, p)
  PROVE  IInv'
<1> USE Consts
<1>1. TypeOK /\ SpinOK /\ Local(c) /\ Placed(c)
  BY DEF IInv, TypeOK
<1>2. Label(c) = "slrel"
  BY DEF SleepRelease, At, Goto, Label
<1>3. /\ SpinOK' /\ Elsewhere(c)
      /\ lk'["cons"] = NoCpu /\ lk'["ptable"] = lk["ptable"]
      /\ ncli'[c] = ncli[c] - 1 /\ intena'[c] = intena[c]
      /\ iflag'[c] <=> (iflag[c] \/ (ncli[c] = 1 /\ intena[c]))
  <2>1. lk["cons"] = c
    BY <1>1, <1>2 DEF Local, ConsAt, TableAt
  <2>2. intena[c] \in BOOLEAN
    BY <1>1 DEF TypeOK, SpinOK
  <2> QED
    BY <1>1, <2>1, <2>2, ReleaseEffect DEF SleepRelease, Release, Locks
<1>4. TypeOK'
  BY <1>1, <1>2, <1>3 DEF TypeOK, SleepRelease, At, Goto, ProcLabels, inputVars, procVars, cpuVars
<1>5. Label(c)' = "ssched"
  BY <1>1, <1>2 DEF TypeOK, SleepRelease, At, Goto, Label, inputVars, procVars, cpuVars
<1>6. Local(c)'
  <2>1. lk'["cons"] # c /\ lk'["ptable"] = c /\ ncli'[c] = 1 /\ iflag'[c] = FALSE /\ intena'[c] = TRUE
    BY <1>1, <1>2, <1>3, <1>5, SMT DEF Local, ConsAt, TableAt, DepthAt, OnAt, EnableAt, DisableAt, SpinOK
  <2> QED
    BY <1>5, <2>1 DEF Local, ConsAt, TableAt, DepthAt, OnAt, EnableAt, DisableAt
<1>7. Stays(c, p)
  BY <1>1, <1>2 DEF Stays, TypeOK, Placed, Local, Label, SchedLabels, SleepRelease, At, Goto, inputVars, procVars, cpuVars
<1> QED
  BY <1>3, <1>4, <1>6, <1>7, ProcMove

\* The inductive invariant survives consoleread or consolewrite returning.
LEMMA ReturnInv ==
  ASSUME IInv, NEW c \in CPUs, NEW p \in Procs, At(c, p, "loop"), Return(c, p),
         UNCHANGED <<state, killed, under, saved, cur, sp, ran, kb>>, r = w => r' = w'
  PROVE  IInv'
<1> USE Consts
<1>1. TypeOK /\ SpinOK /\ Local(c) /\ Placed(c)
  BY DEF IInv, TypeOK
<1>2. Label(c) = "loop"
  BY DEF At, Label
<1>3. /\ SpinOK' /\ Elsewhere(c)
      /\ lk'["cons"] = NoCpu /\ lk'["ptable"] = lk["ptable"]
      /\ ncli'[c] = ncli[c] - 1 /\ intena'[c] = intena[c]
      /\ iflag'[c] <=> (iflag[c] \/ (ncli[c] = 1 /\ intena[c]))
  <2>1. lk["cons"] = c
    BY <1>1, <1>2 DEF Local, ConsAt, TableAt
  <2>2. intena[c] \in BOOLEAN
    BY <1>1 DEF SpinOK
  <2> QED
    BY <1>1, <2>1, <2>2, ReleaseEffect DEF Return, Release, Locks
<1>4. TypeOK'
  BY <1>1, <1>3 DEF TypeOK, Return, Goto, ProcLabels
<1>5. Label(c)' = "user"
  BY <1>1 DEF TypeOK, Return, At, Goto, Label
<1>6. Local(c)'
  <2>1. lk'["cons"] # c /\ lk'["ptable"] # c /\ ncli'[c] = 0 /\ iflag'[c] = TRUE
    BY <1>1, <1>2, <1>3, <1>5, SMT DEF Local, ConsAt, TableAt, DepthAt, OnAt, EnableAt, DisableAt, SpinOK
  <2> QED
    BY <1>5, <2>1 DEF Local, ConsAt, TableAt, DepthAt, OnAt, EnableAt, DisableAt
<1>7. Stays(c, p)
  BY <1>1, <1>2 DEF Stays, TypeOK, Placed, SchedLabels, Return, At, Goto
<1> QED
  BY <1>3, <1>4, <1>6, <1>7, ProcMove

\* The inductive invariant survives another round of the loop of consoleread or
\* consolewrite.
LEMMA NoMoveInv ==
  ASSUME IInv, NEW c \in CPUs, NEW p \in Procs, At(c, p, "loop"), r = w => r' = w',
         UNCHANGED <<spinVars, pc, state, killed, under, saved, cur, sp, ran, kb>>
  PROVE  IInv'
<1> USE Consts
<1>1. TypeOK /\ Local(c) /\ Placed(c)
  BY DEF IInv
<1>2. Label(c) = "loop" /\ Label(c)' = "loop"
  BY DEF At, Label
<1>3. TypeOK' /\ Elsewhere(c)
  BY <1>1 DEF TypeOK, SpinOK, Elsewhere, spinVars
<1>4. Local(c)'
  BY <1>1, <1>2 DEF Local, spinVars
<1>5. Stays(c, p)
  BY <1>1, <1>2 DEF Stays, Placed, SchedLabels, At
<1> QED
  BY <1>3, <1>4, <1>5, ProcMove

\* The inductive invariant survives a character written.
LEMMA WriteCharInv ==
  ASSUME IInv, NEW c \in CPUs, NEW p \in Procs, NEW ch, WriteChar(c, p, ch)
  PROVE  IInv'
<1>1. CASE Return(c, p)
  BY <1>1, ReturnInv DEF WriteChar, inputVars, cpuVars
<1>2. CASE UNCHANGED <<spinVars, pc>>
  BY <1>2, NoMoveInv DEF WriteChar, inputVars, cpuVars
<1> QED
  BY <1>1, <1>2 DEF WriteChar, Leave

\* The inductive invariant survives a character read.
LEMMA ReadCharInv ==
  ASSUME IInv, NEW c \in CPUs, NEW p \in Procs, ReadChar(c, p)
  PROVE  IInv'
<1>1. CASE Return(c, p)
  BY <1>1, ReturnInv DEF ReadChar, cpuVars
<1>2. CASE UNCHANGED <<spinVars, pc>>
  BY <1>2, NoMoveInv DEF ReadChar, cpuVars
<1> QED
  BY <1>1, <1>2 DEF ReadChar, Leave

\* The inductive invariant survives a killed reader leaving consoleread.
LEMMA ReadKilledInv ==
  ASSUME IInv, NEW c \in CPUs, NEW p \in Procs, ReadKilled(c, p)
  PROVE  IInv'
BY ReturnInv DEF ReadKilled, inputVars, cpuVars

-----------------------------------------------------------------------------
(* yield, exit and forkret, up to sched and after it *)

\* The inductive invariant survives a timer interrupt.
LEMMA TimerInv ==
  ASSUME IInv, NEW c \in CPUs, NEW p \in Procs, Timer(c, p)
  PROVE  IInv'
<1> USE Consts
<1>1. TypeOK /\ SpinOK /\ Local(c) /\ Placed(c)
  BY DEF IInv, TypeOK
<1>2. Label(c) \in {"user", "in", "ret"}
  BY <1>1 DEF Timer, Goto, Label, TypeOK, Local, OnAt, ProcLabels
<1>3. /\ SpinOK' /\ Elsewhere(c)
      /\ iflag'[c] = FALSE /\ ncli'[c] = ncli[c] + 1 /\ lk' = lk
      /\ intena'[c] = FALSE
  <2>1. ncli[c] = 0 /\ iflag[c] \in BOOLEAN
    BY <1>1, <1>2 DEF SpinOK, Local, DepthAt, OnAt
  <2> QED
    BY <1>1, <2>1, PushEffect DEF Timer, AcquireStart
<1>4. TypeOK'
  BY <1>1, <1>2, <1>3 DEF TypeOK, Timer, Goto, ProcLabels, inputVars, procVars, cpuVars, Label
<1>5. Label(c)' = "yacq"
  BY <1>1, <1>2 DEF TypeOK, Timer, Goto, Label, inputVars, procVars, cpuVars
<1>6. Local(c)'
  <2>1. lk'["cons"] # c /\ lk'["ptable"] # c /\ ncli'[c] = 1 /\ iflag'[c] = FALSE /\ intena'[c] = FALSE
    BY <1>1, <1>2, <1>3, <1>5, SMT DEF Local, ConsAt, TableAt, DepthAt, OnAt, EnableAt, DisableAt, SpinOK
  <2> QED
    BY <1>5, <2>1 DEF Local, ConsAt, TableAt, DepthAt, OnAt, EnableAt, DisableAt
<1>7. Stays(c, p)
  BY <1>1, <1>2 DEF Stays, TypeOK, Placed, Local, Label, SchedLabels, Timer, Goto, inputVars, procVars, cpuVars
<1> QED
  BY <1>3, <1>4, <1>6, <1>7, ProcMove

\* The inductive invariant survives yield taking ptable.lock.
LEMMA YieldLockInv ==
  ASSUME IInv, NEW c \in CPUs, NEW p \in Procs, YieldLock(c, p)
  PROVE  IInv'
<1> USE Consts
<1>1. TypeOK /\ SpinOK /\ Local(c) /\ Placed(c)
  BY DEF IInv, TypeOK
<1>2. Label(c) = "yacq"
  BY DEF YieldLock, At, Goto, Label
<1>3. /\ SpinOK' /\ Elsewhere(c)
      /\ lk'["ptable"] = c /\ lk'["cons"] = lk["cons"]
      /\ iflag' = iflag /\ ncli' = ncli /\ intena' = intena
  BY <1>1, LockEffect DEF YieldLock, Locks
<1>4. TypeOK'
  BY <1>1, <1>2, <1>3 DEF TypeOK, YieldLock, At, Goto, ProcLabels, inputVars, procVars, cpuVars
<1>5. Label(c)' = "ysched"
  BY <1>1, <1>2 DEF TypeOK, YieldLock, At, Goto, Label, inputVars, procVars, cpuVars
<1>6. Local(c)'
  <2>1. lk'["cons"] # c /\ lk'["ptable"] = c /\ ncli'[c] = 1 /\ iflag'[c] = FALSE /\ intena'[c] = FALSE
    BY <1>1, <1>2, <1>3, <1>5 DEF Local, ConsAt, TableAt, DepthAt, OnAt, EnableAt, DisableAt, SpinOK
  <2> QED
    BY <1>5, <2>1 DEF Local, ConsAt, TableAt, DepthAt, OnAt, EnableAt, DisableAt
<1>7. Stays(c, p)
  BY <1>1, <1>2 DEF Stays, TypeOK, Placed, Local, Label, SchedLabels, YieldLock, At, Goto, inputVars, procVars, cpuVars
<1> QED
  BY <1>3, <1>4, <1>6, <1>7, ProcMove

\* The inductive invariant survives exit taking ptable.lock.
LEMMA ExitLockInv ==
  ASSUME IInv, NEW c \in CPUs, NEW p \in Procs, ExitLock(c, p)
  PROVE  IInv'
<1> USE Consts
<1>1. TypeOK /\ SpinOK /\ Local(c) /\ Placed(c)
  BY DEF IInv, TypeOK
<1>2. Label(c) = "xacq"
  BY DEF ExitLock, At, Goto, Label
<1>3. /\ SpinOK' /\ Elsewhere(c)
      /\ lk'["ptable"] = c /\ lk'["cons"] = lk["cons"]
      /\ iflag' = iflag /\ ncli' = ncli /\ intena' = intena
  BY <1>1, LockEffect DEF ExitLock, Locks
<1>4. TypeOK'
  BY <1>1, <1>2, <1>3 DEF TypeOK, ExitLock, At, Goto, ProcLabels, inputVars, procVars, cpuVars
<1>5. Label(c)' = "xsched"
  BY <1>1, <1>2 DEF TypeOK, ExitLock, At, Goto, Label, inputVars, procVars, cpuVars
<1>6. Local(c)'
  <2>1. lk'["cons"] # c /\ lk'["ptable"] = c /\ ncli'[c] = 1 /\ iflag'[c] = FALSE
    BY <1>1, <1>2, <1>3, <1>5 DEF Local, ConsAt, TableAt, DepthAt, OnAt, EnableAt, DisableAt, SpinOK
  <2> QED
    BY <1>5, <2>1 DEF Local, ConsAt, TableAt, DepthAt, OnAt, EnableAt, DisableAt
<1>7. Stays(c, p)
  BY <1>1, <1>2 DEF Stays, TypeOK, Placed, Local, Label, SchedLabels, ExitLock, At, Goto, inputVars, procVars, cpuVars
<1> QED
  BY <1>3, <1>4, <1>6, <1>7, ProcMove

\* The inductive invariant survives the return from sched, on whatever CPU.
LEMMA ResumeInv ==
  ASSUME IInv, NEW c \in CPUs, NEW p \in Procs, Resume(c, p)
  PROVE  IInv'
<1> USE Consts
<1>1. TypeOK /\ SpinOK /\ Local(c) /\ Placed(c)
  BY DEF IInv, TypeOK
<1>2. Label(c) \in {"slept", "yielded"}
  BY DEF Resume, At, Goto, Label
<1>3. /\ SpinOK' /\ Elsewhere(c)
      /\ lk'["ptable"] = NoCpu /\ lk'["cons"] = lk["cons"]
      /\ ncli'[c] = ncli[c] - 1 /\ intena'[c] = saved[p]
      /\ iflag'[c] <=> (iflag[c] \/ (ncli[c] = 1 /\ saved[p]))
  <2>1. lk["ptable"] = c
    BY <1>1, <1>2 DEF Local, ConsAt, TableAt
  <2>2. saved[p] \in BOOLEAN
    BY <1>1 DEF TypeOK, SpinOK
  <2> QED
    BY <1>1, <2>1, <2>2, ReleaseEffect DEF Resume, Release, Locks, Restored
<1>4. TypeOK'
  BY <1>1, <1>2, <1>3 DEF TypeOK, Resume, At, Goto, ProcLabels, inputVars, procVars, cpuVars
<1>5. Label(c)' \in {"in", "iret"} /\ (Label(c)' = "in" <=> saved[p])
  <2>1. Label(c)' = pc'[p] /\ pc'[p] = IF pc[p] = "slept" THEN "in" ELSE "iret"
    BY <1>1 DEF TypeOK, Resume, At, Goto, Label, cpuVars
  <2>2. pc[p] \in {"slept", "yielded"}
    BY DEF Resume, At
  <2>3. pc[p] = "slept" <=> saved[p]
    BY <2>2 DEF IInv, Suspended
  <2> QED
    BY <2>1, <2>2, <2>3
<1>6. Local(c)'
  <2>1. ncli[c] = 1 /\ ~iflag[c] /\ lk["cons"] # c
    BY <1>1, <1>2 DEF Local, ConsAt, DepthAt, OnAt
  <2>2. ncli'[c] = 0
    BY <1>3, <2>1, SMT
  <2>3. lk'["cons"] # c /\ lk'["ptable"] # c /\ (iflag'[c] <=> Label(c)' = "in")
    BY <1>3, <1>5, <2>1
  <2> QED
    BY <1>5, <2>2, <2>3 DEF Local, ConsAt, TableAt, DepthAt, OnAt, EnableAt, DisableAt
<1>7. Stays(c, p)
  BY <1>1, <1>2, SMT DEF Stays, TypeOK, Placed, Local, Label, SchedLabels, Resume, At, Goto, inputVars, procVars, cpuVars
<1> QED
  BY <1>3, <1>4, <1>6, <1>7, ProcMove

\* The inductive invariant survives forkret.
LEMMA ForkretInv ==
  ASSUME IInv, NEW c \in CPUs, NEW p \in Procs, Forkret(c, p)
  PROVE  IInv'
<1> USE Consts
<1>1. TypeOK /\ SpinOK /\ Local(c) /\ Placed(c)
  BY DEF IInv, TypeOK
<1>2. Label(c) = "new"
  BY DEF Forkret, At, Goto, Label
<1>3. /\ SpinOK' /\ Elsewhere(c)
      /\ lk'["ptable"] = NoCpu /\ lk'["cons"] = lk["cons"]
      /\ ncli'[c] = ncli[c] - 1 /\ intena'[c] = intena[c]
      /\ iflag'[c] <=> (iflag[c] \/ (ncli[c] = 1 /\ intena[c]))
  <2>1. lk["ptable"] = c
    BY <1>1, <1>2 DEF Local, ConsAt, TableAt
  <2>2. intena[c] \in BOOLEAN
    BY <1>1 DEF TypeOK, SpinOK
  <2> QED
    BY <1>1, <2>1, <2>2, ReleaseEffect DEF Forkret, Release, Locks
<1>4. TypeOK'
  BY <1>1, <1>2, <1>3 DEF TypeOK, Forkret, At, Goto, ProcLabels, inputVars, procVars, cpuVars
<1>5. Label(c)' = "ret"
  BY <1>1, <1>2 DEF TypeOK, Forkret, At, Goto, Label, inputVars, procVars, cpuVars
<1>6. Local(c)'
  <2>1. lk'["cons"] # c /\ lk'["ptable"] # c /\ ncli'[c] = 0
    BY <1>1, <1>2, <1>3, <1>5, SMT DEF Local, ConsAt, TableAt, DepthAt, OnAt, EnableAt, DisableAt, SpinOK
  <2> QED
    BY <1>5, <2>1 DEF Local, ConsAt, TableAt, DepthAt, OnAt, EnableAt, DisableAt
<1>7. Stays(c, p)
  BY <1>1, <1>2 DEF Stays, TypeOK, Placed, Local, Label, SchedLabels, Forkret, At, Goto, inputVars, procVars, cpuVars
<1> QED
  BY <1>3, <1>4, <1>6, <1>7, ProcMove

\* The inductive invariant survives the return to the interrupted code.
LEMMA IretInv ==
  ASSUME IInv, NEW c \in CPUs, NEW p \in Procs, Iret(c, p)
  PROVE  IInv'
<1> USE Consts
<1>1. TypeOK /\ SpinOK /\ Local(c) /\ Placed(c)
  BY DEF IInv, TypeOK
<1>2. Label(c) \in {"iret", "ret"}
  BY DEF Iret, At, Goto, Label
<1>3. /\ SpinOK' /\ Elsewhere(c)
      /\ iflag'[c] = TRUE /\ lk' = lk /\ ncli' = ncli /\ intena' = intena
  BY <1>1, StiEffect DEF Iret
<1>4. TypeOK'
  BY <1>1, <1>2, <1>3, SMT DEF TypeOK, Iret, At, Goto, ProcLabels, inputVars, procVars, cpuVars
<1>5. Label(c)' \in {"user", "in", "ret"}
  BY <1>1, <1>2 DEF TypeOK, Iret, At, Goto, Label, inputVars, procVars, cpuVars
<1>6. Local(c)'
  <2>1. lk'["cons"] # c /\ lk'["ptable"] # c /\ ncli'[c] = 0 /\ iflag'[c] = TRUE
    BY <1>1, <1>2, <1>3, <1>5 DEF Local, ConsAt, TableAt, DepthAt, OnAt, EnableAt, DisableAt, SpinOK
  <2> QED
    BY <1>5, <2>1 DEF Local, ConsAt, TableAt, DepthAt, OnAt, EnableAt, DisableAt
<1>7. Stays(c, p)
  BY <1>1, <1>2, SMT DEF Stays, TypeOK, Placed, Local, Label, SchedLabels, Iret, At, Goto, inputVars, procVars, cpuVars
<1> QED
  BY <1>3, <1>4, <1>6, <1>7, ProcMove

\* The inductive invariant survives a killed process calling exit.
LEMMA ExitInv ==
  ASSUME IInv, NEW c \in CPUs, NEW p \in Procs, Exit(c, p)
  PROVE  IInv'
<1> USE Consts
<1>1. TypeOK /\ SpinOK /\ Local(c) /\ Placed(c)
  BY DEF IInv, TypeOK
<1>2. Label(c) = "user"
  BY DEF Exit, At, Label
<1>3. SpinOK' /\ Elsewhere(c) /\ iflag'[c] = FALSE /\ ncli'[c] = ncli[c] + 1 /\ lk' = lk
  BY <1>1, PushEffect DEF Exit
<1>4. TypeOK'
  BY <1>1, <1>3 DEF TypeOK, Exit, Goto, ProcLabels, cpuVars
<1>5. Label(c)' = "xacq"
  BY <1>1 DEF TypeOK, Exit, At, Goto, Label, cpuVars
<1>6. Local(c)'
  <2>1. lk'["cons"] # c /\ lk'["ptable"] # c /\ ncli'[c] = 1 /\ iflag'[c] = FALSE
    BY <1>1, <1>2, <1>3, <1>5, SMT DEF Local, ConsAt, TableAt, DepthAt, OnAt, EnableAt, DisableAt, SpinOK
  <2> QED
    BY <1>5, <2>1 DEF Local, ConsAt, TableAt, DepthAt, OnAt, EnableAt, DisableAt
<1>7. Stays(c, p)
  BY <1>1, <1>2 DEF Stays, TypeOK, Placed, SchedLabels, Exit, At, Goto, inputVars, cpuVars
<1> QED
  BY <1>3, <1>4, <1>6, <1>7, ProcMove
=============================================================================
