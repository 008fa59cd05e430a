--------------------------- MODULE ProcWaitProofs ---------------------------
(***************************************************************************)
(* Proofs about parents and children in Proc, and about who sleeps: no     *)
(* process has a dead parent, and neither a child's exit nor a tick is      *)
(* missed, for every number of slots and CPUs.                              *)
(***************************************************************************)
EXTENDS ProcProofs

\* Zenon takes most leaves; SMT the ones with arithmetic or many cases.
USE Zenon

Alive == {"RUNNABLE", "RUNNING", "SLEEPING"}

\* init can adopt children at any time, and has no parent itself.
InitAlive == state[initproc] \in Alive /\ parent[initproc] = 0

NotOwnParent == \A p \in Slots : parent[p] # p

\* sys_sleep calls sleep only with time left, and no tick comes in between:
\* it holds tickslock.
TimeLeft ==
  \A c \in CPUs : stack[c] # 0 /\ pc[stack[c]] = "sleep_commit" => rem[stack[c]] > 0

Family == InitAlive /\ NotOwnParent /\ ParentAlive
Sleepers == TimeLeft /\ NoMissedWakeup /\ NoMissedTick

-----------------------------------------------------------------------------
(* Most steps are quiet: nobody changes parent, dies or goes to sleep        *)

QuietProc(q) ==
  /\ state[q] \in Alive => state'[q] \in Alive
  /\ state'[q] = "ZOMBIE" => state[q] = "ZOMBIE"
  /\ state'[q] = "SLEEPING" =>
       /\ state[q] = "SLEEPING" /\ chan'[q] = chan[q]
       /\ killed'[q] => killed[q]
       /\ chan[q] = Ticks => rem'[q] = rem[q] /\ intick' = intick

QuietCpu(c) ==
  stack'[c] # 0 /\ pc'[stack'[c]] = "sleep_commit" =>
    /\ stack'[c] = stack[c] /\ pc[stack[c]] = "sleep_commit"
    /\ rem'[stack[c]] = rem[stack[c]]

Quiet == parent' = parent /\ \A q \in Slots : QuietProc(q)
QuietCpus == \A c \in CPUs : QuietCpu(c)

\* A process whose state is none of UNUSED, EMBRYO and ZOMBIE is alive.
LEMMA AliveIs ==
  ASSUME TypeOK, NEW q \in Slots
  PROVE  state[q] \notin {"UNUSED", "EMBRYO", "ZOMBIE"} <=> state[q] \in Alive
BY DEF TypeOK, States, Alive

\* A quiet step keeps every parent alive.
LEMMA QuietFamily ==
  ASSUME TypeOK, Family, Quiet
  PROVE  Family'
<1>1. InitAlive'
  BY Consts DEF Family, InitAlive, Quiet, QuietProc
<1>2. NotOwnParent'
  BY DEF Family, NotOwnParent, Quiet
<1>3. ParentAlive'
  <2> SUFFICES ASSUME NEW p \in Slots, parent[p] # 0
               PROVE  state'[parent[p]] \notin {"UNUSED", "EMBRYO", "ZOMBIE"}
    BY DEF ParentAlive, Quiet
  <2>1. parent[p] \in Slots
    BY SMT DEF TypeOK
  <2>2. state[parent[p]] \in Alive
    BY <2>1, AliveIs DEF Family, ParentAlive
  <2>3. state'[parent[p]] \in Alive
    BY <2>1, <2>2 DEF Quiet, QuietProc
  <2> QED
    BY <2>3 DEF Alive
<1> QED
  BY <1>1, <1>2, <1>3 DEF Family

\* A quiet step leaves nobody asleep who should be awake.
LEMMA QuietProcs ==
  ASSUME Sleepers, Quiet
  PROVE  NoMissedWakeup' /\ NoMissedTick'
<1>1. NoMissedWakeup'
  BY DEF Sleepers, NoMissedWakeup, Children, Quiet, QuietProc
<1>2. NoMissedTick'
  BY DEF Sleepers, NoMissedTick, Quiet, QuietProc
<1> QED
  BY <1>1, <1>2

\* The scheduler's steps, system call entry and faults are quiet.
LEMMA SwitchesQuiet ==
  ASSUME IInv, NEW c \in CPUs, NEW p \in Slots,
         Run(c, p) \/ EndPass(c) \/ Swtch(c, p) \/ SchedReturn(c, p)
  PROVE  Quiet /\ QuietCpus
<1>0. TypeOK /\ Suspended /\ OnCpu
  BY DEF IInv
<1>1. CASE Run(c, p)
  BY <1>0, <1>1, Consts
     DEF TypeOK, Suspended, Run, IsFirst, threadVars, Alive, Quiet, QuietProc, QuietCpus, QuietCpu
<1>2. CASE EndPass(c)
  BY <1>0, <1>2 DEF TypeOK, EndPass, procVars, threadVars, Quiet, QuietProc, QuietCpus, QuietCpu
<1>4. CASE Swtch(c, p)
  <2>1. \A d \in CPUs : QuietCpu(d)
    BY <1>0, <1>4 DEF TypeOK, Swtch, Goto, QuietCpu
  <2>2. \A q \in Slots : QuietProc(q)
    BY <1>0, <1>4 DEF TypeOK, Swtch, On, Goto, procVars, QuietProc
  <2> QED
    BY <1>4, <2>1, <2>2 DEF Swtch, procVars, Quiet, QuietCpus
<1>3. CASE SchedReturn(c, p)
  <2>0. state[p] = "RUNNING"
    BY <1>0, <1>3, Consts DEF OnCpu, SchedReturn, On
  <2>1. ret[p] # "sleep_commit"
    BY <1>0, <1>3, <2>0 DEF Suspended, RetLabels, SchedReturn, On
  <2>2. \A d \in CPUs : QuietCpu(d)
    BY <1>0, <1>3, <2>1 DEF TypeOK, SchedReturn, Goto, TrapRet, QuietCpu
  <2>3. \A q \in Slots : QuietProc(q)
    BY <1>0, <1>3, <2>0 DEF TypeOK, SchedReturn, On, QuietProc
  <2> QED
    BY <1>3, <2>2, <2>3 DEF SchedReturn, Quiet, QuietCpus
<1> QED
  BY <1>1, <1>2, <1>3, <1>4

\* A trap from user space is quiet.
LEMMA TrapsQuiet ==
  ASSUME IInv, NEW c \in CPUs, NEW p \in Slots, Syscall(c, p) \/ Fault(c, p)
  PROVE  Quiet /\ QuietCpus
<1>0. TypeOK /\ OnCpu
  BY DEF IInv
<1>1. state[p] = "RUNNING"
  BY <1>0, Consts DEF OnCpu, Syscall, Fault, On
<1>2. \A d \in CPUs : QuietCpu(d)
  BY <1>0, CallsAssumption, SMT DEF TypeOK, Syscall, Fault, Goto, cpuVars, QuietCpu
<1>3. \A q \in Slots : QuietProc(q)
  BY <1>0, <1>1 DEF TypeOK, Syscall, Fault, procVars, cpuVars, QuietProc
<1> QED
  BY <1>2, <1>3 DEF Syscall, Fault, procVars, Quiet, QuietCpus

\* A timer interrupt is quiet: wakeup(&ticks) leaves nobody asleep on ticks.
LEMMA TimersQuiet ==
  ASSUME IInv, TickWakeup \/ \E c \in CPUs : Timer(c)
  PROVE  Quiet /\ QuietCpus
<1>0. TypeOK /\ OnCpu /\ Suspended
  BY DEF IInv
<1>1. CASE TickWakeup
  <2>1. \A q \in Slots : QuietProc(q)
    <3> DEFINE st == Wakeup1(state, Ticks)
    <3>1. \A q \in Slots :
            st[q] = IF state[q] = "SLEEPING" /\ chan[q] = Ticks THEN "RUNNABLE" ELSE state[q]
      BY DEF Wakeup1
    <3>2. st \in [Slots -> States] /\ TimerTail(BootCpu, st)
      BY <1>0, <1>1, WakeupEffect DEF TickWakeup, Woken
    <3> HIDE DEF st
    <3>3. \A q \in Slots : state'[q] \in {st[q], "RUNNABLE"}
      BY <3>2 DEF TimerTail, Yielded
    <3> QED
      BY <1>1, <3>1, <3>3 DEF TickWakeup, Alive, QuietProc
  <2>2. \A d \in CPUs : QuietCpu(d)
    BY <1>0, <1>1, SMT DEF TypeOK, TickWakeup, TimerTail, Goto, EnterSched, QuietCpu
  <2> QED
    BY <1>1, <2>1, <2>2 DEF TickWakeup, Quiet, QuietCpus
<1>2. ASSUME NEW c \in CPUs, Timer(c) PROVE Quiet /\ QuietCpus
  <2>1. \A q \in Slots : QuietProc(q)
    BY <1>0, <1>2 DEF TypeOK, Timer, TimerTail, Yielded, Alive, QuietProc
  <2>2. \A d \in CPUs : QuietCpu(d)
    BY <1>0, <1>2, SMT DEF TypeOK, Timer, TimerTail, Goto, EnterSched, QuietCpu
  <2> QED
    BY <1>2, <2>1, <2>2 DEF Timer, Quiet, QuietCpus
<1> QED
  BY <1>1, <1>2

\* The steps of fork() that do not name the parent are quiet.
LEMMA ForksQuiet ==
  ASSUME IInv, NEW c \in CPUs, NEW p \in Slots,
         AllocProc(c, p) \/ AllocKstack(c, p) \/ ForkRun(c, p) \/ (ForkCopy(c, p) /\ ForkFail(p))
  PROVE  Quiet /\ QuietCpus
<1>0. TypeOK /\ OnCpu /\ Embryos
  BY DEF IInv
<1>1. CASE AllocProc(c, p)
  <2>1. \A q \in Slots : QuietProc(q)
    BY <1>0, <1>1 DEF TypeOK, AllocProc, IsFirst, Claim, cpuVars, Alive, QuietProc
  <2>2. \A d \in CPUs : QuietCpu(d)
    <3>1. PICK l \in {"fork_kstack", "exit", "user"} : Goto(p, l)
      BY <1>1 DEF AllocProc, TrapRet
    <3> QED
      BY <1>0, <1>1, <3>1 DEF TypeOK, AllocProc, Goto, cpuVars, QuietCpu
  <2> QED
    BY <1>1, <2>1, <2>2 DEF AllocProc, Quiet, QuietCpus
<1>2. ASSUME AllocKstack(c, p) \/ ForkRun(c, p) \/ (ForkCopy(c, p) /\ ForkFail(p))
      PROVE  Quiet /\ QuietCpus
  <2>1. np[p] \in Slots /\ state[np[p]] = "EMBRYO"
    BY <1>0, <1>2, SMT DEF TypeOK, Embryos, At, AllocKstack, ForkRun, ForkCopy, On
  <2>2. \A q \in Slots : QuietProc(q)
    BY <1>0, <1>2, <2>1
       DEF TypeOK, AllocKstack, ForkRun, ForkCopy, ForkFail, cpuVars, Alive, QuietProc
  <2>3. \A d \in CPUs : QuietCpu(d)
    BY <1>0, <1>2, <2>1
      , SMT DEF TypeOK, AllocKstack, ForkRun, ForkCopy, ForkFail, Goto, TrapRet, cpuVars, QuietCpu
  <2> QED
    BY <1>2, <2>2, <2>3 DEF AllocKstack, ForkRun, ForkCopy, ForkFail, Quiet, QuietCpus
<1> QED
  BY <1>1, <1>2

\* kill() is quiet: whom it marks, it wakes.
LEMMA KillQuiet ==
  ASSUME IInv, NEW c \in CPUs, NEW p \in Slots, Kill(c, p)
  PROVE  Quiet /\ QuietCpus
<1>0. TypeOK
  BY DEF IInv
<1>1. \A q \in Slots : QuietProc(q)
  BY <1>0, SMT DEF TypeOK, Kill, KillState, IsFirst, cpuVars, Alive, QuietProc
<1>2. \A d \in CPUs : QuietCpu(d)
  BY <1>0 DEF TypeOK, Kill, Goto, cpuVars, QuietCpu
<1> QED
  BY <1>1, <1>2 DEF Kill, Quiet, QuietCpus

-----------------------------------------------------------------------------
(* The other steps *)

Steps == Family' /\ Sleepers'

\* The channel &ticks is no process.
LEMMA TicksIs == Ticks \notin Slots /\ Ticks # 0
BY SizeAssumption, SMT DEF Ticks, Slots

\* A tick: who has no time left will be woken before the interrupt returns.
LEMMA TickStep ==
  ASSUME IInv, Family, Sleepers, Tick
  PROVE  Steps
<1>1. UNCHANGED <<state, parent, chan, killed, stack, pc>> /\ intick'
  BY DEF Tick, procVars
<1>2. Family'
  BY <1>1 DEF Family, InitAlive, NotOwnParent, ParentAlive
<1>3. TimeLeft'
  BY <1>1, Consts DEF IInv, TickLockHeld, Tick, TimeLeft
<1>4. NoMissedWakeup' /\ NoMissedTick'
  BY <1>1 DEF Sleepers, NoMissedWakeup, NoMissedTick, Children
<1> QED
  BY <1>2, <1>3, <1>4 DEF Steps, Sleepers

\* fork() names the parent of a child that is neither alive nor a zombie.
LEMMA ForkCopyStep ==
  ASSUME IInv, Family, Sleepers, NEW c \in CPUs, NEW p \in Slots, ForkCopy(c, p), ~ForkFail(p)
  PROVE  Steps
<1>0. TypeOK /\ OnCpu /\ Embryos
  BY DEF IInv
<1>1. /\ np[p] \in Slots /\ state[np[p]] = "EMBRYO"
      /\ state[p] = "RUNNING"
  BY <1>0, Consts, SMT DEF TypeOK, OnCpu, Embryos, At, ForkCopy, On
<1>2. /\ parent' = [parent EXCEPT ![np[p]] = p] /\ pc' = [pc EXCEPT ![p] = "fork_run"]
      /\ UNCHANGED <<state, chan, killed, rem, stack, intick>>
  BY DEF ForkCopy, Goto, cpuVars
<1>3. InitAlive' /\ NotOwnParent' /\ ParentAlive'
  BY <1>0, <1>1, <1>2, SMT DEF TypeOK, Family, InitAlive, Alive, NotOwnParent, ParentAlive
<1>4. TimeLeft'
  BY <1>0, <1>2 DEF TypeOK, Sleepers, TimeLeft
<1>5. NoMissedWakeup'
  BY <1>0, <1>1, <1>2 DEF TypeOK, Sleepers, NoMissedWakeup, Children
<1>6. NoMissedTick'
  BY <1>2 DEF Sleepers, NoMissedTick
<1> QED
  BY <1>3, <1>4, <1>5, <1>6 DEF Steps, Family, Sleepers

\* exit(): the children pass to init, and whoever waits for a zombie is woken.
LEMMA ExitStep ==
  ASSUME IInv, Family, Sleepers, NEW c \in CPUs, NEW p \in Slots, Exit(c, p)
  PROVE  Steps
<1> DEFINE st == ExitWakeups(p)
           orphans == \E q \in Children(p) : state[q] = "ZOMBIE"
<1>0. TypeOK
  BY DEF IInv
<1>1. /\ st \in [Slots -> States]
      /\ \A q \in Slots : st[q] = state[q] \/ (state[q] = "SLEEPING" /\ st[q] = "RUNNABLE")
      /\ \A q \in Slots : st[q] = "SLEEPING" =>
           chan[q] # parent[p] /\ (orphans => chan[q] # initproc)
  BY <1>0 DEF TypeOK, States, ExitWakeups, Wakeup1
<1>2. /\ p # initproc /\ pc' = [pc EXCEPT ![p] = "sched"]
      /\ state' = [st EXCEPT ![p] = "ZOMBIE"]
      /\ UNCHANGED <<chan, killed, rem, stack, intick>>
  BY DEF Exit, EnterSched
<1>3. \A q \in Slots : parent'[q] = IF parent[q] = p THEN initproc ELSE parent[q]
  BY DEF Exit, Reparent
<1>4. \A q \in Slots : orphans \/ parent[q] # p \/ state[q] # "ZOMBIE"
  BY DEF Children
<1> HIDE DEF st, orphans
<1>5. Family'
  <2>1. InitAlive' /\ NotOwnParent'
    BY <1>1, <1>2, <1>3, Consts, SMT DEF Family, InitAlive, Alive, NotOwnParent
  <2>2. ASSUME NEW q \in Slots, parent'[q] # 0
        PROVE  state'[parent'[q]] \notin {"UNUSED", "EMBRYO", "ZOMBIE"}
    <3>1. CASE parent[q] = p
      BY <1>3, <2>1, <3>1 DEF InitAlive, Alive
    <3>2. CASE parent[q] # p
      <4>1. parent'[q] = parent[q] /\ parent[q] \in Slots
        BY <1>0, <1>3, <2>2, <3>2 DEF TypeOK
      <4> QED
        BY <1>1, <1>2, <2>2, <3>2, <4>1 DEF Family, ParentAlive
    <3> QED
      BY <3>1, <3>2
  <2> QED
    BY <2>1, <2>2 DEF Family, ParentAlive
<1>6. TimeLeft'
  BY <1>0, <1>2 DEF TypeOK, Sleepers, TimeLeft
<1>7. NoMissedTick'
  BY <1>1, <1>2 DEF Sleepers, NoMissedTick
<1>8. ASSUME NEW q \in Slots, state'[q] = "SLEEPING"
      PROVE  /\ chan[q] = q => \A r \in Slots : parent'[r] = q => state'[r] # "ZOMBIE"
             /\ killed[q] => chan[q] = Ticks
  <2>1. q # p /\ state[q] = "SLEEPING" /\ st[q] = "SLEEPING"
    BY <1>1, <1>2, <1>8
  <2>2. killed[q] => chan[q] = Ticks
    BY <2>1 DEF Sleepers, NoMissedWakeup
  <2>3. ASSUME chan[q] = q, NEW r \in Slots, parent'[r] = q PROVE state'[r] # "ZOMBIE"
    <3>1. q # parent[p] /\ (orphans => q # initproc)
      BY <1>1, <2>1, <2>3
    <3>2. r # p
      BY <1>3, <2>3, <3>1 DEF Family, NotOwnParent
    <3>3. CASE parent[r] = p
      BY <1>1, <1>2, <1>3, <1>4, <2>3, <3>1, <3>2, <3>3
    <3>4. CASE parent[r] # p
      <4>1. state[r] # "ZOMBIE"
        BY <1>3, <2>1, <2>3, <3>4 DEF Sleepers, NoMissedWakeup, Children
      <4> QED
        BY <1>1, <1>2, <3>2, <4>1
    <3> QED
      BY <3>3, <3>4
  <2> QED
    BY <2>2, <2>3
<1>9. NoMissedWakeup'
  BY <1>2, <1>8 DEF NoMissedWakeup, Children
<1> QED
  BY <1>5, <1>6, <1>7, <1>9 DEF Steps, Sleepers

\* wait(): the reaped child was nobody's parent, and the caller sleeps only
\* with children of which none is a zombie.
LEMMA WaitStep ==
  ASSUME IInv, Family, Sleepers, NEW c \in CPUs, NEW p \in Slots, Wait(c, p)
  PROVE  Steps
<1>0. TypeOK
  BY DEF IInv
<1>1. state[p] = "RUNNING"
  BY Consts DEF IInv, OnCpu, Wait, On
<1>2. UNCHANGED <<rem, stack, intick>>
  BY DEF Wait
<1>3. TimeLeft'
  <2>1. PICK l \in {"user", "exit", "sched"} : pc' = [pc EXCEPT ![p] = l]
    BY DEF Wait, TrapRet, Goto, EnterSched
  <2> QED
    BY <1>0, <1>2, <2>1 DEF TypeOK, Sleepers, TimeLeft
<1>4. ASSUME NEW q \in Slots, state[q] = "ZOMBIE",
             state' = [state EXCEPT ![q] = "UNUSED"], parent' = [parent EXCEPT ![q] = 0],
             killed' = [killed EXCEPT ![q] = FALSE], chan' = chan
      PROVE  Steps
  <2>1. InitAlive' /\ NotOwnParent' /\ ParentAlive'
    BY <1>0, <1>4, Consts, SMT DEF TypeOK, Family, InitAlive, Alive, NotOwnParent, ParentAlive
  <2>2. NoMissedWakeup'
    BY <1>0, <1>4, Consts, SMT DEF TypeOK, Sleepers, NoMissedWakeup, Children
  <2>3. NoMissedTick'
    BY <1>0, <1>2, <1>4 DEF TypeOK, Sleepers, NoMissedTick
  <2> QED
    BY <1>3, <2>1, <2>2, <2>3 DEF Steps, Family, Sleepers
<1>5. ASSUME UNCHANGED <<state, parent, chan, killed>> PROVE Steps
  <2>1. Family'
    BY <1>5 DEF Family, InitAlive, NotOwnParent, ParentAlive
  <2>2. NoMissedWakeup' /\ NoMissedTick'
    BY <1>2, <1>5 DEF Sleepers, NoMissedWakeup, NoMissedTick, Children
  <2> QED
    BY <1>3, <2>1, <2>2 DEF Steps, Sleepers
<1>6. ASSUME \A r \in Children(p) : state[r] # "ZOMBIE", ~killed[p],
             chan' = [chan EXCEPT ![p] = p], state' = [state EXCEPT ![p] = "SLEEPING"],
             UNCHANGED <<parent, killed>>
      PROVE  Steps
  <2>1. InitAlive' /\ NotOwnParent' /\ ParentAlive'
    BY <1>0, <1>6, Consts DEF TypeOK, Family, InitAlive, Alive, NotOwnParent, ParentAlive
  <2>2. NoMissedWakeup'
    BY <1>0, <1>6 DEF TypeOK, Sleepers, NoMissedWakeup, Children
  <2>3. NoMissedTick'
    BY <1>0, <1>2, <1>6, TicksIs DEF TypeOK, Sleepers, NoMissedTick
  <2> QED
    BY <1>3, <2>1, <2>2, <2>3 DEF Steps, Family, Sleepers
<1> QED
  BY <1>4, <1>5, <1>6 DEF Wait, IsFirst, Children

\* sys_sleep decides under tickslock to sleep: it has time left.
LEMMA SleepLoopStep ==
  ASSUME IInv, Family, Sleepers, NEW c \in CPUs, NEW p \in Slots, SleepLoop(c, p)
  PROVE  Steps
<1>0. TypeOK
  BY DEF IInv
<1>1. state[p] = "RUNNING"
  BY Consts DEF IInv, OnCpu, SleepLoop, On
<1>2. UNCHANGED <<state, parent, chan, killed, stack, intick>>
  BY DEF SleepLoop, procVars
<1>3. PICK t \in Nat : rem' = [rem EXCEPT ![p] = t] /\ (pc'[p] = "sleep_commit" => t > 0)
  <2>1. PICK t \in IF pc[p] = "sleep" THEN 0..MaxSleep ELSE {rem[p]} :
          IF t = 0 \/ killed[p]
          THEN rem' = [rem EXCEPT ![p] = 0] /\ TrapRet(p)
          ELSE rem' = [rem EXCEPT ![p] = t] /\ Goto(p, "sleep_commit")
    BY DEF SleepLoop
  <2>2. t \in Nat
    BY <1>0, <2>1, BoundAssumption, SMT DEF TypeOK
  <2>3. CASE t = 0 \/ killed[p]
    BY <1>0, <2>1, <2>3 DEF TypeOK, TrapRet, Goto
  <2>4. CASE ~(t = 0 \/ killed[p])
    BY <2>1, <2>2, <2>4, SMT
  <2> QED
    BY <2>3, <2>4
<1>4. \A q \in Slots \ {p} : pc'[q] = pc[q]
  BY <1>0 DEF TypeOK, SleepLoop, TrapRet, Goto
<1>5. Quiet
  BY <1>0, <1>1, <1>2, <1>3 DEF TypeOK, Quiet, QuietProc
<1>6. TimeLeft'
  BY <1>0, <1>2, <1>3, <1>4 DEF TypeOK, Sleepers, TimeLeft
<1> QED
  BY <1>0, <1>5, <1>6, QuietFamily, QuietProcs DEF Steps, Sleepers

\* sleep(&ticks, &tickslock) puts the process to sleep before a tick can come.
LEMMA SleepCommitStep ==
  ASSUME IInv, Family, Sleepers, NEW c \in CPUs, NEW p \in Slots, SleepCommit(c, p)
  PROVE  Steps
<1>0. TypeOK
  BY DEF IInv
<1>1. state[p] = "RUNNING" /\ rem[p] > 0
  BY Consts DEF IInv, OnCpu, Sleepers, TimeLeft, SleepCommit, On
<1>2. /\ chan' = [chan EXCEPT ![p] = Ticks] /\ state' = [state EXCEPT ![p] = "SLEEPING"]
      /\ pc' = [pc EXCEPT ![p] = "sched"]
      /\ UNCHANGED <<parent, killed, rem, stack, intick>>
  BY DEF SleepCommit, EnterSched
<1>3. InitAlive' /\ NotOwnParent' /\ ParentAlive'
  BY <1>0, <1>2, SMT DEF TypeOK, Family, InitAlive, Alive, NotOwnParent, ParentAlive
<1>4. TimeLeft'
  BY <1>0, <1>2 DEF TypeOK, Sleepers, TimeLeft
<1>5. NoMissedWakeup'
  BY <1>0, <1>1, <1>2, TicksIs, SMT DEF TypeOK, Sleepers, NoMissedWakeup, Children
<1>6. NoMissedTick'
  BY <1>0, <1>1, <1>2 DEF TypeOK, Sleepers, NoMissedTick
<1> QED
  BY <1>3, <1>4, <1>5, <1>6 DEF Steps, Family, Sleepers

-----------------------------------------------------------------------------
(* The theorems *)

\* userinit() starts init, the only process, without a parent.
LEMMA StartsWell == Init => Family /\ Sleepers
<1> SUFFICES ASSUME Init PROVE Family /\ Sleepers
  OBVIOUS
<1>1. Family
  BY Consts DEF Init, Family, InitAlive, Alive, NotOwnParent, ParentAlive
<1>2. Sleepers
  BY Consts DEF Init, Sleepers, TimeLeft, NoMissedWakeup, NoMissedTick
<1> QED
  BY <1>1, <1>2

\* A quiet step keeps all of it.
LEMMA QuietStep ==
  ASSUME IInv, Family, Sleepers, Quiet, QuietCpus
  PROVE  Steps
<1>1. TimeLeft'
  BY DEF Sleepers, TimeLeft, QuietCpus, QuietCpu
<1> QED
  BY <1>1, QuietFamily, QuietProcs DEF IInv, Steps, Sleepers

\* Every step keeps all of it.
LEMMA NextStep ==
  ASSUME IInv, Family, Sleepers, [Next]_vars
  PROVE  Steps
<1>1. CASE Tick
  BY <1>1, TickStep
<1>2. CASE TickWakeup
  BY <1>2, TimersQuiet, QuietStep
<1>3. ASSUME NEW c \in CPUs, SchedulerStep(c) PROVE Steps
  <2>1. PICK p \in Slots : Run(c, p) \/ EndPass(c) \/ Swtch(c, p) \/ SchedReturn(c, p)
    BY <1>3, Consts DEF SchedulerStep
  <2> QED
    BY <2>1, SwitchesQuiet, QuietStep
<1>4. ASSUME NEW c \in CPUs, Timer(c) PROVE Steps
  BY <1>4, TimersQuiet, QuietStep
<1>5. ASSUME NEW c \in CPUs, NEW p \in Slots, ProcStep(c, p) PROVE Steps
  <2>1. CASE AllocProc(c, p) \/ AllocKstack(c, p) \/ ForkRun(c, p) \/ (ForkCopy(c, p) /\ ForkFail(p))
    BY <2>1, ForksQuiet, QuietStep
  <2>2. CASE ForkCopy(c, p) /\ ~ForkFail(p)
    BY <2>2, ForkCopyStep
  <2>3. CASE Kill(c, p)
    BY <2>3, KillQuiet, QuietStep
  <2> QED
    BY <1>5, <2>1, <2>2, <2>3, ExitStep, WaitStep, SleepLoopStep, SleepCommitStep DEF ProcStep
<1>6. ASSUME NEW c \in CPUs, NEW p \in Slots, Syscall(c, p) \/ Fault(c, p) PROVE Steps
  BY <1>6, TrapsQuiet, QuietStep
<1>7. CASE UNCHANGED vars
  <2>1. UNCHANGED <<state, parent, chan, killed, pc, rem, stack, intick>>
    BY <1>7 DEF vars, procVars, threadVars, cpuVars
  <2>2. Quiet /\ QuietCpus
    BY <2>1 DEF Quiet, QuietProc, QuietCpus, QuietCpu
  <2> QED
    BY <2>2, QuietStep
<1> QED
  BY <1>1, <1>2, <1>3, <1>4, <1>5, <1>6, <1>7 DEF Next

\* Families and sleepers stay in order.
LEMMA StaysWell == Spec => [](Family /\ Sleepers)
BY StartsWell, NextStep, Invariance, PTL DEF Spec, Steps

\* No process ever has a dead parent (fork, exit, wait): init, which adopts
\* the children of whoever exits, cannot exit itself.
THEOREM ParentsAlive == Spec => []ParentAlive
<1>1. Family /\ Sleepers => ParentAlive
  BY DEF Family
<1> QED
  BY <1>1, StaysWell, PTL

\* No parent sleeps in wait() while it has a zombie child, and no process
\* sleeps there once it is killed, however exit, wait and kill interleave.
THEOREM WaitMissesNothing == Spec => []NoMissedWakeup
<1>1. Family /\ Sleepers => NoMissedWakeup
  BY DEF Sleepers
<1> QED
  BY <1>1, StaysWell, PTL

\* No process sleeps in sys_sleep with its time over, unless the tick that
\* ended it is about to wake it.
THEOREM SleepMissesNoTick == Spec => []NoMissedTick
<1>1. Family /\ Sleepers => NoMissedTick
  BY DEF Sleepers
<1> QED
  BY <1>1, StaysWell, PTL
=============================================================================
