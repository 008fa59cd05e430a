----------------------------- MODULE ProcProofs -----------------------------
(***************************************************************************)
(* Proofs about Proc, for every number of slots and CPUs: no two CPUs ever  *)
(* share a kernel stack, no stack in use is freed, and the assertions of    *)
(* sched() never fail.                                                      *)
(***************************************************************************)
EXTENDS Proc, TLAPS

\* Zenon takes most leaves; SMT the ones with arithmetic or many cases.
USE Zenon

\* Where p stands: its label, or the label sched() will return to.
At(p) == IF pc[p] \in {"sched", "swtch"} THEN ret[p] ELSE pc[p]

\* The labels sched() can return to.
RetLabels == Labels \ {"sched", "swtch", "zombie", "sleep_commit"}

\* A process on a CPU is RUNNING, or has just given the CPU up and holds
\* ptable.lock until it has switched away.
OnCpu ==
  \A c \in CPUs : stack[c] # 0 =>
    \/ state[stack[c]] = "RUNNING"
    \/ /\ state[stack[c]] \in {"RUNNABLE", "SLEEPING", "ZOMBIE"}
       /\ pc[stack[c]] = "sched" /\ lock = c

OneCpu == \A c, d \in CPUs : stack[c] # 0 /\ stack[c] = stack[d] => c = d

\* Every live process has a stack.
HasStack ==
  \A p \in Slots : state[p] \in {"RUNNABLE", "SLEEPING", "RUNNING", "ZOMBIE"} => kstack[p]

\* A process that is not running is suspended in sched(), and one that may
\* run again will not come back in exit().
Suspended ==
  \A p \in Slots :
    /\ state[p] \in {"RUNNABLE", "SLEEPING", "ZOMBIE"} => pc[p] \in {"sched", "swtch"}
    /\ state[p] \in {"RUNNABLE", "SLEEPING", "RUNNING"} /\ pc[p] \in {"sched", "swtch"} =>
         ret[p] \in RetLabels
    /\ pc[p] # "zombie"

\* Until swtch has saved its context, a process in sched() is on the CPU that
\* holds ptable.lock, and no longer RUNNING.
Leaving ==
  \A p \in Slots : pc[p] = "sched" => lock \in CPUs /\ stack[lock] = p /\ state[p] # "RUNNING"

\* A process holds ptable.lock exactly around sched() and in wait()'s loop.
LockHeld ==
  \A c \in CPUs : stack[c] # 0 => (lock = c <=> pc[stack[c]] \in {"sched", "swtch", "wait_scan"})

\* tickslock is held by the timer interrupt and by sys_sleep calling sleep.
TickLockHeld ==
  /\ intick => /\ tlock = BootCpu /\ lock # BootCpu
               /\ stack[BootCpu] # 0 => pc[stack[BootCpu]] # "sleep_commit"
  /\ \A c \in CPUs : stack[c] # 0 /\ pc[stack[c]] = "sleep_commit" => tlock = c
  /\ \A c \in CPUs : tlock = c => \/ c = BootCpu /\ intick
                                  \/ stack[c] # 0 /\ pc[stack[c]] = "sleep_commit"

\* A slot under construction belongs to one fork() and to nobody else.
Embryos ==
  /\ \A p \in Slots : np[p] # 0 => state[np[p]] = "EMBRYO"
  /\ \A p, q \in Slots : np[p] # 0 /\ np[p] = np[q] => p = q
  /\ \A p \in Slots : At(p) \in {"fork_kstack", "fork_copy", "fork_run"} => np[p] # 0
  /\ \A p \in Slots : At(p) \in {"fork_copy", "fork_run"} =>
       kstack[np[p]] /\ pc[np[p]] = "swtch" /\ ret[np[p]] = "user"

IInv ==
  /\ TypeOK /\ OnCpu /\ OneCpu /\ HasStack /\ Suspended /\ LockHeld /\ TickLockHeld
  /\ Embryos /\ Leaving

\* All that the proofs need of the constants.
LEMMA Consts ==
  /\ 0 \notin Slots /\ NoCpu \notin CPUs /\ BootCpu \in CPUs /\ initproc \in Slots
BY SizeAssumption, SMT DEF Slots, CPUs, NoCpu, BootCpu, initproc

\* The inductive invariant survives scheduler() picking a RUNNABLE process.
LEMMA RunInv ==
  ASSUME IInv, NEW c \in CPUs, NEW p \in Slots, Run(c, p)
  PROVE  IInv'
<1>0. TypeOK /\ OnCpu /\ OneCpu /\ HasStack /\ Suspended /\ LockHeld /\ TickLockHeld
      /\ Embryos /\ Leaving
  BY DEF IInv
<1>1. TypeOK'
  <2>1. scan' \in [CPUs -> 1..(NPROC + 1)]
    BY SizeAssumption, <1>0, SMT DEF TypeOK, Slots, Run, Advance
  <2> QED
    BY <2>1, <1>0 DEF TypeOK, States, Run, threadVars
<1>2. OnCpu'
  BY Consts, <1>0, SMT DEF TypeOK, OnCpu, Run, IsFirst, threadVars
<1>3. OneCpu'
  BY Consts, <1>0, SMT DEF OneCpu, OnCpu, Run, IsFirst
<1>4. HasStack'
  BY <1>0, SMT DEF HasStack, Run, IsFirst
<1>5. Suspended'
  BY <1>0, SMT DEF Suspended, Run, IsFirst, threadVars
<1>6. LockHeld'
  BY Consts, <1>0, SMT DEF LockHeld, Suspended, Run, IsFirst, threadVars
<1>7. TickLockHeld'
  BY <1>0, SMT DEF TickLockHeld, Suspended, Run, IsFirst, NoIntr, threadVars
<1>8. Embryos'
  BY <1>0, SMT DEF Embryos, At, Run, IsFirst, threadVars
<1>9. Leaving'
  BY Consts, <1>0, SMT DEF TypeOK, Leaving, Run, IsFirst, threadVars
<1> QED
  BY <1>1, <1>2, <1>3, <1>4, <1>5, <1>6, <1>7, <1>8, <1>9 DEF IInv

\* The inductive invariant survives the end of a pass of scheduler().
LEMMA EndPassInv ==
  ASSUME IInv, NEW c \in CPUs, EndPass(c)
  PROVE  IInv'
<1>0. TypeOK /\ OnCpu /\ OneCpu /\ HasStack /\ Suspended /\ LockHeld /\ TickLockHeld
      /\ Embryos /\ Leaving
  BY DEF IInv
<1>1. TypeOK'
  <2>1. scan' \in [CPUs -> 1..(NPROC + 1)]
    BY SizeAssumption, <1>0, SMT DEF TypeOK, EndPass, Restart
  <2> QED
    BY <2>1, <1>0 DEF TypeOK, EndPass, procVars, threadVars
<1>2. OnCpu'
  BY <1>0 DEF OnCpu, EndPass, procVars
<1>3. OneCpu'
  BY <1>0 DEF OneCpu, EndPass
<1>4. HasStack'
  BY <1>0 DEF HasStack, EndPass, procVars
<1>5. Suspended'
  BY <1>0 DEF Suspended, EndPass, procVars, threadVars
<1>6. LockHeld'
  BY Consts, <1>0 DEF LockHeld, EndPass, threadVars
<1>7. TickLockHeld'
  BY Consts, <1>0 DEF TickLockHeld, EndPass, threadVars
<1>8. Embryos'
  BY <1>0 DEF Embryos, At, EndPass, procVars, threadVars
<1>9. Leaving'
  BY Consts, <1>0, SMT DEF TypeOK, Leaving, EndPass, procVars, threadVars
<1> QED
  BY <1>1, <1>2, <1>3, <1>4, <1>5, <1>6, <1>7, <1>8, <1>9 DEF IInv

\* The inductive invariant survives the swtch of sched().
LEMMA SwtchInv ==
  ASSUME IInv, NEW c \in CPUs, NEW p \in Slots, Swtch(c, p)
  PROVE  IInv'
<1>0. TypeOK /\ OnCpu /\ OneCpu /\ HasStack /\ Suspended /\ LockHeld /\ TickLockHeld
      /\ Embryos /\ Leaving
  BY DEF IInv
<1>p. pc[p] = "sched" /\ stack[c] = p /\ pc' = [pc EXCEPT ![p] = "swtch"]
      /\ stack' = [stack EXCEPT ![c] = 0] /\ lock = c
  BY Consts, <1>0 DEF Swtch, On, Goto, LockHeld
<1>1. TypeOK'
  BY <1>0, <1>p DEF TypeOK, Labels, Swtch, procVars
<1>2. OnCpu'
  BY Consts, <1>0, <1>p, SMT DEF TypeOK, OnCpu, Swtch, procVars
<1>3. OneCpu'
  BY <1>0, SMT DEF OneCpu, Swtch
<1>4. HasStack'
  BY <1>0 DEF HasStack, Swtch, procVars
<1>5. Suspended'
  BY <1>0, <1>p DEF TypeOK, Suspended, Swtch, procVars
<1>6. LockHeld'
  BY Consts, <1>0, <1>p, SMT DEF TypeOK, LockHeld, OneCpu, Swtch
<1>7. TickLockHeld'
  BY Consts, <1>0, <1>p, SMT DEF TypeOK, TickLockHeld, OneCpu, Swtch, On
<1>8. Embryos'
  BY <1>0, <1>p, SMT DEF TypeOK, Embryos, At, Swtch, procVars
<1>9. Leaving'
  BY Consts, <1>0, <1>p, SMT DEF TypeOK, Leaving, Swtch, procVars
<1> QED
  BY <1>1, <1>2, <1>3, <1>4, <1>5, <1>6, <1>7, <1>8, <1>9 DEF IInv

\* The inductive invariant survives the return from sched().
LEMMA SchedReturnInv ==
  ASSUME IInv, NEW c \in CPUs, NEW p \in Slots, SchedReturn(c, p)
  PROVE  IInv'
<1>0. TypeOK /\ OnCpu /\ OneCpu /\ HasStack /\ Suspended /\ LockHeld /\ TickLockHeld
      /\ Embryos /\ Leaving
  BY DEF IInv
<1>p. /\ stack[c] = p /\ pc[p] = "swtch" /\ ret[p] \in RetLabels /\ lock = c
      /\ state[p] = "RUNNING"
      /\ \A q \in Slots : pc[q] # "sched"
  <2>1. stack[c] = p /\ pc[p] = "swtch" /\ state[p] = "RUNNING" /\ lock = c
    BY Consts, <1>0 DEF OnCpu, LockHeld, SchedReturn, On
  <2>2. \A q \in Slots : pc[q] # "sched"
    BY <2>1, <1>0 DEF Leaving
  <2> QED
    BY <2>1, <2>2, <1>0 DEF Suspended
<1>l. PICK l \in RetLabels :
        /\ pc' = [pc EXCEPT ![p] = l] /\ ret' = [ret EXCEPT ![p] = "none"]
        /\ IF ret[p] = "trapret" THEN l \in {"user", "exit"} ELSE l = ret[p]
  BY <1>p DEF RetLabels, Labels, SchedReturn, Goto, TrapRet
<1>1. TypeOK'
  BY <1>0, <1>p, SMT DEF TypeOK, RetLabels, Labels, SchedReturn, On, Goto, TrapRet
<1>2. OnCpu'
  BY Consts, <1>0 DEF OnCpu, LockHeld, SchedReturn, On
<1>3. OneCpu'
  BY <1>0 DEF OneCpu, SchedReturn
<1>4. HasStack'
  BY <1>0 DEF HasStack, SchedReturn
<1>5. Suspended'
  BY <1>0, <1>p, <1>l, SMT DEF TypeOK, Suspended, RetLabels, SchedReturn
<1>6. LockHeld'
  BY Consts, <1>0, <1>p, SMT DEF TypeOK, LockHeld, OneCpu, RetLabels, SchedReturn, On, Goto,
     TrapRet
<1>7. TickLockHeld'
  BY Consts, <1>0, <1>p, SMT DEF TypeOK, TickLockHeld, RetLabels, SchedReturn, On,
     Goto, TrapRet
<1>8. Embryos'
  <2>1. At(p)' = l /\ At(p) = ret[p] /\ \A q \in Slots : q # p => At(q)' = At(q)
    BY <1>0, <1>p, <1>l, SMT DEF TypeOK, At, RetLabels
  <2>2. \A q \in Slots : At(q) \in {"fork_copy", "fork_run"} => np[q] # p
    BY <1>0, <1>p, Consts, SMT DEF Embryos, At
  <2> QED
    BY <1>0, <1>l, <2>1, <2>2, SMT DEF TypeOK, Embryos, SchedReturn
<1>9. Leaving'
  BY Consts, <1>0, <1>p, SMT DEF TypeOK, Leaving, RetLabels, SchedReturn, On, Goto, TrapRet
<1> QED
  BY <1>1, <1>2, <1>3, <1>4, <1>5, <1>6, <1>7, <1>8, <1>9 DEF IInv

\* The inductive invariant survives entering a system call.
LEMMA SyscallInv ==
  ASSUME IInv, NEW c \in CPUs, NEW p \in Slots, Syscall(c, p)
  PROVE  IInv'
<1>0. TypeOK /\ OnCpu /\ OneCpu /\ HasStack /\ Suspended /\ LockHeld /\ TickLockHeld
      /\ Embryos /\ Leaving
  BY DEF IInv
<1>l. PICK l \in {"fork", "wait", "kill", "sleep", "exit"} : Goto(p, l)
  BY CallsAssumption DEF Syscall
<1>1. TypeOK'
  BY <1>l, <1>0 DEF TypeOK, Labels, Syscall, Goto, procVars, cpuVars
<1>2. OnCpu'
  BY <1>0, SMT DEF TypeOK, OnCpu, Syscall, On, Goto, procVars, cpuVars
<1>3. OneCpu'
  BY <1>0 DEF OneCpu, Syscall, cpuVars
<1>4. HasStack'
  BY <1>0 DEF HasStack, Syscall, procVars
<1>5. Suspended'
  BY <1>l, <1>0, SMT DEF Suspended, Syscall, On, Goto, procVars
<1>6. LockHeld'
  BY <1>l, <1>0, SMT DEF LockHeld, Syscall, On, Goto, cpuVars
<1>7. TickLockHeld'
  BY <1>l, <1>0, SMT DEF TickLockHeld, Syscall, On, Goto, cpuVars
<1>8. Embryos'
  BY <1>l, <1>0, SMT DEF Embryos, At, Syscall, On, Goto, procVars
<1>9. Leaving'
  BY Consts, <1>l, <1>0, SMT DEF TypeOK, Leaving, Syscall, On, Goto, procVars, cpuVars
<1> QED
  BY <1>1, <1>2, <1>3, <1>4, <1>5, <1>6, <1>7, <1>8, <1>9 DEF IInv

\* The inductive invariant survives a fault in user space.
LEMMA FaultInv ==
  ASSUME IInv, NEW c \in CPUs, NEW p \in Slots, Fault(c, p)
  PROVE  IInv'
<1>0. TypeOK /\ OnCpu /\ OneCpu /\ HasStack /\ Suspended /\ LockHeld /\ TickLockHeld
      /\ Embryos /\ Leaving
  BY DEF IInv
<1>1. TypeOK'
  BY <1>0, SMT DEF TypeOK, Labels, Fault, Goto, cpuVars
<1>2. OnCpu'
  BY <1>0, SMT DEF OnCpu, Fault, On, Goto, cpuVars
<1>3. OneCpu'
  BY <1>0 DEF OneCpu, Fault, cpuVars
<1>4. HasStack'
  BY <1>0 DEF HasStack, Fault
<1>5. Suspended'
  BY <1>0, SMT DEF Suspended, Fault, On, Goto
<1>6. LockHeld'
  BY <1>0, SMT DEF LockHeld, Fault, On, Goto, cpuVars
<1>7. TickLockHeld'
  BY <1>0, SMT DEF TickLockHeld, Fault, On, Goto, cpuVars
<1>8. Embryos'
  BY <1>0, SMT DEF Embryos, At, Fault, On, Goto
<1>9. Leaving'
  BY Consts, <1>0, SMT DEF TypeOK, Leaving, Fault, On, Goto, cpuVars
<1> QED
  BY <1>1, <1>2, <1>3, <1>4, <1>5, <1>6, <1>7, <1>8, <1>9 DEF IInv

\* The inductive invariant survives the first half of the clock interrupt.
LEMMA TickInv ==
  ASSUME IInv, Tick
  PROVE  IInv'
<1>0. TypeOK /\ OnCpu /\ OneCpu /\ HasStack /\ Suspended /\ LockHeld /\ TickLockHeld
      /\ Embryos /\ Leaving
  BY DEF IInv
<1>1. TypeOK'
  BY Consts, <1>0, SMT DEF TypeOK, Tick, procVars
<1>2. OnCpu'
  BY <1>0 DEF OnCpu, Tick, procVars
<1>3. OneCpu'
  BY <1>0 DEF OneCpu, Tick
<1>4. HasStack'
  BY <1>0 DEF HasStack, Tick, procVars
<1>5. Suspended'
  BY <1>0 DEF Suspended, Tick, procVars
<1>6. LockHeld'
  BY <1>0 DEF LockHeld, Tick
<1>7. TickLockHeld'
  BY Consts, <1>0 DEF TickLockHeld, Tick, IntrOn
<1>8. Embryos'
  BY <1>0 DEF Embryos, At, Tick, procVars
<1>9. Leaving'
  BY Consts, <1>0, SMT DEF TypeOK, Leaving, Tick, procVars
<1> QED
  BY <1>1, <1>2, <1>3, <1>4, <1>5, <1>6, <1>7, <1>8, <1>9 DEF IInv

\* wakeup1 only turns sleepers into runnable processes.
Woken(st) ==
  /\ st \in [Slots -> States]
  /\ \A q \in Slots : state[q] # "SLEEPING" => st[q] = state[q]
  /\ \A q \in Slots : state[q] = "SLEEPING" => st[q] \in {"SLEEPING", "RUNNABLE"}

\* wakeup1 turns some sleeping processes RUNNABLE and leaves the others alone.
LEMMA WakeupEffect ==
  ASSUME TypeOK, NEW ch
  PROVE  Woken(Wakeup1(state, ch))
<1>1. \A q \in Slots : state[q] # "SLEEPING" => Wakeup1(state, ch)[q] = state[q]
  BY DEF Wakeup1
<1>2. \A q \in Slots : state[q] = "SLEEPING" => Wakeup1(state, ch)[q] \in {"SLEEPING", "RUNNABLE"}
  BY DEF Wakeup1
<1>3. Wakeup1(state, ch) \in [Slots -> States]
  BY DEF Wakeup1, TypeOK, States
<1> QED
  BY <1>1, <1>2, <1>3 DEF Woken

\* The inductive invariant survives wakeup(&ticks) and the tail of trap().
LEMMA TickWakeupInv ==
  ASSUME IInv, TickWakeup
  PROVE  IInv'
<1> PICK st : st = Wakeup1(state, Ticks)
  OBVIOUS
<1>w. Woken(st)
  BY WakeupEffect DEF IInv
<1>t. TimerTail(BootCpu, st)
  BY DEF TickWakeup
<1>0. TypeOK /\ OnCpu /\ OneCpu /\ HasStack /\ Suspended /\ LockHeld /\ TickLockHeld
      /\ Embryos /\ Leaving
  BY DEF IInv
<1>1. TypeOK'
  <2>1. state' \in [Slots -> States]
    BY <1>w, <1>t DEF States, TimerTail, Yielded, Woken
  <2>2. pc' \in [Slots -> Labels] /\ ret' \in [Slots -> Labels \cup {"none"}]
    BY <1>t, <1>0, SMT DEF TypeOK, Labels, TimerTail, Yielded, EnterSched, Goto
  <2>3. lock' \in CPUs \cup {NoCpu} /\ tlock' \in CPUs \cup {NoCpu}
    BY Consts, <1>t, <1>0 DEF TypeOK, TickWakeup, TimerTail, Yielded, EnterSched
  <2>4. intick' \in BOOLEAN
    BY DEF TickWakeup
  <2> QED
    BY <2>1, <2>2, <2>3, <2>4, <1>0 DEF TypeOK, TickWakeup
<1>2. OnCpu'
  BY Consts, <1>w, <1>0, SMT DEF TypeOK, OnCpu, OneCpu, TickWakeup, TimerTail, Yielded, EnterSched,
     Woken
<1>3. OneCpu'
  BY <1>0 DEF OneCpu, TickWakeup
<1>4. HasStack'
  BY Consts, <1>w, <1>0, SMT DEF HasStack, OnCpu, TickWakeup, TimerTail, Yielded, Woken
<1>5. Suspended'
  BY Consts, <1>w, <1>0, SMT DEF TypeOK, Suspended, RetLabels, Labels, LockHeld,
     TickLockHeld, TickWakeup, TimerTail, Yielded, EnterSched, Goto, Woken
<1>6. LockHeld'
  BY Consts, <1>0, SMT DEF TypeOK, LockHeld, OneCpu, TickWakeup, TimerTail, Yielded, EnterSched, Goto
<1>7. TickLockHeld'
  BY Consts, <1>0, SMT DEF TypeOK, TickLockHeld, TickWakeup, TimerTail, Yielded, EnterSched, Goto
<1>8. Embryos'
  BY Consts, <1>w, <1>t, <1>0, SMT DEF TypeOK, Embryos, OnCpu, At, Suspended, TickWakeup,
     TimerTail, Yielded, EnterSched, Goto, Woken
<1>9. Leaving'
  BY Consts, <1>w, <1>0, SMT DEF TypeOK, Leaving, TickWakeup, TimerTail, Yielded, EnterSched, Goto, Woken
<1> QED
  BY <1>1, <1>2, <1>3, <1>4, <1>5, <1>6, <1>7, <1>8, <1>9 DEF IInv

\* The inductive invariant survives a timer interrupt on another CPU.
LEMMA TimerInv ==
  ASSUME IInv, NEW c \in CPUs, Timer(c)
  PROVE  IInv'
<1>0. TypeOK /\ OnCpu /\ OneCpu /\ HasStack /\ Suspended /\ LockHeld /\ TickLockHeld
      /\ Embryos /\ Leaving
  BY DEF IInv
<1>1. TypeOK'
  BY <1>0, SMT DEF TypeOK, Labels, States, Timer, TimerTail, Yielded, EnterSched, Goto
<1>2. OnCpu'
  BY Consts, <1>0, SMT DEF TypeOK, OnCpu, OneCpu, Timer, TimerTail, Yielded, EnterSched
<1>3. OneCpu'
  BY <1>0 DEF OneCpu, Timer
<1>4. HasStack'
  BY <1>0, SMT DEF TypeOK, HasStack, OnCpu, Timer, TimerTail, Yielded
<1>5. Suspended'
  BY <1>0, SMT DEF TypeOK, Suspended, RetLabels, Labels, LockHeld, TickLockHeld, Timer,
     TimerTail, Yielded, IntrOn, EnterSched, Goto
<1>6. LockHeld'
  BY Consts, <1>0, SMT DEF TypeOK, LockHeld, OneCpu, Timer, TimerTail, Yielded, EnterSched, Goto
<1>7. TickLockHeld'
  BY <1>0, SMT DEF TypeOK, TickLockHeld, Timer, TimerTail, Yielded, IntrOn, EnterSched, Goto
<1>8. Embryos'
  BY <1>0, SMT DEF TypeOK, Embryos, OnCpu, At, Timer, TimerTail, Yielded, EnterSched, Goto
<1>9. Leaving'
  BY Consts, <1>0, SMT DEF TypeOK, Leaving, Timer, TimerTail, Yielded, EnterSched, Goto
<1> QED
  BY <1>1, <1>2, <1>3, <1>4, <1>5, <1>6, <1>7, <1>8, <1>9 DEF IInv

\* The inductive invariant survives claiming a slot in allocproc().
LEMMA AllocProcInv ==
  ASSUME IInv, NEW c \in CPUs, NEW p \in Slots, AllocProc(c, p)
  PROVE  IInv'
<1>0. TypeOK /\ OnCpu /\ OneCpu /\ HasStack /\ Suspended /\ LockHeld /\ TickLockHeld
      /\ Embryos /\ Leaving
  BY DEF IInv
<1>1. TypeOK'
  BY <1>0, SMT DEF TypeOK, Labels, States, AllocProc, IsFirst, Claim, NewPid, Goto, TrapRet,
     cpuVars
<1>2. OnCpu'
  BY Consts, <1>0, SMT DEF TypeOK, OnCpu, AllocProc, IsFirst, Claim, cpuVars
<1>3. OneCpu'
  BY <1>0 DEF OneCpu, AllocProc, cpuVars
<1>4. HasStack'
  BY <1>0 DEF TypeOK, HasStack, AllocProc, IsFirst, Claim
<1>5. Suspended'
  BY <1>0, SMT DEF TypeOK, Suspended, AllocProc, On, IsFirst, Claim, Goto, TrapRet
<1>6. LockHeld'
  BY Consts, <1>0, SMT DEF TypeOK, LockHeld, AllocProc, IsFirst, Goto, TrapRet, cpuVars
<1>7. TickLockHeld'
  BY <1>0, SMT DEF TypeOK, TickLockHeld, AllocProc, On, IsFirst, Goto, TrapRet, cpuVars
<1>8. Embryos'
  <2>1. CASE \A q \in Slots : state[q] # "UNUSED"
    <3>1. UNCHANGED <<state, np, kstack, ret>> /\ TrapRet(p)
      BY <2>1 DEF AllocProc, IsFirst
    <3> QED
      BY <1>0, <3>1, SMT DEF TypeOK, Embryos, At, AllocProc, On, Goto, TrapRet
  <2>2. CASE ~\A q \in Slots : state[q] # "UNUSED"
    <3>1. PICK q \in Slots :
            /\ state[q] = "UNUSED" /\ state' = [state EXCEPT ![q] = "EMBRYO"]
            /\ np' = [np EXCEPT ![p] = q] /\ pc' = [pc EXCEPT ![p] = "fork_kstack"]
      BY <2>2 DEF AllocProc, IsFirst, Claim, Goto
    <3>2. \A r \in Slots : np[r] # q
      BY <1>0, <3>1, Consts, SMT DEF Embryos
    <3>3. \A r \in Slots : np'[r] # 0 => state'[np'[r]] = "EMBRYO"
      BY <1>0, <3>1, SMT DEF TypeOK, Embryos
    <3>4. \A r, t \in Slots : np'[r] # 0 /\ np'[r] = np'[t] => r = t
      BY <1>0, <3>1, <3>2, SMT DEF TypeOK, Embryos
    <3>5. /\ \A r \in Slots : r # p => At(r)' = At(r) /\ np'[r] = np[r]
          /\ At(p)' = "fork_kstack" /\ np'[p] # 0
      BY <1>0, <3>1, Consts, SMT DEF TypeOK, At, AllocProc
    <3>6. \A r \in Slots : r # p => pc'[r] = pc[r]
      BY <1>0, <3>1 DEF TypeOK
    <3>7. \A r \in Slots : At(r) \in {"fork_copy", "fork_run"} /\ r # p => np[r] # p
      BY <1>0 DEF TypeOK, Embryos, AllocProc, On
    <3> QED
      BY <1>0, <3>3, <3>4, <3>5, <3>6, <3>7, SMT DEF TypeOK, Embryos, AllocProc
  <2> QED
    BY <2>1, <2>2
<1>9. Leaving'
  BY Consts, <1>0, SMT DEF TypeOK, Leaving, AllocProc, On, IsFirst, Claim, Goto, TrapRet, cpuVars
<1> QED
  BY <1>1, <1>2, <1>3, <1>4, <1>5, <1>6, <1>7, <1>8, <1>9 DEF IInv

\* The inductive invariant survives kalloc of the kernel stack in allocproc().
LEMMA AllocKstackInv ==
  ASSUME IInv, NEW c \in CPUs, NEW p \in Slots, AllocKstack(c, p)
  PROVE  IInv'
<1>0. TypeOK /\ OnCpu /\ OneCpu /\ HasStack /\ Suspended /\ LockHeld /\ TickLockHeld
      /\ Embryos /\ Leaving
  BY DEF IInv
<1>1. TypeOK'
  <2>1. np[p] \in Slots
    BY <1>0, SMT DEF TypeOK, Embryos, At, AllocKstack, On
  <2>2. kstack' \in [Slots -> BOOLEAN]
    BY <1>0 DEF TypeOK, AllocKstack, ForkFail
  <2>3. state' \in [Slots -> States]
    BY <1>0 DEF TypeOK, States, AllocKstack, ForkFail
  <2>4. pc' \in [Slots -> Labels] /\ ret' \in [Slots -> Labels \cup {"none"}]
    BY <1>0, SMT DEF TypeOK, Labels, AllocKstack, ForkFail, Goto, TrapRet
  <2> QED
    BY <2>2, <2>3, <2>4, <1>0 DEF TypeOK, AllocKstack, ForkFail, cpuVars
<1>2. OnCpu'
  BY <1>0, SMT DEF TypeOK, OnCpu, Embryos, AllocKstack, ForkFail, On, Goto, TrapRet, cpuVars
<1>3. OneCpu'
  BY <1>0 DEF OneCpu, AllocKstack, cpuVars
<1>4. HasStack'
  BY <1>0, SMT DEF TypeOK, HasStack, OnCpu, AllocKstack, ForkFail
<1>5. Suspended'
  BY <1>0, SMT DEF TypeOK, Suspended, OnCpu, RetLabels, Labels, AllocKstack, ForkFail, On,
     Goto, TrapRet
<1>6. LockHeld'
  BY <1>0, SMT DEF TypeOK, LockHeld, OnCpu, Embryos, AllocKstack, ForkFail, On, Goto,
     TrapRet, cpuVars
<1>7. TickLockHeld'
  BY Consts, <1>0, SMT DEF TypeOK, TickLockHeld, LockHeld, OnCpu, OneCpu, Embryos,
     AllocKstack, ForkFail, On, Goto, TrapRet, cpuVars
<1>8. Embryos'
  <2>1. np[p] \in Slots /\ np[p] # p /\ state[np[p]] = "EMBRYO"
    BY <1>0, SMT DEF TypeOK, Embryos, At, OnCpu, AllocKstack, On
  <2>2. \A q \in Slots : q # p => np[q] # np[p]
    BY <2>1, Consts, <1>0 DEF Embryos
  <2>3. CASE ForkFail(p)
    BY <2>3, <1>0, SMT DEF TypeOK, Embryos, At, AllocKstack, ForkFail, On, Goto, TrapRet
  <2>4. CASE ~ForkFail(p)
    <3>1. /\ pc' = [pc EXCEPT ![np[p]] = "swtch", ![p] = "fork_copy"]
          /\ ret' = [ret EXCEPT ![np[p]] = "user"] /\ kstack' = [kstack EXCEPT ![np[p]] = TRUE]
          /\ UNCHANGED <<state, np>>
      BY <2>4 DEF AllocKstack
    <3>2. \A r \in Slots : r # p /\ r # np[p] => At(r)' = At(r)
      BY <1>0, <2>1, <3>1 DEF TypeOK, At
    <3>3. At(p)' = "fork_copy" /\ \A r \in Slots : r = np[p] => At(r)' = "user"
      BY <1>0, <2>1, <3>1 DEF TypeOK, At
    <3>4. pc'[np[p]] = "swtch" /\ ret'[np[p]] = "user" /\ kstack'[np[p]]
      BY <1>0, <2>1, <3>1 DEF TypeOK
    <3>5. ASSUME NEW r \in Slots, r # p, At(r) \in {"fork_copy", "fork_run"}
          PROVE  np[r] \in Slots /\ np[r] # p /\ np[r] # np[p]
      BY <1>0, <2>2, <3>5, SMT DEF TypeOK, Embryos, AllocKstack, On
    <3>6. \A r \in Slots : At(r)' \in {"fork_copy", "fork_run"} =>
            kstack'[np[r]] /\ pc'[np[r]] = "swtch" /\ ret'[np[r]] = "user"
      BY <1>0, <3>1, <3>2, <3>3, <3>4, <3>5, SMT DEF TypeOK, Embryos
    <3>7. \A r \in Slots : At(r)' \in {"fork_kstack", "fork_copy", "fork_run"} => np[r] # 0
      BY <1>0, <2>1, <3>2, <3>3, Consts, SMT DEF Embryos
    <3> QED
      BY <1>0, <3>1, <3>6, <3>7 DEF Embryos
  <2> QED
    BY <2>3, <2>4
<1>9. Leaving'
  BY Consts, <1>0, SMT DEF TypeOK, Leaving, Embryos, AllocKstack, ForkFail, On, Goto, TrapRet, cpuVars
<1> QED
  BY <1>1, <1>2, <1>3, <1>4, <1>5, <1>6, <1>7, <1>8, <1>9 DEF IInv

\* The inductive invariant survives copyuvm and the rest of the child in fork().
LEMMA ForkCopyInv ==
  ASSUME IInv, NEW c \in CPUs, NEW p \in Slots, ForkCopy(c, p)
  PROVE  IInv'
<1>0. TypeOK /\ OnCpu /\ OneCpu /\ HasStack /\ Suspended /\ LockHeld /\ TickLockHeld
      /\ Embryos /\ Leaving
  BY DEF IInv
<1>1. TypeOK'
  <2>1. np[p] \in Slots
    BY <1>0, SMT DEF TypeOK, Embryos, At, ForkCopy, On
  <2>2. kstack' \in [Slots -> BOOLEAN]
    BY <1>0 DEF TypeOK, ForkCopy, ForkFail
  <2>3. state' \in [Slots -> States]
    BY <1>0 DEF TypeOK, States, ForkCopy, ForkFail
  <2>4. pc' \in [Slots -> Labels]
    BY <1>0 DEF TypeOK, Labels, ForkCopy, ForkFail, Goto, TrapRet
  <2> QED
    BY <2>2, <2>3, <2>4, <1>0, SMT DEF TypeOK, ForkCopy, ForkFail, cpuVars
<1>2. OnCpu'
  BY <1>0, SMT DEF TypeOK, OnCpu, Embryos, ForkCopy, ForkFail, On, Goto, TrapRet, cpuVars
<1>3. OneCpu'
  BY <1>0 DEF OneCpu, ForkCopy, cpuVars
<1>4. HasStack'
  BY <1>0, SMT DEF TypeOK, HasStack, ForkCopy, ForkFail
<1>5. Suspended'
  BY <1>0, SMT DEF TypeOK, Suspended, ForkCopy, ForkFail, On, Goto, TrapRet
<1>6. LockHeld'
  BY <1>0 DEF TypeOK, LockHeld, ForkCopy, ForkFail, On, Goto, TrapRet, cpuVars
<1>7. TickLockHeld'
  BY Consts, <1>0, SMT DEF TypeOK, TickLockHeld, ForkCopy, ForkFail, On, Goto, TrapRet, cpuVars
<1>8. Embryos'
  <2>1. CASE ForkFail(p)
    <3>1. np[p] \in Slots /\ \A q \in Slots : q # p => np[q] # np[p]
      BY <1>0, SMT DEF TypeOK, Embryos, At, ForkCopy, On
    <3> QED
      BY <2>1, <3>1, <1>0, SMT DEF TypeOK, Embryos, At, ForkCopy, ForkFail, On, Goto, TrapRet
  <2>2. CASE ~ForkFail(p)
    BY <2>2, <1>0, SMT DEF TypeOK, Embryos, At, ForkCopy, On, Goto
  <2> QED
    BY <2>1, <2>2
<1>9. Leaving'
  BY Consts, <1>0, SMT DEF TypeOK, Leaving, ForkCopy, ForkFail, On, Goto, TrapRet, cpuVars
<1> QED
  BY <1>1, <1>2, <1>3, <1>4, <1>5, <1>6, <1>7, <1>8, <1>9 DEF IInv

\* The inductive invariant survives publishing the child in fork().
LEMMA ForkRunInv ==
  ASSUME IInv, NEW c \in CPUs, NEW p \in Slots, ForkRun(c, p)
  PROVE  IInv'
<1>0. TypeOK /\ OnCpu /\ OneCpu /\ HasStack /\ Suspended /\ LockHeld /\ TickLockHeld
      /\ Embryos /\ Leaving
  BY DEF IInv
<1>1. TypeOK'
  <2>1. /\ state' \in [Slots -> States]
        /\ np' \in [Slots -> Slots \cup {0}]
    BY <1>0 DEF TypeOK, States, ForkRun
  <2>2. pc' \in [Slots -> Labels]
    BY <1>0 DEF TypeOK, Labels, ForkRun, Goto, TrapRet
  <2> QED
    BY <1>0, <2>1, <2>2 DEF TypeOK, ForkRun, cpuVars
<1>2. OnCpu'
  BY Consts, <1>0, SMT DEF OnCpu, Embryos, ForkRun, cpuVars
<1>3. OneCpu'
  BY <1>0 DEF OneCpu, ForkRun, cpuVars
<1>4. HasStack'
  BY <1>0, SMT DEF HasStack, Embryos, At, ForkRun, On
<1>5. Suspended'
  BY <1>0, SMT DEF Suspended, Embryos, At, RetLabels, Labels, ForkRun, On, Goto, TrapRet
<1>6. LockHeld'
  BY Consts, <1>0, SMT DEF LockHeld, ForkRun, Goto, TrapRet, cpuVars
<1>7. TickLockHeld'
  BY <1>0, SMT DEF TickLockHeld, ForkRun, On, Goto, TrapRet, cpuVars
<1>8. Embryos'
  BY <1>0, SMT DEF TypeOK, Embryos, At, ForkRun, On, Goto, TrapRet
<1>9. Leaving'
  BY Consts, <1>0, SMT DEF TypeOK, Leaving, ForkRun, On, Goto, TrapRet, cpuVars
<1> QED
  BY <1>1, <1>2, <1>3, <1>4, <1>5, <1>6, <1>7, <1>8, <1>9 DEF IInv

\* The inductive invariant survives exit().
LEMMA ExitInv ==
  ASSUME IInv, NEW c \in CPUs, NEW p \in Slots, Exit(c, p)
  PROVE  IInv'
<1>0. TypeOK /\ OnCpu /\ OneCpu /\ HasStack /\ Suspended /\ LockHeld /\ TickLockHeld
      /\ Embryos /\ Leaving
  BY DEF IInv
<1>1. TypeOK'
  BY Consts, <1>0 DEF TypeOK, Labels, States, Exit, ExitWakeups, Wakeup1, Reparent,
     EnterSched, procVars
<1>2. OnCpu'
  BY Consts, <1>0 DEF TypeOK, OnCpu, OneCpu, Exit, ExitWakeups, Wakeup1, Reparent,
     EnterSched, On
<1>3. OneCpu'
  BY <1>0 DEF OneCpu, Exit
<1>4. HasStack'
  BY Consts, <1>0 DEF HasStack, OnCpu, Exit, ExitWakeups, Wakeup1, On
<1>5. Suspended'
  BY <1>0 DEF TypeOK, Suspended, OnCpu, Exit, ExitWakeups, Wakeup1, EnterSched
<1>6. LockHeld'
  BY Consts, <1>0 DEF TypeOK, LockHeld, OneCpu, Exit, EnterSched, On
<1>7. TickLockHeld'
  BY <1>0, SMT DEF TickLockHeld, Exit, EnterSched, On, NoIntr
<1>8. Embryos'
  <2>1. \A q \in Slots : state[q] = "EMBRYO" => state'[q] = "EMBRYO"
    <3>1. state[p] # "EMBRYO"
      BY <1>0, Consts DEF OnCpu, Exit, On
    <3> QED
      BY <1>0, <3>1 DEF TypeOK, Exit, ExitWakeups, Wakeup1
  <2>2. pc' = [pc EXCEPT ![p] = "sched"] /\ ret' = [ret EXCEPT ![p] = "zombie"]
        /\ UNCHANGED <<kstack, np>>
    BY DEF Exit, EnterSched
  <2>3. \A q \in Slots : q # p => At(q)' = At(q)
    BY <1>0, <2>2 DEF TypeOK, At
  <2>4. At(p)' = "zombie" /\ \A q \in Slots : At(q) \in {"fork_copy", "fork_run"} => np[q] # p
    BY <1>0, <2>2 DEF TypeOK, At, Embryos, Exit, On
  <2> QED
    BY <1>0, <2>1, <2>2, <2>3, <2>4, SMT DEF TypeOK, Embryos
<1>9. Leaving'
  BY Consts, <1>0 DEF TypeOK, Leaving, Exit, ExitWakeups, Wakeup1, EnterSched, On
<1> QED
  BY <1>1, <1>2, <1>3, <1>4, <1>5, <1>6, <1>7, <1>8, <1>9 DEF IInv

\* The inductive invariant survives a scan of wait().
LEMMA WaitInv ==
  ASSUME IInv, NEW c \in CPUs, NEW p \in Slots, Wait(c, p)
  PROVE  IInv'
<1>0. TypeOK /\ OnCpu /\ OneCpu /\ HasStack /\ Suspended /\ LockHeld /\ TickLockHeld
      /\ Embryos /\ Leaving
  BY DEF IInv
<1>1. TypeOK'
  <2>1. killed' \in [Slots -> BOOLEAN] /\ kstack' \in [Slots -> BOOLEAN]
    BY <1>0 DEF TypeOK, Wait
  <2>2. state' \in [Slots -> States]
    BY <1>0, SMT DEF TypeOK, States, Wait, IsFirst
  <2>3. pc' \in [Slots -> Labels] /\ ret' \in [Slots -> Labels \cup {"none"}]
    BY <1>0, SMT DEF TypeOK, Labels, Wait, IsFirst, EnterSched, Goto, TrapRet
  <2> QED
    BY <2>1, <2>2, <2>3, <1>0, SMT DEF TypeOK, Wait, IsFirst, EnterSched
<1>2. OnCpu'
  BY Consts, <1>0, SMT DEF TypeOK, OnCpu, OneCpu, Wait, IsFirst, EnterSched, On
<1>3. OneCpu'
  BY <1>0 DEF OneCpu, Wait
<1>4. HasStack'
  BY Consts, <1>0, SMT DEF TypeOK, HasStack, OnCpu, Wait, IsFirst, On
<1>5. Suspended'
  BY <1>0, SMT DEF TypeOK, Suspended, OnCpu, RetLabels, Labels, Wait, IsFirst, EnterSched,
     On, Goto, TrapRet
<1>6. LockHeld'
  BY Consts, <1>0, SMT DEF TypeOK, LockHeld, OneCpu, Wait, IsFirst, EnterSched, On, Goto,
     TrapRet
<1>7. TickLockHeld'
  BY Consts, <1>0, SMT DEF TypeOK, TickLockHeld, Wait, IsFirst, EnterSched, On, NoIntr,
     Goto, TrapRet
<1>8. Embryos'
  BY <1>0, SMT DEF TypeOK, Embryos, OnCpu, At, Suspended, RetLabels, Wait, IsFirst,
     EnterSched, On, NoIntr, Goto, TrapRet, procVars, threadVars
<1>9. Leaving'
  BY Consts, <1>0, SMT DEF TypeOK, Leaving, Wait, IsFirst, EnterSched, On, Goto, TrapRet
<1> QED
  BY <1>1, <1>2, <1>3, <1>4, <1>5, <1>6, <1>7, <1>8, <1>9 DEF IInv

\* The inductive invariant survives kill().
LEMMA KillInv ==
  ASSUME IInv, NEW c \in CPUs, NEW p \in Slots, Kill(c, p)
  PROVE  IInv'
<1>0. TypeOK /\ OnCpu /\ OneCpu /\ HasStack /\ Suspended /\ LockHeld /\ TickLockHeld
      /\ Embryos /\ Leaving
  BY DEF IInv
<1>1. TypeOK'
  <2>1. killed' \in [Slots -> BOOLEAN]
    BY <1>0 DEF TypeOK, Kill
  <2>2. state' \in [Slots -> States]
    BY <1>0, SMT DEF TypeOK, States, Kill, KillState, IsFirst
  <2>3. pc' \in [Slots -> Labels]
    BY <1>0 DEF TypeOK, Labels, Kill, Goto
  <2> QED
    BY <2>1, <2>2, <2>3, <1>0 DEF TypeOK, Kill, cpuVars
<1>2. OnCpu'
  BY Consts, <1>0, SMT DEF TypeOK, OnCpu, Kill, KillState, IsFirst, cpuVars
<1>3. OneCpu'
  BY <1>0 DEF OneCpu, Kill, cpuVars
<1>4. HasStack'
  BY <1>0 DEF TypeOK, HasStack, Kill, KillState, IsFirst
<1>5. Suspended'
  BY <1>0, SMT DEF TypeOK, Suspended, Kill, KillState, IsFirst, On, Goto
<1>6. LockHeld'
  BY Consts, <1>0, SMT DEF LockHeld, Kill, Goto, cpuVars
<1>7. TickLockHeld'
  BY <1>0, SMT DEF TickLockHeld, Kill, On, Goto, cpuVars
<1>8. Embryos'
  BY <1>0, SMT DEF TypeOK, Embryos, At, Kill, KillState, IsFirst, On, Goto
<1>9. Leaving'
  BY Consts, <1>0, SMT DEF TypeOK, Leaving, Kill, KillState, IsFirst, On, Goto, cpuVars
<1> QED
  BY <1>1, <1>2, <1>3, <1>4, <1>5, <1>6, <1>7, <1>8, <1>9 DEF IInv

\* The inductive invariant survives a turn of the loop of sys_sleep().
LEMMA SleepLoopInv ==
  ASSUME IInv, NEW c \in CPUs, NEW p \in Slots, SleepLoop(c, p)
  PROVE  IInv'
<1>0. TypeOK /\ OnCpu /\ OneCpu /\ HasStack /\ Suspended /\ LockHeld /\ TickLockHeld
      /\ Embryos /\ Leaving
  BY DEF IInv
<1>1. TypeOK'
  BY <1>0, SMT DEF TypeOK, Labels, SleepLoop, KeepLk, Goto, TrapRet, procVars
<1>2. OnCpu'
  BY <1>0, SMT DEF TypeOK, OnCpu, SleepLoop, On, Goto, TrapRet, procVars
<1>3. OneCpu'
  BY <1>0 DEF OneCpu, SleepLoop
<1>4. HasStack'
  BY <1>0 DEF HasStack, SleepLoop, procVars
<1>5. Suspended'
  BY <1>0, SMT DEF TypeOK, Suspended, SleepLoop, On, Goto, TrapRet, procVars
<1>6. LockHeld'
  BY <1>0, SMT DEF TypeOK, LockHeld, SleepLoop, On, Goto, TrapRet
<1>7. TickLockHeld'
  BY Consts, <1>0, SMT DEF TypeOK, TickLockHeld, OneCpu, SleepLoop, KeepLk, On, Goto, TrapRet
<1>8. Embryos'
  BY <1>0, SMT DEF TypeOK, Embryos, At, SleepLoop, On, Goto, TrapRet, procVars
<1>9. Leaving'
  BY Consts, <1>0, SMT DEF TypeOK, Leaving, SleepLoop, On, Goto, TrapRet, procVars
<1> QED
  BY <1>1, <1>2, <1>3, <1>4, <1>5, <1>6, <1>7, <1>8, <1>9 DEF IInv

\* The inductive invariant survives sleep() taking ptable.lock.
LEMMA SleepCommitInv ==
  ASSUME IInv, NEW c \in CPUs, NEW p \in Slots, SleepCommit(c, p)
  PROVE  IInv'
<1>0. TypeOK /\ OnCpu /\ OneCpu /\ HasStack /\ Suspended /\ LockHeld /\ TickLockHeld
      /\ Embryos /\ Leaving
  BY DEF IInv
<1>1. TypeOK'
  BY <1>0 DEF TypeOK, Labels, States, SleepCommit, ReleaseLk, EnterSched
<1>2. OnCpu'
  BY Consts, <1>0 DEF TypeOK, OnCpu, OneCpu, SleepCommit, EnterSched, On
<1>3. OneCpu'
  BY <1>0 DEF OneCpu, SleepCommit
<1>4. HasStack'
  BY Consts, <1>0, SMT DEF HasStack, OnCpu, SleepCommit, On
<1>5. Suspended'
  BY <1>0 DEF TypeOK, Suspended, RetLabels, Labels, SleepCommit, EnterSched
<1>6. LockHeld'
  BY Consts, <1>0 DEF TypeOK, LockHeld, TickLockHeld, SleepCommit, EnterSched, On
<1>7. TickLockHeld'
  BY Consts, <1>0 DEF TypeOK, TickLockHeld, SleepCommit, ReleaseLk, EnterSched, On
<1>8. Embryos'
  BY <1>0, SMT DEF TypeOK, Embryos, OnCpu, At, SleepCommit, EnterSched, On
<1>9. Leaving'
  BY Consts, <1>0 DEF TypeOK, Leaving, SleepCommit, EnterSched, On
<1> QED
  BY <1>1, <1>2, <1>3, <1>4, <1>5, <1>6, <1>7, <1>8, <1>9 DEF IInv

-----------------------------------------------------------------------------
\* userinit() establishes the inductive invariant.
LEMMA InitInv == Init => IInv
<1> SUFFICES ASSUME Init PROVE IInv
  OBVIOUS
<1>1. TypeOK
  <2>1. scan \in [CPUs -> 1..(NPROC + 1)]
    BY SizeAssumption, SMT DEF Init
  <2>2. kstack \in [Slots -> BOOLEAN] /\ killed \in [Slots -> BOOLEAN] /\ intick \in BOOLEAN
    BY DEF Init
  <2>3. /\ state \in [Slots -> States] /\ pc \in [Slots -> Labels]
        /\ ret \in [Slots -> Labels \cup {"none"}]
    BY DEF States, Labels, Init
  <2> QED
    BY <2>1, <2>2, <2>3 DEF TypeOK, Init
<1>2. OnCpu /\ OneCpu /\ LockHeld /\ TickLockHeld
  BY Consts DEF OnCpu, OneCpu, LockHeld, TickLockHeld, Init
<1>3. HasStack /\ Suspended /\ Leaving
  BY DEF HasStack, Suspended, Leaving, RetLabels, Labels, Init
<1>4. Embryos
  BY DEF Embryos, At, Init
<1> QED
  BY <1>1, <1>2, <1>3, <1>4 DEF IInv

\* Every step of the kernel preserves the inductive invariant.
LEMMA NextInv == IInv /\ [Next]_vars => IInv'
<1>1. ASSUME IInv, Next PROVE IInv'
  <2>1. CASE Tick
    BY <1>1, <2>1, TickInv
  <2>2. CASE TickWakeup
    BY <1>1, <2>2, TickWakeupInv
  <2>3. ASSUME NEW c \in CPUs, SchedulerStep(c) PROVE IInv'
    BY <1>1, <2>3, EndPassInv, RunInv, SwtchInv, SchedReturnInv DEF SchedulerStep
  <2>4. ASSUME NEW c \in CPUs, Timer(c) PROVE IInv'
    BY <1>1, <2>4, TimerInv
  <2>5. ASSUME NEW c \in CPUs, NEW p \in Slots, ProcStep(c, p) PROVE IInv'
    BY <1>1, <2>5, AllocProcInv, AllocKstackInv, ForkCopyInv, ForkRunInv, ExitInv,
       WaitInv, KillInv, SleepLoopInv, SleepCommitInv DEF ProcStep
  <2>6. ASSUME NEW c \in CPUs, NEW p \in Slots, Syscall(c, p) \/ Fault(c, p) PROVE IInv'
    BY <1>1, <2>6, SyscallInv, FaultInv
  <2> QED
    BY <1>1, <2>1, <2>2, <2>3, <2>4, <2>5, <2>6 DEF Next
<1>2. ASSUME IInv, UNCHANGED vars PROVE IInv'
  <2>1. UNCHANGED <<state, pid, parent, chan, killed, kstack, nextpid, pc, ret, np, rem,
                    lock, tlock, stack, scan, intick>>
    BY <1>2 DEF vars, procVars, threadVars, cpuVars
  <2>2. TypeOK' /\ OneCpu' /\ HasStack'
    BY <1>2, <2>1 DEF IInv, TypeOK, OneCpu, HasStack
  <2>3. OnCpu' /\ Suspended' /\ Leaving' /\ LockHeld' /\ TickLockHeld'
    BY <1>2, <2>1 DEF IInv, OnCpu, Suspended, Leaving, LockHeld, TickLockHeld
  <2>4. Embryos'
    BY <1>2, <2>1 DEF IInv, Embryos, At
  <2> QED
    BY <2>2, <2>3, <2>4 DEF IInv
<1> QED
  BY <1>1, <1>2

\* The hand-over of ptable.lock across swtch, which process is suspended where,
\* who holds tickslock, and who owns a slot under construction, are invariant.
THEOREM Invariance == Spec => []IInv
BY InitInv, NextInv, PTL DEF Spec

\* Every variable of the process table stays in its type.
THEOREM TypeCorrect == Spec => []TypeOK
<1>1. IInv => TypeOK
  BY DEF IInv
<1> QED
  BY <1>1, Invariance, PTL

\* No two CPUs execute on one kernel stack, and a stack in use is never freed
\* (scheduler, sched, exit, wait), for any number of slots and CPUs.
THEOREM StacksSafe == Spec => []KernelStacksSafe
<1>1. IInv => KernelStacksSafe
  BY DEF IInv, TypeOK, OneCpu, OnCpu, HasStack, KernelStacksSafe
<1> QED
  BY <1>1, Invariance, PTL

\* The panics of sched() and the one behind exit()'s sched() are unreachable.
THEOREM SchedNeverPanics == Spec => []SchedAssertions
<1>1. ASSUME IInv, NEW c \in CPUs, NEW p \in Slots, stack[c] = p
      PROVE  /\ pc[p] = "sched" => lock = c /\ tlock # c /\ state[p] # "RUNNING"
             /\ pc[p] # "zombie"
  <2>1. pc[p] = "sched" => lock = c /\ state[p] # "RUNNING"
    BY <1>1, Consts DEF IInv, LockHeld, Leaving
  <2>2. pc[p] = "sched" => tlock # c
    BY <1>1, <2>1, Consts DEF IInv, TickLockHeld
  <2> QED
    BY <1>1, <2>1, <2>2 DEF IInv, Suspended
<1>2. IInv => SchedAssertions
  BY <1>1 DEF SchedAssertions
<1> QED
  BY <1>2, Invariance, PTL
=============================================================================
