-------------------------------- MODULE Proc --------------------------------
(***************************************************************************)
(* The process table of proc.c: allocproc, fork, exit, wait, kill, sleep,   *)
(* wakeup, yield, sched and the per-CPU scheduler, with the parts of trap.c *)
(* and sysproc.c that drive them (system-call dispatch, timer interrupt,    *)
(* the killed checks, sys_sleep).                                           *)
(*                                                                          *)
(* A process is its slot number in ptable.proc; 0 is the null pointer.      *)
(* CPU c executes on the kernel stack stack[c] (0: its scheduler stack);    *)
(* the per-CPU variable proc is that process, since proc is set and cleared *)
(* next to the two swtch calls, under ptable.lock.  A step of a process is  *)
(* one stretch of code between two points where another CPU can interfere:  *)
(* a critical section is one step, work done without the lock is another.   *)
(***************************************************************************)
EXTENDS Integers, FiniteSets

CONSTANTS NPROC,      \* slots of the process table (param.h)
          NCPU,       \* number of CPUs
          MaxPid,     \* bound: the last pid allocproc hands out
          MaxSleep,   \* bound: the longest sys_sleep, in ticks
          KillPids,   \* the arguments kill() is called with
          SleepPids,  \* the pids of the processes that call sleep()
          Calls       \* the system calls user programs make

ASSUME SizeAssumption == NPROC \in Nat \ {0} /\ NCPU \in Nat \ {0}
ASSUME BoundAssumption == MaxPid \in Nat /\ MaxSleep \in Nat /\ KillPids \subseteq Nat
ASSUME CallsAssumption == Calls \subseteq {"fork", "wait", "kill", "sleep", "exit"}

VARIABLES state, pid, parent, chan, killed,  \* struct proc, per slot
          kstack,   \* kstack[p]: slot p owns a kernel stack
          nextpid,
          pc,       \* where the kernel code of p stands
          ret,      \* where p continues once sched() returns
          np,       \* fork's local np
          rem,      \* sys_sleep: n - (ticks - ticks0), never below 0
          lock,     \* CPU holding ptable.lock
          tlock,    \* CPU holding tickslock
          stack,    \* stack[c]: the process whose kernel stack c runs on
          scan,     \* scan[c]: where c's scheduler loop over ptable stands
          intick    \* CPU 0 is in the timer interrupt, before wakeup(&ticks)

procVars == <<state, pid, parent, chan, killed, kstack, nextpid>>
threadVars == <<pc, ret, np, rem>>
cpuVars == <<lock, tlock, stack, scan, intick>>
vars == <<procVars, threadVars, cpuVars>>

Slots == 1..NPROC
CPUs == 0..(NCPU - 1)
NoCpu == -1
BootCpu == 0            \* cpu->id == 0 keeps the time
initproc == 1           \* userinit runs first, so init gets the first slot
Ticks == NPROC + 1      \* the channel &ticks; process p is the channel p

States == {"UNUSED", "EMBRYO", "SLEEPING", "RUNNABLE", "RUNNING", "ZOMBIE"}
Labels == {"user", "trapret", "fork", "fork_kstack", "fork_copy", "fork_run",
           "exit", "wait", "wait_scan", "kill", "sleep", "sleep_loop",
           "sleep_commit", "sched", "swtch", "zombie"}

TypeOK ==
  /\ state \in [Slots -> States]
  /\ pid \in [Slots -> Nat]
  /\ parent \in [Slots -> Slots \cup {0}]
  /\ chan \in [Slots -> Slots \cup {0, Ticks}]
  /\ killed \in [Slots -> BOOLEAN]
  /\ kstack \in [Slots -> BOOLEAN]
  /\ nextpid \in Nat
  /\ pc \in [Slots -> Labels]
  /\ ret \in [Slots -> Labels \cup {"none"}]
  /\ np \in [Slots -> Slots \cup {0}]
  /\ rem \in [Slots -> Nat]
  /\ lock \in CPUs \cup {NoCpu}
  /\ tlock \in CPUs \cup {NoCpu}
  /\ stack \in [CPUs -> Slots \cup {0}]
  /\ scan \in [CPUs -> 1..(NPROC + 1)]
  /\ intick \in BOOLEAN

\* After main() and userinit(): init is RUNNABLE and will start in forkret.
Init ==
  /\ state = [p \in Slots |-> IF p = initproc THEN "RUNNABLE" ELSE "UNUSED"]
  /\ pid = [p \in Slots |-> IF p = initproc THEN 1 ELSE 0]
  /\ parent = [p \in Slots |-> 0]
  /\ chan = [p \in Slots |-> 0]
  /\ killed = [p \in Slots |-> FALSE]
  /\ kstack = [p \in Slots |-> p = initproc]
  /\ nextpid = 2
  /\ pc = [p \in Slots |-> "swtch"]
  /\ ret = [p \in Slots |-> IF p = initproc THEN "user" ELSE "none"]
  /\ np = [p \in Slots |-> 0]
  /\ rem = [p \in Slots |-> 0]
  /\ lock = NoCpu
  /\ tlock = NoCpu
  /\ stack = [c \in CPUs |-> 0]
  /\ scan = [c \in CPUs |-> 1]
  /\ intick = FALSE

-----------------------------------------------------------------------------
\* CPU c is not inside the timer interrupt.
NoIntr(c) == ~(c = BootCpu /\ intick)

\* CPU c executes process p at label l.
On(c, p, l) == stack[c] = p /\ NoIntr(c) /\ pc[p] = l

Goto(p, l) == pc' = [pc EXCEPT ![p] = l]

\* trap, on the way back to user space: a killed process exits.
TrapRet(p) == Goto(p, IF killed[p] THEN "exit" ELSE "user")

\* The first slot of S in table order.
IsFirst(q, S) == q \in S /\ \A r \in S : q <= r

\* acquire() disables interrupts on the CPU until the last release().
IntrOn(c) == lock # c /\ tlock # c /\ NoIntr(c)

\* wakeup1(ch): the states after every process sleeping on ch is woken.
Wakeup1(st, ch) ==
  [q \in Slots |-> IF st[q] = "SLEEPING" /\ chan[q] = ch THEN "RUNNABLE" ELSE st[q]]

\* The current process calls sched() with ptable.lock held by c, and goes on
\* at k when sched() returns.
EnterSched(c, p, k) ==
  /\ lock' = c
  /\ pc' = [pc EXCEPT ![p] = "sched"]
  /\ ret' = [ret EXCEPT ![p] = k]

\* The processes wait() and exit() of p consider.
Children(p) == {q \in Slots : parent[q] = p}

-----------------------------------------------------------------------------
(* Seeded faults: variants of definitions below that the properties reject. *)

\* scheduler: the loop is never rewound.
Restart_Never(c) == scan' = scan

\* allocproc: the slot is published before it has a stack.
Claim_Runnable(q) == state' = [state EXCEPT ![q] = "RUNNABLE"]

\* exit: nobody is woken; an inherited zombie does not wake init; only
\* zombies are inherited.
ExitWakeups_None(p) == state
ExitWakeups_ParentOnly(p) == Wakeup1(state, parent[p])
Reparent_Zombies(p) ==
  [q \in Slots |-> IF parent[q] = p /\ state[q] = "ZOMBIE" THEN initproc ELSE parent[q]]

\* kill: the target is not woken.
KillState_NoWake(st) == st

\* yield: the process stays RUNNING.
Yielded_Running(st, p) == st

\* sleep: lk is released before ptable.lock is taken.
KeepLk_Early(c) == tlock' = NoCpu

-----------------------------------------------------------------------------
(* scheduler() and sched() *)

\* The loop of scheduler() goes on behind the process it ran, and starts over
\* at the head of the table.
Advance(c, p) == scan' = [scan EXCEPT ![c] = p + 1]
Restart(c) == scan' = [scan EXCEPT ![c] = 1]

\* scheduler: take ptable.lock unless the loop already holds it, and switch to
\* the next RUNNABLE process at or after the loop's position.
Run(c, p) ==
  /\ stack[c] = 0 /\ NoIntr(c) /\ lock \in {NoCpu, c}
  /\ IsFirst(p, {q \in Slots : q >= scan[c] /\ state[q] = "RUNNABLE"})
  /\ state' = [state EXCEPT ![p] = "RUNNING"]
  /\ stack' = [stack EXCEPT ![c] = p]
  /\ Advance(c, p)
  /\ lock' = c
  /\ UNCHANGED <<pid, parent, chan, killed, kstack, nextpid, threadVars, tlock, intick>>

\* scheduler: the loop reaches the end of the table and releases ptable.lock.
EndPass(c) ==
  /\ stack[c] = 0 /\ lock = c
  /\ \A q \in Slots : q >= scan[c] => state[q] # "RUNNABLE"
  /\ lock' = NoCpu
  /\ Restart(c)
  /\ UNCHANGED <<procVars, threadVars, tlock, stack, intick>>

\* sched: swtch saves the context of p and returns into c's scheduler.
Swtch(c, p) ==
  /\ On(c, p, "sched")
  /\ Goto(p, "swtch")
  /\ stack' = [stack EXCEPT ![c] = 0]
  /\ UNCHANGED <<procVars, ret, np, rem, lock, tlock, scan, intick>>

\* swtch returns into p, and what follows sched(): sleep clears chan, and everyone
\* except wait() (whose sleep was given ptable.lock itself) releases ptable.lock;
\* so does forkret.
SchedReturn(c, p) ==
  /\ On(c, p, "swtch")
  /\ chan' = [chan EXCEPT ![p] = 0]
  /\ lock' = IF ret[p] = "wait_scan" THEN lock ELSE NoCpu
  /\ IF ret[p] = "trapret" THEN TrapRet(p) ELSE Goto(p, ret[p])
  /\ ret' = [ret EXCEPT ![p] = "none"]
  /\ UNCHANGED <<state, pid, parent, killed, kstack, nextpid, np, rem,
                 tlock, stack, scan, intick>>

-----------------------------------------------------------------------------
(* Traps *)

\* Bound: forks under way included, no pid above MaxPid is handed out.
PidsLeft ==
  nextpid + Cardinality({q \in Slots : "fork" \in {pc[q], ret[q]}}) <= MaxPid

\* trap, T_SYSCALL: a killed process exits, another enters its system call.
\* init (init.c) only ever forks and waits.
Syscall(c, p) ==
  /\ On(c, p, "user")
  /\ \/ killed[p] /\ Goto(p, "exit")
     \/ /\ ~killed[p]
        /\ \E l \in IF p = initproc THEN {"fork", "wait"} ELSE Calls :
             /\ l = "fork" => PidsLeft
             /\ l = "sleep" => pid[p] \in SleepPids
             /\ Goto(p, l)
  /\ UNCHANGED <<procVars, ret, np, rem, cpuVars>>

\* trap: a fault in user space marks the process killed.  The page-fault case
\* returns to user space at once, the default case goes on to exit().
Fault(c, p) ==
  /\ On(c, p, "user") /\ p # initproc
  /\ killed' = [killed EXCEPT ![p] = TRUE]
  /\ \E l \in {"user", "exit"} : Goto(p, l)
  /\ UNCHANGED <<state, pid, parent, chan, kstack, nextpid, ret, np, rem, cpuVars>>

\* yield
Yielded(st, p) == [st EXCEPT ![p] = "RUNNABLE"]

\* tail of trap for a timer interrupt on c, given the process states st: a
\* process killed in user space exits, any other one yields.
TimerTail(c, st) ==
  \/ /\ stack[c] = 0
     /\ state' = st
     /\ UNCHANGED <<pc, ret, lock>>
  \/ \E p \in Slots :
       /\ stack[c] = p /\ pc[p] = "user" /\ killed[p]
       /\ state' = st
       /\ Goto(p, "exit")
       /\ UNCHANGED <<ret, lock>>
  \/ \E p \in Slots :
       /\ stack[c] = p /\ ~(pc[p] = "user" /\ killed[p])
       /\ state' = Yielded(st, p)
       /\ EnterSched(c, p, IF pc[p] = "user" THEN "trapret" ELSE pc[p])

\* trap, IRQ_TIMER on CPU 0: take tickslock and advance ticks.
Tick ==
  /\ IntrOn(BootCpu) /\ tlock = NoCpu
  /\ tlock' = BootCpu
  /\ rem' = [q \in Slots |-> IF rem[q] > 0 THEN rem[q] - 1 ELSE 0]
  /\ intick' = TRUE
  /\ UNCHANGED <<procVars, pc, ret, np, lock, stack, scan>>

\* ... wakeup(&ticks), release tickslock, and the tail of trap.
TickWakeup ==
  /\ intick /\ lock = NoCpu
  /\ tlock' = NoCpu
  /\ intick' = FALSE
  /\ TimerTail(BootCpu, Wakeup1(state, Ticks))
  /\ UNCHANGED <<pid, parent, chan, killed, kstack, nextpid, np, rem, stack, scan>>

\* trap, IRQ_TIMER on another CPU: only the tail.
Timer(c) ==
  /\ c # BootCpu /\ IntrOn(c) /\ lock = NoCpu /\ stack[c] # 0
  /\ TimerTail(c, state)
  /\ UNCHANGED <<pid, parent, chan, killed, kstack, nextpid, np, rem, tlock, stack, scan, intick>>

-----------------------------------------------------------------------------
(* fork() *)

\* allocproc: a claimed slot is EMBRYO, so nobody else takes it or runs it.
Claim(q) == state' = [state EXCEPT ![q] = "EMBRYO"]

\* allocproc: p->pid = nextpid++.
NewPid(q) == pid' = [pid EXCEPT ![q] = nextpid] /\ nextpid' = nextpid + 1

\* allocproc under ptable.lock: claim the first UNUSED slot, or fail.
AllocProc(c, p) ==
  /\ On(c, p, "fork") /\ lock = NoCpu
  /\ \/ /\ \A q \in Slots : state[q] # "UNUSED"
        /\ TrapRet(p)
        /\ UNCHANGED <<state, pid, nextpid, np>>
     \/ \E q \in Slots :
          /\ IsFirst(q, {r \in Slots : state[r] = "UNUSED"})
          /\ Claim(q)
          /\ NewPid(q)
          /\ np' = [np EXCEPT ![p] = q]
          /\ Goto(p, "fork_kstack")
  /\ UNCHANGED <<parent, chan, killed, kstack, ret, rem, cpuVars>>

\* The failure paths of fork: the slot is given back without the lock, and
\* keeps its pid.
ForkFail(p) ==
  /\ state' = [state EXCEPT ![np[p]] = "UNUSED"]
  /\ kstack' = [kstack EXCEPT ![np[p]] = FALSE]
  /\ np' = [np EXCEPT ![p] = 0]
  /\ TrapRet(p)
  /\ UNCHANGED <<parent, ret>>

\* allocproc without the lock: kalloc a stack whose context starts in forkret.
AllocKstack(c, p) ==
  /\ On(c, p, "fork_kstack")
  /\ \/ ForkFail(p)
     \/ /\ kstack' = [kstack EXCEPT ![np[p]] = TRUE]
        /\ pc' = [pc EXCEPT ![np[p]] = "swtch", ![p] = "fork_copy"]
        /\ ret' = [ret EXCEPT ![np[p]] = "user"]
        /\ UNCHANGED <<state, parent, np>>
  /\ UNCHANGED <<pid, chan, killed, nextpid, rem, cpuVars>>

\* fork: copyuvm, then parent, files and cwd.
ForkCopy(c, p) ==
  /\ On(c, p, "fork_copy")
  /\ \/ ForkFail(p)
     \/ /\ parent' = [parent EXCEPT ![np[p]] = p]
        /\ Goto(p, "fork_run")
        /\ UNCHANGED <<state, kstack, ret, np>>
  /\ UNCHANGED <<pid, chan, killed, nextpid, rem, cpuVars>>

\* fork: publish the child under ptable.lock.
ForkRun(c, p) ==
  /\ On(c, p, "fork_run") /\ lock = NoCpu
  /\ state' = [state EXCEPT ![np[p]] = "RUNNABLE"]
  /\ np' = [np EXCEPT ![p] = 0]
  /\ TrapRet(p)
  /\ UNCHANGED <<pid, parent, chan, killed, kstack, nextpid, ret, rem, cpuVars>>

-----------------------------------------------------------------------------
(* exit(), wait(), kill() *)

\* exit: the parent is woken, and init too if it inherits a zombie.
ExitWakeups(p) ==
  LET woken == Wakeup1(state, parent[p])
  IN IF \E q \in Children(p) : state[q] = "ZOMBIE" THEN Wakeup1(woken, initproc) ELSE woken

\* exit: abandoned children pass to init.
Reparent(p) == [q \in Slots |-> IF parent[q] = p THEN initproc ELSE parent[q]]

\* exit, once files and cwd are closed: wake the parent, hand the children to
\* init (waking it if one is a zombie), become a zombie.  init itself panics.
Exit(c, p) ==
  /\ On(c, p, "exit") /\ p # initproc /\ lock = NoCpu
  /\ state' = [ExitWakeups(p) EXCEPT ![p] = "ZOMBIE"]
  /\ parent' = Reparent(p)
  /\ EnterSched(c, p, "zombie")
  /\ UNCHANGED <<pid, chan, killed, kstack, nextpid, np, rem, tlock, stack, scan, intick>>

\* wait: one scan of the table under ptable.lock; reap the first zombie child,
\* or fail, or sleep on the process itself.
Wait(c, p) ==
  /\ \/ On(c, p, "wait") /\ lock = NoCpu
     \/ On(c, p, "wait_scan") /\ lock = c
  /\ \/ \E q \in Slots :
          /\ IsFirst(q, {r \in Children(p) : state[r] = "ZOMBIE"})
          /\ kstack' = [kstack EXCEPT ![q] = FALSE]
          /\ state' = [state EXCEPT ![q] = "UNUSED"]
          /\ pid' = [pid EXCEPT ![q] = 0]
          /\ parent' = [parent EXCEPT ![q] = 0]
          /\ killed' = [killed EXCEPT ![q] = FALSE]
          /\ lock' = NoCpu
          /\ TrapRet(p)
          /\ UNCHANGED <<chan, ret>>
     \/ /\ \A r \in Children(p) : state[r] # "ZOMBIE"
        /\ Children(p) = {} \/ killed[p]
        /\ lock' = NoCpu
        /\ TrapRet(p)
        /\ UNCHANGED <<state, pid, parent, chan, killed, kstack, ret>>
     \/ /\ \A r \in Children(p) : state[r] # "ZOMBIE"
        /\ Children(p) # {} /\ ~killed[p]
        /\ chan' = [chan EXCEPT ![p] = p]
        /\ state' = [state EXCEPT ![p] = "SLEEPING"]
        /\ EnterSched(c, p, "wait_scan")
        /\ UNCHANGED <<pid, parent, killed, kstack>>
  /\ UNCHANGED <<nextpid, np, rem, tlock, stack, scan, intick>>

\* kill: a sleeping process is woken, any other keeps its state.
KillState(st) == IF st = "SLEEPING" THEN "RUNNABLE" ELSE st

\* kill(k): mark the first slot whose pid is k, and wake it if it sleeps.
Kill(c, p) ==
  /\ On(c, p, "kill") /\ lock = NoCpu
  /\ \E k \in KillPids :
       \/ /\ \A q \in Slots : pid[q] # k
          /\ UNCHANGED <<killed, state>>
       \/ \E q \in Slots :
            /\ IsFirst(q, {r \in Slots : pid[r] = k})
            /\ killed' = [killed EXCEPT ![q] = TRUE]
            /\ state' = [state EXCEPT ![q] = KillState(@)]
  /\ Goto(p, IF killed'[p] THEN "exit" ELSE "user")
  /\ UNCHANGED <<pid, parent, chan, kstack, nextpid, ret, np, rem, cpuVars>>

-----------------------------------------------------------------------------
(* sys_sleep() *)

\* sys_sleep calls sleep with tickslock held; sleep releases it only after it
\* has taken ptable.lock.
KeepLk(c) == tlock' = c
ReleaseLk == tlock' = NoCpu

\* sys_sleep under tickslock: set the deadline on entry; return when it has
\* passed or the process is killed; otherwise call sleep, tickslock held.
SleepLoop(c, p) ==
  /\ tlock = NoCpu
  /\ \E r \in IF pc[p] = "sleep" THEN 0..MaxSleep ELSE {rem[p]} :
       /\ On(c, p, "sleep") \/ On(c, p, "sleep_loop")
       /\ IF r = 0 \/ killed[p]
          THEN /\ rem' = [rem EXCEPT ![p] = 0]
               /\ TrapRet(p)
               /\ UNCHANGED tlock
          ELSE /\ rem' = [rem EXCEPT ![p] = r]
               /\ Goto(p, "sleep_commit")
               /\ KeepLk(c)
  /\ UNCHANGED <<procVars, ret, np, lock, stack, scan, intick>>

\* sleep(&ticks, &tickslock): ptable.lock first, then release tickslock.
SleepCommit(c, p) ==
  /\ On(c, p, "sleep_commit") /\ lock = NoCpu
  /\ ReleaseLk
  /\ chan' = [chan EXCEPT ![p] = Ticks]
  /\ state' = [state EXCEPT ![p] = "SLEEPING"]
  /\ EnterSched(c, p, "sleep_loop")
  /\ UNCHANGED <<pid, parent, killed, kstack, nextpid, np, rem, stack, scan, intick>>

-----------------------------------------------------------------------------
SchedulerStep(c) ==
  \/ EndPass(c)
  \/ \E p \in Slots : Run(c, p) \/ Swtch(c, p) \/ SchedReturn(c, p)

ProcStep(c, p) ==
  \/ AllocProc(c, p) \/ AllocKstack(c, p) \/ ForkCopy(c, p) \/ ForkRun(c, p)
  \/ Exit(c, p) \/ Wait(c, p) \/ Kill(c, p)
  \/ SleepLoop(c, p) \/ SleepCommit(c, p)

Next ==
  \/ Tick
  \/ TickWakeup
  \/ \E c \in CPUs :
       \/ SchedulerStep(c)
       \/ Timer(c)
       \/ \E p \in Slots : stack[c] = p /\ (ProcStep(c, p) \/ Syscall(c, p) \/ Fault(c, p))

Spec == Init /\ [][Next]_vars

\* Every CPU keeps executing and eventually gets a spinlock that is released
\* again and again; a pending timer interrupt is delivered once interrupts
\* are enabled; a process that is scheduled again and again gets to execute
\* between two ticks.  init calls wait over and over (init.c).
Fairness ==
  /\ \A c \in CPUs : SF_vars(SchedulerStep(c)) /\ SF_vars(Timer(c))
  /\ \A p \in Slots : SF_vars(\E c \in CPUs : ProcStep(c, p))
  /\ SF_vars(Tick) /\ SF_vars(TickWakeup)
  /\ SF_vars(\E c \in CPUs : Syscall(c, initproc) /\ pc'[initproc] = "wait")

FairSpec == Spec /\ Fairness

-----------------------------------------------------------------------------
(* Properties *)

\* Two CPUs never execute on one kernel stack, and a stack a CPU executes on
\* is not freed: holding ptable.lock across swtch keeps scheduler() from
\* resuming, and wait() from reaping, a process that is still running.
KernelStacksSafe ==
  /\ \A c, d \in CPUs : stack[c] # 0 /\ stack[c] = stack[d] => c = d
  /\ \A c \in CPUs : stack[c] # 0 => kstack[stack[c]]

\* The assertions of sched() hold whenever a process is about to switch away: it
\* holds ptable.lock ("sched ptable.lock") and nothing else ("sched locks"), and
\* its state is no longer RUNNING ("sched running").  And no process comes back
\* from the sched() in exit ("zombie exit").
SchedAssertions ==
  \A c \in CPUs : \A p \in Slots :
    stack[c] = p =>
      /\ pc[p] = "sched" => lock = c /\ tlock # c /\ state[p] # "RUNNING"
      /\ pc[p] # "zombie"

\* A process never has a dead parent: exit() hands its children to init in
\* the critical section that makes it a zombie.
ParentAlive ==
  \A p \in Slots : parent[p] # 0 => state[parent[p]] \notin {"UNUSED", "EMBRYO", "ZOMBIE"}

\* wait() misses nothing: a parent asleep in it has no zombie child, its own or
\* one it adopted as init, and has not been killed (killed is tested and the
\* process goes to sleep under one hold of ptable.lock, so only sys_sleep,
\* which a tick wakes, can be asleep with killed set).
NoMissedWakeup ==
  \A p \in Slots : state[p] = "SLEEPING" =>
    /\ chan[p] = p => \A q \in Children(p) : state[q] # "ZOMBIE"
    /\ killed[p] => chan[p] = Ticks

\* No tick is missed: a process asleep in sys_sleep has time left to wait,
\* unless the handler that ended its wait is about to call wakeup(&ticks).
NoMissedTick ==
  \A p \in Slots :
    state[p] = "SLEEPING" /\ chan[p] = Ticks => rem[p] > 0 \/ intick

\* A runnable process eventually runs: the round-robin loop of scheduler()
\* starves nobody.
RunnableRuns == \A p \in Slots : state[p] = "RUNNABLE" ~> state[p] # "RUNNABLE"

\* A killed process eventually dies, wherever the kill() found it.
KilledDies == \A p \in Slots : killed[p] ~> state[p] \in {"ZOMBIE", "UNUSED"}

\* init eventually reaps every orphan.
OrphansReaped ==
  \A p \in Slots : state[p] = "ZOMBIE" /\ parent[p] = initproc ~> state[p] = "UNUSED"
=============================================================================
