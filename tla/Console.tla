--------------------------------- MODULE Console ---------------------------------
(***************************************************************************)
(* The console (console.c) with everything its lock meets: spin locks and   *)
(* the interrupt flag (Spin), processes that sleep in consoleread and go on *)
(* on another CPU, timer interrupts that make them yield, the keyboard      *)
(* interrupt, and the scheduler of each CPU, which halts when idle.         *)
(*                                                                          *)
(* A step is the code up to the next point where another CPU or an          *)
(* interrupt can come in.  Which runnable process a scheduler picks is the  *)
(* business of Proc: here it is any.                                        *)
(***************************************************************************)
EXTENDS Spin, FiniteSets, Sequences

CONSTANTS Procs, NoProc,
          KbdCpu,       \* where ioapicenable sends the interrupt
          INPUT_BUF,
          Width,        \* r, w and e count modulo Width (2^32 in the code)
          COLS, ROWS,   \* 80 and 25
          Letters,      \* ordinary characters
          Programs      \* what the processes may do: see prog

NL == "nl"
EOF == "ctrl-d"
BACKSPACE == "backspace"
Chars == Letters \cup {NL, EOF}

ASSUME ConsoleAssumption ==
  /\ KbdCpu \in CPUs /\ NoCpu \notin CPUs /\ NoProc \notin Procs
  /\ INPUT_BUF \in Nat \ {0} /\ Width \in Nat /\ Width % INPUT_BUF = 0 /\ Width > INPUT_BUF
  /\ COLS \in Nat \ {0} /\ ROWS \in Nat /\ ROWS > 1
  /\ \A g \in Programs : /\ g.calls \subseteq Procs \X {"read", "write"} \X (Nat \ {0})
                         /\ g.procs \subseteq Procs /\ g.kills \subseteq Procs

VARIABLES prog,             \* procs: the processes there are; calls: those they make,
                            \* <<process, "read" or "write", n>>; kills: those
                            \* that may be killed
          buf, r, w, e,     \* input
          pos,              \* the cursor
          state, killed,    \* struct proc
          pc,               \* where each process is
          under,            \* and where the timer interrupted it
          call, left, got,  \* its system call, bytes left, whether it has some
          saved,            \* the local intena of its sched
          cur,              \* the process of each CPU, or NoProc: its scheduler
          sp, ran,          \* where the scheduler is, and its local ran
          kb                \* where the keyboard handler of each CPU is

inputVars == <<buf, r, w, e>>
procVars == <<state, killed, pc, under, call, left, got, saved>>
cpuVars == <<cur, sp, ran>>
vars == <<prog, spinVars, inputVars, pos, procVars, cpuVars, kb>>

\* Processes that fork has made runnable, others that have exited, and CPUs about
\* to enter scheduler.
Init ==
  /\ prog \in Programs
  /\ SpinInit
  /\ buf = [i \in 0..(INPUT_BUF - 1) |-> NL] /\ r = 0 /\ w = 0 /\ e = 0
  /\ pos = 0
  /\ state = [p \in Procs |-> IF p \in prog.procs THEN "runnable" ELSE "zombie"]
  /\ killed = [p \in Procs |-> FALSE]
  /\ pc = [p \in Procs |-> IF p \in prog.procs THEN "new" ELSE "dead"]
  /\ under = [p \in Procs |-> "user"]
  /\ call = [p \in Procs |-> "read"]
  /\ left = [p \in Procs |-> 0]
  /\ got = [p \in Procs |-> FALSE]
  /\ saved = [p \in Procs |-> FALSE]
  /\ cur = [c \in CPUs |-> NoProc]
  /\ sp = [c \in CPUs |-> "top"]
  /\ ran = [c \in CPUs |-> FALSE]
  /\ kb = [c \in CPUs |-> "off"]

-----------------------------------------------------------------------------
(* Seeded faults: variants of definitions below that the properties reject. *)

\* sched: intena is not put back after swtch.
Restored_Cpu(c, p) == intena[c]

\* wakeup1: compares with the wrong state.
Woken_Wrong(s) == IF s = "runnable" THEN "runnable" ELSE s

\* consoleintr: no wakeup when the buffer is full.
Commits_LineOnly(ch, e1) == ch \in {NL, EOF}

-----------------------------------------------------------------------------
(* Output: cgaputc moves the cursor. *)

Moved(at, ch) ==
  CASE ch = NL -> at + COLS - (at % COLS)
    [] ch = BACKSPACE -> IF at > 0 THEN at - 1 ELSE at
    [] OTHER -> at + 1
Scrolled(at) == IF at \div COLS >= ROWS - 1 THEN at - COLS ELSE at
Consputc(at, ch) == Scrolled(Moved(at, ch))

\* consputc(BACKSPACE), n times
Erased(at, n) == IF at > n THEN at - n ELSE 0

-----------------------------------------------------------------------------
(* Control: what CPU c executes is the handler, a process or its scheduler. *)

Label(c) == IF kb[c] # "off" THEN kb[c] ELSE IF cur[c] = NoProc THEN sp[c] ELSE pc[cur[c]]
At(c, p, l) == kb[c] = "off" /\ cur[c] = p /\ pc[p] = l
SchedAt(c, l) == kb[c] = "off" /\ cur[c] = NoProc /\ sp[c] = l

-----------------------------------------------------------------------------
(* consoleintr, on top of whatever runs on the CPU *)

Succ(n) == (n + 1) % Width
Gap(from, to) == (to - from + Width) % Width

\* The keyboard interrupts.  (A halted CPU goes on after the handler, unless it
\* came between release and hlt: Unhalt.)
Keyboard(c) ==
  /\ c = KbdCpu /\ kb[c] = "off" /\ iflag[c]
  /\ PushcliAt(c, FALSE)
  /\ kb' = [kb EXCEPT ![c] = "kacq"]
  /\ UNCHANGED <<lk, inputVars, pos, procVars, cpuVars>>

KbdLock(c) ==
  /\ kb[c] = "kacq"
  /\ AcquireDone(c, "cons")
  /\ kb' = [kb EXCEPT ![c] = "kin"]
  /\ UNCHANGED <<inputVars, pos, procVars, cpuVars>>

\* A character: it goes into the line, and maybe the line to the readers.
Commits(ch, e1) == ch \in {NL, EOF} \/ e1 = (r + INPUT_BUF) % Width
Type(c, ch) ==
  /\ kb[c] = "kin" /\ Gap(r, e) < INPUT_BUF
  /\ buf' = [buf EXCEPT ![e % INPUT_BUF] = ch]
  /\ e' = Succ(e)
  /\ pos' = Consputc(pos, ch)
  /\ \/ /\ Commits(ch, e')
        /\ w' = e'
        /\ AcquireStart(c)
        /\ kb' = [kb EXCEPT ![c] = "wacq"]
     \/ /\ ~Commits(ch, e')
        /\ UNCHANGED <<w, spinVars, kb>>
  /\ UNCHANGED <<r, procVars, cpuVars>>

\* ^H takes one character back, ^U those after the last newline.
Kept == {n \in 0..Gap(w, e) : n = 0 \/ buf[(w + n - 1) % INPUT_BUF] = NL}
LineStart == (w + (CHOOSE n \in Kept : \A m \in Kept : m <= n)) % Width
Edit(c) ==
  /\ kb[c] = "kin" /\ e # w
  /\ \/ e' = (e + Width - 1) % Width
     \/ e' = LineStart
  /\ pos' = Erased(pos, Gap(e', e))
  /\ UNCHANGED <<spinVars, buf, r, w, procVars, cpuVars, kb>>

\* wakeup(&input.r)
WakeLock(c) ==
  /\ kb[c] = "wacq"
  /\ AcquireDone(c, "ptable")
  /\ kb' = [kb EXCEPT ![c] = "wake"]
  /\ UNCHANGED <<inputVars, pos, procVars, cpuVars>>
Woken(s) == IF s = "sleeping" THEN "runnable" ELSE s
Wakeup(c) ==
  /\ kb[c] = "wake"
  /\ state' = [p \in Procs |-> Woken(state[p])]
  /\ Release(c, "ptable")
  /\ kb' = [kb EXCEPT ![c] = "kin"]
  /\ UNCHANGED <<inputVars, pos, killed, pc, under, call, left, got, saved, cpuVars>>

\* No more characters; then the iret of the interrupt.  (A ^P changes nothing
\* here: consoleintr only remembers it, and procdump, called after the release,
\* reads the process table without a lock and prints.)
KbdDone(c) ==
  /\ kb[c] = "kin"
  /\ Release(c, "cons")
  /\ kb' = [kb EXCEPT ![c] = "kiret"]
  /\ UNCHANGED <<inputVars, pos, procVars, cpuVars>>
KbdIret(c) ==
  /\ kb[c] = "kiret"
  /\ Sti(c)
  /\ kb' = [kb EXCEPT ![c] = "off"]
  /\ UNCHANGED <<inputVars, pos, procVars, cpuVars>>

-----------------------------------------------------------------------------
(* consoleread and consolewrite *)

Goto(p, l) == pc' = [pc EXCEPT ![p] = l]

Syscall(c, p, f, n) ==
  /\ At(c, p, "user") /\ ~killed[p] /\ <<p, f, n>> \in prog.calls
  /\ Goto(p, "in")
  /\ call' = [call EXCEPT ![p] = f]
  /\ left' = [left EXCEPT ![p] = n]
  /\ got' = [got EXCEPT ![p] = FALSE]
  /\ UNCHANGED <<spinVars, inputVars, pos, state, killed, under, saved, cpuVars, kb>>

Enter(c, p) ==
  /\ At(c, p, "in")
  /\ AcquireStart(c)
  /\ Goto(p, "acq")
  /\ UNCHANGED <<inputVars, pos, state, killed, under, call, left, got, saved, cpuVars, kb>>

ConsLock(c, p) ==
  /\ At(c, p, "acq")
  /\ AcquireDone(c, "cons")
  /\ Goto(p, "loop")
  /\ UNCHANGED <<inputVars, pos, state, killed, under, call, left, got, saved, cpuVars, kb>>

\* Back to user mode, when the call is over or else once more round the loop.
Return(c, p) == Release(c, "cons") /\ Goto(p, "user")
Leave(c, p, over) ==
  \/ over /\ Return(c, p)
  \/ ~over /\ UNCHANGED <<spinVars, pc>>

WriteChar(c, p, ch) ==
  /\ At(c, p, "loop") /\ call[p] = "write"
  /\ pos' = Consputc(pos, ch)
  /\ left' = [left EXCEPT ![p] = @ - 1]
  /\ Leave(c, p, left'[p] = 0)
  /\ UNCHANGED <<inputVars, state, killed, under, call, got, saved, cpuVars, kb>>

\* ^D ends the read; it stays for the next one if this one has characters.
ReadChar(c, p) ==
  LET ch == buf[r % INPUT_BUF] IN
  /\ At(c, p, "loop") /\ call[p] = "read" /\ r # w
  /\ \/ /\ ch = EOF
        /\ r' = IF got[p] THEN r ELSE Succ(r)
        /\ Return(c, p)
        /\ UNCHANGED <<left, got>>
     \/ /\ ch # EOF
        /\ r' = Succ(r)
        /\ left' = [left EXCEPT ![p] = @ - 1]
        /\ got' = [got EXCEPT ![p] = TRUE]
        /\ Leave(c, p, ch = NL \/ left'[p] = 0)
  /\ UNCHANGED <<buf, w, e, pos, state, killed, under, call, saved, cpuVars, kb>>

ReadKilled(c, p) ==
  /\ At(c, p, "loop") /\ call[p] = "read" /\ r = w /\ killed[p]
  /\ Return(c, p)
  /\ UNCHANGED <<inputVars, pos, state, killed, under, call, left, got, saved, cpuVars, kb>>

\* sleep(&input.r, &cons.lock): both locks, give up the first, sched.
Sleep(c, p) ==
  /\ At(c, p, "loop") /\ call[p] = "read" /\ r = w /\ ~killed[p]
  /\ AcquireStart(c)
  /\ Goto(p, "slacq")
  /\ UNCHANGED <<inputVars, pos, state, killed, under, call, left, got, saved, cpuVars, kb>>
SleepLock(c, p) ==
  /\ At(c, p, "slacq")
  /\ AcquireDone(c, "ptable")
  /\ Goto(p, "slrel")
  /\ UNCHANGED <<inputVars, pos, state, killed, under, call, left, got, saved, cpuVars, kb>>
SleepRelease(c, p) ==
  /\ At(c, p, "slrel")
  /\ Release(c, "cons")
  /\ state' = [state EXCEPT ![p] = "sleeping"]
  /\ Goto(p, "ssched")
  /\ UNCHANGED <<inputVars, pos, killed, under, call, left, got, saved, cpuVars, kb>>

-----------------------------------------------------------------------------
(* yield, sched, forkret and scheduler *)

\* A timer interrupt in user or kernel code; the handler calls yield.
Timer(c, p) ==
  /\ kb[c] = "off" /\ cur[c] = p /\ iflag[c]
  /\ killed[p] => pc[p] # "user"
  /\ PushcliAt(c, FALSE)
  /\ under' = [under EXCEPT ![p] = pc[p]]
  /\ Goto(p, "yacq")
  /\ UNCHANGED <<lk, inputVars, pos, state, killed, call, left, got, saved, cpuVars, kb>>
YieldLock(c, p) ==
  /\ At(c, p, "yacq")
  /\ AcquireDone(c, "ptable")
  /\ state' = [state EXCEPT ![p] = "runnable"]
  /\ Goto(p, "ysched")
  /\ UNCHANGED <<inputVars, pos, killed, under, call, left, got, saved, cpuVars, kb>>

\* A trap ends a killed process on its way to user mode, a system call or an
\* interrupt: exit takes ptable.lock and does not come back from sched.
Exit(c, p) ==
  /\ At(c, p, "user") /\ killed[p]
  /\ \E f \in BOOLEAN : PushcliAt(c, f)
  /\ Goto(p, "xacq")
  /\ UNCHANGED <<lk, inputVars, pos, state, killed, under, call, left, got, saved, cpuVars, kb>>
ExitLock(c, p) ==
  /\ At(c, p, "xacq")
  /\ AcquireDone(c, "ptable")
  /\ state' = [state EXCEPT ![p] = "zombie"]
  /\ Goto(p, "xsched")
  /\ UNCHANGED <<inputVars, pos, killed, under, call, left, got, saved, cpuVars, kb>>

\* sched, up to swtch
Sched(c, p) ==
  /\ \/ At(c, p, "ssched") /\ Goto(p, "slept")
     \/ At(c, p, "ysched") /\ Goto(p, "yielded")
     \/ At(c, p, "xsched") /\ Goto(p, "dead")
  /\ saved' = [saved EXCEPT ![p] = intena[c]]
  /\ cur' = [cur EXCEPT ![c] = NoProc]
  /\ UNCHANGED <<spinVars, inputVars, pos, state, killed, under, call, left, got, sp, ran, kb>>

\* After swtch: intena is put back, ptable.lock released; sleep starts over
\* with acquire, yield returns to the interrupted code.  A new process returns
\* from forkret to user mode, with interrupts on or off till then.
Restored(c, p) == saved[p]
Resume(c, p) ==
  /\ \/ At(c, p, "slept") /\ Goto(p, "in")
     \/ At(c, p, "yielded") /\ Goto(p, "iret")
  /\ ReleaseWith(c, "ptable", Restored(c, p))
  /\ UNCHANGED <<inputVars, pos, state, killed, under, call, left, got, saved, cpuVars, kb>>
Forkret(c, p) ==
  /\ At(c, p, "new")
  /\ Release(c, "ptable")
  /\ Goto(p, "ret")
  /\ UNCHANGED <<inputVars, pos, state, killed, under, call, left, got, saved, cpuVars, kb>>
Iret(c, p) ==
  /\ \/ At(c, p, "iret") /\ Goto(p, under[p])
     \/ At(c, p, "ret") /\ Goto(p, "user")
  /\ Sti(c)
  /\ UNCHANGED <<inputVars, pos, state, killed, under, call, left, got, saved, cpuVars, kb>>

SchedSti(c) ==
  /\ SchedAt(c, "top")
  /\ Sti(c)
  /\ sp' = [sp EXCEPT ![c] = "idle"]
  /\ UNCHANGED <<inputVars, pos, procVars, cur, ran, kb>>
SchedEnter(c) ==
  /\ SchedAt(c, "idle")
  /\ AcquireStart(c)
  /\ sp' = [sp EXCEPT ![c] = "pass"]
  /\ UNCHANGED <<inputVars, pos, procVars, cur, ran, kb>>
SchedLock(c) ==
  /\ SchedAt(c, "pass")
  /\ AcquireDone(c, "ptable")
  /\ sp' = [sp EXCEPT ![c] = "held"]
  /\ ran' = [ran EXCEPT ![c] = FALSE]
  /\ UNCHANGED <<inputVars, pos, procVars, cur, kb>>
Run(c, p) ==
  /\ SchedAt(c, "held") /\ state[p] = "runnable"
  /\ state' = [state EXCEPT ![p] = "running"]
  /\ cur' = [cur EXCEPT ![c] = p]
  /\ ran' = [ran EXCEPT ![c] = TRUE]
  /\ UNCHANGED <<spinVars, inputVars, pos, killed, pc, under, call, left, got, saved, sp, kb>>

\* The end of a pass over the table; halt if it ran nobody.
EndPass(c) ==
  /\ SchedAt(c, "held")
  /\ ran[c] \/ \A p \in Procs : state[p] # "runnable"
  /\ Release(c, "ptable")
  /\ sp' = [sp EXCEPT ![c] = IF ran[c] THEN "top" ELSE "halt"]
  /\ UNCHANGED <<inputVars, pos, procVars, cur, ran, kb>>

\* A timer interrupt ends hlt, or the keyboard's has.
Unhalt(c) ==
  /\ SchedAt(c, "halt") /\ iflag[c]
  /\ sp' = [sp EXCEPT ![c] = "top"]
  /\ UNCHANGED <<spinVars, inputVars, pos, procVars, cur, ran, kb>>

\* kill, by some other process
Kill(p) ==
  /\ p \in prog.kills /\ ~killed[p] /\ lk["ptable"] = NoCpu
  /\ killed' = [killed EXCEPT ![p] = TRUE]
  /\ state' = [state EXCEPT ![p] = Woken(@)]
  /\ UNCHANGED <<spinVars, inputVars, pos, pc, under, call, left, got, saved, cpuVars, kb>>

-----------------------------------------------------------------------------
KbdStep(c) ==
  \/ KbdLock(c) \/ WakeLock(c) \/ Wakeup(c) \/ KbdDone(c) \/ KbdIret(c)
  \/ Edit(c) \/ \E ch \in Chars : Type(c, ch)

ProcStep(c, p) ==
  \/ Enter(c, p) \/ ConsLock(c, p) \/ ReadChar(c, p) \/ ReadKilled(c, p)
  \/ Sleep(c, p) \/ SleepLock(c, p) \/ SleepRelease(c, p)
  \/ YieldLock(c, p) \/ Exit(c, p) \/ ExitLock(c, p) \/ Sched(c, p) \/ Resume(c, p) \/ Forkret(c, p) \/ Iret(c, p)
  \/ \E ch \in Letters \cup {NL} : WriteChar(c, p, ch)

SchedStep(c) ==
  \/ SchedSti(c) \/ SchedEnter(c) \/ SchedLock(c) \/ EndPass(c) \/ Unhalt(c)
  \/ \E p \in Procs : Run(c, p)

Step ==
  \/ \E c \in CPUs : Keyboard(c) \/ KbdStep(c) \/ SchedStep(c)
  \/ \E c \in CPUs, p \in Procs :
       ProcStep(c, p) \/ Timer(c, p) \/ \E x \in prog.calls : Syscall(c, p, x[2], x[3])
  \/ \E p \in Procs : Kill(p)

Next == Step /\ UNCHANGED prog

Spec == Init /\ [][Next]_vars

-----------------------------------------------------------------------------
(* Properties *)

\* The labels at which a CPU spins for a lock, releases one, enters sched, and
\* those at which it has interrupts on.
AcquireAt == [cons |-> {"kacq", "acq"}, ptable |-> {"wacq", "pass", "slacq", "yacq", "xacq"}]
ReleaseAt == [cons |-> {"kin", "loop", "slrel"}, ptable |-> {"wake", "held", "slept", "yielded", "new"}]
SchedLabels == {"ssched", "ysched", "xsched"}
OnAt == {"user", "in", "idle", "halt"}

\* No assertion of spinlock.c, sched or cgaputc fails, however interrupts,
\* sleeping and moving between CPUs interleave: a CPU never spins for a lock it
\* holds itself ("acquire"), releases what it holds with interrupts off
\* ("release", "popcli"), enters sched with ptable.lock alone ("sched locks",
\* "sched interruptible"), and the cursor stays on the screen.
NoPanic ==
  /\ \A c \in CPUs, l \in Locks :
       /\ Label(c) \in AcquireAt[l] => MayAcquire(c, l)
       /\ Label(c) \in ReleaseAt[l] => MayRelease(c, l)
  /\ \A c \in CPUs :
       Label(c) \in SchedLabels =>
         lk["ptable"] = c /\ ncli[c] = 1 /\ ~iflag[c] /\ state[cur[c]] # "running"
  /\ pos \in 0..((ROWS - 1) * COLS - 1)

\* "It takes two popcli to undo two pushcli" (spinlock.c), also for a process
\* that slept on one CPU and goes on on another: interrupts are on wherever a
\* process or a scheduler holds no lock, halted CPUs included, and off in
\* handlers and critical sections.
InterruptsRestored ==
  \A c \in CPUs :
    /\ Label(c) \in OnAt => iflag[c]
    /\ (\E l \in Locks : lk[l] = c) \/ kb[c] # "off" => ~iflag[c]

\* No process sleeps in consoleread while there are characters to read, except
\* when the handler is on its way to wake it.
NoMissedInput ==
  \A p \in Procs :
    state[p] = "sleeping" => r = w \/ \E c \in CPUs : kb[c] \in {"wacq", "wake"}

\* The ring implements the line discipline of Terminal: the three counters never
\* run into each other, also when they wrap around.
Between(from, to) == [i \in 1..Gap(from, to) |-> buf[(from + i - 1) % INPUT_BUF]]
T == INSTANCE Terminal WITH
       Ends <- {NL, EOF}, SIZE <- INPUT_BUF, line <- Between(w, e), ready <- Between(r, w)
TerminalSpec == T!Spec
=============================================================================
