---------------------------- MODULE ConsoleProofs ---------------------------
(***************************************************************************)
(* Proofs about Console, for every number of CPUs and processes and every  *)
(* program: the assertions of spinlock.c and sched never fail, interrupts  *)
(* are on where they must be, and no input is missed.                      *)
(***************************************************************************)
EXTENDS ConsoleStepProofs

\* Zenon takes most leaves; SMT the ones with arithmetic or many cases.
USE Zenon

(* The steps of the scheduler, and the switches to and from it *)

\* The inductive invariant survives the sti of scheduler.
LEMMA SchedStiInv ==
  ASSUME IInv, NEW c \in CPUs, SchedSti(c)
  PROVE  IInv'
<1> USE Consts
<1>1. TypeOK /\ SpinOK /\ Local(c) /\ Placed(c)
  BY DEF IInv, TypeOK
<1>2. Label(c) = "top"
  BY DEF SchedSti, SchedAt, Label
<1>3. /\ SpinOK' /\ Elsewhere(c)
      /\ iflag'[c] = TRUE /\ lk' = lk /\ ncli' = ncli /\ intena' = intena
  BY <1>1, StiEffect DEF SchedSti
<1>4. TypeOK'
  BY <1>1, <1>2, <1>3 DEF TypeOK, SchedSti, SchedAt, SchedulerLabels, inputVars, procVars, cpuVars
<1>5. Label(c)' = "idle"
  BY <1>1, <1>2 DEF TypeOK, SchedSti, SchedAt, Label, inputVars, procVars, cpuVars
<1>6. Local(c)'
  <2>1. lk'["cons"] # c /\ lk'["ptable"] # c /\ ncli'[c] = 0 /\ iflag'[c] = TRUE
    BY <1>1, <1>2, <1>3, <1>5 DEF Local, ConsAt, TableAt, DepthAt, OnAt, EnableAt, DisableAt, SpinOK
  <2> QED
    BY <1>5, <2>1 DEF Local, ConsAt, TableAt, DepthAt, OnAt, EnableAt, DisableAt
<1>7. Placed(c)'
  BY <1>1, <1>2 DEF TypeOK, Placed, Label, Open, SchedSti, SchedAt, inputVars, procVars, cpuVars
<1>8. NoMissedInput'
  BY <1>1 DEF IInv, TypeOK, NoMissedInput, SchedSti, SchedAt, inputVars, procVars, cpuVars
<1>9. \A d \in CPUs \ {c} : Untouched(d)
  BY <1>1 DEF TypeOK, Untouched, SchedSti, SchedAt, inputVars, procVars, cpuVars
<1>10. \A d \in CPUs : Label(d) \in {"slacq", "slrel"} => r' = w'
  <2>1. r' = r /\ w' = w
    BY DEF SchedSti, inputVars
  <2> QED
    BY <2>1 DEF IInv, Local
<1> QED
  BY <1>3, <1>4, <1>6, <1>7, <1>8, <1>9, <1>10, CpuMove DEF SchedSti, inputVars, procVars, cpuVars

\* The inductive invariant survives scheduler calling acquire.
LEMMA SchedEnterInv ==
  ASSUME IInv, NEW c \in CPUs, SchedEnter(c)
  PROVE  IInv'
<1> USE Consts
<1>1. TypeOK /\ SpinOK /\ Local(c) /\ Placed(c)
  BY DEF IInv, TypeOK
<1>2. Label(c) = "idle"
  BY DEF SchedEnter, SchedAt, Label
<1>3. /\ SpinOK' /\ Elsewhere(c)
      /\ iflag'[c] = FALSE /\ ncli'[c] = ncli[c] + 1 /\ lk' = lk
      /\ intena'[c] = TRUE
  <2>1. ncli[c] = 0 /\ iflag[c] = TRUE /\ iflag[c] \in BOOLEAN
    BY <1>1, <1>2 DEF SpinOK, Local, DepthAt, OnAt
  <2> QED
    BY <1>1, <2>1, PushEffect DEF SchedEnter, AcquireStart
<1>4. TypeOK'
  BY <1>1, <1>2, <1>3 DEF TypeOK, SchedEnter, SchedAt, SchedulerLabels, inputVars, procVars, cpuVars
<1>5. Label(c)' = "pass"
  BY <1>1, <1>2 DEF TypeOK, SchedEnter, SchedAt, Label, inputVars, procVars, cpuVars
<1>6. Local(c)'
  <2>1. lk'["cons"] # c /\ lk'["ptable"] # c /\ ncli'[c] = 1 /\ iflag'[c] = FALSE /\ intena'[c] = TRUE
    BY <1>1, <1>2, <1>3, <1>5, SMT DEF Local, ConsAt, TableAt, DepthAt, OnAt, EnableAt, DisableAt, SpinOK
  <2> QED
    BY <1>5, <2>1 DEF Local, ConsAt, TableAt, DepthAt, OnAt, EnableAt, DisableAt
<1>7. Placed(c)'
  BY <1>1, <1>2 DEF TypeOK, Placed, Label, Open, SchedEnter, SchedAt, inputVars, procVars, cpuVars
<1>8. NoMissedInput'
  BY <1>1 DEF IInv, TypeOK, NoMissedInput, SchedEnter, SchedAt, inputVars, procVars, cpuVars
<1>9. \A d \in CPUs \ {c} : Untouched(d)
  BY <1>1 DEF TypeOK, Untouched, SchedEnter, SchedAt, inputVars, procVars, cpuVars
<1>10. \A d \in CPUs : Label(d) \in {"slacq", "slrel"} => r' = w'
  <2>1. r' = r /\ w' = w
    BY DEF SchedEnter, inputVars
  <2> QED
    BY <2>1 DEF IInv, Local
<1> QED
  BY <1>3, <1>4, <1>6, <1>7, <1>8, <1>9, <1>10, CpuMove DEF SchedEnter, inputVars, procVars, cpuVars

\* The inductive invariant survives scheduler taking ptable.lock.
LEMMA SchedLockInv ==
  ASSUME IInv, NEW c \in CPUs, SchedLock(c)
  PROVE  IInv'
<1> USE Consts
<1>1. TypeOK /\ SpinOK /\ Local(c) /\ Placed(c)
  BY DEF IInv, TypeOK
<1>2. Label(c) = "pass"
  BY DEF SchedLock, SchedAt, Label
<1>3. /\ SpinOK' /\ Elsewhere(c)
      /\ lk'["ptable"] = c /\ lk'["cons"] = lk["cons"]
      /\ iflag' = iflag /\ ncli' = ncli /\ intena' = intena
  BY <1>1, LockEffect DEF SchedLock, Locks
<1>4. TypeOK'
  BY <1>1, <1>2, <1>3 DEF TypeOK, SchedLock, SchedAt, SchedulerLabels, inputVars, procVars, cpuVars
<1>5. Label(c)' = "held"
  BY <1>1, <1>2 DEF TypeOK, SchedLock, SchedAt, Label, inputVars, procVars, cpuVars
<1>6. Local(c)'
  <2>1. lk'["cons"] # c /\ lk'["ptable"] = c /\ ncli'[c] = 1 /\ iflag'[c] = FALSE /\ intena'[c] = TRUE
    BY <1>1, <1>2, <1>3, <1>5 DEF Local, ConsAt, TableAt, DepthAt, OnAt, EnableAt, DisableAt, SpinOK
  <2> QED
    BY <1>5, <2>1 DEF Local, ConsAt, TableAt, DepthAt, OnAt, EnableAt, DisableAt
<1>7. Placed(c)'
  BY <1>1, <1>2 DEF TypeOK, Placed, Label, Open, SchedLock, SchedAt, inputVars, procVars, cpuVars
<1>8. NoMissedInput'
  BY <1>1 DEF IInv, TypeOK, NoMissedInput, SchedLock, SchedAt, inputVars, procVars, cpuVars
<1>9. \A d \in CPUs \ {c} : Untouched(d)
  BY <1>1 DEF TypeOK, Untouched, SchedLock, SchedAt, inputVars, procVars, cpuVars
<1>10. \A d \in CPUs : Label(d) \in {"slacq", "slrel"} => r' = w'
  <2>1. r' = r /\ w' = w
    BY DEF SchedLock, inputVars
  <2> QED
    BY <2>1 DEF IInv, Local
<1> QED
  BY <1>3, <1>4, <1>6, <1>7, <1>8, <1>9, <1>10, CpuMove DEF SchedLock, inputVars, procVars, cpuVars

\* The inductive invariant survives the end of a pass of scheduler.
LEMMA EndPassInv ==
  ASSUME IInv, NEW c \in CPUs, EndPass(c)
  PROVE  IInv'
<1> USE Consts
<1>1. TypeOK /\ SpinOK /\ Local(c) /\ Placed(c)
  BY DEF IInv, TypeOK
<1>2. Label(c) = "held"
  BY DEF EndPass, SchedAt, Label
<1>3. /\ SpinOK' /\ Elsewhere(c)
      /\ lk'["ptable"] = NoCpu /\ lk'["cons"] = lk["cons"]
      /\ ncli'[c] = ncli[c] - 1 /\ intena'[c] = intena[c]
      /\ iflag'[c] <=> (iflag[c] \/ (ncli[c] = 1 /\ intena[c]))
  <2>1. lk["ptable"] = c
    BY <1>1, <1>2 DEF Local, ConsAt, TableAt
  <2>2. intena[c] \in BOOLEAN
    BY <1>1 DEF TypeOK, SpinOK
  <2> QED
    BY <1>1, <2>1, <2>2, ReleaseEffect, SMT DEF EndPass, Release, Locks
<1>4. TypeOK'
  BY <1>1, <1>2, <1>3 DEF TypeOK, EndPass, SchedAt, SchedulerLabels, inputVars, procVars, cpuVars
<1>5. Label(c)' \in {"top", "halt"} /\ (Label(c)' = "halt" => ~ran[c])
  BY <1>1, <1>2 DEF TypeOK, EndPass, SchedAt, Label, inputVars, procVars, cpuVars
<1>6. Local(c)'
  <2>1. lk'["cons"] # c /\ lk'["ptable"] # c /\ ncli'[c] = 0 /\ (Label(c)' = "halt" => iflag'[c])
    BY <1>1, <1>2, <1>3, <1>5, SMT DEF Local, ConsAt, TableAt, DepthAt, OnAt, EnableAt, DisableAt, SpinOK
  <2> QED
    BY <1>5, <2>1 DEF Local, ConsAt, TableAt, DepthAt, OnAt, EnableAt, DisableAt
<1>7. Placed(c)'
  BY <1>1, <1>2 DEF TypeOK, Placed, Label, Open, EndPass, SchedAt, inputVars, procVars, cpuVars
<1>8. NoMissedInput'
  BY <1>1 DEF IInv, TypeOK, NoMissedInput, EndPass, SchedAt, inputVars, procVars, cpuVars
<1>9. \A d \in CPUs \ {c} : Untouched(d)
  BY <1>1 DEF TypeOK, Untouched, EndPass, SchedAt, inputVars, procVars, cpuVars
<1>10. \A d \in CPUs : Label(d) \in {"slacq", "slrel"} => r' = w'
  <2>1. r' = r /\ w' = w
    BY DEF EndPass, inputVars
  <2> QED
    BY <2>1 DEF IInv, Local
<1> QED
  BY <1>3, <1>4, <1>6, <1>7, <1>8, <1>9, <1>10, CpuMove DEF EndPass, inputVars, procVars, cpuVars

\* The inductive invariant survives the end of hlt.
LEMMA UnhaltInv ==
  ASSUME IInv, NEW c \in CPUs, Unhalt(c)
  PROVE  IInv'
<1> USE Consts
<1>1. TypeOK /\ SpinOK /\ Local(c) /\ Placed(c)
  BY DEF IInv, TypeOK
<1>2. Label(c) = "halt"
  BY DEF Unhalt, SchedAt, Label
<1>3. /\ SpinOK' /\ Elsewhere(c)
      /\ lk' = lk /\ iflag' = iflag /\ ncli' = ncli /\ intena' = intena
  BY <1>1 DEF SpinOK, Elsewhere, Unhalt, spinVars
<1>4. TypeOK'
  BY <1>1, <1>2, <1>3 DEF TypeOK, Unhalt, SchedAt, SchedulerLabels, inputVars, procVars, cpuVars
<1>5. Label(c)' = "top"
  BY <1>1, <1>2 DEF TypeOK, Unhalt, SchedAt, Label, inputVars, procVars, cpuVars
<1>6. Local(c)'
  <2>1. lk'["cons"] # c /\ lk'["ptable"] # c /\ ncli'[c] = 0
    BY <1>1, <1>2, <1>3, <1>5 DEF Local, ConsAt, TableAt, DepthAt, OnAt, EnableAt, DisableAt, SpinOK
  <2> QED
    BY <1>5, <2>1 DEF Local, ConsAt, TableAt, DepthAt, OnAt, EnableAt, DisableAt
<1>7. Placed(c)'
  BY <1>1, <1>2 DEF TypeOK, Placed, Label, Open, Unhalt, SchedAt, inputVars, procVars, cpuVars
<1>8. NoMissedInput'
  BY <1>1 DEF IInv, TypeOK, NoMissedInput, Unhalt, SchedAt, inputVars, procVars, cpuVars
<1>9. \A d \in CPUs \ {c} : Untouched(d)
  BY <1>1 DEF TypeOK, Untouched, Unhalt, SchedAt, inputVars, procVars, cpuVars
<1>10. \A d \in CPUs : Label(d) \in {"slacq", "slrel"} => r' = w'
  <2>1. r' = r /\ w' = w
    BY DEF Unhalt, inputVars
  <2> QED
    BY <2>1 DEF IInv, Local
<1> QED
  BY <1>3, <1>4, <1>6, <1>7, <1>8, <1>9, <1>10, CpuMove DEF Unhalt, inputVars, procVars, cpuVars

\* The inductive invariant survives the switch to the scheduler: the lock, the
\* depth and the flag pass to it, the process keeps intena.
LEMMA SchedInv ==
  ASSUME IInv, NEW c \in CPUs, NEW p \in Procs, Sched(c, p)
  PROVE  IInv'
<1> USE Consts
<1>1. TypeOK /\ SpinOK /\ Local(c) /\ Placed(c) /\ OneCpu /\ Suspended(p)
  BY DEF IInv, TypeOK
<1>2. /\ Label(c) = pc[p] /\ cur[c] = p /\ kb[c] = "off" /\ sp[c] = "held"
      /\ pc[p] \in {"ssched", "ysched", "xsched"}
      /\ pc'[p] = CASE pc[p] = "ssched" -> "slept" [] pc[p] = "ysched" -> "yielded" [] OTHER -> "dead"
  BY <1>1, SMT DEF TypeOK, Sched, At, Goto, Label, Placed
<1>3. TypeOK' /\ saved'[p] = intena[c] /\ cur'[c] = NoProc
  BY <1>1, <1>2, SMT DEF TypeOK, SpinOK, Sched, Goto, At, ProcLabels, spinVars
<1>4. /\ \A d \in CPUs \ {c} : cur'[d] = cur[d] /\ cur[d] # p
      /\ \A q \in Procs \ {p} : pc'[q] = pc[q] /\ saved'[q] = saved[q]
      /\ UNCHANGED <<state, lk, iflag, ncli, intena, sp, ran, kb, r, w>>
  BY <1>1, <1>2, SMT DEF TypeOK, OneCpu, Sched, Goto, spinVars, inputVars
<1>5. ASSUME NEW d \in CPUs PROVE Local(d)'
  <2>1. CASE d = c
    <3>1. Label(c)' = "held"
      BY <1>2, <1>3, <1>4 DEF Label
    <3>2. ran'[c]
      BY <1>1, <1>2, <1>4 DEF Placed
    <3>3. lk'["cons"] # c /\ lk'["ptable"] = c /\ ncli'[c] = 1 /\ iflag'[c] = FALSE
      BY <1>1, <1>2, <1>4, SMT DEF Local, ConsAt, TableAt, DepthAt, OnAt, EnableAt, DisableAt, SpinOK
    <3> QED
      BY <2>1, <3>1, <3>2, <3>3 DEF Local, ConsAt, TableAt, DepthAt, OnAt, EnableAt, DisableAt
  <2>2. CASE d # c
    <3>1. Label(d)' = Label(d) /\ Local(d)
      BY <2>2, <1>1, <1>4 DEF IInv, Label, TypeOK
    <3> QED
      BY <3>1, <1>4 DEF Local
  <2> QED
    BY <2>1, <2>2
<1>6. ASSUME NEW d \in CPUs PROVE Placed(d)'
  <2>1. CASE d = c
    BY <2>1, <1>2, <1>3, <1>4 DEF Placed
  <2>2. CASE d # c
    <3>1. Placed(d) /\ cur'[d] = cur[d] /\ cur[d] \in Procs \cup {NoProc}
      BY <2>2, <1>1, <1>4 DEF IInv, TypeOK
    <3>2. cur[d] # NoProc => pc'[cur[d]] = pc[cur[d]]
      BY <2>2, <1>4, <3>1
    <3> QED
      BY <3>1, <3>2, <1>4, SMT DEF Placed
  <2> QED
    BY <2>1, <2>2
<1>7. OneCpu'
  BY <1>1, <1>3, <1>4, SMT DEF OneCpu
<1>8. ASSUME NEW q \in Procs PROVE Suspended(q)'
  <2>1. CASE q = p
    <3>1. pc[p] = "ssched" => intena[c]
      BY <1>1, <1>2 DEF Local, EnableAt
    <3>2. pc[p] = "ysched" => ~intena[c]
      BY <1>1, <1>2 DEF Local, DisableAt
    <3> QED
      BY <2>1, <1>1, <1>2, <1>3, <1>4, <3>1, <3>2 DEF Suspended
  <2>2. CASE q # p
    <3>1. (\A d \in CPUs : cur'[d] # q) => \A d \in CPUs : cur[d] # q
      BY <2>2, <1>2, <1>4
    <3> QED
      BY <2>2, <1>4, <3>1, SMT DEF IInv, Suspended
  <2> QED
    BY <2>1, <2>2
<1>9. NoMissedInput'
  BY <1>4 DEF IInv, NoMissedInput
<1> QED
  BY <1>3, <1>5, <1>6, <1>7, <1>8, <1>9 DEF IInv

\* The inductive invariant survives the switch to a process: the lock, the
\* depth and the flag pass to it.
LEMMA RunInv ==
  ASSUME IInv, NEW c \in CPUs, NEW p \in Procs, Run(c, p)
  PROVE  IInv'
<1> USE Consts
<1>1. TypeOK /\ SpinOK /\ Local(c) /\ Placed(c) /\ OneCpu /\ Suspended(p)
  BY DEF IInv, TypeOK
<1>2. Label(c) = "held" /\ kb[c] = "off" /\ cur[c] = NoProc /\ sp[c] = "held" /\ lk["ptable"] = c
  BY <1>1 DEF Run, SchedAt, Label, Local, ConsAt, TableAt
<1>3. \A d \in CPUs : cur[d] # p
  <2> SUFFICES ASSUME NEW d \in CPUs, cur[d] = p PROVE FALSE
    OBVIOUS
  <2>1. pc[p] \in SchedLabels
    BY <1>1 DEF IInv, Placed, Run
  <2>2. Label(d) = pc[p]
    BY <2>1, SMT DEF IInv, Placed, Label, Open, SchedLabels
  <2>3. lk["ptable"] = d
    BY <2>1, <2>2 DEF IInv, Local, ConsAt, TableAt, SchedLabels
  <2> QED
    BY <1>2, <2>3
<1>4. pc[p] \in {"slept", "yielded", "new"}
  BY <1>1, <1>3 DEF Suspended, Run
<1>5. /\ TypeOK' /\ cur'[c] = p /\ ran'[c] /\ state'[p] = "running"
      /\ \A d \in CPUs \ {c} : cur'[d] = cur[d] /\ ran'[d] = ran[d]
      /\ \A q \in Procs \ {p} : state'[q] = state[q]
      /\ UNCHANGED <<pc, saved, lk, iflag, ncli, intena, sp, kb, r, w>>
  BY <1>1 DEF TypeOK, SpinOK, Run, spinVars, inputVars
<1>6. ASSUME NEW d \in CPUs PROVE Local(d)'
  <2>1. CASE d = c
    <3>1. Label(c)' = pc[p]
      BY <1>2, <1>5 DEF Label
    <3>2. lk'["cons"] # c /\ lk'["ptable"] = c /\ ncli'[c] = 1 /\ iflag'[c] = FALSE
      BY <1>1, <1>2, <1>5, SMT DEF Local, ConsAt, TableAt, DepthAt, OnAt, EnableAt, DisableAt, SpinOK
    <3> QED
      BY <2>1, <1>4, <3>1, <3>2 DEF Local, ConsAt, TableAt, DepthAt, OnAt, EnableAt, DisableAt
  <2>2. CASE d # c
    <3>1. Label(d)' = Label(d) /\ Local(d)
      BY <2>2, <1>5 DEF IInv, Label
    <3> QED
      BY <2>2, <3>1, <1>5, SMT DEF Local
  <2> QED
    BY <2>1, <2>2
<1>7. ASSUME NEW d \in CPUs PROVE Placed(d)'
  <2>1. CASE d = c
    BY <2>1, <1>2, <1>4, <1>5 DEF Placed
  <2>2. CASE d # c
    <3>1. Placed(d) /\ cur'[d] = cur[d] /\ ran'[d] = ran[d] /\ cur[d] \in Procs \cup {NoProc}
      BY <2>2, <1>1, <1>5 DEF IInv, TypeOK
    <3>2. cur[d] # NoProc => state'[cur[d]] = state[cur[d]]
      BY <1>3, <1>5, <3>1
    <3> QED
      BY <3>1, <3>2, <1>5 DEF Placed
  <2> QED
    BY <2>1, <2>2
<1>8. OneCpu'
  <2>1. ASSUME NEW a \in CPUs, NEW b \in CPUs, cur'[a] # NoProc, cur'[a] = cur'[b] PROVE a = b
    <3>1. \A d \in CPUs : cur'[d] = IF d = c THEN p ELSE cur[d]
      BY <1>5
    <3> QED
      BY <2>1, <1>1, <1>3, <3>1 DEF OneCpu
  <2> QED
    BY <2>1 DEF OneCpu
<1>9. ASSUME NEW q \in Procs PROVE Suspended(q)'
  <2>1. CASE q = p
    BY <2>1, <1>1, <1>4, <1>5 DEF Suspended
  <2>2. CASE q # p
    <3>1. (\A d \in CPUs : cur'[d] # q) => \A d \in CPUs : cur[d] # q
      BY <2>2, <1>2, <1>5, SMT
    <3>2. Suspended(q) /\ state'[q] = state[q]
      BY <2>2, <1>5 DEF IInv
    <3> QED
      BY <3>1, <3>2, <1>5 DEF Suspended
  <2> QED
    BY <2>1, <2>2
<1>10. NoMissedInput'
  BY <1>5, SMT DEF IInv, NoMissedInput
<1> QED
  BY <1>5, <1>6, <1>7, <1>8, <1>9, <1>10 DEF IInv

-----------------------------------------------------------------------------
(* The inductive invariant, and what follows from it *)

\* The inductive invariant survives kill: with ptable.lock free, no process is
\* on its way into sched.
LEMMA KillInv ==
  ASSUME IInv, NEW p \in Procs, Kill(p)
  PROVE  IInv'
<1> USE Consts
<1>1. TypeOK /\ SpinOK
  BY DEF IInv, TypeOK
<1>2. pc[p] # "ssched"
  <2> SUFFICES ASSUME pc[p] = "ssched" PROVE FALSE
    OBVIOUS
  <2>1. PICK d \in CPUs : cur[d] = p
    BY DEF IInv, Suspended
  <2>2. Label(d) = "ssched"
    BY <2>1 DEF IInv, Placed, Label, Open
  <2>3. lk["ptable"] = d
    BY <2>2 DEF IInv, Local, ConsAt, TableAt
  <2> QED
    BY <2>3 DEF Kill
<1>3. /\ TypeOK'
      /\ state'[p] = IF state[p] = "sleeping" THEN "runnable" ELSE state[p]
      /\ \A q \in Procs \ {p} : state'[q] = state[q]
      /\ UNCHANGED <<pc, saved, cur, ran, lk, iflag, ncli, intena, sp, kb, r, w>>
  BY <1>1 DEF TypeOK, SpinOK, Kill, Woken, spinVars, inputVars, cpuVars
<1>4. ASSUME NEW d \in CPUs PROVE Local(d)'
  <2>1. Label(d)' = Label(d) /\ Local(d)
    BY <1>3 DEF IInv, Label
  <2> QED
    BY <2>1, <1>3 DEF Local
<1>5. ASSUME NEW d \in CPUs PROVE Placed(d)'
  <2>1. Placed(d) /\ cur[d] \in Procs \cup {NoProc}
    BY <1>1 DEF IInv, TypeOK
  <2>2. cur[d] # NoProc /\ state[cur[d]] = "running" => state'[cur[d]] = "running"
    BY <1>3, <2>1
  <2> QED
    BY <2>1, <2>2, <1>3 DEF Placed
<1>6. OneCpu'
  BY <1>3 DEF IInv, OneCpu
<1>7. ASSUME NEW q \in Procs PROVE Suspended(q)'
  BY <1>2, <1>3 DEF IInv, Suspended
<1>8. NoMissedInput'
  BY <1>3 DEF IInv, NoMissedInput
<1> QED
  BY <1>3, <1>4, <1>5, <1>6, <1>7, <1>8 DEF IInv

-----------------------------------------------------------------------------
\* Initially every CPU is about to enter scheduler, and every process new.
LEMMA InitInv == Init => IInv
<1> SUFFICES ASSUME Init PROVE IInv
  OBVIOUS
<1> USE Consts DEF Init, SpinInit
<1>1. TypeOK
  BY SMT DEF TypeOK, SpinOK, Locks, ProcLabels, SchedulerLabels, KbdLabels
<1>2. ASSUME NEW c \in CPUs PROVE Label(c) = "top" /\ Placed(c)
  BY DEF Label, Placed
<1>3. ASSUME NEW c \in CPUs PROVE Local(c)
  <2>1. Label(c) = "top" /\ lk["cons"] # c /\ lk["ptable"] # c /\ ncli[c] = 0 /\ ~iflag[c]
    BY <1>2 DEF Locks
  <2> QED
    BY <2>1 DEF Local, ConsAt, TableAt, DepthAt, OnAt, EnableAt, DisableAt
<1>4. OneCpu /\ NoMissedInput
  BY DEF OneCpu, NoMissedInput
<1>5. ASSUME NEW p \in Procs PROVE Suspended(p)
  BY DEF Suspended
<1> QED
  BY <1>1, <1>2, <1>3, <1>4, <1>5 DEF IInv

\* Every step preserves the inductive invariant.
LEMMA NextInv == IInv /\ [Next]_vars => IInv'
<1> SUFFICES ASSUME IInv, [Next]_vars PROVE IInv'
  OBVIOUS
<1>1. ASSUME NEW c \in CPUs, Keyboard(c) \/ KbdStep(c) PROVE IInv'
  BY <1>1, KeyboardInv, KbdLockInv, WakeLockInv, WakeupInv, KbdDoneInv, KbdIretInv, EditInv, TypeInv
     DEF KbdStep
<1>2. ASSUME NEW c \in CPUs, SchedStep(c) PROVE IInv'
  BY <1>2, SchedStiInv, SchedEnterInv, SchedLockInv, EndPassInv, UnhaltInv, RunInv DEF SchedStep
<1>3. ASSUME NEW c \in CPUs, NEW p \in Procs, ProcStep(c, p) PROVE IInv'
  BY <1>3, EnterInv, ConsLockInv, ReadCharInv, ReadKilledInv, SleepInv, SleepLockInv, SleepReleaseInv,
     YieldLockInv, ExitInv, ExitLockInv, SchedInv, ResumeInv, ForkretInv, IretInv, WriteCharInv
     DEF ProcStep
<1>4. CASE UNCHANGED vars
  <2>1. UNCHANGED <<lk, iflag, ncli, intena, state, killed, saved, pc, under, cur, sp, ran, kb, r, w>>
    BY <1>4 DEF vars, spinVars, inputVars, procVars, cpuVars
  <2>2. TypeOK'
    BY <2>1 DEF IInv, TypeOK, SpinOK
  <2>3. ASSUME NEW c \in CPUs PROVE Local(c)' /\ Placed(c)'
    <3>1. Local(c) /\ Placed(c) /\ Label(c)' = Label(c)
      BY <2>1 DEF IInv, Label
    <3> QED
      BY <2>1, <3>1, SMT DEF Local, Placed
  <2>4. OneCpu' /\ NoMissedInput'
    BY <2>1 DEF IInv, OneCpu, NoMissedInput
  <2>5. ASSUME NEW p \in Procs PROVE Suspended(p)'
    BY <2>1 DEF IInv, Suspended
  <2> QED
    BY <2>2, <2>3, <2>4, <2>5 DEF IInv
<1> QED
  BY <1>1, <1>2, <1>3, <1>4, TimerInv, SyscallInv, KillInv DEF Next, Step

\* The invariant holds in every reachable state.
THEOREM Invariance == Spec => []IInv
BY InitInv, NextInv, PTL DEF Spec

\* Interrupts are on wherever a process or a scheduler holds no lock, and off in
\* handlers and critical sections (pushcli, popcli, sched), however processes
\* move between CPUs.
THEOREM InterruptsAreRestored == Spec => []InterruptsRestored
<1>1. IInv => InterruptsRestored
  <2> SUFFICES ASSUME IInv, NEW c \in CPUs
               PROVE  /\ Label(c) \in OnAt => iflag[c]
                      /\ (\E l \in Locks : lk[l] = c) \/ kb[c] # "off" => ~iflag[c]
    BY DEF InterruptsRestored
  <2>1. Local(c) /\ TypeOK
    BY DEF IInv
  <2>2. \A l \in Locks : lk[l] = c => Label(c) \notin OnAt \cup {"top", "ret"}
    BY <2>1 DEF Local, Locks, ConsAt, TableAt, OnAt
  <2>3. kb[c] # "off" => Label(c) \notin OnAt \cup {"top", "ret"}
    BY <2>1 DEF TypeOK, KbdLabels, Label, OnAt
  <2> QED
    BY <2>1, <2>2, <2>3 DEF Local
<1> QED
  BY <1>1, Invariance, PTL

\* No process sleeps in consoleread while there are characters to read, unless
\* consoleintr is on its way to wake it.
THEOREM NoInputMissed == Spec => []NoMissedInput
<1>1. IInv => NoMissedInput
  BY DEF IInv
<1> QED
  BY <1>1, Invariance, PTL

\* The assertions of acquire, release, popcli and sched never fail: a CPU spins
\* only for a lock that another holds, releases only what it holds, with
\* interrupts off, and enters sched with ptable.lock and no other.
LocksSafe ==
  /\ \A c \in CPUs, l \in Locks :
       /\ Label(c) \in AcquireAt[l] => MayAcquire(c, l)
       /\ Label(c) \in ReleaseAt[l] => MayRelease(c, l)
  /\ \A c \in CPUs :
       Label(c) \in SchedLabels =>
         lk["ptable"] = c /\ ncli[c] = 1 /\ ~iflag[c] /\ state[cur[c]] # "running"
THEOREM LocksNeverPanic == Spec => []LocksSafe
<1>1. IInv => LocksSafe
  <2> SUFFICES ASSUME IInv PROVE LocksSafe
    OBVIOUS
  <2>1. ASSUME NEW c \in CPUs, NEW l \in Locks, Label(c) \in AcquireAt[l] PROVE MayAcquire(c, l)
    <3>1. Local(c)
      BY DEF IInv
    <3> QED
      BY <2>1, <3>1, SMT DEF Local, Locks, AcquireAt, ConsAt, TableAt, MayAcquire, Holding
  <2>2. ASSUME NEW c \in CPUs, NEW l \in Locks, Label(c) \in ReleaseAt[l] PROVE MayRelease(c, l)
    <3>1. Local(c)
      BY DEF IInv
    <3>2. Label(c) \notin OnAt \cup {"top", "ret"} /\ DepthAt(Label(c)) > 0
      BY <2>2, SMT DEF Locks, ReleaseAt, OnAt, DepthAt
    <3>3. lk[l] = c
      BY <2>2, <3>1, SMT DEF Local, Locks, ReleaseAt, ConsAt, TableAt
    <3> QED
      BY <3>1, <3>2, <3>3 DEF Local, MayRelease, Holding
  <2>3. ASSUME NEW c \in CPUs, Label(c) \in SchedLabels
        PROVE  lk["ptable"] = c /\ ncli[c] = 1 /\ ~iflag[c] /\ state[cur[c]] # "running"
    <3>1. lk["ptable"] = c /\ ncli[c] = 1 /\ ~iflag[c]
      BY <2>3, Local(c) DEF IInv, Local, TableAt, DepthAt, OnAt, SchedLabels
    <3>2. cur[c] \in Procs /\ pc[cur[c]] \in SchedLabels
      BY <2>3, SMT DEF IInv, TypeOK, Label, SchedLabels, KbdLabels, SchedulerLabels
    <3>3. state[cur[c]] # "running"
      BY <3>2 DEF IInv, Suspended, SchedLabels
    <3> QED
      BY <3>1, <3>3
  <2> QED
    BY <2>1, <2>2, <2>3 DEF LocksSafe
<1> QED
  BY <1>1, Invariance, PTL
=============================================================================
