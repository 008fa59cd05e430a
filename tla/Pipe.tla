-------------------------------- MODULE Pipe --------------------------------
(***************************************************************************)
(* One pipe of pipe.c, from pipealloc to the kfree of pipeclose, shared by  *)
(* processes that hold its read end and processes that hold its write end.  *)
(*                                                                          *)
(* pipewrite and piperead run with p->lock held; the lock is given up only  *)
(* inside sleep, together with the change to SLEEPING (ptable.lock makes    *)
(* the two one step).  kill sets proc->killed without p->lock, at any time. *)
(***************************************************************************)
EXTENDS Integers, Sequences, FiniteSets

CONSTANTS Readers, Writers, Bytes,
          PIPESIZE,
          Width,      \* nread and nwrite count modulo Width (2^32 in the code)
          MaxN,       \* the largest n of a read or write
          Kills,      \* the processes that kill may hit
          NoProc

Procs == Readers \cup Writers

ASSUME PipeAssumption ==
  /\ PIPESIZE \in Nat \ {0} /\ Width \in Nat /\ MaxN \in Nat
  /\ Width % PIPESIZE = 0 /\ Width > PIPESIZE
  /\ Readers # {} /\ Writers # {} /\ Readers \cap Writers = {}
  /\ NoProc \notin Procs /\ Kills \subseteq Procs

VARIABLES data, nread, nwrite, readopen, writeopen,   \* struct pipe
          freed,      \* the page of the pipe went back to kalloc
          lock,       \* who holds p->lock
          holds,      \* the processes with an open descriptor for their end
          pc,         \* where each process is
          left,       \* bytes still to transfer: n - i
          got,        \* bytes a read has transferred: i
          killed

pipeVars == <<data, nread, nwrite, readopen, writeopen>>
vars == <<pipeVars, freed, lock, holds, pc, left, got, killed>>

\* pipealloc, and the descriptors as fork has passed them on.
Init ==
  /\ data \in [0..(PIPESIZE - 1) -> Bytes]
  /\ nread = 0 /\ nwrite = 0
  /\ readopen = TRUE /\ writeopen = TRUE /\ freed = FALSE
  /\ lock = NoProc
  /\ holds = Procs
  /\ pc = [p \in Procs |-> "user"]
  /\ left = [p \in Procs |-> 0]
  /\ got = [p \in Procs |-> 0]
  /\ killed = [p \in Procs |-> FALSE]

-----------------------------------------------------------------------------
(* Seeded faults: variants of definitions below that the properties reject. *)

\* pipewrite: the full test compares without wrapping.
Full_NoWrap == nwrite = nread + PIPESIZE

\* piperead: an empty pipe is the end of the file.
ReadMustWait_Never == FALSE

\* pipewrite: a writer going to sleep does not wake the readers.
FullWakeup_None == pc

\* pipeclose: the page is freed when either end closes.
BothClosed_Either == ~readopen' \/ ~writeopen'
-----------------------------------------------------------------------------
Succ(n) == (n + 1) % Width
Full == nwrite = (nread + PIPESIZE) % Width
Empty == nread = nwrite

\* wakeup(&p->nread) for P = Readers, wakeup(&p->nwrite) for P = Writers
Wakeup(P) == [q \in Procs |-> IF q \in P /\ pc[q] = "asleep" THEN "lock" ELSE pc[q]]

\* The read or write system call, up to acquire.
Call(p, n) ==
  /\ pc[p] = "user" /\ p \in holds /\ ~killed[p]
  /\ pc' = [pc EXCEPT ![p] = "lock"]
  /\ left' = [left EXCEPT ![p] = n]
  /\ got' = [got EXCEPT ![p] = 0]
  /\ UNCHANGED <<pipeVars, freed, lock, holds, killed>>

\* acquire, first or again in sleep.
Acquire(p) ==
  /\ pc[p] = "lock" /\ lock = NoProc
  /\ lock' = p
  /\ pc' = [pc EXCEPT ![p] = "loop"]
  /\ UNCHANGED <<pipeVars, freed, holds, left, got, killed>>

\* release and return to user mode, with the processes in w as they are there.
Return(p, w) ==
  /\ lock' = NoProc
  /\ pc' = [w EXCEPT ![p] = "user"]

\* sleep: give up p->lock and become SLEEPING.
Sleep(p) ==
  /\ pc[p] = "sleep"
  /\ lock' = NoProc
  /\ pc' = [pc EXCEPT ![p] = "asleep"]
  /\ UNCHANGED <<pipeVars, freed, holds, left, got, killed>>

\* kill: mark the process and wake it, whatever it sleeps on.
Kill(p) ==
  /\ p \in Kills /\ ~killed[p]
  /\ killed' = [killed EXCEPT ![p] = TRUE]
  /\ pc' = [pc EXCEPT ![p] = IF @ = "asleep" THEN "lock" ELSE @]
  /\ UNCHANGED <<pipeVars, freed, lock, holds, left, got>>

-----------------------------------------------------------------------------
(* pipewrite, one turn of a loop at a time *)

WritePut(p, b) ==
  /\ pc[p] = "loop" /\ left[p] > 0 /\ ~Full
  /\ data' = [data EXCEPT ![nwrite % PIPESIZE] = b]
  /\ nwrite' = Succ(nwrite)
  /\ left' = [left EXCEPT ![p] = @ - 1]
  /\ UNCHANGED <<nread, readopen, writeopen, freed, lock, holds, pc, got, killed>>

WriteFail(p) ==
  /\ pc[p] = "loop" /\ left[p] > 0 /\ Full
  /\ ~readopen \/ killed[p]
  /\ Return(p, pc)
  /\ UNCHANGED <<pipeVars, freed, holds, left, got, killed>>

\* The pipe is full: wake the readers, go to sleep.
FullWakeup == Wakeup(Readers)
WriteFull(p) ==
  /\ pc[p] = "loop" /\ left[p] > 0 /\ Full
  /\ readopen /\ ~killed[p]
  /\ pc' = [FullWakeup EXCEPT ![p] = "sleep"]
  /\ UNCHANGED <<pipeVars, freed, lock, holds, left, got, killed>>

WriteDone(p) ==
  /\ pc[p] = "loop" /\ left[p] = 0
  /\ Return(p, Wakeup(Readers))
  /\ UNCHANGED <<pipeVars, freed, holds, left, got, killed>>

PipeWrite(p) ==
  (\E b \in Bytes : WritePut(p, b)) \/ WriteFail(p) \/ WriteFull(p) \/ WriteDone(p)

-----------------------------------------------------------------------------
(* piperead, one turn of a loop at a time *)

ReadMustWait == Empty /\ writeopen

ReadWait(p) ==
  /\ pc[p] = "loop" /\ ReadMustWait
  /\ \/ killed[p] /\ Return(p, pc)
     \/ ~killed[p] /\ pc' = [pc EXCEPT ![p] = "sleep"] /\ UNCHANGED lock
  /\ UNCHANGED <<pipeVars, freed, holds, left, got, killed>>

ReadReady(p) ==
  /\ pc[p] = "loop" /\ ~ReadMustWait
  /\ pc' = [pc EXCEPT ![p] = "copy"]
  /\ UNCHANGED <<pipeVars, freed, lock, holds, left, got, killed>>

ReadGet(p) ==
  /\ pc[p] = "copy" /\ left[p] > 0 /\ ~Empty
  /\ nread' = Succ(nread)
  /\ left' = [left EXCEPT ![p] = @ - 1]
  /\ got' = [got EXCEPT ![p] = @ + 1]
  /\ UNCHANGED <<data, nwrite, readopen, writeopen, freed, lock, holds, pc, killed>>

ReadDone(p) ==
  /\ pc[p] = "copy" /\ (left[p] = 0 \/ Empty)
  /\ Return(p, Wakeup(Writers))
  /\ UNCHANGED <<pipeVars, freed, holds, left, got, killed>>

PipeRead(p) == ReadWait(p) \/ ReadReady(p) \/ ReadGet(p) \/ ReadDone(p)

-----------------------------------------------------------------------------
(* fileclose, and pipeclose for the last descriptor of an end *)

BothClosed == ~readopen' /\ ~writeopen'
CloseWakeup(P) == Wakeup(P)

Close(p) ==
  /\ pc[p] = "user" /\ p \in holds
  /\ holds' = holds \ {p}
  /\ writeopen' = (holds' \cap Writers # {})
  /\ readopen' = (holds' \cap Readers # {})
  /\ \/ readopen = readopen' /\ writeopen = writeopen' /\ UNCHANGED pc
     \/ /\ lock = NoProc
        /\ \/ writeopen # writeopen' /\ pc' = CloseWakeup(Readers)
           \/ readopen # readopen' /\ pc' = CloseWakeup(Writers)
  /\ freed' = BothClosed
  /\ UNCHANGED <<data, nread, nwrite, lock, left, got, killed>>

\* A process inside the system call.
Inside(p) ==
  \/ Acquire(p)
  \/ Sleep(p)
  \/ p \in Writers /\ PipeWrite(p)
  \/ p \in Readers /\ PipeRead(p)

Done == holds = {} /\ UNCHANGED vars

Next ==
  \/ \E p \in Procs : Inside(p) \/ Close(p) \/ Kill(p) \/ \E n \in 0..MaxN : Call(p, n)
  \/ Done

Spec == Init /\ [][Next]_vars

-----------------------------------------------------------------------------
(* Properties *)

\* The ring buffer with wrapping counters is a bounded queue: bytes come out
\* in the order they went in, each once, none made up, whatever the readers,
\* writers and closes do.
Queue == INSTANCE ByteQueue WITH
           Capacity <- PIPESIZE,
           queue <- [i \in 1..((nwrite - nread + Width) % Width) |-> data[(nread + i - 1) % PIPESIZE]]
QueueSpec == Queue!Spec

\* piperead returns 0 for a read of at least one byte only at the end of the
\* file: every write end closed and every byte read.
EofOnlyWhenClosed ==
  [][\A p \in Readers :
       pc[p] = "copy" /\ pc'[p] = "user" /\ got[p] = 0 /\ left[p] > 0 =>
         Empty /\ ~writeopen]_vars

\* A reader sleeps only while there is nothing to read and someone could
\* still write, a writer only while the pipe is full and someone could still
\* read; or else the holder of the lock is about to wake them.  The one
\* exception: pipewrite of a killed process leaves a full pipe behind without
\* waking the readers.
NoMissedWakeup ==
  /\ \A r \in Readers : pc[r] = "asleep" =>
       (Empty /\ writeopen) \/ lock \in Writers \/ (~Empty /\ \E w \in Writers : killed[w])
  /\ \A w \in Writers : pc[w] = "asleep" => (Full /\ readopen) \/ lock \in Readers

\* pipeclose frees the page when, and only when, nobody can use the pipe any
\* more: no process is inside piperead or pipewrite or can get there.
FreedUnused ==
  /\ freed <=> holds = {}
  /\ freed => \A p \in Procs : pc[p] = "user"

=============================================================================
