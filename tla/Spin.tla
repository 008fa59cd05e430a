---------------------------------- MODULE Spin ----------------------------------
(***************************************************************************)
(* Spin locks and the interrupt flag (spinlock.c): who holds a lock, the    *)
(* depth of pushcli on each CPU, and the flag that the outermost pushcli    *)
(* found.  The operators are conjoined into the steps of a module that      *)
(* composes them with the code that takes the locks.                        *)
(***************************************************************************)
EXTENDS Integers

CONSTANTS CPUs, NoCpu

Locks == {"cons", "ptable"}

VARIABLES lk,       \* the CPU that holds each lock, or NoCpu: locked and cpu
          iflag,    \* FL_IF of each CPU
          ncli, intena      \* struct cpu

spinVars == <<lk, iflag, ncli, intena>>

\* initlock; the CPUs come out of main with interrupts off.
SpinInit ==
  /\ lk = [l \in Locks |-> NoCpu]
  /\ iflag = [c \in CPUs |-> FALSE]
  /\ ncli = [c \in CPUs |-> 0]
  /\ intena = [c \in CPUs |-> FALSE]

-----------------------------------------------------------------------------
(* Seeded faults: variants of definitions below that Console's properties reject. *)

\* popcli: enables interrupts at any depth.
Enables_AnyDepth(c, ena) == ena

-----------------------------------------------------------------------------
Holding(c, l) == lk[l] = c

\* pushcli, when the flag was f
PushcliAt(c, f) ==
  /\ iflag' = [iflag EXCEPT ![c] = FALSE]
  /\ ncli' = [ncli EXCEPT ![c] = @ + 1]
  /\ intena' = [intena EXCEPT ![c] = IF ncli[c] = 0 THEN f ELSE @]

\* The two halves of acquire: pushcli, and the xchg that finds the lock free.
AcquireStart(c) == PushcliAt(c, iflag[c]) /\ UNCHANGED lk
AcquireDone(c, l) ==
  /\ lk[l] = NoCpu
  /\ lk' = [lk EXCEPT ![l] = c]
  /\ UNCHANGED <<iflag, ncli, intena>>

\* popcli with ena in cpu->intena
Enables(c, ena) == ncli[c] = 1 /\ ena
PopcliWith(c, ena) ==
  /\ ncli' = [ncli EXCEPT ![c] = @ - 1]
  /\ iflag' = [iflag EXCEPT ![c] = @ \/ Enables(c, ena)]
  /\ intena' = [intena EXCEPT ![c] = ena]

\* release; ReleaseWith is release after cpu->intena = ena.
ReleaseWith(c, l, ena) == lk' = [lk EXCEPT ![l] = NoCpu] /\ PopcliWith(c, ena)
Release(c, l) == ReleaseWith(c, l, intena[c])

\* sti, and the iret of a handler that was entered with interrupts on
Sti(c) == iflag' = [iflag EXCEPT ![c] = TRUE] /\ UNCHANGED <<lk, ncli, intena>>

\* The panics of acquire, release and popcli
MayAcquire(c, l) == ~Holding(c, l)
MayRelease(c, l) == Holding(c, l) /\ ~iflag[c] /\ ncli[c] > 0
=============================================================================
