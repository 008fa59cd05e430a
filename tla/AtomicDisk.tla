----------------------------- MODULE AtomicDisk -----------------------------
(***************************************************************************)
(* What log.c promises to the file system: blocks are written by operations *)
(* bracketed by begin_op and end_op; what is on disk is always the outcome  *)
(* of whole operations; a crash falls back to the last commit.              *)
(***************************************************************************)
CONSTANTS Procs, Blocks, Vals

VARIABLES durable,    \* the blocks a crash would leave
          volatile,   \* the blocks as the running system reads them
          active      \* the processes inside an operation

vars == <<durable, volatile, active>>

Init ==
  /\ durable \in [Blocks -> Vals]
  /\ volatile = durable
  /\ active = {}

Begin(p) == p \notin active /\ active' = active \cup {p} /\ UNCHANGED <<durable, volatile>>

Write(p, b, v) ==
  /\ p \in active
  /\ volatile' = [volatile EXCEPT ![b] = v]
  /\ UNCHANGED <<durable, active>>

End(p) == p \in active /\ active' = active \ {p} /\ UNCHANGED <<durable, volatile>>

\* A commit takes everything written so far, and only between operations.
Commit == active = {} /\ durable' = volatile /\ UNCHANGED <<volatile, active>>

Crash == volatile' = durable /\ active' = {} /\ UNCHANGED durable

Next ==
  \/ Commit
  \/ Crash
  \/ \E p \in Procs : Begin(p) \/ End(p) \/ \E b \in Blocks, v \in Vals : Write(p, b, v)

Spec == Init /\ [][Next]_vars
=============================================================================
