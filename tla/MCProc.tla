------------------------------- MODULE MCProc -------------------------------
(* Proc with small numbers of slots, CPUs and pids.  init's pid is left out of *)
(* the arguments of kill: init exiting is a panic by design.                   *)
EXTENDS Proc

\* What nothing reads any more does not tell states apart: the context of a
\* slot without a kernel stack, the channel of a process that is awake, pids
\* that neither kill nor sleep is about, the time a killed process had left to
\* sleep, whether a process on its way to exit was killed, and the position of
\* a scheduler loop apart from the process it comes to next.
Continues(p) == IF ret[p] = "trapret" /\ killed[p] THEN "exit" ELSE ret[p]
Exiting(p) == state[p] = "ZOMBIE" \/ "exit" \in {pc[p], Continues(p)}
Target(p) ==
  CASE Exiting(p) -> "exits"
    [] ~Exiting(p) /\ killed[p] -> "killed"
    [] OTHER -> IF pid[p] \in KillPids \cup SleepPids THEN pid[p] ELSE 0
Left(p) == IF killed[p] THEN 0 ELSE rem[p]
Context(p) ==
  CASE state[p] \in {"UNUSED", "EMBRYO"} -> <<>>
    [] state[p] = "SLEEPING" -> <<chan[p], pid[p] \in KillPids, pc[p], ret[p], Left(p)>>
    [] OTHER -> <<pc[p], Continues(p), np[p], Left(p)>>
Slot(p) == <<state[p], kstack[p], Target(p), Context(p)>>
NextToRun(c) ==
  {q \in Slots : lock = c /\ stack[c] = 0 /\ q >= scan[c] /\ state[q] = "RUNNABLE"}
View ==
  <<[p \in Slots |-> Slot(p)], parent, nextpid, lock, tlock, stack, intick,
    [c \in CPUs |-> NextToRun(c)]>>
=============================================================================
