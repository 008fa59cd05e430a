------------------------------- MODULE MCConsole -------------------------------
(* Two CPUs and two processes that share a console with a buffer of two.     *)
EXTENDS Console

CONSTANTS p1, p2
TwoReaders == [procs |-> Procs, calls |-> {<<p1, "read", 1>>, <<p2, "read", 1>>}, kills |-> {}]
ReaderKilled == [procs |-> {p1}, calls |-> {<<p1, "read", 2>>, <<p1, "write", 2>>}, kills |-> {p1}]
TwoPrograms == {TwoReaders, ReaderKilled}

\* States are told apart by what the code may still read: the locals of a call
\* until it returns, those of sched until the process is back, cpu->intena while
\* the depth is not 0, the characters between r and e.  Processes that may do the
\* same are interchangeable: a process is seen as where it is and what it may do.
Yielding(p) == pc[p] \in {"yacq", "ysched", "yielded", "iret"}
InCall(p) == pc[p] \notin {"user", "new", "xacq", "xsched", "dead"} /\ (Yielding(p) => under[p] # "user")
Shape(p) ==
  <<{<<x[2], x[3]>> : x \in {y \in prog.calls : y[1] = p}}, p \in prog.kills,
    state[p], killed[p], pc[p], IF Yielding(p) THEN under[p] ELSE "",
    IF InCall(p) THEN <<call[p], left[p], got[p]>> ELSE <<>>,
    pc[p] \in {"slept", "yielded"} /\ saved[p]>>
View ==
  <<lk, iflag, ncli, [c \in CPUs |-> ncli[c] > 0 /\ intena[c]],
    r, w, e, Between(r, e), pos,
    LET shapes == {<<Shape(p), p>> : p \in Procs}
    IN  {<<x[1], Cardinality({y \in shapes : y[1] = x[1]})>> : x \in shapes},
    [c \in CPUs |-> IF cur[c] = NoProc THEN <<>> ELSE Shape(cur[c])],
    sp, [c \in CPUs |-> sp[c] = "held" /\ ran[c]], kb>>
=============================================================================
