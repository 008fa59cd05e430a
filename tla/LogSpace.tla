------------------------------ MODULE LogSpace ------------------------------
(***************************************************************************)
(* Admission to the log (log.c) with the sizes of param.h and mkfs.c: how   *)
(* many blocks are logged, who waits in begin_op, and when log_write runs   *)
(* out of log.  Contents are left out (see Log): a block is new to the log, *)
(* or absorbed.  log_write is two steps, for it checks the space before it  *)
(* acquires log.lock.                                                       *)
(***************************************************************************)
EXTENDS Integers, FiniteSets

CONSTANTS Procs,
          MAXOPBLOCKS, LOGSIZE,   \* param.h
          OpBlocks                \* bound: blocks an operation logs at most

ASSUME SizeAssumption == MAXOPBLOCKS \in Nat /\ LOGSIZE \in Nat /\ OpBlocks \in Nat

VARIABLES n,            \* log.lh.n
          outstanding, committing,
          op,           \* what each process does
          wrote,        \* blocks the operation of each process added to the log
          over          \* history: an operation of this transaction has added
                        \* more than its Share

vars == <<n, outstanding, committing, op, wrote, over>>

NLOG == LOGSIZE         \* log.size: mkfs.c's nlog, the header's block included

\* What an operation can count on: begin_op reserves MAXOPBLOCKS of LOGSIZE
\* blocks for it, but one of those is the header.
Share == MAXOPBLOCKS - 1

Init ==
  /\ n = 0
  /\ outstanding = 0
  /\ committing = FALSE
  /\ op = [p \in Procs |-> "idle"]
  /\ wrote = [p \in Procs |-> 0]
  /\ over = FALSE

-----------------------------------------------------------------------------
(* Seeded faults: variants of definitions below that the properties reject. *)

\* end_op: no wakeup after the commit.
CommitWakeup_None == op

\* begin_op: the operation asking for admission is not counted.
NoSpace_Off == n + outstanding * MAXOPBLOCKS > LOGSIZE

-----------------------------------------------------------------------------
Wakeup == [q \in Procs |-> IF op[q] = "sleep" THEN "begin" ELSE op[q]]
EndWakeup == Wakeup
CommitWakeup == Wakeup

NoSpace == n + (outstanding + 1) * MAXOPBLOCKS > LOGSIZE
MustWait == committing \/ NoSpace

Sleep(p) ==
  /\ op[p] \in {"idle", "begin"} /\ MustWait
  /\ op' = [op EXCEPT ![p] = "sleep"]
  /\ UNCHANGED <<n, outstanding, committing, wrote, over>>

Admit(p) ==
  /\ op[p] \in {"idle", "begin"} /\ ~MustWait
  /\ op' = [op EXCEPT ![p] = "run"]
  /\ outstanding' = outstanding + 1
  /\ UNCHANGED <<n, committing, wrote, over>>

\* log_write, before the lock; a panic if it fails.
LogFull == n >= LOGSIZE \/ n >= NLOG - 1
LogCheck(p) ==
  /\ op[p] = "run" /\ (wrote[p] < OpBlocks \/ n > 0) /\ ~LogFull
  /\ op' = [op EXCEPT ![p] = "checked"]
  /\ UNCHANGED <<n, outstanding, committing, wrote, over>>

\* log_write, with the lock: the block is new to the log, or in it already.
LogAppend(p) ==
  /\ op[p] = "checked"
  /\ \/ /\ wrote[p] < OpBlocks
        /\ n' = n + 1
        /\ wrote' = [wrote EXCEPT ![p] = @ + 1]
        /\ over' = (over \/ wrote[p] >= Share)
     \/ n > 0 /\ UNCHANGED <<n, wrote, over>>
  /\ op' = [op EXCEPT ![p] = "run"]
  /\ UNCHANGED <<outstanding, committing>>

AfterOp == outstanding - 1

EndOp(p) ==
  /\ op[p] = "run"
  /\ outstanding' = AfterOp
  /\ wrote' = [wrote EXCEPT ![p] = 0]
  /\ \/ outstanding = 1 /\ committing' = TRUE /\ op' = [op EXCEPT ![p] = "commit"]
     \/ outstanding # 1 /\ op' = [EndWakeup EXCEPT ![p] = "idle"] /\ UNCHANGED committing
  /\ UNCHANGED <<n, over>>

\* commit() empties the log; end_op wakes the waiters.
Commit(p) ==
  /\ op[p] = "commit"
  /\ n' = 0
  /\ over' = FALSE
  /\ committing' = FALSE
  /\ op' = [CommitWakeup EXCEPT ![p] = "idle"]
  /\ UNCHANGED <<outstanding, wrote>>

Step(p) == Sleep(p) \/ Admit(p) \/ LogCheck(p) \/ LogAppend(p) \/ EndOp(p) \/ Commit(p)
Next == \E p \in Procs : Step(p)

Spec == Init /\ [][Next]_vars

\* A process inside begin_op or an operation keeps running, and its operation
\* ends, for no operation calls log_write for ever; one that is idle may stay so.
Fairness ==
  \A p \in Procs :
    /\ WF_vars(op[p] # "idle" /\ Step(p))
    /\ SF_vars(EndOp(p))
FairSpec == Spec /\ Fairness

-----------------------------------------------------------------------------
(* Properties *)

\* An operation that has added fewer than MAXOPBLOCKS - 1 blocks finds room in
\* log_write, when it checks ("too big a transaction") and still when it appends,
\* unless another one of the transaction has added more than that.  This is one
\* block less than param.h says ("max # of blocks any FS op writes"), and file.c
\* writes more: then log_write does panic, or two pass its check for one block.
NoTooBig ==
  ~over => \A p \in Procs : op[p] \in {"run", "checked"} /\ wrote[p] < Share => ~LogFull

\* If someone waits in begin_op, someone is admitted later: waiting for log
\* space is never waiting for each other.
SomeoneAdmitted ==
  (\E p \in Procs : op[p] \in {"begin", "sleep"}) ~> (\E p \in Procs : op[p] = "run")
=============================================================================
