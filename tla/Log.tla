--------------------------------- MODULE Log ---------------------------------
(***************************************************************************)
(* The redo log of log.c over the buffer cache and the disk, with crashes.  *)
(*                                                                          *)
(* A block's contents are a value.  One disk write (bwrite of one sector)   *)
(* is one step and is atomic; a crash can happen between any two steps, of  *)
(* recovery too.  The cache keeps a block in dirty until bwrite has written *)
(* it home, and may drop any other block at any time (bget recycling it).   *)
(***************************************************************************)
EXTENDS Integers, Sequences, FiniteSets

CONSTANTS Procs, Blocks, Vals,
          LOGSIZE, MAXOPBLOCKS,   \* param.h
          NLOG,                   \* log.size: blocks of the log, header included (mkfs.c)
          OpBlocks,               \* how many different blocks one operation writes at most
          Absent                  \* a block that is not in the cache

ASSUME SizeAssumption ==
  /\ LOGSIZE \in Nat /\ MAXOPBLOCKS \in Nat /\ NLOG \in Nat /\ OpBlocks \in Nat
  /\ NLOG > 1
ASSUME AbsentAssumption == Absent \notin Vals

VARIABLES disk,         \* home blocks on disk
          dlog,         \* data blocks of the log on disk
          dhead,        \* header block of the log on disk
          cache, dirty, \* buffer cache: contents, and the blocks flagged B_DIRTY
          lh,           \* log.lh in memory: the block numbers logged
          outstanding, committing,
          op,           \* what each process does
          wrote,        \* the blocks the operation of a process has logged
          phase, tail   \* progress of commit() or of recover_from_log()

onDisk == <<disk, dlog, dhead>>
inMemory == <<cache, dirty, lh, outstanding, committing, op, wrote>>
vars == <<onDisk, inMemory, phase, tail>>

LogSlots == 1..(NLOG - 1)

\* mkfs leaves an empty log; the first boot runs recovery like every boot.
Init ==
  /\ disk \in [Blocks -> Vals]
  /\ dlog \in [LogSlots -> Vals]
  /\ dhead = <<>>
  /\ cache = [b \in Blocks |-> Absent]
  /\ dirty = {}
  /\ lh = <<>>
  /\ outstanding = 0
  /\ committing = FALSE
  /\ op = [p \in Procs |-> "idle"]
  /\ wrote = [p \in Procs |-> {}]
  /\ phase = "recover"
  /\ tail = 1

-----------------------------------------------------------------------------
InLog(s, b) == \E i \in 1..Len(s) : s[i] = b

\* initlog is running recover_from_log; no process runs before it returns.
Booting == phase = "recover" \/ (~committing /\ phase \in {"install", "clear"})

\* bread: a cached block, or the disk's copy.
Bread(b) == IF cache[b] = Absent THEN disk[b] ELSE cache[b]

\* wakeup(&log)
Wakeup == [q \in Procs |-> IF op[q] = "sleep" THEN "begin" ELSE op[q]]

-----------------------------------------------------------------------------
(* Seeded faults: variants of definitions below that the properties reject. *)

\* commit: the header is written before the log blocks.
AfterEnd_Header == IF lh = <<>> THEN "done" ELSE "head"

\* commit: every transaction is taken for empty.
AfterEnd_Skip == "done"

-----------------------------------------------------------------------------
(* System calls *)

NoSpace == Len(lh) + (outstanding + 1) * MAXOPBLOCKS > LOGSIZE

\* begin_op: one turn of its loop; sleep, or be admitted.
BeginOp(p) ==
  /\ ~Booting /\ op[p] \in {"idle", "begin"}
  /\ \/ /\ committing \/ NoSpace
        /\ op' = [op EXCEPT ![p] = "sleep"]
        /\ UNCHANGED outstanding
     \/ /\ ~committing /\ ~NoSpace
        /\ op' = [op EXCEPT ![p] = "run"]
        /\ outstanding' = outstanding + 1
  /\ UNCHANGED <<onDisk, cache, dirty, lh, committing, wrote, phase, tail>>

\* log_write's first check, which panics: "too big a transaction".
LogFull == Len(lh) >= LOGSIZE \/ Len(lh) >= NLOG - 1

\* log_write pins the block in the cache with B_DIRTY.
Pin(b) == dirty' = dirty \cup {b}

MayWrite(p, b) == op[p] = "run" /\ Cardinality(wrote[p] \cup {b}) <= OpBlocks

\* bread, modify, log_write, brelse: the block is absorbed if already logged.
LogWrite(p, b, v) ==
  /\ MayWrite(p, b) /\ ~LogFull
  /\ cache' = [cache EXCEPT ![b] = v]
  /\ lh' = IF InLog(lh, b) THEN lh ELSE Append(lh, b)
  /\ Pin(b)
  /\ wrote' = [wrote EXCEPT ![p] = @ \cup {b}]
  /\ UNCHANGED <<onDisk, outstanding, committing, op, phase, tail>>

\* commit() writes nothing for an empty transaction.
AfterEnd == IF lh = <<>> THEN "done" ELSE "log"

LastOp == outstanding = 1

\* end_op: the last operation to end commits.
EndOp(p) ==
  /\ op[p] = "run"
  /\ outstanding' = outstanding - 1
  /\ wrote' = [wrote EXCEPT ![p] = {}]
  /\ \/ /\ LastOp
        /\ committing' = TRUE
        /\ op' = [op EXCEPT ![p] = "commit"]
        /\ phase' = AfterEnd
     \/ /\ ~LastOp
        /\ op' = [Wakeup EXCEPT ![p] = "idle"]
        /\ UNCHANGED <<committing, phase>>
  /\ UNCHANGED <<onDisk, cache, dirty, lh, tail>>

\* bget may recycle the buffer of any block that is not dirty.
Evict(b) ==
  /\ cache[b] # Absent /\ b \notin dirty
  /\ cache' = [cache EXCEPT ![b] = Absent]
  /\ UNCHANGED <<onDisk, dirty, lh, outstanding, committing, op, wrote, phase, tail>>

-----------------------------------------------------------------------------
(* commit() and recover_from_log(), one disk write at a time *)

MoreBlocks == tail < Len(lh)

\* write_log: copy the next logged block from the cache to the log.
WriteLog ==
  /\ phase = "log"
  /\ dlog' = [dlog EXCEPT ![tail] = Bread(lh[tail])]
  /\ \/ MoreBlocks /\ tail' = tail + 1 /\ UNCHANGED phase
     \/ ~MoreBlocks /\ tail' = 1 /\ phase' = "head"
  /\ UNCHANGED <<disk, dhead, inMemory>>

\* write_head: the transaction commits.
WriteHead ==
  /\ phase = "head"
  /\ dhead' = lh
  /\ phase' = "install"
  /\ UNCHANGED <<disk, dlog, inMemory, tail>>

\* install_trans: copy the next block from the log home, through its buffer.
Install ==
  /\ phase = "install"
  /\ disk' = [disk EXCEPT ![lh[tail]] = dlog[tail]]
  /\ cache' = [cache EXCEPT ![lh[tail]] = dlog[tail]]
  /\ dirty' = dirty \ {lh[tail]}
  /\ \/ MoreBlocks /\ tail' = tail + 1 /\ UNCHANGED phase
     \/ ~MoreBlocks /\ tail' = 1 /\ phase' = "clear"
  /\ UNCHANGED <<dlog, dhead, lh, outstanding, committing, op, wrote>>

\* log.lh.n = 0 and write_head: erase the transaction.  Recovery is over, or
\* commit() returns to end_op.
ClearHead ==
  /\ phase = "clear"
  /\ lh' = <<>>
  /\ dhead' = <<>>
  /\ phase' = IF committing THEN "done" ELSE "up"
  /\ UNCHANGED <<disk, dlog, cache, dirty, outstanding, committing, op, wrote, tail>>

\* end_op, after commit().
CommitDone(p) ==
  /\ phase = "done" /\ op[p] = "commit"
  /\ committing' = FALSE
  /\ op' = [Wakeup EXCEPT ![p] = "idle"]
  /\ phase' = "up"
  /\ UNCHANGED <<onDisk, cache, dirty, lh, outstanding, wrote, tail>>

\* recover_from_log: read_head, then install and clear as above.
Recover ==
  /\ phase = "recover"
  /\ lh' = dhead
  /\ phase' = IF dhead = <<>> THEN "clear" ELSE "install"
  /\ UNCHANGED <<onDisk, cache, dirty, outstanding, committing, op, wrote, tail>>

\* Power fails: only the disk survives, and the machine boots into recovery.
Crash ==
  /\ cache' = [b \in Blocks |-> Absent]
  /\ dirty' = {}
  /\ lh' = <<>>
  /\ outstanding' = 0
  /\ committing' = FALSE
  /\ op' = [p \in Procs |-> "idle"]
  /\ wrote' = [p \in Procs |-> {}]
  /\ phase' = "recover"
  /\ tail' = 1
  /\ UNCHANGED onDisk

CommitStep == WriteLog \/ WriteHead \/ Install \/ ClearHead \/ \E p \in Procs : CommitDone(p)

Next ==
  \/ \E p \in Procs : BeginOp(p) \/ EndOp(p) \/ \E b \in Blocks, v \in Vals : LogWrite(p, b, v)
  \/ \E b \in Blocks : Evict(b)
  \/ CommitStep
  \/ Recover
  \/ Crash

Spec == Init /\ [][Next]_vars

-----------------------------------------------------------------------------
(* Properties *)

\* What the disk holds once the log on it has been replayed.
Recovered ==
  [b \in Blocks |->
     IF InLog(dhead, b) THEN dlog[CHOOSE i \in 1..Len(dhead) : dhead[i] = b] ELSE disk[b]]

\* The log implements an atomic disk: every state a crash can leave is the
\* outcome of whole operations, and nobody reads anything but the last write.
Atomic == INSTANCE AtomicDisk WITH
            durable <- Recovered,
            volatile <- IF Booting THEN Recovered ELSE [b \in Blocks |-> Bread(b)],
            active <- {p \in Procs : op[p] = "run"}
AtomicSpec == Atomic!Spec

\* When no operation is in progress and commit() is over, everything written
\* by the operations that ended survives a crash.
EndedIsDurable ==
  phase = "up" /\ outstanding = 0 => Recovered = [b \in Blocks |-> Bread(b)]

=============================================================================
