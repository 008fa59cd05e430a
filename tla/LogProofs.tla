------------------------------ MODULE LogProofs ------------------------------
(***************************************************************************)
(* Proofs about Log, for any processes, blocks, contents and sizes: the     *)
(* redo log implements an atomic disk, whenever the machine crashes, and    *)
(* what ended operations wrote is durable.                                  *)
(***************************************************************************)
EXTENDS Log, FiniteSetTheorems, TLAPS

\* Zenon takes most leaves; SMT the ones with arithmetic or many cases.
USE Zenon

TypeOK ==
  /\ disk \in [Blocks -> Vals]
  /\ dlog \in [LogSlots -> Vals]
  /\ dhead \in Seq(Blocks)
  /\ cache \in [Blocks -> Vals \cup {Absent}]
  /\ dirty \subseteq Blocks
  /\ lh \in Seq(Blocks)
  /\ outstanding \in Nat
  /\ committing \in BOOLEAN
  /\ op \in [Procs -> {"idle", "begin", "sleep", "run", "commit"}]
  /\ phase \in {"recover", "install", "clear", "up", "log", "head", "done"}
  /\ tail \in Nat

Running == {p \in Procs : op[p] = "run"}

\* log.outstanding counts the operations between begin_op and end_op.
Counted == IsFiniteSet(Running) /\ outstanding = Cardinality(Running)

\* Operations run only while there is neither a commit nor a recovery, and a
\* transaction is left open only while an operation runs.
Phases ==
  /\ Running # {} => phase = "up"
  /\ phase = "up" => ~committing
  /\ phase \in {"log", "head", "done"} => committing
  /\ phase = "recover" => ~committing
  /\ phase = "up" /\ Running = {} => lh = <<>>

\* A log header fits the log and names no block twice.
Header(s) ==
  /\ Len(s) <= NLOG - 1
  /\ \A i, j \in 1..Len(s) : s[i] = s[j] => i = j

\* The header on disk is the one in memory from write_head to the next, and
\* empty before; the loops of write_log and install_trans stay inside it.
Headers ==
  /\ Header(lh) /\ Header(dhead)
  /\ phase \in {"up", "log", "head", "done"} => dhead = <<>>
  /\ phase \in {"install", "clear"} => dhead = lh
  /\ phase \in {"recover", "done"} => lh = <<>>
  /\ phase \in {"log", "install"} => tail \in 1..Len(lh)
  /\ phase = "head" => lh # <<>>
  /\ phase \notin {"log", "install"} => tail = 1

\* Exactly the blocks of the transaction that are not home yet are dirty.
Pinned ==
  /\ phase \in {"up", "log", "head"} => dirty = {b \in Blocks : InLog(lh, b)}
  /\ phase = "install" /\ committing => dirty = {lh[i] : i \in tail..Len(lh)}
  /\ phase \in {"clear", "done", "recover"} \/ Booting => dirty = {}

\* A dirty block is in the cache; the others are there as they are on disk,
\* or not at all.
Coherent ==
  /\ \A b \in dirty : cache[b] # Absent
  /\ \A b \in Blocks \ dirty : cache[b] \in {Absent, disk[b]}

\* How much of the transaction is in the log, and how much of it is home.
Copied ==
  /\ phase = "log" => \A i \in 1..(tail - 1) : dlog[i] = cache[lh[i]]
  /\ phase = "head" => \A i \in 1..Len(lh) : dlog[i] = cache[lh[i]]
  /\ phase = "install" /\ committing => \A i \in tail..Len(lh) : dlog[i] = cache[lh[i]]
  /\ phase = "install" => \A i \in 1..(tail - 1) : disk[lh[i]] = dlog[i]
  /\ phase = "clear" => \A i \in 1..Len(lh) : disk[lh[i]] = dlog[i]

IInv == TypeOK /\ Counted /\ Phases /\ Headers /\ Pinned /\ Coherent /\ Copied

-----------------------------------------------------------------------------
(* The operations that run *)

\* begin_op adds one to the operations that run.
LEMMA RunningAdd ==
  ASSUME Counted, NEW p, p \notin Running, Running' = Running \cup {p},
         outstanding' = outstanding + 1
  PROVE  Counted'
BY FS_AddElement DEF Counted

\* end_op takes one from them.
LEMMA RunningRemove ==
  ASSUME Counted, NEW p \in Running, Running' = Running \ {p},
         outstanding' = outstanding - 1
  PROVE  Counted'
BY FS_RemoveElement DEF Counted

\* outstanding = 1 in end_op: no other operation runs.
LEMMA LastAlone ==
  ASSUME Counted, NEW p \in Running
  PROVE  outstanding = 1 <=> Running \ {p} = {}
<1>1. IsFiniteSet(Running \ {p}) /\ Cardinality(Running \ {p}) = outstanding - 1
  BY FS_RemoveElement DEF Counted
<1>2. outstanding \in Nat
  BY FS_CardinalityType DEF Counted
<1> QED
  BY <1>1, <1>2, FS_EmptySet, SMT

-----------------------------------------------------------------------------
(* The inductive invariant, action by action *)

\* wakeup(&log) changes neither who runs nor the type of op.
LEMMA WakeupEffect ==
  ASSUME TypeOK
  PROVE  /\ Wakeup \in [Procs -> {"idle", "begin", "sleep", "run", "commit"}]
         /\ \A q \in Procs : Wakeup[q] = "run" <=> op[q] = "run"
BY DEF TypeOK, Wakeup

\* begin_op keeps the inductive invariant.
LEMMA BeginOpInv ==
  ASSUME IInv, NEW p \in Procs, BeginOp(p)
  PROVE  IInv'
<1>1. CASE op' = [op EXCEPT ![p] = "sleep"] /\ UNCHANGED outstanding
  <2>1. Running' = Running
    BY <1>1 DEF IInv, TypeOK, BeginOp, Running
  <2>2. TypeOK' /\ Counted' /\ Phases'
    BY <1>1, <2>1 DEF IInv, TypeOK, Counted, Phases, BeginOp, onDisk
  <2>3. Headers' /\ Pinned' /\ Coherent' /\ Copied'
    BY SMT DEF IInv, Headers, Pinned, Coherent, Copied, BeginOp, onDisk, Booting, Header, InLog
  <2> QED
    BY <2>2, <2>3 DEF IInv
<1>2. CASE ~committing /\ op' = [op EXCEPT ![p] = "run"] /\ outstanding' = outstanding + 1
  <2>1. p \notin Running /\ Running' = Running \cup {p}
    BY <1>2 DEF IInv, TypeOK, BeginOp, Running
  <2>2. Counted'
    BY <1>2, <2>1, RunningAdd DEF IInv
  <2>3. TypeOK'
    BY <1>2, SMT DEF IInv, TypeOK, BeginOp, onDisk
  <2>4. phase = "up"
    BY <1>2 DEF IInv, TypeOK, Phases, BeginOp, Booting
  <2>5. Phases'
    BY <1>2, <2>1, <2>4 DEF Phases, BeginOp
  <2>6. Headers' /\ Pinned' /\ Coherent' /\ Copied'
    BY SMT DEF IInv, Headers, Pinned, Coherent, Copied, BeginOp, onDisk, Booting, Header, InLog
  <2> QED
    BY <2>2, <2>3, <2>5, <2>6 DEF IInv
<1> QED
  BY <1>1, <1>2 DEF BeginOp

\* log_write keeps the inductive invariant.
LEMMA LogWriteInv ==
  ASSUME IInv, NEW p \in Procs, NEW b \in Blocks, NEW v \in Vals, LogWrite(p, b, v)
  PROVE  IInv'
<1>1. phase = "up" /\ p \in Running /\ Running' = Running
  BY DEF IInv, Phases, Running, LogWrite, MayWrite
<1>2. lh' \in Seq(Blocks) /\ Header(lh')
  <2>1. CASE InLog(lh, b)
    BY <2>1 DEF IInv, TypeOK, Headers, LogWrite
  <2>2. CASE ~InLog(lh, b)
    BY <2>2, SizeAssumption, SMT DEF IInv, TypeOK, Headers, Header, LogWrite, LogFull, InLog
  <2> QED
    BY <2>1, <2>2
<1>3. \A c \in Blocks : InLog(lh', c) <=> InLog(lh, c) \/ c = b
  BY SMT DEF IInv, TypeOK, LogWrite, InLog
<1>4. TypeOK'
  BY <1>2 DEF IInv, TypeOK, LogWrite, Pin, onDisk
<1>5. Counted' /\ Phases'
  BY <1>1 DEF IInv, Counted, Phases, LogWrite
<1>6. Headers'
  BY <1>1, <1>2 DEF IInv, Headers, LogWrite, onDisk
<1>7. Pinned'
  BY <1>1, <1>3 DEF IInv, Pinned, Booting, LogWrite, Pin
<1>8. Coherent'
  BY AbsentAssumption DEF IInv, TypeOK, Coherent, LogWrite, Pin, onDisk
<1>9. Copied'
  BY <1>1 DEF Copied, LogWrite
<1> QED
  BY <1>4, <1>5, <1>6, <1>7, <1>8, <1>9 DEF IInv

\* end_op keeps the inductive invariant.
LEMMA EndOpInv ==
  ASSUME IInv, NEW p \in Procs, EndOp(p)
  PROVE  IInv'
<1>1. phase = "up" /\ p \in Running
  BY DEF IInv, Phases, Running, EndOp
<1>2. Running' = Running \ {p}
  BY WakeupEffect DEF IInv, TypeOK, Running, EndOp
<1>3. Counted'
  BY <1>1, <1>2, RunningRemove DEF IInv, EndOp
<1>4. TypeOK'
  <2>1. outstanding' \in Nat
    BY <1>3, FS_CardinalityType DEF Counted
  <2>2. op' \in [Procs -> {"idle", "begin", "sleep", "run", "commit"}]
    BY WakeupEffect DEF IInv, TypeOK, EndOp
  <2> QED
    BY <1>1, <2>1, <2>2 DEF IInv, TypeOK, EndOp, onDisk, AfterEnd
<1>5. Phases'
  BY <1>1, <1>2, LastAlone, SMT DEF IInv, Phases, EndOp, LastOp, AfterEnd
<1>6. Headers'
  BY <1>1, SMT DEF IInv, TypeOK, Headers, Header, EndOp, AfterEnd, onDisk
<1>7. Pinned'
  BY <1>1, SMT DEF IInv, TypeOK, Pinned, Booting, EndOp, AfterEnd, InLog
<1>8. Coherent' /\ Copied'
  BY <1>1, SMT DEF IInv, Coherent, Copied, Headers, EndOp, AfterEnd, onDisk
<1> QED
  BY <1>3, <1>4, <1>5, <1>6, <1>7, <1>8 DEF IInv

\* Recycling a clean buffer keeps the inductive invariant.
LEMMA EvictInv ==
  ASSUME IInv, NEW b \in Blocks, Evict(b)
  PROVE  IInv'
<1>1. TypeOK' /\ Counted' /\ Phases' /\ Headers'
  BY SMT DEF IInv, TypeOK, Counted, Running, Phases, Headers, Header, Evict, onDisk
<1>2. Pinned' /\ Coherent'
  BY SMT DEF IInv, TypeOK, Pinned, Booting, Coherent, InLog, Evict, onDisk
<1>3. Copied'
  BY SMT DEF IInv, TypeOK, Headers, Pinned, Copied, InLog, Evict, onDisk
<1> QED
  BY <1>1, <1>2, <1>3 DEF IInv

\* write_log keeps the inductive invariant.
LEMMA WriteLogInv ==
  ASSUME IInv, WriteLog
  PROVE  IInv'
<1>1. /\ phase = "log" /\ committing /\ tail \in 1..Len(lh)
      /\ Len(lh) \in Nat /\ tail \in LogSlots /\ lh[tail] \in Blocks /\ lh[tail] \in dirty
  BY SizeAssumption, SMT DEF IInv, TypeOK, Phases, Headers, Header, Pinned, InLog, WriteLog, LogSlots
<1>2. Bread(lh[tail]) = cache[lh[tail]] /\ cache[lh[tail]] \in Vals
  BY <1>1 DEF IInv, TypeOK, Coherent, Bread
<1>3. TypeOK'
  BY <1>1, <1>2, SMT DEF IInv, TypeOK, WriteLog, inMemory
<1>4. Counted' /\ Coherent' /\ Phases'
  BY <1>1 DEF IInv, Counted, Running, Coherent, Phases, WriteLog, inMemory
<1>5. Headers'
  BY <1>1, SMT DEF IInv, TypeOK, Headers, Header, WriteLog, inMemory, MoreBlocks
<1>6. Pinned'
  BY <1>1 DEF IInv, Pinned, Booting, InLog, WriteLog, inMemory
<1>7. Copied'
  BY <1>1, <1>2, SMT DEF IInv, TypeOK, Copied, WriteLog, inMemory, MoreBlocks
<1> QED
  BY <1>3, <1>4, <1>5, <1>6, <1>7 DEF IInv

\* write_head keeps the inductive invariant.
LEMMA WriteHeadInv ==
  ASSUME IInv, WriteHead
  PROVE  IInv'
<1>1. phase = "head" /\ committing /\ tail = 1 /\ Len(lh) \in Nat /\ Len(lh) >= 1
  BY SMT DEF IInv, TypeOK, Phases, Headers, WriteHead
<1>2. TypeOK' /\ Counted' /\ Phases' /\ Coherent'
  BY <1>1 DEF IInv, TypeOK, Counted, Running, Phases, Coherent, WriteHead, inMemory
<1>3. Headers'
  BY <1>1, SMT DEF IInv, Headers, Header, WriteHead, inMemory
<1>4. Pinned'
  BY <1>1, SMT DEF IInv, TypeOK, Pinned, Booting, InLog, WriteHead, inMemory
<1>5. Copied'
  BY <1>1, SMT DEF IInv, Copied, WriteHead, inMemory
<1> QED
  BY <1>2, <1>3, <1>4, <1>5 DEF IInv

\* install_trans keeps the inductive invariant.
LEMMA InstallInv ==
  ASSUME IInv, Install
  PROVE  IInv'
<1>1. /\ phase = "install" /\ tail \in 1..Len(lh)
      /\ Len(lh) \in Nat /\ tail \in LogSlots /\ lh[tail] \in Blocks /\ dlog[tail] \in Vals
  BY SizeAssumption, SMT DEF IInv, TypeOK, Headers, Header, Install, LogSlots
<1>2. \A i \in 1..Len(lh) : lh[i] \in Blocks /\ (lh[i] = lh[tail] => i = tail)
  BY <1>1, SMT DEF IInv, TypeOK, Headers, Header
<1>3. TypeOK'
  BY <1>1, SMT DEF IInv, TypeOK, Install
<1>4. Counted' /\ Phases'
  BY <1>1 DEF IInv, Counted, Running, Phases, Install
<1>5. Headers'
  BY <1>1, SMT DEF IInv, TypeOK, Headers, Header, Install, MoreBlocks
<1>6. Pinned'
  <2>1. CASE committing
    BY <1>1, <1>2, <2>1, SMT DEF IInv, TypeOK, Pinned, Booting, Install, MoreBlocks
  <2>2. CASE ~committing
    BY <1>1, <2>2 DEF IInv, Pinned, Booting, Install
  <2> QED
    BY <2>1, <2>2
<1>7. Coherent'
  BY <1>1 DEF IInv, TypeOK, Coherent, Install
<1>8. Copied'
  BY <1>1, <1>2, SMT DEF IInv, TypeOK, Copied, Install, MoreBlocks
<1> QED
  BY <1>3, <1>4, <1>5, <1>6, <1>7, <1>8 DEF IInv

\* Erasing the transaction keeps the inductive invariant.
LEMMA ClearHeadInv ==
  ASSUME IInv, ClearHead
  PROVE  IInv'
<1>1. phase = "clear" /\ tail = 1 /\ Running = {} /\ dirty = {}
  BY DEF IInv, Phases, Headers, Pinned, ClearHead
<1>2. TypeOK' /\ Counted' /\ Phases' /\ Coherent' /\ Copied'
  BY <1>1, SMT DEF IInv, TypeOK, Counted, Running, Phases, Coherent, Copied, ClearHead
<1>3. Headers'
  BY <1>1, SizeAssumption, SMT DEF Headers, Header, ClearHead
<1>4. Pinned'
  BY <1>1, SMT DEF Pinned, Booting, InLog, ClearHead
<1> QED
  BY <1>2, <1>3, <1>4 DEF IInv

\* The end of end_op keeps the inductive invariant.
LEMMA CommitDoneInv ==
  ASSUME IInv, NEW p \in Procs, CommitDone(p)
  PROVE  IInv'
<1>1. phase = "done" /\ tail = 1 /\ Running = {} /\ dirty = {} /\ lh = <<>>
  BY DEF IInv, Phases, Headers, Pinned, CommitDone
<1>2. Running' = Running
  BY WakeupEffect DEF IInv, TypeOK, Running, CommitDone
<1>3. TypeOK'
  <2>1. op' \in [Procs -> {"idle", "begin", "sleep", "run", "commit"}]
    BY WakeupEffect DEF IInv, TypeOK, CommitDone
  <2> QED
    BY <2>1 DEF IInv, TypeOK, CommitDone, onDisk
<1>4. Counted' /\ Phases' /\ Coherent' /\ Copied'
  BY <1>1, <1>2 DEF IInv, Counted, Phases, Coherent, Copied, CommitDone, onDisk
<1>5. Headers' /\ Pinned'
  BY <1>1, SMT DEF IInv, Headers, Header, Pinned, Booting, InLog, CommitDone, onDisk
<1> QED
  BY <1>3, <1>4, <1>5 DEF IInv

\* read_head at boot keeps the inductive invariant.
LEMMA RecoverInv ==
  ASSUME IInv, Recover
  PROVE  IInv'
<1>1. phase = "recover" /\ tail = 1 /\ ~committing /\ Running = {} /\ dirty = {}
  BY DEF IInv, Phases, Headers, Pinned, Recover
<1>2. TypeOK' /\ Counted' /\ Phases' /\ Coherent' /\ Copied'
  BY <1>1, SMT DEF IInv, TypeOK, Counted, Running, Phases, Coherent, Copied, Recover, onDisk
<1>3. Headers'
  BY <1>1, SMT DEF IInv, TypeOK, Headers, Header, Recover, onDisk
<1>4. Pinned'
  BY <1>1 DEF Pinned, Booting, Recover
<1> QED
  BY <1>2, <1>3, <1>4 DEF IInv

\* A crash at any point keeps the inductive invariant.
LEMMA CrashInv ==
  ASSUME IInv, Crash
  PROVE  IInv'
<1>1. Running' = {}
  BY DEF Running, Crash
<1>2. TypeOK'
  <2>1. committing' \in BOOLEAN
    BY DEF Crash
  <2>2. /\ cache' \in [Blocks -> Vals \cup {Absent}] /\ lh' \in Seq(Blocks)
        /\ op' \in [Procs -> {"idle", "begin", "sleep", "run", "commit"}]
    BY SMT DEF Crash
  <2> QED
    BY <2>1, <2>2 DEF IInv, TypeOK, Crash, onDisk
<1>3. Phases' /\ Copied'
  BY <1>1 DEF Phases, Copied, Crash
<1>4. Coherent'
  BY DEF Coherent, Crash
<1>5. Counted'
  BY <1>1, FS_EmptySet DEF Counted, Crash
<1>6. Headers' /\ Pinned'
  BY SizeAssumption, SMT DEF IInv, Headers, Header, Pinned, Booting, Crash, onDisk
<1> QED
  BY <1>2, <1>3, <1>4, <1>5, <1>6 DEF IInv

\* mkfs and the first boot establish the inductive invariant.
LEMMA InitInv == Init => IInv
<1> SUFFICES ASSUME Init PROVE IInv
  OBVIOUS
<1>1. Running = {}
  BY DEF Running, Init
<1>2. TypeOK
  <2>1. committing \in BOOLEAN
    BY DEF Init
  <2>2. /\ cache \in [Blocks -> Vals \cup {Absent}] /\ lh \in Seq(Blocks) /\ dhead \in Seq(Blocks)
        /\ op \in [Procs -> {"idle", "begin", "sleep", "run", "commit"}]
    BY SMT DEF Init
  <2> QED
    BY <2>1, <2>2 DEF TypeOK, Init
<1>3. Phases /\ Copied
  BY <1>1 DEF Phases, Copied, Init
<1>4. Coherent
  BY DEF Coherent, Init
<1>5. Counted
  BY <1>1, FS_EmptySet DEF Counted, Init
<1>6. Headers /\ Pinned
  BY SizeAssumption, SMT DEF Headers, Header, Pinned, Booting, Init
<1> QED
  BY <1>2, <1>3, <1>4, <1>5, <1>6 DEF IInv

\* Every step keeps the inductive invariant.
LEMMA NextInv == IInv /\ [Next]_vars => IInv'
<1> SUFFICES ASSUME IInv, [Next]_vars PROVE IInv'
  OBVIOUS
<1>1. CASE CommitStep \/ Recover \/ Crash
  BY <1>1, WriteLogInv, WriteHeadInv, InstallInv, ClearHeadInv, CommitDoneInv, RecoverInv,
     CrashInv DEF CommitStep
<1>2. ASSUME NEW p \in Procs,
             BeginOp(p) \/ EndOp(p) \/ \E b \in Blocks, v \in Vals : LogWrite(p, b, v)
      PROVE  IInv'
  BY <1>2, BeginOpInv, EndOpInv, LogWriteInv
<1>3. ASSUME NEW b \in Blocks, Evict(b) PROVE IInv'
  BY <1>3, EvictInv
<1>4. CASE UNCHANGED vars
  BY <1>4, SMT DEF vars, onDisk, inMemory, IInv, TypeOK, Counted, Running, Phases, Headers, Header,
     Pinned, Booting, InLog, Coherent, Copied
<1> QED
  BY <1>1, <1>2, <1>3, <1>4 DEF Next

\* What commit() and recover_from_log() rely on is invariant.
THEOREM Invariance == Spec => []IInv
BY InitInv, NextInv, PTL DEF Spec

-----------------------------------------------------------------------------
(* What a crash leaves, and what the running system reads *)

Volatile == IF Booting THEN Recovered ELSE [b \in Blocks |-> Bread(b)]

\* Recovery takes a logged block from its slot of the log, any other from home.
LEMMA RecoveredIs ==
  ASSUME IInv
  PROVE  /\ Recovered \in [Blocks -> Vals]
         /\ \A i \in 1..Len(dhead) : Recovered[dhead[i]] = dlog[i]
         /\ \A b \in Blocks : ~InLog(dhead, b) => Recovered[b] = disk[b]
<1>1. /\ dhead \in Seq(Blocks) /\ Len(dhead) <= NLOG - 1
      /\ \A i, j \in 1..Len(dhead) : dhead[i] = dhead[j] => i = j
  BY DEF IInv, TypeOK, Headers, Header
<1>2. ASSUME NEW b \in Blocks, InLog(dhead, b)
      PROVE  \E i \in 1..Len(dhead) : dhead[i] = b /\ Recovered[b] = dlog[i]
  BY <1>2 DEF Recovered, InLog
<1>3. ASSUME NEW i \in 1..Len(dhead) PROVE Recovered[dhead[i]] = dlog[i]
  BY <1>1, <1>2, SMT DEF InLog
<1>4. \A i \in 1..Len(dhead) : dlog[i] \in Vals
  BY <1>1, SizeAssumption, SMT DEF IInv, TypeOK, LogSlots
<1>5. \A b \in Blocks : ~InLog(dhead, b) => Recovered[b] = disk[b]
  BY DEF Recovered
<1>6. \A b \in Blocks : Recovered[b] \in Vals
  BY <1>2, <1>4, <1>5 DEF IInv, TypeOK
<1>7. Recovered = [b \in Blocks |-> Recovered[b]]
  BY SMT DEF Recovered
<1> QED
  BY <1>3, <1>5, <1>6, <1>7

\* bread of a dirty block gives the cached contents, of any other the disk's.
LEMMA BreadIs ==
  ASSUME IInv, NEW b \in Blocks
  PROVE  Bread(b) = IF b \in dirty THEN cache[b] ELSE disk[b]
BY DEF IInv, Coherent, Bread

\* With no transaction in progress the disk is what the system reads.
LEMMA QuietDisk ==
  ASSUME IInv, dhead = <<>>, dirty = {}
  PROVE  Recovered = [b \in Blocks |-> Bread(b)]
<1>1. \A b \in Blocks : Recovered[b] = disk[b] /\ Bread(b) = disk[b]
  BY RecoveredIs, BreadIs, SMT DEF InLog
<1> QED
  BY <1>1 DEF Recovered

\* When no operation is in progress and commit() is over, what the operations
\* that ended have written survives a crash (begin_op, end_op, commit), for
\* any number of processes and blocks.
THEOREM EndedOpsAreDurable == Spec => []EndedIsDurable
<1>1. IInv => EndedIsDurable
  <2> SUFFICES ASSUME IInv, phase = "up", outstanding = 0
               PROVE  Recovered = [b \in Blocks |-> Bread(b)]
    BY DEF EndedIsDurable
  <2>1. Running = {}
    BY FS_EmptySet DEF IInv, Counted
  <2>2. lh = <<>> /\ dhead = <<>>
    BY <2>1 DEF IInv, Phases, Headers
  <2>3. dirty = {}
    BY <2>2, SMT DEF IInv, Pinned, InLog
  <2> QED
    BY <2>2, <2>3, QuietDisk
<1> QED
  BY <1>1, Invariance, PTL

-----------------------------------------------------------------------------
(* The log implements the atomic disk *)

\* A boot is a start of the atomic disk.
LEMMA InitRefines == Init => Atomic!Init
<1> SUFFICES ASSUME Init PROVE Atomic!Init
  OBVIOUS
<1>1. IInv
  BY InitInv
<1>2. Volatile = Recovered /\ Running = {}
  BY DEF Init, Volatile, Booting, Running
<1> QED
  BY <1>1, <1>2, RecoveredIs DEF Atomic!Init, Volatile, Running

\* A step that changes neither what recovery finds, nor what is read, nor who
\* runs, is no step of the atomic disk.
LEMMA Stutters ==
  ASSUME Recovered' = Recovered, Volatile' = Volatile, Running' = Running
  PROVE  UNCHANGED Atomic!vars
BY DEF Atomic!vars, Volatile, Running

\* begin_op is Begin, or nothing if it sleeps.
LEMMA BeginOpRefines ==
  ASSUME IInv, NEW p \in Procs, BeginOp(p)
  PROVE  Atomic!Begin(p) \/ UNCHANGED Atomic!vars
<1>1. Recovered' = Recovered /\ Volatile' = Volatile
  BY DEF BeginOp, onDisk, Recovered, Volatile, Booting, Bread, InLog
<1>2. \/ Running' = Running
      \/ p \notin Running /\ Running' = Running \cup {p}
  BY DEF IInv, TypeOK, BeginOp, Running
<1> QED
  BY <1>1, <1>2, Stutters DEF Atomic!Begin, Volatile, Running

\* log_write is Write.
LEMMA LogWriteRefines ==
  ASSUME IInv, NEW p \in Procs, NEW b \in Blocks, NEW v \in Vals, LogWrite(p, b, v)
  PROVE  Atomic!Write(p, b, v)
<1>1. p \in Running /\ phase = "up" /\ phase' = "up" /\ Running' = Running
  BY DEF IInv, Phases, Running, LogWrite, MayWrite
<1>2. Recovered' = Recovered
  BY DEF LogWrite, onDisk, Recovered, InLog
<1>3. ASSUME NEW c \in Blocks PROVE Bread(c)' = IF c = b THEN v ELSE Bread(c)
  BY AbsentAssumption DEF IInv, TypeOK, Bread, LogWrite, onDisk
<1>4. Volatile' = [Volatile EXCEPT ![b] = v]
  BY <1>1, <1>3 DEF Volatile, Booting
<1> QED
  BY <1>1, <1>2, <1>4 DEF Atomic!Write, Volatile, Running

\* end_op is End.
LEMMA EndOpRefines ==
  ASSUME IInv, NEW p \in Procs, EndOp(p)
  PROVE  Atomic!End(p)
<1>1. phase = "up" /\ p \in Running /\ phase' \in {"up", "log", "done"}
  BY DEF IInv, Phases, Running, EndOp, AfterEnd
<1>2. Running' = Running \ {p}
  BY WakeupEffect DEF IInv, TypeOK, Running, EndOp
<1>3. Recovered' = Recovered /\ Volatile' = Volatile
  BY <1>1 DEF EndOp, onDisk, Recovered, Volatile, Booting, Bread, InLog
<1> QED
  BY <1>1, <1>2, <1>3 DEF Atomic!End, Volatile, Running

\* write_head is Commit: the point at which the transaction becomes durable.
LEMMA WriteHeadRefines ==
  ASSUME IInv, IInv', WriteHead
  PROVE  Atomic!Commit
<1>1. /\ phase = "head" /\ phase' = "install" /\ committing /\ committing' = committing
      /\ Running = {} /\ Running' = Running
  BY DEF IInv, Phases, Running, WriteHead, inMemory
<1>2. /\ dhead' = lh /\ lh \in Seq(Blocks) /\ UNCHANGED <<disk, dlog, cache, dirty>>
      /\ dirty = {b \in Blocks : InLog(lh, b)}
      /\ \A i \in 1..Len(lh) : dlog[i] = cache[lh[i]]
      /\ \A i, j \in 1..Len(lh) : lh[i] = lh[j] => i = j
  BY DEF IInv, TypeOK, Headers, Header, Pinned, Copied, WriteHead, inMemory
<1>3. Volatile = [b \in Blocks |-> Bread(b)] /\ Volatile' = Volatile
  BY <1>1, <1>2 DEF Volatile, Booting, Bread
<1>4. ASSUME NEW b \in Blocks PROVE Recovered'[b] = Bread(b)
  <2>1. CASE InLog(lh, b)
    <3>1. PICK i \in 1..Len(lh) : lh[i] = b
      BY <2>1 DEF InLog
    <3>2. Recovered'[b] = dlog[i]
      BY <1>2, <2>1, <3>1 DEF Recovered, InLog
    <3> QED
      BY <1>2, <2>1, <3>1, <3>2, BreadIs
  <2>2. CASE ~InLog(lh, b)
    <3>1. Recovered'[b] = disk[b]
      BY <1>2, <2>2 DEF Recovered, InLog
    <3> QED
      BY <1>2, <2>2, <3>1, BreadIs
  <2> QED
    BY <2>1, <2>2
<1>5. Recovered' = [b \in Blocks |-> Recovered'[b]]
  BY SMT DEF Recovered
<1>6. Recovered' = Volatile
  BY <1>3, <1>4, <1>5
<1> QED
  BY <1>1, <1>3, <1>6 DEF Atomic!Commit, Volatile, Running

\* Recycling a clean buffer is invisible.
LEMMA EvictRefines ==
  ASSUME IInv, IInv', NEW b \in Blocks, Evict(b)
  PROVE  UNCHANGED Atomic!vars
<1>1. Recovered' = Recovered /\ Running' = Running
  BY DEF Evict, onDisk, Recovered, InLog, Running
<1>2. \A c \in Blocks : Bread(c)' = Bread(c)
  <2>1. Coherent
    BY DEF IInv
  <2>2. cache[b] # Absent => cache[b] = disk[b]
    BY <2>1 DEF Coherent, Evict
  <2> QED
    BY <2>2 DEF IInv, TypeOK, Evict, onDisk, Bread
<1>3. Volatile' = Volatile
  BY <1>1, <1>2 DEF Evict, Volatile, Booting
<1> QED
  BY <1>1, <1>3, Stutters

\* write_log is invisible: the header on disk is still empty.
LEMMA WriteLogRefines ==
  ASSUME IInv, IInv', WriteLog
  PROVE  UNCHANGED Atomic!vars
<1>1. /\ phase = "log" /\ phase' \in {"log", "head"} /\ committing /\ committing' = committing
      /\ dhead = <<>> /\ dhead' = <<>> /\ UNCHANGED <<disk, cache, op>>
  BY DEF IInv, Phases, Headers, WriteLog, inMemory
<1>2. Recovered' = Recovered /\ Running' = Running
  BY <1>1, SMT DEF Recovered, InLog, Running
<1>3. Volatile' = Volatile
  BY <1>1 DEF Volatile, Booting, Bread
<1> QED
  BY <1>2, <1>3, Stutters

\* install_trans is invisible: it writes home what recovery would write there.
LEMMA InstallRefines ==
  ASSUME IInv, IInv', Install
  PROVE  UNCHANGED Atomic!vars
<1>1. /\ phase = "install" /\ dhead = lh /\ dhead' = dhead /\ tail \in 1..Len(lh)
      /\ lh \in Seq(Blocks) /\ lh[tail] \in Blocks /\ UNCHANGED <<dlog, op, committing>>
      /\ phase' \in {"install", "clear"}
  BY SMT DEF IInv, TypeOK, Headers, Install
<1>2. ASSUME NEW b \in Blocks PROVE Recovered'[b] = Recovered[b]
  <2>1. CASE InLog(dhead, b)
    BY <1>1, <2>1 DEF Recovered, InLog
  <2>2. CASE ~InLog(dhead, b)
    <3>1. b # lh[tail]
      BY <1>1, <2>2 DEF InLog
    <3> QED
      BY <1>1, <2>2, <3>1 DEF IInv, TypeOK, Install, Recovered, InLog
  <2> QED
    BY <2>1, <2>2
<1>3. Recovered' = Recovered
  BY <1>2 DEF Recovered
<1>4. Running' = Running
  BY <1>1 DEF Running
<1>5. CASE ~committing
  BY <1>1, <1>3, <1>4, <1>5, Stutters DEF Volatile, Booting
<1>6. CASE committing
  <2>1. lh[tail] \in dirty /\ cache[lh[tail]] = dlog[tail]
    BY <1>1, <1>6, SMT DEF IInv, TypeOK, Pinned, Copied
  <2>2. \A b \in Blocks : Bread(b)' = Bread(b)
    BY <1>1, <2>1, AbsentAssumption, SMT DEF IInv, TypeOK, Coherent, Install, Bread
  <2>3. Volatile' = Volatile
    BY <1>1, <1>6, <2>2 DEF Volatile, Booting
  <2> QED
    BY <1>3, <1>4, <2>3, Stutters
<1> QED
  BY <1>5, <1>6 DEF IInv, TypeOK

\* Erasing the transaction is invisible: everything is home.
LEMMA ClearHeadRefines ==
  ASSUME IInv, IInv', ClearHead
  PROVE  UNCHANGED Atomic!vars
<1>1. /\ phase = "clear" /\ dhead = lh /\ dirty = {} /\ UNCHANGED <<disk, cache, dirty, op, committing>>
      /\ dhead' = <<>> /\ dhead \in Seq(Blocks) /\ phase' = IF committing THEN "done" ELSE "up"
      /\ \A i \in 1..Len(lh) : disk[lh[i]] = dlog[i]
  BY DEF IInv, TypeOK, Headers, Pinned, Copied, ClearHead
<1>2. ASSUME NEW b \in Blocks PROVE Recovered[b] = disk[b]
  BY <1>1, RecoveredIs, SMT DEF InLog
<1>3. Recovered' = [b \in Blocks |-> disk[b]] /\ Recovered = [b \in Blocks |-> disk[b]]
  BY <1>1, <1>2, SMT DEF Recovered, InLog
<1>4. \A b \in Blocks : Bread(b) = disk[b] /\ Bread(b)' = disk[b]
  <2>1. Coherent
    BY DEF IInv
  <2>2. \A b \in Blocks : cache[b] # Absent => cache[b] = disk[b]
    BY <1>1, <2>1 DEF Coherent
  <2> QED
    BY <1>1, <2>2 DEF Bread
<1>5. Volatile = Recovered /\ Volatile' = Recovered
  BY <1>1, <1>3, <1>4 DEF Volatile, Booting
<1> QED
  BY <1>1, <1>3, <1>5, Stutters DEF Running

\* The end of end_op is invisible.
LEMMA CommitDoneRefines ==
  ASSUME IInv, NEW p \in Procs, CommitDone(p)
  PROVE  UNCHANGED Atomic!vars
<1>1. Running' = Running
  BY WakeupEffect DEF IInv, TypeOK, Phases, Running, CommitDone
<1>2. Recovered' = Recovered /\ Volatile' = Volatile
  BY DEF CommitDone, onDisk, Recovered, InLog, Volatile, Booting, Bread
<1> QED
  BY <1>1, <1>2, Stutters

\* read_head is invisible.
LEMMA RecoverRefines ==
  ASSUME IInv, Recover
  PROVE  UNCHANGED Atomic!vars
<1>1. Recovered' = Recovered /\ Running' = Running
  BY DEF Recover, onDisk, Recovered, InLog, Running
<1>2. Volatile' = Volatile
  BY <1>1 DEF IInv, Phases, Recover, Volatile, Booting
<1> QED
  BY <1>1, <1>2, Stutters

\* A crash is Crash.
LEMMA CrashRefines ==
  ASSUME Crash
  PROVE  Atomic!Crash
<1>1. Recovered' = Recovered
  BY DEF Crash, onDisk, Recovered, InLog
<1>2. Volatile' = Recovered /\ Running' = {}
  BY <1>1 DEF Crash, Volatile, Booting, Running
<1> QED
  BY <1>1, <1>2 DEF Atomic!Crash, Volatile, Running

\* Every step of the log is a step of the atomic disk, or none.
LEMMA NextRefines == IInv /\ IInv' /\ [Next]_vars => [Atomic!Next]_(Atomic!vars)
<1> SUFFICES ASSUME IInv, IInv', [Next]_vars PROVE Atomic!Next \/ UNCHANGED Atomic!vars
  OBVIOUS
<1>1. CASE CommitStep \/ Recover \/ Crash
  BY <1>1, WriteLogRefines, WriteHeadRefines, InstallRefines, ClearHeadRefines,
     CommitDoneRefines, RecoverRefines, CrashRefines DEF CommitStep, Atomic!Next
<1>2. ASSUME NEW p \in Procs, BeginOp(p) \/ EndOp(p)
      PROVE  Atomic!Next \/ UNCHANGED Atomic!vars
  BY <1>2, BeginOpRefines, EndOpRefines DEF Atomic!Next
<1>3. ASSUME NEW p \in Procs, NEW b \in Blocks, NEW v \in Vals, LogWrite(p, b, v)
      PROVE  Atomic!Next
  BY <1>3, LogWriteRefines DEF Atomic!Next
<1>4. ASSUME NEW b \in Blocks, Evict(b) PROVE UNCHANGED Atomic!vars
  BY <1>4, EvictRefines
<1>5. CASE UNCHANGED vars
  <2>1. Recovered' = Recovered /\ Volatile' = Volatile /\ Running' = Running
    BY <1>5 DEF vars, onDisk, inMemory, Recovered, InLog, Volatile, Booting, Bread, Running
  <2> QED
    BY <2>1, Stutters
<1> QED
  BY <1>1, <1>2, <1>3, <1>4, <1>5 DEF Next

\* The redo log implements an atomic disk (log.c): whenever the machine
\* crashes, during recovery too, what recovery leaves is the outcome of whole
\* operations, and a running system reads the last write of every block.
THEOREM LogIsAtomic == Spec => AtomicSpec
<1>1. Spec => []IInv
  BY Invariance
<1> QED
  BY <1>1, InitRefines, NextRefines, PTL DEF Spec, AtomicSpec, Atomic!Spec
=============================================================================
