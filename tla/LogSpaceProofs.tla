--------------------------- MODULE LogSpaceProofs ---------------------------
(***************************************************************************)
(* Admission to the log, for every number of processes and all sizes: an    *)
(* operation that keeps to its share finds room in log_write.               *)
(*                                                                          *)
(* The room an operation may still need is a set of pairs of a process and  *)
(* a number, so that it can be counted.                                     *)
(***************************************************************************)
EXTENDS LogSpace, FiniteSetTheorems, TLAPS

\* Zenon takes most leaves; SMT the ones with arithmetic or many cases.
USE Zenon

TypeOK ==
  /\ n \in Nat /\ outstanding \in Nat /\ committing \in BOOLEAN
  /\ op \in [Procs -> {"idle", "begin", "sleep", "run", "checked", "commit"}]
  /\ wrote \in [Procs -> Nat]
  /\ over \in BOOLEAN

\* The operations between begin_op and end_op, and the blocks they may still log.
Active == {p \in Procs : op[p] \in {"run", "checked"}}
Reserved == {x \in Procs \X (1..MAXOPBLOCKS) : x[1] \in Active /\ x[2] > wrote[x[1]]}

Counted == IsFiniteSet(Active) /\ outstanding = Cardinality(Active)
Room == ~over => IsFiniteSet(Reserved) /\ n + Cardinality(Reserved) <= LOGSIZE

\* One process commits, and no operation is under way meanwhile.
Alone ==
  \A p \in Procs : op[p] = "commit" =>
    committing /\ Active = {} /\ \A q \in Procs : op[q] = "commit" => q = p

IInv == TypeOK /\ Counted /\ Room /\ Alone

\* There are as many pairs of one process and a number as there are numbers.
LEMMA PairsWithOne ==
  ASSUME NEW p, NEW S, IsFiniteSet(S)
  PROVE  IsFiniteSet({p} \X S) /\ Cardinality({p} \X S) = Cardinality(S)
<1>1. IsFiniteSet({p}) /\ Cardinality({p}) = 1
  BY FS_Singleton
<1>2. IsFiniteSet({p} \X S) /\ Cardinality({p} \X S) = Cardinality({p}) * Cardinality(S)
  BY <1>1, FS_Product
<1>3. Cardinality(S) \in Nat
  BY FS_CardinalityType
<1>4. \A c \in Nat : 1 * c = c
  BY SMT
<1> QED
  BY <1>1, <1>2, <1>3, <1>4

\* A step after which no more is reserved and no more is logged leaves room.
LEMMA RoomShrinks ==
  ASSUME TypeOK, Room, Reserved' \subseteq Reserved, n' \in Nat, n' <= n, over' = over
  PROVE  Room'
<1> SUFFICES ASSUME ~over
             PROVE  IsFiniteSet(Reserved') /\ n' + Cardinality(Reserved') <= LOGSIZE
  BY DEF Room
<1>1. IsFiniteSet(Reserved') /\ Cardinality(Reserved') <= Cardinality(Reserved)
  BY FS_Subset DEF Room
<1>2. Cardinality(Reserved) \in Nat /\ Cardinality(Reserved') \in Nat
  BY <1>1, FS_CardinalityType DEF Room
<1> QED
  BY <1>1, <1>2, SizeAssumption, SMT DEF Room, TypeOK

\* wakeup touches sleepers only.
LEMMA WakeupEffect ==
  ASSUME TypeOK
  PROVE  /\ Wakeup \in [Procs -> {"idle", "begin", "sleep", "run", "checked", "commit"}]
         /\ \A q \in Procs : op[q] # "sleep" => Wakeup[q] = op[q]
         /\ \A q \in Procs : op[q] = "sleep" => Wakeup[q] = "begin"
BY DEF TypeOK, Wakeup

\* begin_op goes to sleep.
LEMMA SleepInv ==
  ASSUME IInv, NEW p \in Procs, Sleep(p)
  PROVE  IInv'
<1>1. TypeOK'
  BY DEF IInv, TypeOK, Sleep
<1>2. Active' = Active
  BY DEF IInv, TypeOK, Active, Sleep
<1>3. Reserved' = Reserved
  BY <1>2 DEF Reserved, Sleep
<1>4. Alone'
  BY <1>2 DEF IInv, TypeOK, Alone, Sleep
<1> QED
  BY <1>1, <1>2, <1>3, <1>4 DEF IInv, Counted, Room, Sleep

\* begin_op admits an operation only if all the blocks of all of them fit.
LEMMA AdmitInv ==
  ASSUME IInv, NEW p \in Procs, Admit(p)
  PROVE  IInv'
<1>1. TypeOK'
  BY SMT DEF IInv, TypeOK, Admit
<1>2. Active' = Active \cup {p} /\ p \notin Active
  BY DEF IInv, TypeOK, Active, Admit
<1>3. Counted'
  BY <1>2, FS_AddElement DEF IInv, Counted, Admit
<1>4. Room'
  <2> DEFINE All == Active' \X (1..MAXOPBLOCKS)
  <2>1. IsFiniteSet(1..MAXOPBLOCKS) /\ Cardinality(1..MAXOPBLOCKS) = MAXOPBLOCKS
    BY FS_Interval, SizeAssumption, SMT
  <2>2. IsFiniteSet(All) /\ Cardinality(All) = outstanding' * MAXOPBLOCKS
    BY <1>3, <2>1, FS_Product DEF Counted
  <2>3. Reserved' \subseteq All
    BY DEF Reserved
  <2>4. IsFiniteSet(Reserved') /\ Cardinality(Reserved') <= Cardinality(All)
    BY <2>2, <2>3, FS_Subset
  <2>5. Cardinality(Reserved') \in Nat
    BY <2>4, FS_CardinalityType
  <2>6. n' + outstanding' * MAXOPBLOCKS <= LOGSIZE
    BY SizeAssumption, SMT DEF IInv, TypeOK, Admit, MustWait, NoSpace
  <2>7. n' \in Nat /\ outstanding' * MAXOPBLOCKS \in Nat
    BY <1>1, <2>2, FS_CardinalityType DEF TypeOK
  <2>8. Cardinality(Reserved') <= outstanding' * MAXOPBLOCKS
    BY <2>2, <2>4
  <2>9. \A a, b, c, d \in Nat : a + b <= d /\ c <= b => a + c <= d
    BY SMT
  <2> QED
    BY <2>4, <2>5, <2>6, <2>7, <2>8, <2>9, SizeAssumption DEF Room
<1>5. Alone'
  BY DEF IInv, TypeOK, Alone, Admit, MustWait
<1> QED
  BY <1>1, <1>3, <1>4, <1>5 DEF IInv

\* log_write checks that there is room.
LEMMA LogCheckInv ==
  ASSUME IInv, NEW p \in Procs, LogCheck(p)
  PROVE  IInv'
<1>1. TypeOK'
  BY DEF IInv, TypeOK, LogCheck
<1>2. Active' = Active
  BY DEF IInv, TypeOK, Active, LogCheck
<1>3. Reserved' = Reserved
  BY <1>2 DEF Reserved, LogCheck
<1>4. Alone'
  BY <1>2 DEF IInv, TypeOK, Alone, LogCheck
<1> QED
  BY <1>1, <1>2, <1>3, <1>4 DEF IInv, Counted, Room, LogCheck

\* log_write uses up a block of the operation's reservation, or none.
LEMMA LogAppendInv ==
  ASSUME IInv, NEW p \in Procs, LogAppend(p)
  PROVE  IInv'
<1>1. TypeOK'
  <2>1. n' \in Nat /\ wrote' \in [Procs -> Nat]
    BY SMT DEF IInv, TypeOK, LogAppend
  <2>2. over' \in BOOLEAN
    BY DEF IInv, TypeOK, LogAppend
  <2> QED
    BY <2>1, <2>2 DEF IInv, TypeOK, LogAppend
<1>2. Active' = Active /\ p \in Active
  BY DEF IInv, TypeOK, Active, LogAppend
<1>3. Room'
  <2>1. CASE n' = n + 1 /\ wrote' = [wrote EXCEPT ![p] = @ + 1] /\ over' = (over \/ wrote[p] >= Share)
    <3> SUFFICES ASSUME ~over, ~(wrote[p] >= Share)
                 PROVE  IsFiniteSet(Reserved') /\ n' + Cardinality(Reserved') <= LOGSIZE
      BY <2>1 DEF Room
    <3>1. <<p, wrote[p] + 1>> \in Reserved
      BY <1>2, SizeAssumption, SMT DEF IInv, TypeOK, Reserved, Share
    <3>2. \A x \in Procs \X (1..MAXOPBLOCKS) :
            x[2] > wrote'[x[1]] <=> x[2] > wrote[x[1]] /\ x # <<p, wrote[p] + 1>>
      BY <2>1, SMT DEF IInv, TypeOK
    <3>3. Reserved' = Reserved \ {<<p, wrote[p] + 1>>}
      BY <1>2, <3>2 DEF Reserved
    <3>4. IsFiniteSet(Reserved') /\ Cardinality(Reserved') = Cardinality(Reserved) - 1
      BY <3>1, <3>3, FS_RemoveElement DEF IInv, Room
    <3>5. Cardinality(Reserved) \in Nat
      BY FS_CardinalityType DEF IInv, Room
    <3> QED
      BY <2>1, <3>4, <3>5, SizeAssumption, SMT DEF IInv, TypeOK, Room
  <2>2. CASE UNCHANGED <<n, wrote, over>>
    <3>1. Reserved' = Reserved
      BY <1>2, <2>2 DEF Reserved
    <3> QED
      BY <2>2, <3>1 DEF IInv, Room
  <2> QED
    BY <2>1, <2>2 DEF LogAppend
<1>4. Counted'
  BY <1>2 DEF IInv, Counted, LogAppend
<1>5. Alone'
  BY <1>2 DEF IInv, TypeOK, Alone, LogAppend
<1> QED
  BY <1>1, <1>3, <1>4, <1>5 DEF IInv

\* end_op gives back what the operation has not used.
LEMMA EndOpInv ==
  ASSUME IInv, NEW p \in Procs, EndOp(p)
  PROVE  IInv'
<1>1. Active' = Active \ {p} /\ p \in Active
  BY WakeupEffect, SMT DEF IInv, TypeOK, Active, EndOp, EndWakeup
<1>2. Counted'
  BY <1>1, FS_RemoveElement DEF IInv, Counted, EndOp, AfterOp
<1>3. TypeOK'
  <2>1. outstanding' \in Nat
    BY <1>2, FS_CardinalityType DEF Counted
  <2>2. op' \in [Procs -> {"idle", "begin", "sleep", "run", "checked", "commit"}]
    BY WakeupEffect DEF IInv, TypeOK, EndOp, EndWakeup
  <2>3. wrote' \in [Procs -> Nat]
    BY DEF IInv, TypeOK, EndOp
  <2> QED
    BY <2>1, <2>2, <2>3 DEF IInv, TypeOK, EndOp
<1>4. Alone'
  <2>1. \A q \in Procs : op[q] # "commit"
    BY <1>1 DEF IInv, Alone
  <2>2. CASE outstanding = 1 /\ committing' = TRUE /\ op' = [op EXCEPT ![p] = "commit"]
    <3>1. outstanding' = 0
      BY <2>2, SMT DEF EndOp, AfterOp
    <3>2. Active' = {}
      BY <1>2, <3>1, FS_EmptySet DEF Counted
    <3> QED
      BY <2>1, <2>2, <3>2 DEF IInv, TypeOK, Alone
  <2>3. CASE op' = [EndWakeup EXCEPT ![p] = "idle"]
    BY <2>1, <2>3, WakeupEffect DEF IInv, TypeOK, Alone, EndWakeup
  <2> QED
    BY <2>2, <2>3 DEF EndOp
<1>5. Reserved' \subseteq Reserved
  BY <1>1 DEF IInv, TypeOK, Reserved, EndOp
<1>6. Room'
  BY <1>5, RoomShrinks, SMT DEF IInv, TypeOK, EndOp
<1> QED
  BY <1>2, <1>3, <1>4, <1>6 DEF IInv

\* commit empties the log.
LEMMA CommitInv ==
  ASSUME IInv, NEW p \in Procs, Commit(p)
  PROVE  IInv'
<1>1. Active = {} /\ \A q \in Procs : op[q] = "commit" => q = p
  BY DEF IInv, Alone, Commit
<1>2. Active' = {}
  BY <1>1, WakeupEffect DEF IInv, TypeOK, Active, Commit, CommitWakeup
<1>3. TypeOK'
  <2>1. op' \in [Procs -> {"idle", "begin", "sleep", "run", "checked", "commit"}]
    BY WakeupEffect DEF IInv, TypeOK, Commit, CommitWakeup
  <2> QED
    BY <2>1 DEF IInv, TypeOK, Commit
<1>4. Alone'
  BY <1>1, WakeupEffect DEF IInv, TypeOK, Alone, Commit, CommitWakeup
<1>5. Room'
  <2>1. Reserved' = {}
    BY <1>2 DEF Reserved
  <2> QED
    BY <2>1, FS_EmptySet, SizeAssumption, SMT DEF Room, Commit
<1>6. Counted'
  BY <1>1, <1>2 DEF IInv, Counted, Commit
<1> QED
  BY <1>3, <1>4, <1>5, <1>6 DEF IInv

\* Nothing is reserved at the start.
LEMMA InitInv == Init => IInv
<1> SUFFICES ASSUME Init PROVE IInv
  OBVIOUS
<1>1. TypeOK /\ Alone
  BY DEF Init, TypeOK, Alone
<1>2. Active = {} /\ Reserved = {}
  BY DEF Init, Active, Reserved
<1> QED
  BY <1>1, <1>2, FS_EmptySet, SizeAssumption, SMT DEF Init, IInv, Counted, Room

\* The operation still has room for what it may log.
LEMMA RoomForOne ==
  ASSUME IInv, ~over, NEW p \in Active, wrote[p] < Share
  PROVE  ~LogFull
<1> DEFINE Own == {p} \X ((wrote[p] + 1)..MAXOPBLOCKS)
<1>1. wrote[p] \in Nat /\ wrote[p] < MAXOPBLOCKS
  BY SizeAssumption, SMT DEF Share, IInv, TypeOK, Active
<1>2. /\ IsFiniteSet((wrote[p] + 1)..MAXOPBLOCKS)
      /\ Cardinality((wrote[p] + 1)..MAXOPBLOCKS) = MAXOPBLOCKS - wrote[p]
  <2>1. wrote[p] + 1 \in Int /\ MAXOPBLOCKS \in Int /\ ~(wrote[p] + 1 > MAXOPBLOCKS)
    BY <1>1, SizeAssumption, SMT
  <2>2. /\ IsFiniteSet((wrote[p] + 1)..MAXOPBLOCKS)
        /\ Cardinality((wrote[p] + 1)..MAXOPBLOCKS) = (MAXOPBLOCKS - (wrote[p] + 1)) + 1
    BY <2>1, FS_Interval
  <2> QED
    BY <1>1, <2>2, SizeAssumption, SMT
<1>3. IsFiniteSet(Own) /\ Cardinality(Own) = MAXOPBLOCKS - wrote[p]
  BY <1>2, PairsWithOne
<1>4. Own \subseteq Reserved
  BY <1>1, SizeAssumption, SMT DEF Active, Reserved
<1>5. Cardinality(Own) <= Cardinality(Reserved) /\ Cardinality(Reserved) \in Nat
  BY <1>4, FS_Subset, FS_CardinalityType DEF IInv, Room
<1>6. n + (MAXOPBLOCKS - wrote[p]) <= LOGSIZE
  BY <1>1, <1>3, <1>5, SizeAssumption, SMT DEF IInv, TypeOK, Room
<1> QED
  BY <1>1, <1>6, SizeAssumption, SMT DEF Share, NLOG, IInv, TypeOK, LogFull

\* Every step keeps the reservations within the log.
LEMMA NextInv == IInv /\ [Next]_vars => IInv'
<1> SUFFICES ASSUME IInv, [Next]_vars PROVE IInv'
  OBVIOUS
<1>1. ASSUME NEW p \in Procs, Step(p) PROVE IInv'
  BY <1>1, SleepInv, AdmitInv, LogCheckInv, LogAppendInv, EndOpInv, CommitInv DEF Step
<1>2. CASE UNCHANGED vars
  <2>1. Active' = Active
    BY <1>2 DEF vars, Active
  <2>2. Reserved' = Reserved
    BY <1>2, <2>1 DEF vars, Reserved
  <2> QED
    BY <1>2, <2>1, <2>2 DEF vars, IInv, TypeOK, Counted, Room, Alone
<1> QED
  BY <1>1, <1>2 DEF Next

\* begin_op's reservations hold: as long as no operation of the transaction has
\* added more than its share, what is logged and what is reserved is never more
\* than LOGSIZE; and a commit is alone.
THEOREM Invariance == Spec => []IInv
BY InitInv, NextInv, PTL DEF Spec

\* log_write panics with "too big a transaction", or appends after another
\* operation has used up the block it checked for, only in a transaction in which
\* some operation has added MAXOPBLOCKS - 1 blocks or more.
THEOREM NeverTooBig == Spec => []NoTooBig
<1>1. IInv => NoTooBig
  BY RoomForOne DEF NoTooBig, Active
<1> QED
  BY <1>1, Invariance, PTL
=============================================================================
