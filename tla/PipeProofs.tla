----------------------------- MODULE PipeProofs -----------------------------
(***************************************************************************)
(* Proofs about Pipe, for any readers, writers, bytes, PIPESIZE and counter *)
(* width that is a multiple of it: the ring is a bounded queue, nobody is   *)
(* left sleeping (but by a killed writer), an end of file is one, and the   *)
(* page is freed when nobody can use it.                                    *)
(***************************************************************************)
EXTENDS Pipe, SequenceTheorems, TLAPS

\* Zenon takes most leaves; SMT the ones with arithmetic or many cases.
USE Zenon

-----------------------------------------------------------------------------
(* Arithmetic of the wrapping counters *)

\* Division with remainder is unique.
LEMMA RemainderUnique ==
  ASSUME NEW b \in Nat \ {0}, NEW q \in Int, NEW r \in 0..(b - 1),
         NEW f \in Int, NEW s \in 0..(b - 1), b * q + r = b * f + s
  PROVE  r = s
<1>1. b * (q - f) = s - r
  BY SMT
<1>2. CASE q - f >= 1
  <2>1. b * (q - f) >= b
    BY <1>2, SMT
  <2> QED
    BY <1>1, <2>1, SMT
<1>3. CASE q - f <= -1
  <2>1. b * (q - f) <= -b
    BY <1>3, SMT
  <2> QED
    BY <1>1, <2>1, SMT
<1> QED
  BY <1>1, <1>2, <1>3, SMT

\* The same, when the dividend was itself reduced modulo a multiple of b.
LEMMA RemainderNested ==
  ASSUME NEW b \in Nat \ {0}, NEW k \in Nat, NEW q \in Nat, NEW e \in Nat, NEW f \in Nat,
         NEW r \in 0..(b - 1), NEW s \in 0..(b - 1),
         (b * k) * q + (b * e + r) = b * f + s
  PROVE  r = s
<1>1. k * q + e \in Int /\ b * (k * q + e) + r = (b * k) * q + (b * e + r)
  BY SMT
<1> QED
  BY <1>1, RemainderUnique, SMT

\* A counter that wraps at a multiple of PIPESIZE indexes the ring like one
\* that does not.
LEMMA WrapKeepsSlot ==
  ASSUME NEW b \in Nat \ {0}, NEW w \in Nat \ {0}, w % b = 0, NEW x \in Nat
  PROVE  (x % w) % b = x % b
<1> DEFINE k == w \div b
           q == x \div w
           m == x % w
           e == m \div b
           r == m % b
           f == x \div b
           s == x % b
<1>1. k \in Nat /\ w % b = w - b * k
  BY SMT
<1>2. q \in Nat /\ m \in Nat /\ m = x - w * q
  BY SMT
<1>3. ASSUME NEW n \in Nat
      PROVE  n \div b \in Nat /\ n % b \in 0..(b - 1) /\ n % b = n - b * (n \div b)
  BY SMT
<1>4. e \in Nat /\ r \in 0..(b - 1) /\ r = m - b * e
  BY <1>2, <1>3
<1>5. f \in Nat /\ s \in 0..(b - 1) /\ s = x - b * f
  BY <1>3
<1> HIDE DEF k, q, m, e, r, f, s
<1>6. w = b * k
  BY <1>1, SMT
<1>7. x = (b * k) * q + m
  BY <1>2, <1>6, SMT
<1>8. m = b * e + r /\ x = b * f + s
  BY <1>2, <1>4, <1>5, SMT
<1>9. r = s
  <2>1. (b * k) * q + (b * e + r) = b * f + s
    BY <1>7, <1>8
  <2>2. /\ k \in Nat /\ q \in Nat /\ e \in Nat /\ f \in Nat
        /\ r \in 0..(b - 1) /\ s \in 0..(b - 1)
    BY <1>1, <1>2, <1>4, <1>5
  <2> QED
    BY <2>1, <2>2, RemainderNested, SMT
<1> QED
  BY <1>9 DEF r, s, m

\* Counters less than PIPESIZE apart index different slots.
LEMMA NearSlotsDiffer ==
  ASSUME NEW b \in Nat \ {0}, NEW x \in Nat, NEW y \in Nat, x < y, y - x < b
  PROVE  x % b # y % b
<1> DEFINE q == x \div b
           r == x % b
           f == y \div b
           s == y % b
<1>1. q \in Nat /\ r \in 0..(b - 1) /\ r = x - b * q
  BY SMT
<1>2. f \in Nat /\ s \in 0..(b - 1) /\ s = y - b * f
  BY SMT
<1> HIDE DEF q, r, f, s
<1>3. b * (f - q) = b * f - b * q /\ b * f \in Int /\ b * q \in Int
  BY <1>1, <1>2, SMT
<1>4. r # s
  <2> SUFFICES ASSUME r = s PROVE FALSE
    OBVIOUS
  <2>1. x - b * q = y - b * f
    BY <1>1, <1>2
  <2>2. b * 0 + (y - x) = b * (f - q) + 0
    BY <1>3, <2>1, SMT
  <2>3. y - x = 0
    BY <1>1, <1>2, <2>2, RemainderUnique, SMT
  <2> QED
    BY <2>3, SMT
<1> QED
  BY <1>4 DEF r, s

\* The sum of a counter and a distance, and the distance of two counters.
LEMMA WrapSum ==
  ASSUME NEW w \in Nat \ {0}, NEW a \in 0..(w - 1), NEW d \in 0..w
  PROVE  (a + d) % w = IF a + d < w THEN a + d ELSE a + d - w
<1>1. CASE a + d < w
  BY <1>1, SMT
<1>2. CASE a + d >= w
  BY <1>2, SMT
<1> QED
  BY <1>1, <1>2, SMT

\* How far apart two counters of the pipe are, when either may have wrapped.
LEMMA WrapDifference ==
  ASSUME NEW w \in Nat \ {0}, NEW a \in 0..(w - 1), NEW b \in 0..(w - 1)
  PROVE  (a - b + w) % w = IF a >= b THEN a - b ELSE a - b + w
<1>1. CASE a >= b
  BY <1>1, SMT
<1>2. CASE a < b
  BY <1>2, SMT
<1> QED
  BY <1>1, <1>2, SMT

-----------------------------------------------------------------------------
(* The inductive invariant *)

Labels == {"user", "lock", "loop", "sleep", "asleep", "copy"}

TypeOK ==
  /\ data \in [0..(PIPESIZE - 1) -> Bytes]
  /\ nread \in 0..(Width - 1) /\ nwrite \in 0..(Width - 1)
  /\ readopen \in BOOLEAN /\ writeopen \in BOOLEAN /\ freed \in BOOLEAN
  /\ lock \in Procs \cup {NoProc}
  /\ holds \subseteq Procs
  /\ pc \in [Procs -> Labels]
  /\ left \in [Procs -> Nat]
  /\ got \in [Procs -> Nat]
  /\ killed \in [Procs -> BOOLEAN]

\* The bytes in the pipe: nwrite - nread, as unsigned numbers.
Count == (nwrite - nread + Width) % Width

\* The ends are open as long as somebody holds them, and the page stays as
\* long as an end is open.
Ends ==
  /\ readopen <=> holds \cap Readers # {}
  /\ writeopen <=> holds \cap Writers # {}
  /\ freed <=> holds = {}
  /\ \A p \in Procs : pc[p] # "user" => p \in holds

\* p->lock is held exactly by the process that runs piperead or pipewrite.
Locked ==
  /\ \A p \in Procs : pc[p] \in {"loop", "sleep", "copy"} <=> lock = p
  /\ \A p \in Writers : pc[p] # "copy"

\* What a process about to sleep has seen still holds: the lock is not given up.
Waiting ==
  /\ \A r \in Readers : pc[r] = "sleep" => Empty /\ writeopen
  /\ \A w \in Writers : pc[w] = "sleep" => Full /\ readopen

\* A read that has copied nothing yet finds a byte, or the end of the file.
Reading ==
  \A r \in Readers : pc[r] = "copy" /\ got[r] = 0 => ~Empty \/ ~writeopen

\* Who sleeps has something to wait for, or is about to be woken, or was
\* forgotten by a killed writer.
Asleep ==
  /\ \A r \in Readers : pc[r] = "asleep" =>
       /\ writeopen
       /\ \/ Empty
          \/ lock \in Writers /\ pc[lock] = "loop"
          \/ \E w \in Writers : killed[w]
  /\ \A w \in Writers : pc[w] = "asleep" =>
       /\ readopen
       /\ \/ Full
          \/ lock \in Readers /\ pc[lock] = "copy"

IInv == TypeOK /\ Count <= PIPESIZE /\ Ends /\ Locked /\ Waiting /\ Reading /\ Asleep

-----------------------------------------------------------------------------
(* How full the ring is *)

\* What the assumptions say of the sizes of the ring and of its counters.
LEMMA Sizes == PIPESIZE \in Nat \ {0} /\ Width \in Nat \ {0} /\ Width > PIPESIZE
BY PipeAssumption, SMT

\* A byte, and a full ring of them, are steps that a counter can make.
LEMMA SmallSteps == PIPESIZE \in 0..Width /\ 1 \in 0..Width
BY Sizes, SMT

\* The number of bytes, without the wrap.
LEMMA CountIs ==
  ASSUME TypeOK
  PROVE  Count = IF nwrite >= nread THEN nwrite - nread ELSE nwrite - nread + Width
BY WrapDifference, Sizes DEF TypeOK, Count

\* The tests of piperead and pipewrite compare that number with 0 and PIPESIZE.
LEMMA FullAndEmpty ==
  ASSUME TypeOK, Count <= PIPESIZE
  PROVE  /\ Count \in 0..PIPESIZE
         /\ Empty <=> Count = 0
         /\ Full <=> Count = PIPESIZE
<1>1. nread \in 0..(Width - 1) /\ nwrite \in 0..(Width - 1)
  BY DEF TypeOK
<1>2. (nread + PIPESIZE) % Width =
        IF nread + PIPESIZE < Width THEN nread + PIPESIZE ELSE nread + PIPESIZE - Width
  BY <1>1, Sizes, SmallSteps, WrapSum
<1>3. Count \in 0..PIPESIZE /\ (Empty <=> Count = 0)
  BY <1>1, CountIs, Sizes, SMT DEF Empty
<1>4. Full <=> Count = PIPESIZE
  BY <1>1, <1>2, CountIs, Sizes, SMT DEF Full
<1> QED
  BY <1>3, <1>4

\* The next value of a counter.
LEMMA SuccIs ==
  ASSUME NEW n \in 0..(Width - 1)
  PROVE  Succ(n) = IF n = Width - 1 THEN 0 ELSE n + 1
<1>1. (n + 1) % Width = IF n + 1 < Width THEN n + 1 ELSE n + 1 - Width
  BY Sizes, SmallSteps, WrapSum
<1> QED
  BY <1>1, Sizes, SMT DEF Succ

\* pipewrite adds a byte, piperead takes one.
LEMMA CountSteps ==
  ASSUME TypeOK, Count <= PIPESIZE
  PROVE  /\ ~Full /\ nwrite' = Succ(nwrite) /\ nread' = nread => Count' = Count + 1
         /\ ~Empty /\ nread' = Succ(nread) /\ nwrite' = nwrite => Count' = Count - 1
<1>1. nread \in 0..(Width - 1) /\ nwrite \in 0..(Width - 1)
  BY DEF TypeOK
<1>2. Succ(nwrite) = IF nwrite = Width - 1 THEN 0 ELSE nwrite + 1
  BY <1>1, SuccIs
<1>3. Succ(nread) = IF nread = Width - 1 THEN 0 ELSE nread + 1
  BY <1>1, SuccIs
<1>4. ASSUME ~Full, nwrite' = Succ(nwrite), nread' = nread PROVE Count' = Count + 1
  <2>1. nwrite' \in 0..(Width - 1)
    BY <1>1, <1>2, <1>4, Sizes, SMT
  <2>2. Count' = IF nwrite' >= nread THEN nwrite' - nread ELSE nwrite' - nread + Width
    BY <1>1, <1>4, <2>1, Sizes, WrapDifference DEF Count
  <2> QED
    BY <1>1, <1>2, <1>4, <2>2, CountIs, FullAndEmpty, Sizes, SMT
<1>5. ASSUME ~Empty, nread' = Succ(nread), nwrite' = nwrite PROVE Count' = Count - 1
  <2>1. nread' \in 0..(Width - 1)
    BY <1>1, <1>3, <1>5, Sizes, SMT
  <2>2. Count' = IF nwrite >= nread' THEN nwrite - nread' ELSE nwrite - nread' + Width
    BY <1>1, <1>5, <2>1, Sizes, WrapDifference DEF Count
  <2> QED
    BY <1>1, <1>3, <1>5, <2>2, CountIs, FullAndEmpty, Sizes, SMT
<1> QED
  BY <1>4, <1>5
-----------------------------------------------------------------------------
(* The inductive invariant, action by action *)

\* A step that leaves the counters alone leaves the ring as full as it was.
LEMMA Steady ==
  ASSUME UNCHANGED <<nread, nwrite>>
  PROVE  Count' = Count /\ (Full' <=> Full) /\ (Empty' <=> Empty)
BY DEF Count, Full, Empty

\* wakeup sends the sleepers among P to acquire, and touches nobody else.
LEMMA WakeupEffect ==
  ASSUME TypeOK, NEW P
  PROVE  /\ Wakeup(P) \in [Procs -> Labels]
         /\ \A q \in Procs : Wakeup(P)[q] = IF q \in P /\ pc[q] = "asleep" THEN "lock" ELSE pc[q]
BY DEF TypeOK, Labels, Wakeup

\* A process is at one end of the pipe.
LEMMA OneEnd ==
  /\ \A p \in Procs : p # NoProc
  /\ \A p \in Writers : p \in Procs /\ p \notin Readers /\ p # NoProc
  /\ \A p \in Readers : p \in Procs /\ p \notin Writers /\ p # NoProc
BY PipeAssumption DEF Procs

\* read or write enters the kernel.
LEMMA CallInv ==
  ASSUME IInv, NEW p \in Procs, NEW n \in 0..MaxN, Call(p, n)
  PROVE  IInv'
<1>1. TypeOK /\ Count <= PIPESIZE /\ Ends /\ Locked /\ Waiting /\ Reading /\ Asleep
  BY DEF IInv
<1>2. /\ pc[p] = "user" /\ p \in holds
      /\ pc' \in [Procs -> Labels]
      /\ \A q \in Procs : pc'[q] = IF q = p THEN "lock" ELSE pc[q]
      /\ left' \in [Procs -> Nat] /\ got' \in [Procs -> Nat]
      /\ \A q \in Procs \ {p} : got'[q] = got[q]
      /\ UNCHANGED <<data, nread, nwrite, readopen, writeopen, freed, lock, holds, killed>>
  BY <1>1, PipeAssumption, SMT DEF TypeOK, Labels, Call, pipeVars
<1>3. TypeOK'
  BY <1>1, <1>2 DEF TypeOK, Labels
<1>4. Count' <= PIPESIZE /\ (Full' <=> Full) /\ (Empty' <=> Empty)
  BY <1>1, <1>2, Steady
<1>5. Ends'
  BY <1>1, <1>2 DEF Ends
<1>6. Locked'
  BY <1>1, <1>2, OneEnd DEF Locked
<1>7. Waiting'
  BY <1>1, <1>2, <1>4, OneEnd DEF Waiting, Locked
<1>8. Reading'
  BY <1>1, <1>2, <1>4, OneEnd DEF Reading, Locked
<1>9. Asleep'
  BY <1>1, <1>2, <1>4, OneEnd DEF Asleep, Locked
<1> QED
  BY <1>3, <1>4, <1>5, <1>6, <1>7, <1>8, <1>9 DEF IInv

\* acquire(&p->lock): nobody else is inside.
LEMMA AcquireInv ==
  ASSUME IInv, NEW p \in Procs, Acquire(p)
  PROVE  IInv'
<1>1. TypeOK /\ Count <= PIPESIZE /\ Ends /\ Locked /\ Waiting /\ Reading /\ Asleep
  BY DEF IInv
<1>2. /\ pc[p] = "lock" /\ lock = NoProc /\ lock' = p
      /\ pc' \in [Procs -> Labels]
      /\ \A q \in Procs : pc'[q] = IF q = p THEN "loop" ELSE pc[q]
      /\ UNCHANGED <<data, nread, nwrite, readopen, writeopen, freed, holds, left, got, killed>>
  BY <1>1 DEF TypeOK, Labels, Acquire, pipeVars
<1>3. TypeOK'
  BY <1>1, <1>2 DEF TypeOK, Labels
<1>4. Count' <= PIPESIZE /\ (Full' <=> Full) /\ (Empty' <=> Empty)
  BY <1>1, <1>2, Steady
<1>5. Ends'
  BY <1>1, <1>2 DEF Ends
<1>6. Locked'
  BY <1>1, <1>2, OneEnd DEF Locked
<1>7. Waiting'
  BY <1>1, <1>2, <1>4, OneEnd DEF Waiting, Locked
<1>8. Reading'
  BY <1>1, <1>2, <1>4, OneEnd DEF Reading, Locked
<1>9. Asleep'
  BY <1>1, <1>2, <1>4, OneEnd DEF Asleep, Locked
<1> QED
  BY <1>3, <1>4, <1>5, <1>6, <1>7, <1>8, <1>9 DEF IInv

\* sleep gives up the lock and becomes SLEEPING at once: what was seen under
\* the lock is still so.
LEMMA SleepInv ==
  ASSUME IInv, NEW p \in Procs, Sleep(p)
  PROVE  IInv'
<1>1. TypeOK /\ Count <= PIPESIZE /\ Ends /\ Locked /\ Waiting /\ Reading /\ Asleep
  BY DEF IInv
<1>2. /\ pc[p] = "sleep" /\ lock' = NoProc
      /\ pc' \in [Procs -> Labels]
      /\ \A q \in Procs : pc'[q] = IF q = p THEN "asleep" ELSE pc[q]
      /\ UNCHANGED <<data, nread, nwrite, readopen, writeopen, freed, holds, left, got, killed>>
  BY <1>1 DEF TypeOK, Labels, Sleep, pipeVars
<1>3. TypeOK'
  BY <1>1, <1>2 DEF TypeOK, Labels
<1>4. Count' <= PIPESIZE /\ (Full' <=> Full) /\ (Empty' <=> Empty)
  BY <1>1, <1>2, Steady
<1>5. Ends'
  BY <1>1, <1>2 DEF Ends
<1>6. Locked'
  BY <1>1, <1>2, OneEnd DEF Locked
<1>7. Waiting'
  BY <1>1, <1>2, <1>4, OneEnd DEF Waiting, Locked
<1>8. Reading'
  BY <1>1, <1>2, <1>4, OneEnd DEF Reading, Locked
<1>9. Asleep'
  BY <1>1, <1>2, <1>4, OneEnd DEF Asleep, Waiting, Locked
<1> QED
  BY <1>3, <1>4, <1>5, <1>6, <1>7, <1>8, <1>9 DEF IInv

\* kill wakes its target, and a killed process stays killed.
LEMMA KillInv ==
  ASSUME IInv, NEW p \in Procs, Kill(p)
  PROVE  IInv'
<1>1. TypeOK /\ Count <= PIPESIZE /\ Ends /\ Locked /\ Waiting /\ Reading /\ Asleep
  BY DEF IInv
<1>2. /\ \A q \in Procs : killed[q] => killed'[q]
      /\ pc' \in [Procs -> Labels]
      /\ \A q \in Procs : pc'[q] = IF q = p THEN (IF pc[p] = "asleep" THEN "lock" ELSE pc[p]) ELSE pc[q]
      /\ UNCHANGED <<data, nread, nwrite, readopen, writeopen, freed, lock, holds, left, got>>
  BY <1>1 DEF TypeOK, Labels, Kill, pipeVars
<1>3. TypeOK'
  <2>1. killed' \in [Procs -> BOOLEAN]
    BY <1>1 DEF TypeOK, Kill
  <2> QED
    BY <1>1, <1>2, <2>1 DEF TypeOK
<1>4. Count' <= PIPESIZE /\ (Full' <=> Full) /\ (Empty' <=> Empty)
  BY <1>1, <1>2, Steady
<1>5. Ends'
  BY <1>1, <1>2 DEF Ends
<1>6. Locked'
  BY <1>1, <1>2, OneEnd DEF Locked
<1>7. Waiting'
  BY <1>1, <1>2, <1>4, OneEnd DEF Waiting, Locked
<1>8. Reading'
  BY <1>1, <1>2, <1>4, OneEnd DEF Reading, Locked
<1>9. Asleep'
  BY <1>1, <1>2, <1>4, OneEnd DEF Asleep, Locked
<1> QED
  BY <1>3, <1>4, <1>5, <1>6, <1>7, <1>8, <1>9 DEF IInv

\* A byte goes into the ring: no writer sleeps, and the readers are woken before
\* the lock is given up.
LEMMA WritePutInv ==
  ASSUME IInv, NEW p \in Writers, NEW b \in Bytes, WritePut(p, b)
  PROVE  IInv'
<1>1. TypeOK /\ Count <= PIPESIZE /\ Ends /\ Locked /\ Waiting /\ Reading /\ Asleep
  BY DEF IInv
<1>2. /\ pc[p] = "loop" /\ lock = p /\ ~Full /\ ~Full
      /\ UNCHANGED <<nread, readopen, writeopen, freed, lock, holds, pc, got, killed>>
  BY <1>1, OneEnd DEF TypeOK, Locked, WritePut
<1>3. TypeOK'
  <2>1. data' \in [0..(PIPESIZE - 1) -> Bytes]
    BY <1>1 DEF TypeOK, WritePut
  <2>2. nwrite' \in 0..(Width - 1)
    BY <1>1, SuccIs, Sizes, SMT DEF TypeOK, WritePut
  <2>3. left' \in [Procs -> Nat]
    BY <1>1, OneEnd, SMT DEF TypeOK, WritePut
  <2> QED
    BY <1>1, <1>2, <2>1, <2>2, <2>3 DEF TypeOK
<1>4. Count' <= PIPESIZE
  <2>1. Count' = Count + 1
    BY <1>1, CountSteps DEF WritePut
  <2> QED
    BY <1>1, <1>2, <2>1, FullAndEmpty, Sizes, SMT
<1>5. Ends'
  BY <1>1, <1>2 DEF Ends
<1>6. Locked'
  BY <1>1, <1>2, OneEnd DEF Locked
<1>7. Waiting'
  BY <1>1, <1>2, OneEnd DEF Waiting, Locked
<1>8. Reading'
  BY <1>1, <1>2, OneEnd DEF Reading, Locked
<1>9. Asleep'
  BY <1>1, <1>2, OneEnd DEF Asleep, Locked
<1> QED
  BY <1>3, <1>4, <1>5, <1>6, <1>7, <1>8, <1>9 DEF IInv

\* pipewrite gives up on a full ring, killed or without a reader, and wakes
\* nobody.
LEMMA WriteFailInv ==
  ASSUME IInv, NEW p \in Writers, WriteFail(p)
  PROVE  IInv'
<1>1. TypeOK /\ Count <= PIPESIZE /\ Ends /\ Locked /\ Waiting /\ Reading /\ Asleep
  BY DEF IInv
<1>2. /\ pc[p] = "loop" /\ lock = p /\ lock' = NoProc /\ Full
      /\ ~readopen \/ killed[p]
      /\ pc' \in [Procs -> Labels]
      /\ \A q \in Procs : pc'[q] = IF q = p THEN "user" ELSE pc[q]
      /\ UNCHANGED <<data, nread, nwrite, readopen, writeopen, freed, holds, left, got, killed>>
  BY <1>1, OneEnd DEF TypeOK, Labels, Locked, WriteFail, Return, pipeVars
<1>3. TypeOK'
  BY <1>1, <1>2 DEF TypeOK, Labels
<1>4. Count' <= PIPESIZE /\ (Full' <=> Full) /\ (Empty' <=> Empty)
  BY <1>1, <1>2, Steady
<1>5. Ends'
  BY <1>1, <1>2 DEF Ends
<1>6. Locked'
  BY <1>1, <1>2, OneEnd DEF Locked
<1>7. Waiting'
  BY <1>1, <1>2, <1>4, OneEnd DEF Waiting, Locked
<1>8. Reading'
  BY <1>1, <1>2, <1>4, OneEnd DEF Reading, Locked
<1>9. Asleep'
  <2>1. ~readopen => \A r \in Readers : pc'[r] # "asleep"
    BY <1>1, <1>2, OneEnd DEF Ends
  <2> QED
    BY <1>1, <1>2, <1>4, <2>1, OneEnd DEF Asleep, Locked
<1> QED
  BY <1>3, <1>4, <1>5, <1>6, <1>7, <1>8, <1>9 DEF IInv

\* pipewrite wakes the readers before it goes to sleep on a full ring.
LEMMA WriteFullInv ==
  ASSUME IInv, NEW p \in Writers, WriteFull(p)
  PROVE  IInv'
<1>1. TypeOK /\ Count <= PIPESIZE /\ Ends /\ Locked /\ Waiting /\ Reading /\ Asleep
  BY DEF IInv
<1>2. /\ pc[p] = "loop" /\ lock = p /\ Full /\ readopen
      /\ pc' \in [Procs -> Labels]
      /\ \A q \in Procs : pc'[q] = IF q = p THEN "sleep"
                                ELSE IF q \in Readers /\ pc[q] = "asleep" THEN "lock" ELSE pc[q]
      /\ UNCHANGED <<data, nread, nwrite, readopen, writeopen, freed, lock, holds, left, got, killed>>
  BY <1>1, OneEnd, WakeupEffect DEF TypeOK, Labels, Locked, WriteFull, FullWakeup, pipeVars
<1>3. TypeOK'
  BY <1>1, <1>2 DEF TypeOK, Labels
<1>4. Count' <= PIPESIZE /\ (Full' <=> Full) /\ (Empty' <=> Empty)
  BY <1>1, <1>2, Steady
<1>5. Ends'
  BY <1>1, <1>2 DEF Ends
<1>6. Locked'
  BY <1>1, <1>2, OneEnd DEF Locked
<1>7. Waiting'
  BY <1>1, <1>2, <1>4, OneEnd DEF Waiting, Locked
<1>8. Reading'
  BY <1>1, <1>2, <1>4, OneEnd DEF Reading, Locked
<1>9. Asleep'
  BY <1>1, <1>2, <1>4, OneEnd DEF Asleep, Locked
<1> QED
  BY <1>3, <1>4, <1>5, <1>6, <1>7, <1>8, <1>9 DEF IInv

\* pipewrite wakes the readers when it is through.
LEMMA WriteDoneInv ==
  ASSUME IInv, NEW p \in Writers, WriteDone(p)
  PROVE  IInv'
<1>1. TypeOK /\ Count <= PIPESIZE /\ Ends /\ Locked /\ Waiting /\ Reading /\ Asleep
  BY DEF IInv
<1>2. /\ pc[p] = "loop" /\ lock = p /\ lock' = NoProc
      /\ pc' \in [Procs -> Labels]
      /\ \A q \in Procs : pc'[q] = IF q = p THEN "user"
                                ELSE IF q \in Readers /\ pc[q] = "asleep" THEN "lock" ELSE pc[q]
      /\ UNCHANGED <<data, nread, nwrite, readopen, writeopen, freed, holds, left, got, killed>>
  BY <1>1, OneEnd, WakeupEffect DEF TypeOK, Labels, Locked, WriteDone, Return, pipeVars
<1>3. TypeOK'
  BY <1>1, <1>2 DEF TypeOK, Labels
<1>4. Count' <= PIPESIZE /\ (Full' <=> Full) /\ (Empty' <=> Empty)
  BY <1>1, <1>2, Steady
<1>5. Ends'
  BY <1>1, <1>2 DEF Ends
<1>6. Locked'
  BY <1>1, <1>2, OneEnd DEF Locked
<1>7. Waiting'
  BY <1>1, <1>2, <1>4, OneEnd DEF Waiting, Locked
<1>8. Reading'
  BY <1>1, <1>2, <1>4, OneEnd DEF Reading, Locked
<1>9. Asleep'
  BY <1>1, <1>2, <1>4, OneEnd DEF Asleep, Locked
<1> QED
  BY <1>3, <1>4, <1>5, <1>6, <1>7, <1>8, <1>9 DEF IInv

\* piperead gives up, or is about to sleep on an empty ring.
LEMMA ReadWaitInv ==
  ASSUME IInv, NEW p \in Readers, ReadWait(p)
  PROVE  IInv'
<1>1. TypeOK /\ Count <= PIPESIZE /\ Ends /\ Locked /\ Waiting /\ Reading /\ Asleep
  BY DEF IInv
<1>2. /\ pc[p] = "loop" /\ lock = p /\ Empty /\ writeopen
      /\ pc' \in [Procs -> Labels]
      /\ \A q \in Procs \ {p} : pc'[q] = pc[q]
      /\ \/ pc'[p] = "user" /\ lock' = NoProc
         \/ pc'[p] = "sleep" /\ lock' = p
      /\ UNCHANGED <<data, nread, nwrite, readopen, writeopen, freed, holds, left, got, killed>>
  BY <1>1, OneEnd DEF TypeOK, Labels, Locked, ReadWait, ReadMustWait, Return, pipeVars
<1>3. TypeOK'
  BY <1>1, <1>2 DEF TypeOK, Labels
<1>4. Count' <= PIPESIZE /\ (Full' <=> Full) /\ (Empty' <=> Empty)
  BY <1>1, <1>2, Steady
<1>5. Ends'
  BY <1>1, <1>2 DEF Ends
<1>6. Locked'
  BY <1>1, <1>2, OneEnd DEF Locked
<1>7. Waiting'
  BY <1>1, <1>2, <1>4, OneEnd DEF Waiting, Locked
<1>8. Reading'
  BY <1>1, <1>2, <1>4, OneEnd DEF Reading, Locked
<1>9. Asleep'
  BY <1>1, <1>2, <1>4, OneEnd DEF Asleep, Locked
<1> QED
  BY <1>3, <1>4, <1>5, <1>6, <1>7, <1>8, <1>9 DEF IInv

\* piperead goes on to copy, or to report the end of the file.
LEMMA ReadReadyInv ==
  ASSUME IInv, NEW p \in Readers, ReadReady(p)
  PROVE  IInv'
<1>1. TypeOK /\ Count <= PIPESIZE /\ Ends /\ Locked /\ Waiting /\ Reading /\ Asleep
  BY DEF IInv
<1>2. /\ pc[p] = "loop" /\ lock = p /\ (~Empty \/ ~writeopen)
      /\ pc' \in [Procs -> Labels]
      /\ \A q \in Procs : pc'[q] = IF q = p THEN "copy" ELSE pc[q]
      /\ UNCHANGED <<data, nread, nwrite, readopen, writeopen, freed, lock, holds, left, got, killed>>
  BY <1>1, OneEnd DEF TypeOK, Labels, Locked, ReadReady, ReadMustWait, pipeVars
<1>3. TypeOK'
  BY <1>1, <1>2 DEF TypeOK, Labels
<1>4. Count' <= PIPESIZE /\ (Full' <=> Full) /\ (Empty' <=> Empty)
  BY <1>1, <1>2, Steady
<1>5. Ends'
  BY <1>1, <1>2 DEF Ends
<1>6. Locked'
  BY <1>1, <1>2, OneEnd DEF Locked
<1>7. Waiting'
  BY <1>1, <1>2, <1>4, OneEnd DEF Waiting, Locked
<1>8. Reading'
  BY <1>1, <1>2, <1>4, OneEnd DEF Reading, Locked
<1>9. Asleep'
  BY <1>1, <1>2, <1>4, OneEnd DEF Asleep, Locked
<1> QED
  BY <1>3, <1>4, <1>5, <1>6, <1>7, <1>8, <1>9 DEF IInv

\* A byte leaves the ring: the writers are woken before the lock is given up.
LEMMA ReadGetInv ==
  ASSUME IInv, NEW p \in Readers, ReadGet(p)
  PROVE  IInv'
<1>1. TypeOK /\ Count <= PIPESIZE /\ Ends /\ Locked /\ Waiting /\ Reading /\ Asleep
  BY DEF IInv
<1>2. /\ pc[p] = "copy" /\ lock = p /\ ~Empty /\ got'[p] # 0
      /\ \A q \in Procs \ {p} : got'[q] = got[q]
      /\ UNCHANGED <<data, nwrite, readopen, writeopen, freed, lock, holds, pc, killed>>
  BY <1>1, OneEnd, SMT DEF TypeOK, Locked, ReadGet
<1>3. TypeOK'
  <2>1. nread' \in 0..(Width - 1)
    BY <1>1, SuccIs, Sizes, SMT DEF TypeOK, ReadGet
  <2>2. left' \in [Procs -> Nat] /\ got' \in [Procs -> Nat]
    BY <1>1, OneEnd, SMT DEF TypeOK, ReadGet
  <2> QED
    BY <1>1, <1>2, <2>1, <2>2 DEF TypeOK
<1>4. Count' <= PIPESIZE
  <2>1. Count' = Count - 1
    BY <1>1, CountSteps DEF ReadGet
  <2> QED
    BY <1>1, <2>1, FullAndEmpty, Sizes, SMT
<1>5. Ends'
  BY <1>1, <1>2 DEF Ends
<1>6. Locked'
  BY <1>1, <1>2, OneEnd DEF Locked
<1>7. Waiting'
  BY <1>1, <1>2, OneEnd DEF Waiting, Locked
<1>8. Reading'
  BY <1>1, <1>2, OneEnd DEF Reading, Locked
<1>9. Asleep'
  <2>1. \A r \in Readers : pc[r] = "asleep" => Empty' \/ \E w \in Writers : killed[w]
    BY <1>1, <1>2, OneEnd DEF Asleep, Locked
  <2> QED
    BY <1>1, <1>2, <2>1, OneEnd DEF Asleep, Locked
<1> QED
  BY <1>3, <1>4, <1>5, <1>6, <1>7, <1>8, <1>9 DEF IInv

\* piperead wakes the writers when it is through.
LEMMA ReadDoneInv ==
  ASSUME IInv, NEW p \in Readers, ReadDone(p)
  PROVE  IInv'
<1>1. TypeOK /\ Count <= PIPESIZE /\ Ends /\ Locked /\ Waiting /\ Reading /\ Asleep
  BY DEF IInv
<1>2. /\ pc[p] = "copy" /\ lock = p /\ lock' = NoProc
      /\ pc' \in [Procs -> Labels]
      /\ \A q \in Procs : pc'[q] = IF q = p THEN "user"
                                ELSE IF q \in Writers /\ pc[q] = "asleep" THEN "lock" ELSE pc[q]
      /\ UNCHANGED <<data, nread, nwrite, readopen, writeopen, freed, holds, left, got, killed>>
  BY <1>1, OneEnd, WakeupEffect DEF TypeOK, Labels, Locked, ReadDone, Return, pipeVars
<1>3. TypeOK'
  BY <1>1, <1>2 DEF TypeOK, Labels
<1>4. Count' <= PIPESIZE /\ (Full' <=> Full) /\ (Empty' <=> Empty)
  BY <1>1, <1>2, Steady
<1>5. Ends'
  BY <1>1, <1>2 DEF Ends
<1>6. Locked'
  BY <1>1, <1>2, OneEnd DEF Locked
<1>7. Waiting'
  BY <1>1, <1>2, <1>4, OneEnd DEF Waiting, Locked
<1>8. Reading'
  BY <1>1, <1>2, <1>4, OneEnd DEF Reading, Locked
<1>9. Asleep'
  BY <1>1, <1>2, <1>4, OneEnd DEF Asleep, Locked
<1> QED
  BY <1>3, <1>4, <1>5, <1>6, <1>7, <1>8, <1>9 DEF IInv

\* pipeclose wakes the other end when it closes one.
LEMMA CloseInv ==
  ASSUME IInv, NEW p \in Procs, Close(p)
  PROVE  IInv'
<1>1. TypeOK /\ Count <= PIPESIZE /\ Ends /\ Locked /\ Waiting /\ Reading /\ Asleep
  BY DEF IInv
<1>2. /\ pc[p] = "user" /\ p \in holds /\ holds' = holds \ {p}
      /\ pc' \in [Procs -> Labels]
      /\ \A q \in Procs : pc'[q] = pc[q] \/ (pc[q] = "asleep" /\ pc'[q] = "lock")
      /\ writeopen' # writeopen => lock = NoProc /\ \A r \in Readers : pc'[r] # "asleep"
      /\ readopen' # readopen => lock = NoProc /\ \A w \in Writers : pc'[w] # "asleep"
      /\ UNCHANGED <<data, nread, nwrite, lock, left, got, killed>>
  <2>1. CASE readopen = readopen' /\ writeopen = writeopen' /\ UNCHANGED pc
    BY <1>1, <2>1 DEF TypeOK, Close
  <2>2. CASE lock = NoProc /\ writeopen # writeopen' /\ pc' = Wakeup(Readers)
    <3>1. readopen' = readopen
      BY <1>1, <2>2, OneEnd DEF Ends, TypeOK, Close
    <3> QED
      BY <1>1, <2>2, <3>1, WakeupEffect, OneEnd DEF TypeOK, Labels, Close
  <2>3. CASE lock = NoProc /\ readopen # readopen' /\ pc' = Wakeup(Writers)
    <3>1. writeopen' = writeopen
      BY <1>1, <2>3, OneEnd DEF Ends, TypeOK, Close
    <3> QED
      BY <1>1, <2>3, <3>1, WakeupEffect, OneEnd DEF TypeOK, Labels, Close
  <2> QED
    BY <2>1, <2>2, <2>3 DEF Close, CloseWakeup
<1>3. TypeOK'
  <2>1. readopen' \in BOOLEAN /\ writeopen' \in BOOLEAN /\ freed' \in BOOLEAN
    BY DEF Close, BothClosed
  <2> QED
    BY <1>1, <1>2, <2>1 DEF TypeOK
<1>4. Count' <= PIPESIZE /\ (Full' <=> Full) /\ (Empty' <=> Empty)
  BY <1>1, <1>2, Steady
<1>5. Ends'
  <2>1. (readopen' <=> holds' \cap Readers # {}) /\ (writeopen' <=> holds' \cap Writers # {})
    BY DEF Close
  <2>2. freed' <=> ~readopen' /\ ~writeopen'
    BY DEF Close, BothClosed
  <2>3. holds' = {} <=> holds' \cap Readers = {} /\ holds' \cap Writers = {}
    BY <1>1, <1>2 DEF TypeOK, Procs
  <2>4. \A q \in Procs : pc'[q] # "user" => q \in holds'
    BY <1>1, <1>2 DEF Ends
  <2> QED
    BY <2>1, <2>2, <2>3, <2>4 DEF Ends
<1>6. Locked'
  BY <1>1, <1>2, OneEnd DEF Locked
<1>7. Waiting'
  BY <1>1, <1>2, <1>4, OneEnd, SMT DEF Waiting, Locked
<1>8. Reading'
  BY <1>1, <1>2, <1>4, OneEnd DEF Reading, Locked
<1>9. Asleep'
  BY <1>1, <1>2, <1>4, OneEnd, SMT DEF Asleep, Locked
<1> QED
  BY <1>3, <1>4, <1>5, <1>6, <1>7, <1>8, <1>9 DEF IInv

\* pipealloc establishes the inductive invariant.
LEMMA InitInv == Init => IInv
<1> SUFFICES ASSUME Init PROVE IInv
  OBVIOUS
<1>1. TypeOK
  <2>1. /\ readopen \in BOOLEAN /\ writeopen \in BOOLEAN /\ freed \in BOOLEAN
        /\ killed \in [Procs -> BOOLEAN]
    BY DEF Init
  <2>2. nread \in 0..(Width - 1) /\ nwrite \in 0..(Width - 1)
    BY Sizes, SMT DEF Init
  <2>3. /\ pc \in [Procs -> Labels] /\ left \in [Procs -> Nat] /\ got \in [Procs -> Nat]
    BY DEF Init, Labels
  <2> QED
    BY <2>1, <2>2, <2>3 DEF Init, TypeOK
<1>2. Count <= PIPESIZE
  BY <1>1, CountIs, Sizes, SMT DEF Init
<1>3. Ends
  BY PipeAssumption DEF Init, Ends, Procs
<1>4. Locked /\ Waiting /\ Reading /\ Asleep
  BY OneEnd DEF Init, Locked, Waiting, Reading, Asleep
<1> QED
  BY <1>1, <1>2, <1>3, <1>4 DEF IInv

\* Every step keeps the inductive invariant.
LEMMA NextInv == IInv /\ [Next]_vars => IInv'
<1> SUFFICES ASSUME IInv, [Next]_vars PROVE IInv'
  OBVIOUS
<1>1. ASSUME NEW p \in Procs,
             Acquire(p) \/ Sleep(p) \/ Close(p) \/ Kill(p) \/ \E n \in 0..MaxN : Call(p, n)
      PROVE  IInv'
  BY <1>1, AcquireInv, SleepInv, CloseInv, KillInv, CallInv
<1>2. ASSUME NEW p \in Writers, PipeWrite(p) PROVE IInv'
  BY <1>2, WritePutInv, WriteFailInv, WriteFullInv, WriteDoneInv DEF PipeWrite
<1>3. ASSUME NEW p \in Readers, PipeRead(p) PROVE IInv'
  BY <1>3, ReadWaitInv, ReadReadyInv, ReadGetInv, ReadDoneInv DEF PipeRead
<1>4. CASE UNCHANGED vars
  BY <1>4 DEF vars, pipeVars, IInv, TypeOK, Count, Ends, Locked, Waiting, Reading, Asleep,
              Full, Empty
<1> QED
  BY <1>1, <1>2, <1>3, <1>4 DEF Next, Inside, Done

\* The inductive invariant, for any readers, writers and sizes.
THEOREM Invariance == Spec => []IInv
BY InitInv, NextInv, PTL DEF Spec

-----------------------------------------------------------------------------
(* What the runs check on a small pipe *)

\* Nobody sleeps through the event it waits for (sleep and wakeup in piperead,
\* pipewrite and pipeclose), except behind a killed writer.
THEOREM NobodyForgotten == Spec => []NoMissedWakeup
<1>1. IInv => NoMissedWakeup
  BY DEF IInv, Asleep, NoMissedWakeup
<1> QED
  BY <1>1, Invariance, PTL

\* pipeclose frees the page exactly when nobody can use the pipe.
THEOREM FreedWhenUnused == Spec => []FreedUnused
<1>1. IInv => FreedUnused
  BY DEF IInv, Ends, FreedUnused
<1> QED
  BY <1>1, Invariance, PTL

\* piperead returns 0 to a read of at least one byte only at the end of file.
THEOREM EofIsTheEnd == Spec => EofOnlyWhenClosed
<1>1. ASSUME IInv, [Next]_vars, NEW p \in Readers,
             pc[p] = "copy", pc'[p] = "user", got[p] = 0, left[p] > 0
      PROVE  Empty /\ ~writeopen
  <2>1. lock = p /\ p \in Procs
    BY <1>1, OneEnd DEF IInv, Locked
  <2>2. ReadDone(p)
    <3>1. pc' # pc
      BY <1>1
    <3>2. ASSUME NEW q \in Procs,
                 Acquire(q) \/ Sleep(q) \/ Close(q) \/ Kill(q) \/ \E n \in 0..MaxN : Call(q, n)
          PROVE  FALSE
      <4>1. CASE Acquire(q) \/ Sleep(q) \/ \E n \in 0..MaxN : Call(q, n)
        BY <1>1, <2>1, <4>1 DEF IInv, TypeOK, Acquire, Sleep, Call
      <4>2. CASE Close(q)
        BY <1>1, <2>1, <4>2, WakeupEffect DEF IInv, Close, CloseWakeup
      <4>3. CASE Kill(q)
        BY <1>1, <2>1, <4>3, WakeupEffect DEF IInv, TypeOK, Kill
      <4> QED
        BY <3>2, <4>1, <4>2, <4>3
    <3>3. ASSUME NEW q \in Writers, PipeWrite(q) PROVE FALSE
      BY <1>1, <2>1, <3>3, OneEnd
         DEF IInv, TypeOK, Locked, PipeWrite, WritePut, WriteFail, WriteFull, WriteDone
    <3>4. ASSUME NEW q \in Readers, PipeRead(q) PROVE ReadDone(p)
      <4>1. q = p
        BY <1>1, <2>1, <3>4, OneEnd
           DEF IInv, Locked, PipeRead, ReadWait, ReadReady, ReadGet, ReadDone
      <4> QED
        BY <1>1, <3>1, <3>4, <4>1 DEF PipeRead, ReadWait, ReadReady, ReadGet
    <3> QED
      BY <1>1, <3>1, <3>2, <3>3, <3>4 DEF Next, Inside, Done, vars
  <2> QED
    BY <1>1, <2>1, <2>2, SMT DEF IInv, TypeOK, Reading, ReadDone
<1>2. IInv /\ [Next]_vars =>
        [\A p \in Readers : pc[p] = "copy" /\ pc'[p] = "user" /\ got[p] = 0 /\ left[p] > 0 =>
           Empty /\ ~writeopen]_vars
  BY <1>1
<1> QED
  BY <1>2, Invariance, PTL DEF Spec, EofOnlyWhenClosed

-----------------------------------------------------------------------------
(* The ring is a bounded queue *)

Contents == [i \in 1..Count |-> data[(nread + i - 1) % PIPESIZE]]

\* The slots of the ring.
LEMMA SlotRange == \A n \in Nat : n % PIPESIZE \in 0..(PIPESIZE - 1)
BY Sizes, SMT

\* What is in the ring is a sequence of Count bytes.
LEMMA ContentsIs ==
  ASSUME TypeOK, Count <= PIPESIZE
  PROVE  Contents \in Seq(Bytes) /\ Len(Contents) = Count
<1>1. Count \in Nat
  BY FullAndEmpty, Sizes, SMT
<1>2. ASSUME NEW i \in 1..Count PROVE data[(nread + i - 1) % PIPESIZE] \in Bytes
  <2>1. nread + i - 1 \in Nat
    BY <1>1, Sizes, SMT DEF TypeOK
  <2> QED
    BY <2>1, SlotRange DEF TypeOK
<1>3. Contents \in [1..Count -> Bytes]
  BY <1>2 DEF Contents
<1> QED
  BY <1>1, <1>3, SMT

\* The slot pipewrite fills is the one behind the last byte.
LEMMA WriteSlot ==
  ASSUME TypeOK, Count <= PIPESIZE
  PROVE  nwrite % PIPESIZE = (nread + Count) % PIPESIZE
<1>1. nread \in 0..(Width - 1) /\ nwrite \in 0..(Width - 1) /\ Count \in 0..Width
  BY FullAndEmpty, Sizes, SMT DEF TypeOK
<1>2. (nread + Count) % Width = nwrite
  <2>1. (nread + Count) % Width = IF nread + Count < Width THEN nread + Count ELSE nread + Count - Width
    BY <1>1, Sizes, WrapSum
  <2> QED
    BY <1>1, <2>1, CountIs, Sizes, SMT
<1>3. nread + Count \in Nat
  BY <1>1, SMT
<1> QED
  BY <1>2, <1>3, Sizes, PipeAssumption, WrapKeepsSlot

\* A sequence with one more element, as a function.
LEMMA AppendIs ==
  ASSUME NEW S, NEW s \in Seq(S), NEW b \in S
  PROVE  /\ Append(s, b) \in [1..(Len(s) + 1) -> S]
         /\ \A i \in 1..Len(s) : Append(s, b)[i] = s[i]
         /\ Append(s, b)[Len(s) + 1] = b
<1>1. Append(s, b) \in Seq(S) /\ Len(Append(s, b)) = Len(s) + 1
  BY AppendProperties
<1>2. Append(s, b) \in [1..(Len(s) + 1) -> S]
  BY <1>1, LenProperties
<1> QED
  BY <1>2, AppendProperties, SMT

\* pipewrite appends: the byte goes behind the others and hits none of them.
LEMMA PutAppends ==
  ASSUME IInv, IInv', NEW p \in Writers, NEW b \in Bytes, WritePut(p, b)
  PROVE  Contents' = Append(Contents, b)
<1>1. TypeOK /\ Count <= PIPESIZE /\ TypeOK' /\ Count' <= PIPESIZE
  BY DEF IInv
<1>2. Count \in 0..(PIPESIZE - 1) /\ Count' = Count + 1
  BY <1>1, CountSteps, FullAndEmpty, Sizes, SMT DEF WritePut
<1>3. Contents \in Seq(Bytes) /\ Len(Contents) = Count
  BY <1>1, ContentsIs
<1>4. /\ nread \in Nat /\ nread' = nread /\ nwrite % PIPESIZE = (nread + Count) % PIPESIZE
      /\ (nread + Count) % PIPESIZE \in 0..(PIPESIZE - 1)
  <2>1. nread \in Nat /\ nread + Count \in Nat /\ nread' = nread
    BY <1>1, <1>2, SMT DEF TypeOK, WritePut
  <2> QED
    BY <1>1, <2>1, WriteSlot, SlotRange
<1>5. ASSUME NEW i \in 1..Count
      PROVE  data'[(nread + i - 1) % PIPESIZE] = Contents[i]
  <2>1. (nread + i - 1) % PIPESIZE # (nread + Count) % PIPESIZE
    <3>1. /\ nread + i - 1 \in Nat /\ nread + Count \in Nat
          /\ nread + i - 1 < nread + Count /\ (nread + Count) - (nread + i - 1) < PIPESIZE
      BY <1>2, <1>4, Sizes, SMT
    <3> QED
      BY <3>1, Sizes, NearSlotsDiffer
  <2> QED
    BY <1>4, <2>1, SMT DEF WritePut, Contents, IInv, TypeOK
<1>6. data'[(nread + (Count + 1) - 1) % PIPESIZE] = b
  <2>1. nread + (Count + 1) - 1 = nread + Count
    BY <1>2, <1>4, SMT
  <2> QED
    BY <1>4, <2>1 DEF WritePut, IInv, TypeOK
<1>7. Contents' = [i \in 1..(Count + 1) |-> data'[(nread + i - 1) % PIPESIZE]]
  BY <1>2, <1>4 DEF Contents
<1>8. /\ Append(Contents, b) \in [1..(Count + 1) -> Bytes]
      /\ \A i \in 1..Count : Append(Contents, b)[i] = Contents[i]
      /\ Append(Contents, b)[Count + 1] = b
  <2>1. /\ Append(Contents, b) \in [1..(Len(Contents) + 1) -> Bytes]
        /\ \A i \in 1..Len(Contents) : Append(Contents, b)[i] = Contents[i]
        /\ Append(Contents, b)[Len(Contents) + 1] = b
    BY <1>3, AppendIs, SMT
  <2> QED
    BY <1>3, <2>1
<1>9. ASSUME NEW i \in 1..(Count + 1) PROVE Contents'[i] = Append(Contents, b)[i]
  <2>1. CASE i \in 1..Count
    BY <1>5, <1>7, <1>8, <2>1
  <2>2. CASE i = Count + 1
    BY <1>6, <1>7, <1>8, <2>2
  <2>3. i \in 1..Count \/ i = Count + 1
    BY <1>2, SMT
  <2> QED
    BY <2>1, <2>2, <2>3
<1>10. Contents' = [i \in 1..(Count + 1) |-> Contents'[i]]
  BY <1>7
<1> QED
  BY <1>8, <1>9, <1>10

\* piperead takes the first byte, and leaves the others in order.
LEMMA GetTails ==
  ASSUME IInv, IInv', NEW p \in Readers, ReadGet(p)
  PROVE  Contents # <<>> /\ Contents' = Tail(Contents)
<1>1. TypeOK /\ Count <= PIPESIZE /\ TypeOK' /\ Count' <= PIPESIZE
  BY DEF IInv
<1>2. Count \in 1..PIPESIZE /\ Count' = Count - 1
  BY <1>1, CountSteps, FullAndEmpty, Sizes, SMT DEF ReadGet
<1>3. Contents \in Seq(Bytes) /\ Len(Contents) = Count
  BY <1>1, ContentsIs
<1>4. nread \in 0..(Width - 1) /\ nread' = Succ(nread) /\ data' = data
  BY <1>1 DEF TypeOK, ReadGet
<1>5. ASSUME NEW i \in 1..(Count - 1)
      PROVE  (nread' + i - 1) % PIPESIZE = (nread + (i + 1) - 1) % PIPESIZE
  <2>1. CASE nread + 1 < Width
    <3>1. nread' = nread + 1
      BY <1>4, <2>1, Sizes, SuccIs, SMT
    <3> QED
      BY <1>2, <1>4, <3>1, SMT
  <2>2. CASE nread + 1 = Width
    <3>1. nread' = 0
      BY <1>4, <2>2, Sizes, SuccIs, SMT
    <3>2. /\ nread + (i + 1) - 1 = (i - 1) + Width /\ nread' + i - 1 = i - 1
          /\ i - 1 \in 0..(Width - 1) /\ (i - 1) + Width \in Nat
      BY <1>2, <1>4, <2>2, <3>1, Sizes, SMT
    <3>3. ((i - 1) + Width) % Width = i - 1
      BY <3>2, Sizes, SMT
    <3>4. (((i - 1) + Width) % Width) % PIPESIZE = ((i - 1) + Width) % PIPESIZE
      BY <3>2, Sizes, PipeAssumption, WrapKeepsSlot
    <3> QED
      BY <3>2, <3>3, <3>4
  <2>3. nread + 1 < Width \/ nread + 1 = Width
    BY <1>4, Sizes, SMT
  <2> QED
    BY <2>1, <2>2, <2>3
<1>6. Contents' = [i \in 1..(Count - 1) |-> data[(nread' + i - 1) % PIPESIZE]]
  BY <1>2, <1>4 DEF Contents
<1>7. ASSUME NEW i \in 1..(Count - 1) PROVE Contents'[i] = Contents[i + 1]
  <2>1. i + 1 \in 1..Count
    BY <1>2, SMT
  <2> QED
    BY <1>5, <1>6, <2>1 DEF Contents
<1>8. Contents # <<>>
  BY <1>2, <1>3, EmptySeq, SMT
<1>9. /\ Tail(Contents) \in [1..(Count - 1) -> Bytes]
      /\ \A i \in 1..(Count - 1) : Tail(Contents)[i] = Contents[i + 1]
  BY <1>3, <1>8, HeadTailProperties, LenProperties
<1>10. Contents' = [i \in 1..(Count - 1) |-> Contents'[i]]
  BY <1>6
<1> QED
  BY <1>7, <1>8, <1>9, <1>10

\* The ring buffer with wrapping counters is a bounded queue of bytes (pipe.c).
THEOREM RingIsQueue == Spec => QueueSpec
<1>1. Init => Queue!Init
  <2> SUFFICES ASSUME Init PROVE Queue!Init
    OBVIOUS
  <2>1. Count = 0
    BY InitInv, CountIs, Sizes, SMT DEF Init, IInv
  <2>2. Contents = <<>>
    BY <2>1, SMT DEF Contents
  <2> QED
    BY <2>2 DEF Init, Queue!Init, Contents, Count
<1>2. ASSUME IInv, IInv', [Next]_vars PROVE [Queue!Next]_(Queue!vars)
  <2>1. ASSUME NEW p \in Writers, NEW b \in Bytes, WritePut(p, b) PROVE Queue!Put(b)
    <3>1. writeopen /\ Len(Contents) < PIPESIZE
      <4>1. writeopen
        BY <1>2, <2>1, OneEnd DEF IInv, Ends, WritePut
      <4>2. ~Full
        BY <2>1 DEF WritePut
      <4>3. Count \in 0..PIPESIZE /\ Count # PIPESIZE
        BY <1>2, <4>2, FullAndEmpty DEF IInv
      <4>4. Len(Contents) = Count
        BY <1>2, ContentsIs DEF IInv
      <4> QED
        BY <4>1, <4>3, <4>4, Sizes, SMT
    <3>2. UNCHANGED <<readopen, writeopen>>
      BY <2>1 DEF WritePut
    <3> QED
      BY <1>2, <2>1, <3>1, <3>2, PutAppends DEF Queue!Put, Contents, Count
  <2>2. ASSUME NEW p \in Readers, ReadGet(p) PROVE Queue!Get
    <3>1. readopen
      BY <1>2, <2>2, OneEnd DEF IInv, Ends, ReadGet
    <3>2. UNCHANGED <<readopen, writeopen>>
      BY <2>2 DEF ReadGet
    <3> QED
      BY <1>2, <2>2, <3>1, <3>2, GetTails DEF Queue!Get, Contents, Count
  <2>3. ASSUME NEW p \in Procs, Close(p)
        PROVE  Queue!CloseRead \/ Queue!CloseWrite \/ UNCHANGED Queue!vars
    <3>1. Contents' = Contents
      BY <2>3 DEF Close, Contents, Count
    <3>2. readopen' = readopen \/ writeopen' = writeopen
      BY <1>2, <2>3, OneEnd DEF IInv, TypeOK, Ends, Close
    <3>3. /\ readopen' # readopen => readopen' = FALSE
          /\ writeopen' # writeopen => writeopen' = FALSE
      BY <1>2, <2>3 DEF IInv, TypeOK, Ends, Close
    <3> QED
      BY <3>1, <3>2, <3>3 DEF Queue!CloseRead, Queue!CloseWrite, Queue!vars, Contents, Count
  <2>4. ASSUME UNCHANGED pipeVars PROVE UNCHANGED Queue!vars
    BY <2>4 DEF pipeVars, Queue!vars
  <2> QED
    BY <1>2, <2>1, <2>2, <2>3, <2>4
      , SMT DEF Next, Inside, Done, vars, PipeWrite, PipeRead, Acquire, Sleep, Kill, Call, WriteFail,
           WriteFull, WriteDone, ReadWait, ReadReady, ReadDone, Queue!Next
<1> QED
  BY <1>1, <1>2, Invariance, PTL DEF Spec, QueueSpec, Queue!Spec

=============================================================================
