------------------------------ MODULE BioProofs ------------------------------
(***************************************************************************)
(* Proofs about Bio, for every number of processes, blocks and buffers: a   *)
(* block has one buffer and a buffer one owner, the cache with the disk     *)
(* queue implements BlockStore, iderw always has something to do, and bget  *)
(* fails only when the held and the pinned buffers are all there are.       *)
(***************************************************************************)
EXTENDS Bio, FiniteSetTheorems, SequenceTheorems, TLAPS

\* Zenon takes most leaves; SMT the ones with arithmetic or many cases.
USE Zenon

Labels == {"idle", "bget", "wait", "iderw", "io", "hold"}
Owning == {"hold", "iderw", "io"}

TypeOK ==
  /\ setup \in Setups
  /\ blockno \in [Bufs -> Blocks \cup {NoBlock}]
  /\ busy \in [Bufs -> BOOLEAN] /\ valid \in [Bufs -> BOOLEAN] /\ dirty \in [Bufs -> BOOLEAN]
  /\ data \in [Bufs -> Vals]
  /\ lru \in [Bufs -> Bufs]
  /\ idequeue \in Seq(Bufs)
  /\ disk \in [Blocks -> Vals]
  /\ pc \in [Procs -> Labels]
  /\ want \in [Procs -> Blocks \cup {NoBlock}]
  /\ bp \in [Procs -> Bufs \cup {0}]

\* Every buffer is in the list.
Listed == \A b \in Bufs : \E i \in Bufs : lru[i] = b

\* A block has one buffer.
Distinct == \A b, c \in Bufs : blockno[b] = blockno[c] /\ blockno[b] \in Blocks => b = c

\* What the pointers of a process are.
Pointers ==
  \A p \in Procs :
    /\ pc[p] # "idle" => want[p] \in Blocks
    /\ pc[p] \in Owning \cup {"wait"} => bp[p] \in Bufs /\ busy[bp[p]]
    /\ pc[p] \in Owning => blockno[bp[p]] = want[p]

\* A busy buffer has one owner.
Owners ==
  /\ \A b \in Bufs : busy[b] => \E p \in Procs : Owns(p, b)
  /\ \A p, q \in Procs : pc[p] \in Owning /\ pc[q] \in Owning /\ bp[p] = bp[q] => p = q

\* The disk queue has the buffers of the processes that sleep in iderw, once each.
Queued ==
  /\ \A i \in 1..Len(idequeue) : \E p \in Procs : pc[p] = "io" /\ bp[p] = idequeue[i]
  /\ \A p \in Procs : pc[p] = "io" => \E i \in 1..Len(idequeue) : idequeue[i] = bp[p]
  /\ \A i, j \in 1..Len(idequeue) : idequeue[i] = idequeue[j] => i = j

\* B_VALID and B_DIRTY: who holds a buffer sees its data, who goes to the disk
\* has something to do there.
Flags ==
  /\ \A b \in Bufs : dirty[b] => valid[b]
  /\ \A b \in Bufs : valid[b] => blockno[b] \in Blocks
  /\ \A p \in Procs : pc[p] = "hold" => valid[bp[p]]
  /\ \A p \in Procs : pc[p] \in {"iderw", "io"} => ~valid[bp[p]] \/ dirty[bp[p]]

\* A clean buffer agrees with the disk, unless a read may have failed.
Coherent ==
  ~setup.errors => \A b \in Bufs : valid[b] /\ ~dirty[b] => data[b] = disk[blockno[b]]

IInv == TypeOK /\ Listed /\ Distinct /\ Pointers /\ Owners /\ Queued /\ Flags /\ Coherent

\* The head of the queue, and what is behind it.
LEMMA HeadOfQueue ==
  ASSUME IInv, idequeue # <<>>
  PROVE  /\ Head(idequeue) \in Bufs /\ Head(idequeue) = idequeue[1] /\ 1 \in 1..Len(idequeue)
         /\ Tail(idequeue) \in Seq(Bufs) /\ Len(Tail(idequeue)) = Len(idequeue) - 1
         /\ \A i \in 1..Len(Tail(idequeue)) : Tail(idequeue)[i] = idequeue[i + 1]
BY HeadTailProperties, SMT DEF IInv, TypeOK

\* bread starts.
LEMMA BreadInv ==
  ASSUME IInv, NEW p \in Procs, NEW k \in Blocks, Bread(p, k), UNCHANGED setup
  PROVE  IInv'
<1>1. TypeOK'
  BY DEF IInv, TypeOK, Labels, Bread, bufVars
<1>2. Listed' /\ Distinct'
  BY DEF IInv, Listed, Distinct, Bread, bufVars
<1>3. Pointers'
  BY DEF IInv, TypeOK, Pointers, Owning, Bread, bufVars
<1>4. Owners'
  BY DEF IInv, TypeOK, Owners, Owns, Owning, Bread, bufVars
<1>5. Queued'
  BY DEF IInv, TypeOK, Queued, Bread
<1>6. Flags' /\ Coherent'
  BY SMT DEF IInv, TypeOK, Flags, Coherent, Bread, bufVars
<1> QED
  BY <1>1, <1>2, <1>3, <1>4, <1>5, <1>6 DEF IInv

\* bget finds the block in the cache.
LEMMA BgetCachedInv ==
  ASSUME IInv, NEW p \in Procs, BgetCached(p), UNCHANGED setup
  PROVE  IInv'
<1>0. PICK b \in Bufs :
        /\ blockno[b] = want[p] /\ bp' = [bp EXCEPT ![p] = b]
        /\ \/ /\ ~busy[b] /\ busy' = [busy EXCEPT ![b] = TRUE]
              /\ pc' = [pc EXCEPT ![p] = IF valid[b] THEN "hold" ELSE "iderw"]
           \/ busy[b] /\ pc' = [pc EXCEPT ![p] = "wait"] /\ UNCHANGED busy
  BY DEF BgetCached, Cached
<1>1. pc[p] = "bget" /\ UNCHANGED <<blockno, valid, dirty, data, lru, idequeue, disk, want>>
  BY DEF BgetCached
<1>2. /\ bp'[p] = b /\ busy'[b]
      /\ \A q \in Procs \ {p} : pc'[q] = pc[q] /\ bp'[q] = bp[q]
      /\ \A c \in Bufs \ {b} : busy'[c] = busy[c]
      /\ \/ busy[b] /\ pc'[p] = "wait"
         \/ ~busy[b] /\ pc'[p] = IF valid[b] THEN "hold" ELSE "iderw"
  BY <1>0 DEF IInv, TypeOK
<1>3. \A q \in Procs : pc[q] \in Owning => bp[q] \in Bufs /\ busy[bp[q]] /\ q # p
  BY <1>1 DEF IInv, Pointers, Owning
<1>4. TypeOK'
  <2>1. pc' \in [Procs -> Labels]
    BY <1>0 DEF IInv, TypeOK, Labels
  <2>2. busy' \in [Bufs -> BOOLEAN] /\ bp' \in [Procs -> Bufs \cup {0}]
    BY <1>0 DEF IInv, TypeOK
  <2> QED
    BY <1>1, <2>1, <2>2 DEF IInv, TypeOK
<1>5. Listed' /\ Distinct' /\ Coherent'
  BY <1>1 DEF IInv, Listed, Distinct, Coherent
<1>6. Pointers'
  BY <1>0, <1>1, <1>2, SMT DEF IInv, Pointers, Owning
<1>7. Owners'
  <2>1. ASSUME NEW c \in Bufs, busy'[c] PROVE \E q \in Procs : Owns(q, c)'
    <3>1. CASE busy[c]
      <4>1. PICK q \in Procs : bp[q] = c /\ pc[q] \in Owning
        BY <3>1 DEF IInv, Owners, Owns, Owning
      <4> QED
        BY <1>2, <1>3, <4>1 DEF Owns, Owning
    <3>2. CASE ~busy[c]
      BY <1>2, <2>1, <3>2 DEF Owns
    <3> QED
      BY <3>1, <3>2
  <2>2. ASSUME NEW q \in Procs, NEW o \in Procs, q # p,
               pc'[q] \in Owning, pc'[o] \in Owning, bp'[q] = bp'[o]
        PROVE  q = o
    <3>1. pc[q] \in Owning /\ bp'[q] = bp[q] /\ busy[bp[q]]
      BY <1>2, <1>3, <2>2
    <3>2. o # p
      BY <1>2, <2>2, <3>1 DEF Owning
    <3> QED
      BY <1>2, <2>2, <3>1, <3>2 DEF IInv, Owners
  <2> QED
    BY <2>1, <2>2 DEF Owners
<1>8. Queued'
  <2>1. \A q \in Procs : pc'[q] = "io" <=> pc[q] = "io"
    BY <1>1, <1>2
  <2>2. \A q \in Procs : pc[q] = "io" => bp'[q] = bp[q]
    BY <1>1, <1>2
  <2> QED
    BY <1>1, <2>1, <2>2, SMT DEF IInv, Queued
<1>9. Flags'
  <2>1. pc'[p] = "hold" => valid[b]
    BY <1>2
  <2>2. pc'[p] \in {"iderw", "io"} => ~valid[b]
    BY <1>2
  <2> QED
    BY <1>1, <1>2, <2>1, <2>2 DEF IInv, Flags
<1> QED
  BY <1>4, <1>5, <1>6, <1>7, <1>8, <1>9 DEF IInv

\* The buffer bget recycles.
LEMMA RecycledBuffer ==
  ASSUME IInv, NEW p \in Procs, BgetRecycle(p)
  PROVE  \E b \in Bufs :
           /\ ~busy[b] /\ ~dirty[b]
           /\ blockno' = [blockno EXCEPT ![b] = want[p]]
           /\ busy' = [busy EXCEPT ![b] = TRUE]
           /\ valid' = [valid EXCEPT ![b] = FALSE]
           /\ dirty' = [dirty EXCEPT ![b] = FALSE]
           /\ bp' = [bp EXCEPT ![p] = b]
           /\ pc' = [pc EXCEPT ![p] = "iderw"]
<1>1. PICK i \in Bufs :
        /\ Recyclable(lru[i])
        /\ blockno' = [blockno EXCEPT ![lru[i]] = want[p]]
        /\ busy' = [busy EXCEPT ![lru[i]] = TRUE]
        /\ valid' = [valid EXCEPT ![lru[i]] = FALSE]
        /\ dirty' = [dirty EXCEPT ![lru[i]] = FALSE]
        /\ bp' = [bp EXCEPT ![p] = lru[i]]
        /\ pc' = [pc EXCEPT ![p] = IF valid'[lru[i]] THEN "hold" ELSE "iderw"]
  BY DEF BgetRecycle, RecycledValid
<1>2. lru[i] \in Bufs /\ ~valid'[lru[i]]
  BY <1>1 DEF IInv, TypeOK
<1> QED
  BY <1>1, <1>2 DEF Recyclable

\* bget recycles a buffer that nobody has or waits for.
LEMMA BgetRecycleInv ==
  ASSUME IInv, NEW p \in Procs, BgetRecycle(p), UNCHANGED setup
  PROVE  IInv'
<1>0. PICK b \in Bufs :
        /\ ~busy[b] /\ ~dirty[b]
        /\ blockno' = [blockno EXCEPT ![b] = want[p]]
        /\ busy' = [busy EXCEPT ![b] = TRUE]
        /\ valid' = [valid EXCEPT ![b] = FALSE]
        /\ dirty' = [dirty EXCEPT ![b] = FALSE]
        /\ bp' = [bp EXCEPT ![p] = b]
        /\ pc' = [pc EXCEPT ![p] = "iderw"]
  BY RecycledBuffer
<1>1. pc[p] = "bget" /\ (\A c \in Bufs : blockno[c] # want[p]) /\ want[p] \in Blocks
  BY DEF BgetRecycle, Cached, IInv, Pointers
<1>2. \A q \in Procs : pc[q] \in Owning \cup {"wait"} => bp[q] \in Bufs /\ bp[q] # b /\ q # p
  BY <1>0, <1>1 DEF IInv, Pointers, Owning
<1>3. TypeOK'
  BY <1>0, <1>1 DEF IInv, TypeOK, Labels, BgetRecycle
<1>4. Listed' /\ Distinct'
  BY <1>0, <1>1, SMT DEF IInv, TypeOK, Listed, Distinct, BgetRecycle
<1>5. Pointers'
  BY <1>0, <1>1, <1>2, SMT DEF IInv, TypeOK, Pointers, Owning, BgetRecycle
<1>6. Owners'
  BY <1>0, <1>1, <1>2, SMT DEF IInv, TypeOK, Owners, Owns, Owning
<1>7. Queued'
  BY <1>0, <1>1, <1>2, SMT DEF IInv, TypeOK, Queued, Owning, BgetRecycle
<1>8. Flags'
  BY <1>0, <1>1, <1>2, SMT DEF IInv, TypeOK, Flags, Owning
<1>9. Coherent'
  BY <1>0, <1>1, SMT DEF IInv, TypeOK, Coherent, BgetRecycle
<1> QED
  BY <1>3, <1>4, <1>5, <1>6, <1>7, <1>8, <1>9 DEF IInv

\* iderw queues the buffer of a process, which is not in the queue.
LEMMA IderwInv ==
  ASSUME IInv, NEW p \in Procs, Iderw(p), UNCHANGED setup
  PROVE  IInv'
<1>0. pc[p] = "iderw" /\ bp[p] \in Bufs /\ pc' = [pc EXCEPT ![p] = "io"]
  BY DEF IInv, Pointers, Owning, Iderw
<1>1. /\ idequeue' \in Seq(Bufs) /\ Len(idequeue') = Len(idequeue) + 1
      /\ \A i \in 1..Len(idequeue) : idequeue'[i] = idequeue[i]
      /\ idequeue'[Len(idequeue) + 1] = bp[p]
  BY <1>0, AppendProperties, SMT DEF IInv, TypeOK, Iderw
<1>2. Len(idequeue) \in Nat
  BY LenProperties DEF IInv, TypeOK
<1>3. \A i \in 1..Len(idequeue) : idequeue[i] # bp[p]
  BY <1>0, SMT DEF IInv, Queued, Owners, Owning
<1>4. TypeOK'
  BY <1>0, <1>1 DEF IInv, TypeOK, Labels, Iderw, bufVars
<1>5. Listed' /\ Distinct' /\ Coherent'
  BY DEF IInv, Listed, Distinct, Coherent, Iderw, bufVars
<1>6. Pointers'
  BY <1>0 DEF IInv, TypeOK, Pointers, Owning, Iderw, bufVars
<1>7. Owners'
  BY <1>0, SMT DEF IInv, TypeOK, Owners, Owns, Owning, Iderw, bufVars
<1>8. Flags'
  BY <1>0, SMT DEF IInv, TypeOK, Flags, Iderw, bufVars
<1>9. Queued'
  <2>1. 1..Len(idequeue') = 1..Len(idequeue) \cup {Len(idequeue) + 1}
    BY <1>1, <1>2, SMT
  <2>2. \A i \in 1..Len(idequeue) : i # Len(idequeue) + 1
    BY <1>2, SMT
  <2>3. bp' = bp /\ pc'[p] = "io" /\ \A q \in Procs \ {p} : pc'[q] = pc[q]
    BY <1>0 DEF IInv, TypeOK, Iderw
  <2>4. \A i \in 1..Len(idequeue') : \E q \in Procs : pc'[q] = "io" /\ bp'[q] = idequeue'[i]
    BY <1>0, <1>1, <2>1, <2>3, SMT DEF IInv, Queued
  <2>5. \A q \in Procs : pc'[q] = "io" => \E i \in 1..Len(idequeue') : idequeue'[i] = bp'[q]
    BY <1>1, <2>1, <2>3, SMT DEF IInv, Queued
  <2>6. \A i, j \in 1..Len(idequeue') : idequeue'[i] = idequeue'[j] => i = j
    BY <1>1, <1>3, <2>1, <2>2, SMT DEF IInv, Queued
  <2> QED
    BY <2>4, <2>5, <2>6 DEF Queued
<1> QED
  BY <1>4, <1>5, <1>6, <1>7, <1>8, <1>9 DEF IInv

\* The process whose request is active, and what wakeup does.
LEMMA ActiveRequest ==
  ASSUME IInv, idequeue # <<>>, NEW b \in Bufs, b = Head(idequeue)
  PROVE  \E p \in Procs :
           /\ pc[p] = "io" /\ bp[p] = b /\ blockno[b] = want[p] /\ want[p] \in Blocks /\ busy[b]
           /\ \A q \in Procs \ {p} : pc[q] \in Owning => bp[q] # b
<1>1. 1 \in 1..Len(idequeue) /\ b = idequeue[1]
  BY HeadOfQueue
<1>2. PICK p \in Procs : pc[p] = "io" /\ bp[p] = b
  BY <1>1, SMT DEF IInv, Queued
<1>3. blockno[b] = want[p] /\ want[p] \in Blocks /\ busy[b]
  BY <1>2 DEF IInv, Pointers, Owning
<1>4. \A q \in Procs \ {p} : pc[q] \in Owning => bp[q] # b
  BY <1>2 DEF IInv, Owners, Owning
<1> QED
  BY <1>2, <1>3, <1>4

\* ideintr finishes a request and wakes the process, and the sleepers of bget.
LEMMA IdeintrInv ==
  ASSUME IInv, Ideintr, UNCHANGED setup
  PROVE  IInv'
<1> DEFINE b == Head(idequeue)
<1>0. /\ idequeue # <<>> /\ b \in Bufs
      /\ b = idequeue[1] /\ 1 \in 1..Len(idequeue)
  BY HeadOfQueue DEF Ideintr
<1>1. PICK p \in Procs :
        /\ pc[p] = "io" /\ bp[p] = b /\ blockno[b] = want[p] /\ want[p] \in Blocks /\ busy[b]
        /\ \A q \in Procs \ {p} : pc[q] \in Owning => bp[q] # b
  BY <1>0, ActiveRequest
<1> HIDE DEF b
<1>2. /\ \/ dirty[b] /\ disk' = [disk EXCEPT ![blockno[b]] = data[b]] /\ data' = data
         \/ ~dirty[b] /\ data' = [data EXCEPT ![b] = disk[blockno[b]]] /\ disk' = disk
         \/ ~dirty[b] /\ setup.errors /\ data' = data /\ disk' = disk
      /\ valid' = [valid EXCEPT ![b] = TRUE]
      /\ dirty' = [dirty EXCEPT ![b] = FALSE]
      /\ idequeue' = Tail(idequeue)
      /\ UNCHANGED <<blockno, busy, lru, want, bp>>
  BY DEF Ideintr, IntrDirty, b
<1>w. pc' = WakeupIn(b, valid', dirty')
  BY DEF Ideintr, b
<1>f. valid'[b] /\ ~dirty'[b]
  BY <1>0, <1>2 DEF IInv, TypeOK
<1>3. /\ pc'[p] = "hold"
      /\ \A q \in Procs \ {p} :
           pc'[q] = IF bp[q] = b /\ pc[q] = "wait" THEN "bget" ELSE pc[q]
  BY <1>1, <1>w, <1>f DEF WakeupIn, Owning
<1>4. TypeOK'
  <2>1. pc' \in [Procs -> Labels]
    BY <1>w DEF IInv, TypeOK, Labels, WakeupIn
  <2>2. idequeue' \in Seq(Bufs)
    BY <1>0, <1>2, HeadOfQueue
  <2>3. data' \in [Bufs -> Vals] /\ disk' \in [Blocks -> Vals]
    <3>1. data[b] \in Vals /\ blockno[b] \in Blocks /\ disk[blockno[b]] \in Vals
      BY <1>0, <1>1 DEF IInv, TypeOK
    <3>2. [disk EXCEPT ![blockno[b]] = data[b]] \in [Blocks -> Vals]
      BY <3>1 DEF IInv, TypeOK
    <3>3. [data EXCEPT ![b] = disk[blockno[b]]] \in [Bufs -> Vals]
      BY <3>1 DEF IInv, TypeOK
    <3> QED
      BY <1>2, <3>2, <3>3 DEF IInv, TypeOK
  <2>4. valid' \in [Bufs -> BOOLEAN] /\ dirty' \in [Bufs -> BOOLEAN]
    BY <1>2 DEF IInv, TypeOK
  <2> QED
    BY <1>2, <2>1, <2>2, <2>3, <2>4 DEF IInv, TypeOK
<1>5. Listed' /\ Distinct'
  BY <1>2 DEF IInv, Listed, Distinct
<1>6. Pointers'
  BY <1>1, <1>2, <1>3, SMT DEF IInv, Pointers, Owning
<1>7. Owners'
  BY <1>1, <1>2, <1>3, SMT DEF IInv, Owners, Owns, Owning
<1>8. Queued'
  <2>1. /\ Len(idequeue') = Len(idequeue) - 1 /\ Len(idequeue) \in Nat
        /\ \A i \in 1..Len(idequeue') : idequeue'[i] = idequeue[i + 1]
    BY <1>0, <1>2, HeadOfQueue, LenProperties DEF IInv, TypeOK
  <2>2. \A i \in 1..Len(idequeue') : i + 1 \in 1..Len(idequeue) /\ i + 1 # 1
    BY <2>1, SMT
  <2>3. \A i \in 1..Len(idequeue) : i # 1 => i - 1 \in 1..Len(idequeue') /\ (i - 1) + 1 = i
    BY <2>1, SMT
  <2>4. \A i, j \in 1..Len(idequeue') : i + 1 = j + 1 => i = j
    BY <2>1, SMT
  <2>5. ASSUME NEW i \in 1..Len(idequeue')
        PROVE  \E q \in Procs : pc'[q] = "io" /\ bp'[q] = idequeue'[i]
    <3>1. idequeue[i + 1] # b
      BY <1>0, <2>2 DEF IInv, Queued
    <3>2. PICK q \in Procs : pc[q] = "io" /\ bp[q] = idequeue[i + 1]
      BY <2>2 DEF IInv, Queued
    <3> QED
      BY <1>1, <1>2, <1>3, <2>1, <3>1, <3>2, SMT
  <2>6. ASSUME NEW q \in Procs, pc'[q] = "io"
        PROVE  \E i \in 1..Len(idequeue') : idequeue'[i] = bp'[q]
    <3>1. pc[q] = "io" /\ q # p
      BY <1>3, <2>6
    <3>2. PICK i \in 1..Len(idequeue) : idequeue[i] = bp[q]
      BY <3>1 DEF IInv, Queued
    <3>3. i # 1
      BY <1>0, <1>1, <3>1, <3>2 DEF Owning
    <3> QED
      <4>1. i - 1 \in 1..Len(idequeue') /\ (i - 1) + 1 = i
        BY <2>3, <3>3
      <4>2. idequeue'[i - 1] = idequeue[(i - 1) + 1]
        BY <2>1, <4>1
      <4> QED
        BY <1>2, <3>2, <4>1, <4>2
  <2>7. \A i, j \in 1..Len(idequeue') : idequeue'[i] = idequeue'[j] => i = j
    <3> SUFFICES ASSUME NEW i \in 1..Len(idequeue'), NEW j \in 1..Len(idequeue'),
                        idequeue'[i] = idequeue'[j]
                 PROVE  i = j
      OBVIOUS
    <3>1. idequeue[i + 1] = idequeue[j + 1]
      BY <2>1
    <3>2. i + 1 = j + 1
      BY <2>2, <3>1 DEF IInv, Queued
    <3> QED
      BY <2>4, <3>2
  <2> QED
    BY <2>5, <2>6, <2>7 DEF Queued
<1>9. Flags'
  <2>1. /\ valid'[b] /\ ~dirty'[b]
        /\ \A c \in Bufs \ {b} : valid'[c] = valid[c] /\ dirty'[c] = dirty[c]
    BY <1>0, <1>2 DEF IInv, TypeOK
  <2>2. \A q \in Procs \ {p} : pc'[q] \in Owning => pc'[q] = pc[q] /\ bp[q] # b /\ bp[q] \in Bufs
    BY <1>1, <1>3 DEF IInv, Pointers, Owning
  <2>3. \A c \in Bufs : (dirty'[c] => valid'[c]) /\ (valid'[c] => blockno'[c] \in Blocks)
    BY <1>1, <1>2, <2>1, SMT DEF IInv, Flags
  <2>4. \A q \in Procs : pc'[q] = "hold" => valid'[bp'[q]]
    BY <1>1, <1>2, <2>1, <2>2, SMT DEF IInv, Flags, Owning
  <2>5. \A q \in Procs : pc'[q] \in {"iderw", "io"} => ~valid'[bp'[q]] \/ dirty'[bp'[q]]
    BY <1>2, <1>3, <2>1, <2>2, SMT DEF IInv, Flags, Owning
  <2> QED
    BY <2>3, <2>4, <2>5 DEF Flags
<1>10. Coherent'
  BY <1>0, <1>1, <1>2, SMT DEF IInv, TypeOK, Coherent, Distinct, Flags
<1> QED
  BY <1>4, <1>5, <1>6, <1>7, <1>8, <1>9, <1>10 DEF IInv

\* The holder of a buffer, and that nobody else has it.
LEMMA HolderIs ==
  ASSUME IInv, NEW p \in Procs, pc[p] = "hold"
  PROVE  /\ bp[p] \in Bufs /\ busy[bp[p]] /\ valid[bp[p]]
         /\ blockno[bp[p]] = want[p] /\ want[p] \in Blocks
         /\ \A q \in Procs \ {p} : pc[q] \in Owning => bp[q] \in Bufs /\ bp[q] # bp[p]
BY DEF IInv, Pointers, Owners, Flags, Owning

\* log_write changes and pins the buffer of its caller.
LEMMA LogWriteInv ==
  ASSUME IInv, NEW p \in Procs, NEW v \in Vals, LogWrite(p, v), UNCHANGED setup
  PROVE  IInv'
<1>0. /\ pc[p] = "hold" /\ data' = [data EXCEPT ![bp[p]] = v]
      /\ dirty' = [dirty EXCEPT ![bp[p]] = TRUE]
      /\ UNCHANGED <<blockno, busy, valid, lru, idequeue, disk, pc, want, bp>>
  BY DEF LogWrite
<1>1. /\ dirty'[bp[p]] /\ valid[bp[p]]
      /\ \A c \in Bufs \ {bp[p]} : dirty'[c] = dirty[c] /\ data'[c] = data[c]
  BY <1>0, HolderIs DEF IInv, TypeOK
<1>2. TypeOK'
  <2>1. data' \in [Bufs -> Vals] /\ dirty' \in [Bufs -> BOOLEAN]
    BY <1>0 DEF IInv, TypeOK
  <2> QED
    BY <1>0, <2>1 DEF IInv, TypeOK
<1>3. Listed' /\ Distinct' /\ Pointers' /\ Owners' /\ Queued'
  BY <1>0, SMT DEF IInv, Listed, Distinct, Pointers, Owners, Owns, Queued
<1>4. Flags'
  <2>1. \A q \in Procs : pc[q] \in {"iderw", "io"} => bp[q] \in Bufs \ {bp[p]}
    BY <1>0, HolderIs DEF Owning
  <2> QED
    BY <1>0, <1>1, <2>1, SMT DEF IInv, Flags
<1>5. Coherent'
  BY <1>0, <1>1 DEF IInv, Coherent
<1> QED
  BY <1>2, <1>3, <1>4, <1>5 DEF IInv

\* bwrite changes the buffer of its caller and goes to the disk with it.
LEMMA BwriteInv ==
  ASSUME IInv, NEW p \in Procs, NEW v \in Vals, Bwrite(p, v), UNCHANGED setup
  PROVE  IInv'
<1>0. /\ pc[p] = "hold" /\ data' = [data EXCEPT ![bp[p]] = v]
      /\ dirty' = [dirty EXCEPT ![bp[p]] = TRUE] /\ pc' = [pc EXCEPT ![p] = "iderw"]
      /\ UNCHANGED <<blockno, busy, valid, lru, idequeue, disk, want, bp>>
  BY DEF Bwrite
<1>1. /\ dirty'[bp[p]] /\ valid[bp[p]]
      /\ \A c \in Bufs \ {bp[p]} : dirty'[c] = dirty[c] /\ data'[c] = data[c]
  BY <1>0, HolderIs DEF IInv, TypeOK
<1>2. pc'[p] = "iderw" /\ \A q \in Procs \ {p} : pc'[q] = pc[q]
  BY <1>0 DEF IInv, TypeOK
<1>3. TypeOK'
  <2>1. data' \in [Bufs -> Vals] /\ dirty' \in [Bufs -> BOOLEAN] /\ pc' \in [Procs -> Labels]
    BY <1>0 DEF IInv, TypeOK, Labels
  <2> QED
    BY <1>0, <2>1 DEF IInv, TypeOK
<1>4. Listed' /\ Distinct'
  BY <1>0 DEF IInv, Listed, Distinct
<1>5. Pointers'
  BY <1>0, <1>2 DEF IInv, Pointers, Owning
<1>6. Owners'
  BY <1>0, <1>2, SMT DEF IInv, Owners, Owns, Owning
<1>7. Queued'
  BY <1>0, <1>2, SMT DEF IInv, Queued
<1>8. Flags'
  <2>1. \A q \in Procs \ {p} : pc[q] \in {"iderw", "io"} => bp[q] \in Bufs \ {bp[p]}
    BY <1>0, HolderIs DEF Owning
  <2> QED
    BY <1>0, <1>1, <1>2, <2>1, SMT DEF IInv, Flags
<1>9. Coherent'
  BY <1>0, <1>1 DEF IInv, Coherent
<1> QED
  BY <1>3, <1>4, <1>5, <1>6, <1>7, <1>8, <1>9 DEF IInv

\* brelse loses no buffer from the list.
LEMMA ToFrontLists ==
  ASSUME IInv, NEW b \in Bufs
  PROVE  ToFront(b) \in [Bufs -> Bufs] /\ \A c \in Bufs : \E i \in Bufs : ToFront(b)[i] = c
<1>1. Place(b) \in Bufs /\ lru[Place(b)] = b
  BY DEF IInv, Listed, Place
<1>2. \A i \in Bufs : i # 1 => i - 1 \in Bufs
  BY BioAssumption, SMT DEF Bufs
<1>3. 1 \in Bufs
  BY BioAssumption, SMT DEF Bufs
<1>4. ToFront(b) \in [Bufs -> Bufs]
  BY <1>2 DEF IInv, TypeOK, ToFront
<1>5. ASSUME NEW c \in Bufs PROVE \E i \in Bufs : ToFront(b)[i] = c
  <2>1. PICK i \in Bufs : lru[i] = c
    BY DEF IInv, Listed
  <2>2. CASE i = Place(b)
    <3>1. ToFront(b)[1] = b
      BY <1>3 DEF ToFront
    <3> QED
      BY <1>1, <1>3, <2>1, <2>2, <3>1
  <2>3. CASE i < Place(b)
    <3>1. i + 1 \in Bufs /\ i + 1 # 1 /\ i + 1 <= Place(b) /\ (i + 1) - 1 = i
      BY <1>1, <2>3, BioAssumption, SMT DEF Bufs
    <3>2. ToFront(b)[i + 1] = lru[(i + 1) - 1]
      BY <3>1 DEF ToFront
    <3> QED
      BY <2>1, <3>1, <3>2
  <2>4. CASE i > Place(b)
    <3>1. i # 1 /\ ~(i <= Place(b))
      BY <1>1, <2>4, BioAssumption, SMT DEF Bufs
    <3>2. ToFront(b)[i] = lru[i]
      BY <3>1 DEF ToFront
    <3> QED
      BY <2>1, <3>2
  <2> QED
    BY <1>1, <2>2, <2>3, <2>4, BioAssumption, SMT DEF Bufs
<1> QED
  BY <1>4, <1>5

\* brelse gives up the buffer and wakes everyone who sleeps on it.
LEMMA BrelseInv ==
  ASSUME IInv, NEW p \in Procs, Brelse(p), UNCHANGED setup
  PROVE  IInv'
<1> DEFINE b == bp[p]
<1>0. /\ pc[p] = "hold" /\ lru' = ToFront(b) /\ busy' = [busy EXCEPT ![b] = FALSE]
      /\ pc' = [WakeupIn(b, valid, dirty) EXCEPT ![p] = "idle"]
      /\ want' = [want EXCEPT ![p] = NoBlock] /\ bp' = [bp EXCEPT ![p] = 0]
      /\ UNCHANGED <<blockno, valid, dirty, data, idequeue, disk>>
  BY DEF Brelse, Released, ReleaseWakeup
<1>1. /\ b \in Bufs /\ busy[b]
      /\ \A q \in Procs \ {p} : pc[q] \in Owning => bp[q] \in Bufs /\ bp[q] # b
  BY <1>0, HolderIs
<1> HIDE DEF b
<1>2. /\ pc'[p] = "idle"
      /\ \A q \in Procs \ {p} :
           /\ pc'[q] = IF bp[q] = b /\ pc[q] = "wait" THEN "bget" ELSE pc[q]
           /\ want'[q] = want[q] /\ bp'[q] = bp[q]
  <2>1. WakeupIn(b, valid, dirty) \in [Procs -> Labels]
    BY DEF IInv, TypeOK, WakeupIn, Labels
  <2>2. pc'[p] = "idle" /\ \A q \in Procs \ {p} : pc'[q] = WakeupIn(b, valid, dirty)[q]
    BY <1>0, <2>1
  <2>3. \A q \in Procs \ {p} :
          WakeupIn(b, valid, dirty)[q] = IF bp[q] = b /\ pc[q] = "wait" THEN "bget" ELSE pc[q]
    BY <1>1 DEF WakeupIn, Owning
  <2>4. \A q \in Procs \ {p} : want'[q] = want[q] /\ bp'[q] = bp[q]
    BY <1>0 DEF IInv, TypeOK
  <2> QED
    BY <2>2, <2>3, <2>4
<1>3. ~busy'[b] /\ \A c \in Bufs \ {b} : busy'[c] = busy[c]
  BY <1>0, <1>1 DEF IInv, TypeOK
<1>4. TypeOK'
  <2>1. pc' \in [Procs -> Labels]
    BY <1>0 DEF IInv, TypeOK, WakeupIn, Labels
  <2>2. lru' \in [Bufs -> Bufs]
    BY <1>0, <1>1, ToFrontLists
  <2>3. /\ busy' \in [Bufs -> BOOLEAN] /\ bp' \in [Procs -> Bufs \cup {0}]
        /\ want' \in [Procs -> Blocks \cup {NoBlock}]
    BY <1>0 DEF IInv, TypeOK
  <2> QED
    BY <1>0, <2>1, <2>2, <2>3 DEF IInv, TypeOK
<1>5. Listed'
  BY <1>0, <1>1, ToFrontLists DEF Listed
<1>6. Distinct' /\ Coherent'
  BY <1>0 DEF IInv, Distinct, Coherent
<1>7. \A q \in Procs : pc'[q] \in Owning => q # p /\ pc'[q] = pc[q] /\ bp[q] # b
  BY <1>1, <1>2 DEF Owning
<1>8. Pointers'
  <2>1. ASSUME NEW q \in Procs, pc'[q] # "idle" PROVE want'[q] \in Blocks
    BY <1>2, <2>1 DEF IInv, Pointers
  <2>2. ASSUME NEW q \in Procs, pc'[q] \in Owning \cup {"wait"} PROVE bp'[q] \in Bufs /\ busy'[bp'[q]]
    <3>1. q # p /\ pc'[q] = pc[q] /\ bp[q] # b
      BY <1>2, <1>7, <2>2 DEF Owning
    <3> QED
      BY <1>2, <1>3, <2>2, <3>1 DEF IInv, Pointers
  <2>3. ASSUME NEW q \in Procs, pc'[q] \in Owning PROVE blockno'[bp'[q]] = want'[q]
    BY <1>0, <1>2, <1>7, <2>3, SMT DEF IInv, Pointers
  <2> QED
    BY <2>1, <2>2, <2>3 DEF Pointers
<1>9. Owners'
  <2>1. ASSUME NEW c \in Bufs, busy'[c] PROVE \E q \in Procs : Owns(q, c)'
    <3>1. c # b /\ busy[c]
      BY <1>3, <2>1
    <3>2. PICK q \in Procs : bp[q] = c /\ pc[q] \in Owning
      BY <3>1 DEF IInv, Owners, Owns, Owning
    <3>3. q # p /\ pc'[q] = pc[q] /\ bp'[q] = c
      BY <1>2, <3>1, <3>2 DEF b, Owning
    <3> QED
      BY <3>2, <3>3 DEF Owns, Owning
  <2>2. ASSUME NEW q \in Procs, NEW o \in Procs, pc'[q] \in Owning, pc'[o] \in Owning, bp'[q] = bp'[o]
        PROVE  q = o
    BY <1>2, <1>7, <2>2 DEF IInv, Owners
  <2> QED
    BY <2>1, <2>2 DEF Owners
<1>10. Queued'
  <2>1. \A q \in Procs : pc'[q] = "io" <=> pc[q] = "io"
    BY <1>0, <1>2, SMT
  <2>2. \A q \in Procs : pc[q] = "io" => bp'[q] = bp[q]
    BY <1>0, <1>2
  <2> QED
    BY <1>0, <2>1, <2>2, SMT DEF IInv, Queued
<1>11. Flags'
  BY <1>0, <1>2, <1>7 DEF IInv, Flags, Owning
<1> QED
  BY <1>4, <1>5, <1>6, <1>8, <1>9, <1>10, <1>11 DEF IInv

\* binit: every buffer is in the list, none has a block.
LEMMA InitInv == Init => IInv
<1> SUFFICES ASSUME Init PROVE IInv
  OBVIOUS
<1>1. lru \in [Bufs -> Bufs] /\ Listed
  <2>1. \A i \in Bufs : NBUF + 1 - i \in Bufs /\ NBUF + 1 - (NBUF + 1 - i) = i
    BY BioAssumption, SMT DEF Bufs
  <2>2. lru = [i \in Bufs |-> NBUF + 1 - i]
    BY DEF Init
  <2>3. \A b \in Bufs : lru[NBUF + 1 - b] = b
    BY <2>1, <2>2
  <2> QED
    BY <2>1, <2>2, <2>3 DEF Listed
<1>2. idequeue = <<>> /\ idequeue \in Seq(Bufs) /\ 1..Len(idequeue) = {}
  BY SMT DEF Init
<1>3. TypeOK
  BY <1>1, <1>2, BioAssumption DEF Init, TypeOK, Labels
<1>4. Distinct /\ Pointers /\ Owners /\ Flags /\ Coherent
  BY BioAssumption DEF Init, Distinct, Pointers, Owners, Owns, Owning, Flags, Coherent
<1>5. Queued
  BY <1>2 DEF Init, Queued
<1> QED
  BY <1>1, <1>3, <1>4, <1>5 DEF IInv

\* Every step of the cache and of the driver preserves the invariant.
LEMMA NextInv == IInv /\ [Next]_vars => IInv'
<1> SUFFICES ASSUME IInv, [Next]_vars PROVE IInv'
  OBVIOUS
<1>1. ASSUME Ideintr, UNCHANGED setup PROVE IInv'
  BY <1>1, IdeintrInv
<1>2. ASSUME NEW p \in Procs, UNCHANGED setup,
             BgetCached(p) \/ BgetRecycle(p) \/ Iderw(p) \/ Brelse(p)
      PROVE  IInv'
  BY <1>2, BgetCachedInv, BgetRecycleInv, IderwInv, BrelseInv
<1>3. ASSUME NEW p \in Procs, NEW k \in Blocks, Bread(p, k), UNCHANGED setup PROVE IInv'
  BY <1>3, BreadInv
<1>4. ASSUME NEW p \in Procs, NEW v \in Vals, UNCHANGED setup, LogWrite(p, v) \/ Bwrite(p, v)
      PROVE  IInv'
  BY <1>4, LogWriteInv, BwriteInv
<1>5. CASE UNCHANGED vars \/ \E p \in Procs : BgetPanic(p) /\ UNCHANGED setup
  <2>1. UNCHANGED vars
    BY <1>5 DEF vars, bufVars, BgetPanic
  <2> QED
    BY <2>1, SMT DEF vars, bufVars, IInv, TypeOK, Listed, Distinct, Pointers, Owners, Owns, Queued, Flags, Coherent
<1> QED
  BY <1>1, <1>2, <1>3, <1>4, <1>5 DEF Next, Step

\* What bget, brelse, iderw and ideintr rely on is invariant.
THEOREM Invariance == Spec => []IInv
BY InitInv, NextInv, PTL DEF Spec

-----------------------------------------------------------------------------
(* One buffer, one owner *)

\* A set whose elements are all equal has none or one.
LEMMA AtMostOne ==
  ASSUME NEW S, \A x, y \in S : x = y
  PROVE  Cardinality(S) = IF S = {} THEN 0 ELSE 1
<1>1. CASE S = {}
  BY <1>1, FS_EmptySet
<1>2. CASE S # {}
  <2>1. PICK x \in S : S = {x}
    BY <1>2
  <2> QED
    BY <1>2, <2>1, FS_Singleton
<1> QED
  BY <1>1, <1>2

\* bget never gives one block two buffers, a busy buffer has exactly one owner,
\* the disk queue has the requests of the sleepers of iderw, sleepers of bget
\* wait for an owner, and brelse loses no buffer from the list, for any number
\* of processes, blocks and buffers.
THEOREM OneOwner == Spec => []OneBufferOneOwner
<1>1. IInv => OneBufferOneOwner
  <2> SUFFICES ASSUME IInv PROVE OneBufferOneOwner
    OBVIOUS
  <2>1. lru \in Surjection(Bufs, Bufs)
    BY DEF IInv, TypeOK, Listed, Surjection
  <2>2. ASSUME NEW k \in Blocks PROVE Cardinality(Cached(k)) <= 1
    <3>1. \A x, y \in Cached(k) : x = y
      BY DEF IInv, Distinct, Cached
    <3>2. Cardinality(Cached(k)) = 0 \/ Cardinality(Cached(k)) = 1
      BY <3>1, AtMostOne
    <3> QED
      BY <3>2, SMT
  <2>3. ASSUME NEW b \in Bufs
        PROVE  Cardinality({p \in Procs : Owns(p, b)}) = IF busy[b] THEN 1 ELSE 0
    <3>1. \A x, y \in {p \in Procs : Owns(p, b)} : x = y
      BY SMT DEF IInv, Owners, Owns, Owning
    <3>2. {p \in Procs : Owns(p, b)} = {} <=> ~busy[b]
      BY SMT DEF IInv, Owners, Pointers, Owns, Owning
    <3> QED
      BY <3>1, <3>2, AtMostOne
  <2>4. ASSUME NEW b \in Bufs
        PROVE  Cardinality({i \in 1..Len(idequeue) : idequeue[i] = b})
                 = Cardinality({p \in Procs : pc[p] = "io" /\ bp[p] = b})
    <3> DEFINE I == {i \in 1..Len(idequeue) : idequeue[i] = b}
               P == {p \in Procs : pc[p] = "io" /\ bp[p] = b}
    <3>1. (\A x, y \in I : x = y) /\ (\A x, y \in P : x = y)
      BY SMT DEF IInv, Queued, Owners, Owning
    <3>2. I = {} <=> P = {}
      BY SMT DEF IInv, Queued
    <3> HIDE DEF I, P
    <3>3. Cardinality(I) = Cardinality(P)
      BY <3>1, <3>2, AtMostOne
    <3> QED
      BY <3>3 DEF I, P
  <2>5. \A p \in Procs : pc[p] = "wait" => busy[bp[p]]
    BY DEF IInv, Pointers
  <2> QED
    BY <2>1, <2>2, <2>3, <2>4, <2>5 DEF OneBufferOneOwner
<1> QED
  BY <1>1, Invariance, PTL

-----------------------------------------------------------------------------
(* The cache implements blocks with exclusive owners *)

\* The process that has block k, and what the block contains.
Has(p, k) == pc[p] \in Owning /\ want[p] = k /\ valid[bp[p]]
View ==
  /\ \A k \in Blocks, b \in Bufs : blockno[b] = k /\ valid[b] => Contents(k) = data[b]
  /\ \A k \in Blocks : (\A b \in Bufs : blockno[b] = k => ~valid[b]) => Contents(k) = disk[k]
  /\ \A k \in Blocks, p \in Procs : Has(p, k) => Owner(k) = p
  /\ \A k \in Blocks : (\A p \in Procs : ~Has(p, k)) => Owner(k) = NoProc

\* Contents and Owner, which choose a buffer and a process, have no choice.
LEMMA ViewHolds == IInv => View
<1> SUFFICES ASSUME IInv PROVE View
  OBVIOUS
<1>1. ASSUME NEW k \in Blocks, NEW b \in Bufs, blockno[b] = k, valid[b] PROVE Contents(k) = data[b]
  <2>1. {c \in Cached(k) : valid[c]} = {b}
    BY <1>1 DEF IInv, Distinct, Cached
  <2>2. (CHOOSE c \in {b} : TRUE) = b
    OBVIOUS
  <2> QED
    BY <2>1, <2>2 DEF Contents
<1>2. ASSUME NEW k \in Blocks, \A b \in Bufs : blockno[b] = k => ~valid[b] PROVE Contents(k) = disk[k]
  <2>1. {c \in Cached(k) : valid[c]} = {}
    BY <1>2 DEF Cached
  <2> QED
    BY <2>1 DEF Contents
<1>3. ASSUME NEW k \in Blocks, NEW p \in Procs, Has(p, k) PROVE Owner(k) = p
  <2>1. ASSUME NEW q \in Procs, Has(q, k) PROVE q = p
    <3>1. bp[p] \in Bufs /\ blockno[bp[p]] = k /\ bp[q] \in Bufs /\ blockno[bp[q]] = k
      BY <1>3, <2>1 DEF IInv, Pointers, Has
    <3>2. bp[p] = bp[q]
      BY <3>1 DEF IInv, Distinct
    <3> QED
      BY <1>3, <2>1, <3>2 DEF IInv, Owners, Has
  <2>2. {q \in Procs : want[q] = k /\ Owns(q, bp[q]) /\ valid[bp[q]]} = {q \in Procs : Has(q, k)}
    BY DEF Has, Owns, Owning
  <2>3. {q \in Procs : Has(q, k)} = {p}
    BY <1>3, <2>1
  <2>4. (CHOOSE q \in {p} : TRUE) = p
    OBVIOUS
  <2> QED
    BY <2>2, <2>3, <2>4 DEF Owner
<1>4. ASSUME NEW k \in Blocks, \A p \in Procs : ~Has(p, k) PROVE Owner(k) = NoProc
  <2>1. {q \in Procs : want[q] = k /\ Owns(q, bp[q]) /\ valid[bp[q]]} = {}
    BY <1>4 DEF Has, Owns, Owning
  <2> QED
    BY <2>1 DEF Owner
<1> QED
  BY <1>1, <1>2, <1>3, <1>4 DEF View

\* The same of the next state.
LEMMA ViewHoldsNext == IInv' => View'
BY ViewHolds, PTL

\* A block has contents.
LEMMA ContentsType ==
  ASSUME IInv, NEW k \in Blocks
  PROVE  Contents(k) \in Vals
<1>1. View
  BY ViewHolds
<1>2. CASE \E b \in Bufs : blockno[b] = k /\ valid[b]
  BY <1>1, <1>2, SMT DEF View, IInv, TypeOK
<1>3. CASE \A b \in Bufs : blockno[b] = k => ~valid[b]
  BY <1>1, <1>3 DEF View, IInv, TypeOK
<1> QED
  BY <1>2, <1>3

\* Who has a buffer of k has k to itself.
LEMMA HasAlone ==
  ASSUME IInv, NEW k \in Blocks, NEW b \in Bufs, blockno[b] = k,
         NEW q \in Procs, Has(q, k)
  PROVE  bp[q] = b /\ busy[b] /\ valid[b]
<1>1. bp[q] \in Bufs /\ blockno[bp[q]] = k /\ busy[bp[q]] /\ valid[bp[q]]
  BY DEF IInv, Pointers, Has
<1> QED
  BY <1>1 DEF IInv, Distinct

\* Nothing changes hands if the same processes have the same blocks.
LEMMA OwnersSame ==
  ASSUME View, View', \A q \in Procs, j \in Blocks : Has(q, j)' <=> Has(q, j)
  PROVE  \A j \in Blocks : Owner(j)' = Owner(j)
BY DEF View

\* A step that changes neither is invisible.
LEMMA Stutters ==
  ASSUME \A j \in Blocks : Contents(j)' = Contents(j), \A j \in Blocks : Owner(j)' = Owner(j),
         setup' = setup
  PROVE  UNCHANGED Store!vars
BY DEF Store!vars

\* A step that changes the contents of k only, seen as an assignment.
LEMMA OneContent ==
  ASSUME NEW k \in Blocks, \A j \in Blocks \ {k} : Contents(j)' = Contents(j)
  PROVE  [j \in Blocks |-> Contents(j)]' = [[j \in Blocks |-> Contents(j)] EXCEPT ![k] = Contents(k)']
OBVIOUS

\* The same for owners.
LEMMA OneOwnerChange ==
  ASSUME NEW k \in Blocks, \A j \in Blocks \ {k} : Owner(j)' = Owner(j)
  PROVE  [j \in Blocks |-> Owner(j)]' = [[j \in Blocks |-> Owner(j)] EXCEPT ![k] = Owner(k)']
OBVIOUS

\* The start of bread is invisible.
LEMMA BreadRefines ==
  ASSUME IInv, IInv', NEW p \in Procs, NEW k \in Blocks, Bread(p, k), UNCHANGED setup
  PROVE  UNCHANGED Store!vars
<1>1. View /\ View'
  BY ViewHolds, ViewHoldsNext
<1>2. \A j \in Blocks : Contents(j)' = Contents(j)
  BY SMT DEF Bread, bufVars, Contents, Cached
<1>3. \A q \in Procs, j \in Blocks : Has(q, j)' <=> Has(q, j)
  BY DEF IInv, TypeOK, Bread, bufVars, Has, Owning
<1> QED
  BY <1>1, <1>2, <1>3, OwnersSame, Stutters

\* bget of a cached block acquires it, unless its data must still be read or
\* somebody has it.
LEMMA BgetCachedRefines ==
  ASSUME IInv, IInv', NEW p \in Procs, BgetCached(p), UNCHANGED setup
  PROVE  (\E k \in Blocks : Store!Acquire(p, k)) \/ UNCHANGED Store!vars
<1>1. View /\ View'
  BY ViewHolds, ViewHoldsNext
<1>2. PICK b \in Bufs :
        /\ blockno[b] = want[p] /\ bp' = [bp EXCEPT ![p] = b]
        /\ \/ /\ ~busy[b] /\ busy' = [busy EXCEPT ![b] = TRUE]
              /\ pc' = [pc EXCEPT ![p] = IF valid[b] THEN "hold" ELSE "iderw"]
           \/ busy[b] /\ pc' = [pc EXCEPT ![p] = "wait"] /\ UNCHANGED busy
  BY DEF BgetCached, Cached
<1>3. /\ pc[p] = "bget" /\ want[p] \in Blocks
      /\ UNCHANGED <<blockno, valid, dirty, data, lru, idequeue, disk, want>>
  BY DEF BgetCached, IInv, Pointers
<1>4. \A j \in Blocks : Contents(j)' = Contents(j)
  BY <1>3, SMT DEF Contents, Cached
<1>5. /\ bp'[p] = b /\ \A q \in Procs \ {p} : pc'[q] = pc[q] /\ bp'[q] = bp[q]
      /\ \/ busy[b] /\ pc'[p] = "wait"
         \/ ~busy[b] /\ pc'[p] = IF valid[b] THEN "hold" ELSE "iderw"
  BY <1>2, SMT DEF IInv, TypeOK
<1>6. \A q \in Procs \ {p}, j \in Blocks : Has(q, j)' <=> Has(q, j)
  BY <1>3, <1>5 DEF Has
<1>7. \A j \in Blocks : ~Has(p, j)
  BY <1>3 DEF Has, Owning
<1>8. CASE ~busy[b] /\ valid[b]
  <2>1. \A q \in Procs : ~Has(q, want[p])
    BY <1>2, <1>3, <1>8, HasAlone
  <2>2. Has(p, want[p])'
    BY <1>3, <1>5, <1>8 DEF Has, Owning
  <2>3. Owner(want[p]) = NoProc /\ Owner(want[p])' = p
    BY <1>1, <1>3, <2>1, <2>2 DEF View
  <2>4. \A q \in Procs, j \in Blocks \ {want[p]} : Has(q, j)' <=> Has(q, j)
    BY <1>3, <1>6, <1>7 DEF Has
  <2>5. \A j \in Blocks \ {want[p]} : Owner(j)' = Owner(j)
    BY <1>1, <2>4 DEF View
  <2>6. Store!Acquire(p, want[p])
    BY <1>3, <1>4, <2>3, <2>5, OneOwnerChange DEF Store!Acquire
  <2> QED
    BY <1>3, <2>6
<1>9. CASE busy[b] \/ ~valid[b]
  <2>1. \A j \in Blocks : ~Has(p, j)'
    BY <1>3, <1>5, <1>9 DEF Has, Owning
  <2> QED
    BY <1>1, <1>4, <1>6, <1>7, <2>1, OwnersSame, Stutters
<1> QED
  BY <1>8, <1>9

\* A recycled buffer's block goes back to what the disk has, which is what the
\* buffer had unless a read failed.
LEMMA BgetRecycleRefines ==
  ASSUME IInv, IInv', NEW p \in Procs, BgetRecycle(p), UNCHANGED setup
  PROVE  (\E k \in Blocks : Store!Lost(k) /\ UNCHANGED [j \in Blocks |-> Owner(j)])
           \/ UNCHANGED Store!vars
<1>1. View /\ View'
  BY ViewHolds, ViewHoldsNext
<1>2. PICK b \in Bufs :
        /\ ~busy[b] /\ ~dirty[b]
        /\ blockno' = [blockno EXCEPT ![b] = want[p]]
        /\ valid' = [valid EXCEPT ![b] = FALSE]
        /\ bp' = [bp EXCEPT ![p] = b]
        /\ pc' = [pc EXCEPT ![p] = "iderw"]
  BY RecycledBuffer
<1>3. /\ pc[p] = "bget" /\ (\A c \in Bufs : blockno[c] # want[p])
      /\ UNCHANGED <<data, lru, idequeue, disk, want>>
  BY DEF BgetRecycle, Cached
<1>4. /\ ~valid'[b] /\ blockno'[b] = want[p] /\ bp'[p] = b /\ pc'[p] = "iderw"
      /\ \A c \in Bufs \ {b} : blockno'[c] = blockno[c] /\ valid'[c] = valid[c]
      /\ \A q \in Procs \ {p} : pc'[q] = pc[q] /\ bp'[q] = bp[q]
  BY <1>2, SMT DEF IInv, TypeOK
<1>5. \A q \in Procs, j \in Blocks : Has(q, j)' <=> Has(q, j)
  <2>1. \A q \in Procs : pc[q] \in Owning => bp[q] \in Bufs /\ bp[q] # b /\ q # p
    BY <1>2, <1>3, SMT DEF IInv, Pointers, Owning
  <2> QED
    BY <1>3, <1>4, <2>1 DEF Has
<1>6. \A j \in Blocks : Owner(j)' = Owner(j)
  BY <1>1, <1>5, OwnersSame
<1>7. ASSUME NEW j \in Blocks, ~(valid[b] /\ j = blockno[b]) PROVE Contents(j)' = Contents(j)
  <2>1. CASE \E c \in Bufs : blockno[c] = j /\ valid[c]
    <3>1. PICK c \in Bufs : blockno[c] = j /\ valid[c]
      BY <2>1
    <3>2. c # b
      BY <1>7, <3>1
    <3> QED
      BY <1>1, <1>3, <1>4, <3>1, <3>2, SMT DEF View
  <2>2. CASE \A c \in Bufs : blockno[c] = j => ~valid[c]
    <3>1. \A c \in Bufs : blockno'[c] = j => ~valid'[c]
      BY <1>4, <2>2
    <3> QED
      BY <1>1, <1>3, <2>2, <3>1 DEF View
  <2> QED
    BY <2>1, <2>2
<1>8. CASE ~valid[b]
  BY <1>6, <1>7, <1>8, Stutters
<1>9. CASE valid[b]
  <2>0. PICK k \in Blocks : k = blockno[b]
    BY <1>9 DEF IInv, Flags
  <2>1. Contents(k) = data[b]
    BY <1>1, <1>9, <2>0 DEF View
  <2>2. Contents(k)' = disk[k]
    <3>1. \A c \in Bufs : blockno'[c] = k => ~valid'[c]
      BY <1>3, <1>4, <2>0, SMT DEF IInv, Distinct
    <3> QED
      BY <1>1, <1>3, <3>1 DEF View
  <2>3. \A q \in Procs : ~Has(q, k)
    BY <1>2, <2>0, HasAlone
  <2>4. Owner(k) = NoProc
    BY <1>1, <2>3 DEF View
  <2>5. CASE ~setup.errors
    <3>1. data[b] = disk[k]
      BY <1>2, <1>9, <2>0, <2>5 DEF IInv, Coherent
    <3>2. \A j \in Blocks : Contents(j)' = Contents(j)
      BY <1>7, <2>0, <2>1, <2>2, <3>1
    <3> QED
      BY <1>6, <3>2, Stutters
  <2>6. CASE setup.errors
    <3>1. disk[k] \in Vals
      BY DEF IInv, TypeOK
    <3>2. [j \in Blocks |-> Contents(j)]' = [[j \in Blocks |-> Contents(j)] EXCEPT ![k] = disk[k]]
      BY <1>7, <2>0, <2>2, OneContent
    <3>3. Store!Lost(k)
      BY <2>4, <2>6, <3>1, <3>2 DEF Store!Lost
    <3>4. UNCHANGED [j \in Blocks |-> Owner(j)]
      BY <1>6
    <3> QED
      BY <3>3, <3>4
  <2> QED
    BY <2>5, <2>6
<1> QED
  BY <1>8, <1>9

\* Queueing a request is invisible.
LEMMA IderwRefines ==
  ASSUME IInv, IInv', NEW p \in Procs, Iderw(p), UNCHANGED setup
  PROVE  UNCHANGED Store!vars
<1>1. View /\ View'
  BY ViewHolds, ViewHoldsNext
<1>2. \A j \in Blocks : Contents(j)' = Contents(j)
  BY SMT DEF Iderw, bufVars, Contents, Cached
<1>3. \A q \in Procs, j \in Blocks : Has(q, j)' <=> Has(q, j)
  BY DEF IInv, TypeOK, Iderw, bufVars, Has, Owning
<1> QED
  BY <1>1, <1>2, <1>3, OwnersSame, Stutters

\* A read acquires the block for its reader, unless the read failed with the
\* contents it ought to have; a write is invisible.
LEMMA IdeintrRefines ==
  ASSUME IInv, IInv', Ideintr, UNCHANGED setup
  PROVE  (\E p \in Procs, k \in Blocks : Store!Acquire(p, k)) \/ UNCHANGED Store!vars
<1>1. View /\ View'
  BY ViewHolds, ViewHoldsNext
<1>2. PICK b \in Bufs : b = Head(idequeue) /\ idequeue # <<>>
  BY HeadOfQueue DEF Ideintr
<1>3. PICK p \in Procs :
        /\ pc[p] = "io" /\ bp[p] = b /\ blockno[b] = want[p] /\ want[p] \in Blocks
        /\ \A q \in Procs \ {p} : pc[q] \in Owning => bp[q] # b
  BY <1>2, ActiveRequest, SMT
<1>4. PICK k \in Blocks : k = blockno[b] /\ want[p] = k
  BY <1>3
<1>5. /\ \/ dirty[b] /\ disk' = [disk EXCEPT ![k] = data[b]] /\ data' = data
         \/ ~dirty[b] /\ data' = [data EXCEPT ![b] = disk[k]] /\ disk' = disk
         \/ ~dirty[b] /\ setup.errors /\ data' = data /\ disk' = disk
      /\ valid' = [valid EXCEPT ![b] = TRUE]
      /\ UNCHANGED <<blockno, want, bp>>
  BY <1>2, <1>4 DEF Ideintr
<1>6. /\ pc'[p] = "hold" /\ valid'[b] /\ \A c \in Bufs \ {b} : valid'[c] = valid[c] /\ data'[c] = data[c]
      /\ \A q \in Procs \ {p} : pc'[q] = IF bp[q] = b /\ pc[q] = "wait" THEN "bget" ELSE pc[q]
      /\ \A j \in Blocks \ {k} : disk'[j] = disk[j]
  <2>1. pc'[p] = "hold" /\ \A q \in Procs \ {p} : pc'[q] = IF bp[q] = b /\ pc[q] = "wait" THEN "bget" ELSE pc[q]
    <3>1. pc' = WakeupIn(b, valid', dirty') /\ valid'[b] /\ ~dirty'[b]
      BY <1>2 DEF Ideintr, IntrDirty, IInv, TypeOK
    <3> QED
      BY <1>3, <3>1 DEF WakeupIn, Owning
  <2>2. valid'[b] /\ \A c \in Bufs \ {b} : valid'[c] = valid[c] /\ data'[c] = data[c]
    BY <1>5 DEF IInv, TypeOK
  <2>3. \A j \in Blocks \ {k} : disk'[j] = disk[j]
    BY <1>5 DEF IInv, TypeOK
  <2> QED
    BY <2>1, <2>2, <2>3
<1>7. \A c \in Bufs \ {b} : blockno[c] # k
  BY <1>4 DEF IInv, Distinct
<1>8. ASSUME NEW j \in Blocks \ {k} PROVE Contents(j)' = Contents(j)
  <2>1. CASE \E c \in Bufs : blockno[c] = j /\ valid[c]
    <3>1. PICK c \in Bufs : blockno[c] = j /\ valid[c] /\ c # b
      BY <1>4, <2>1
    <3> QED
      BY <1>1, <1>5, <1>6, <3>1, SMT DEF View
  <2>2. CASE \A c \in Bufs : blockno[c] = j => ~valid[c]
    <3>1. \A c \in Bufs : blockno'[c] = j => ~valid'[c]
      BY <1>4, <1>5, <1>6, <2>2
    <3> QED
      BY <1>1, <1>6, <2>2, <3>1, SMT DEF View
  <2> QED
    BY <2>1, <2>2
<1>9. \A q \in Procs \ {p}, j \in Blocks : Has(q, j)' <=> Has(q, j)
  <2>1. ASSUME NEW q \in Procs \ {p}
        PROVE  /\ pc'[q] \in Owning <=> pc[q] \in Owning
               /\ pc[q] \in Owning => bp[q] \in Bufs /\ valid'[bp[q]] = valid[bp[q]]
    BY <1>3, <1>6 DEF IInv, Pointers, Owning
  <2> QED
    BY <1>5, <2>1 DEF Has
<1>10. Contents(k)' = data'[b] /\ Has(p, k)'
  BY <1>1, <1>3, <1>4, <1>5, <1>6, SMT DEF View, Has, Owning
<1>11. CASE dirty[b]
  <2>1. valid[b]
    BY <1>11 DEF IInv, Flags
  <2>2. Contents(k)' = Contents(k)
    BY <1>1, <1>4, <1>5, <1>10, <1>11, <2>1, SMT DEF View
  <2>3. \A q \in Procs, j \in Blocks : Has(q, j)' <=> Has(q, j)
    BY <1>3, <1>4, <1>5, <1>6, <1>9, <2>1 DEF Has, Owning
  <2> QED
    BY <1>1, <1>8, <2>2, <2>3, OwnersSame, Stutters
<1>12. CASE ~dirty[b]
  <2>1. ~valid[b]
    BY <1>3, <1>12 DEF IInv, Flags
  <2>2. Contents(k) = disk[k]
    BY <1>1, <1>4, <1>7, <2>1 DEF View
  <2>3. \A q \in Procs : ~Has(q, k)
    BY <1>4, <2>1, HasAlone
  <2>4. Owner(k) = NoProc /\ Owner(k)' = p
    BY <1>1, <1>10, <2>3 DEF View
  <2>5. \A j \in Blocks \ {k} : ~Has(p, j) /\ ~Has(p, j)'
    BY <1>4, <1>5 DEF Has
  <2>6. \A j \in Blocks \ {k} : Owner(j)' = Owner(j)
    BY <1>1, <1>9, <2>5, SMT DEF View
  <2>7. [j \in Blocks |-> Owner(j)]' = [[j \in Blocks |-> Owner(j)] EXCEPT ![k] = p]
    BY <2>4, <2>6, OneOwnerChange
  <2>8. CASE data' = [data EXCEPT ![b] = disk[k]]
    <3>1. data'[b] = disk[k]
      BY <2>8 DEF IInv, TypeOK
    <3>2. \A j \in Blocks : Contents(j)' = Contents(j)
      BY <1>8, <1>10, <2>2, <3>1
    <3> QED
      BY <2>4, <2>7, <3>2 DEF Store!Acquire
  <2>9. CASE setup.errors /\ data' = data
    <3>1. data[b] \in Vals
      BY DEF IInv, TypeOK
    <3>2. [j \in Blocks |-> Contents(j)]' = [[j \in Blocks |-> Contents(j)] EXCEPT ![k] = data[b]]
      BY <1>8, <1>10, <2>9, OneContent
    <3>3. Store!Lost(k)
      BY <2>4, <2>9, <3>1, <3>2 DEF Store!Lost
    <3> QED
      BY <2>4, <2>7, <3>3 DEF Store!Acquire
  <2> QED
    BY <1>5, <1>12, <2>8, <2>9
<1> QED
  BY <1>11, <1>12

\* The holder's write is Write.
LEMMA WriteRefines ==
  ASSUME IInv, IInv', NEW p \in Procs, NEW v \in Vals, LogWrite(p, v) \/ Bwrite(p, v), UNCHANGED setup
  PROVE  \E k \in Blocks : Store!Write(p, k, v)
<1>1. View /\ View'
  BY ViewHolds, ViewHoldsNext
<1>2. /\ pc[p] = "hold" /\ data' = [data EXCEPT ![bp[p]] = v]
      /\ UNCHANGED <<blockno, valid, disk, want, bp>>
      /\ pc' = pc \/ pc' = [pc EXCEPT ![p] = "iderw"]
  BY DEF LogWrite, Bwrite
<1>3. PICK b \in Bufs : b = bp[p]
  BY <1>2, HolderIs
<1>4. PICK k \in Blocks : k = want[p] /\ blockno[b] = k /\ valid[b]
  BY <1>2, <1>3, HolderIs
<1>5. data'[b] = v /\ \A c \in Bufs \ {b} : data'[c] = data[c]
  BY <1>2, <1>3 DEF IInv, TypeOK
<1>6. \A q \in Procs : pc'[q] \in Owning <=> pc[q] \in Owning
  BY <1>2, SMT DEF IInv, TypeOK, Owning
<1>7. \A q \in Procs, j \in Blocks : Has(q, j)' <=> Has(q, j)
  BY <1>2, <1>6 DEF Has
<1>8. \A j \in Blocks : Owner(j)' = Owner(j)
  BY <1>1, <1>7, OwnersSame
<1>9. Owner(k) = p
  BY <1>1, <1>2, <1>3, <1>4 DEF View, Has, Owning
<1>10. Contents(k)' = v
  BY <1>1, <1>2, <1>4, <1>5 DEF View
<1>11. ASSUME NEW j \in Blocks \ {k} PROVE Contents(j)' = Contents(j)
  <2>1. CASE \E c \in Bufs : blockno[c] = j /\ valid[c]
    <3>1. PICK c \in Bufs : blockno[c] = j /\ valid[c] /\ c # b
      BY <1>4, <2>1
    <3> QED
      BY <1>1, <1>2, <1>5, <3>1, SMT DEF View
  <2>2. CASE \A c \in Bufs : blockno[c] = j => ~valid[c]
    <3>1. \A c \in Bufs : blockno'[c] = j => ~valid'[c]
      BY <1>2, <2>2
    <3> QED
      BY <1>1, <1>2, <2>2, <3>1 DEF View
  <2> QED
    BY <2>1, <2>2
<1>12. [j \in Blocks |-> Contents(j)]' = [[j \in Blocks |-> Contents(j)] EXCEPT ![k] = v]
  BY <1>10, <1>11, OneContent
<1>13. UNCHANGED [j \in Blocks |-> Owner(j)]
  BY <1>8
<1> QED
  BY <1>9, <1>12, <1>13 DEF Store!Write

\* brelse is Release.
LEMMA BrelseRefines ==
  ASSUME IInv, IInv', NEW p \in Procs, Brelse(p), UNCHANGED setup
  PROVE  \E k \in Blocks : Store!Release(p, k)
<1>1. View /\ View'
  BY ViewHolds, ViewHoldsNext
<1>2. /\ pc[p] = "hold" /\ pc' = [WakeupIn(bp[p], valid, dirty) EXCEPT ![p] = "idle"]
      /\ want' = [want EXCEPT ![p] = NoBlock] /\ bp' = [bp EXCEPT ![p] = 0]
      /\ UNCHANGED <<blockno, valid, data, disk>>
  BY DEF Brelse, ReleaseWakeup
<1>3. PICK k \in Blocks : k = want[p]
  BY <1>2, HolderIs
<1>4. Has(p, k)
  BY <1>2, <1>3, HolderIs DEF Has, Owning
<1>5. \A j \in Blocks : Contents(j)' = Contents(j)
  BY <1>2, SMT DEF Contents, Cached
<1>6. /\ pc'[p] = "idle"
      /\ \A q \in Procs \ {p} :
           (pc'[q] \in Owning <=> pc[q] \in Owning) /\ want'[q] = want[q] /\ bp'[q] = bp[q]
  <2>1. WakeupIn(bp[p], valid, dirty) \in [Procs -> Labels]
    BY DEF IInv, TypeOK, WakeupIn, Labels
  <2>2. pc'[p] = "idle" /\ \A q \in Procs \ {p} : pc'[q] = WakeupIn(bp[p], valid, dirty)[q]
    BY <1>2, <2>1
  <2>3. \A q \in Procs \ {p} : WakeupIn(bp[p], valid, dirty)[q] \in Owning <=> pc[q] \in Owning
    BY DEF WakeupIn, Owning
  <2>4. \A q \in Procs \ {p} : want'[q] = want[q] /\ bp'[q] = bp[q]
    BY <1>2 DEF IInv, TypeOK
  <2> QED
    BY <2>2, <2>3, <2>4
<1>7. \A q \in Procs \ {p}, j \in Blocks : Has(q, j)' <=> Has(q, j)
  BY <1>2, <1>6 DEF Has
<1>8. \A j \in Blocks : ~Has(p, j)'
  BY <1>6 DEF Has, Owning
<1>9. \A q \in Procs : ~Has(q, k)'
  <2>1. \A q \in Procs \ {p} : ~Has(q, k)
    BY <1>1, <1>4 DEF View
  <2> QED
    BY <1>7, <1>8, <2>1
<1>10. Owner(k) = p /\ Owner(k)' = NoProc
  BY <1>1, <1>4, <1>9 DEF View
<1>11. \A j \in Blocks \ {k} : ~Has(p, j)
  BY <1>3 DEF Has
<1>12. \A j \in Blocks \ {k} : Owner(j)' = Owner(j)
  BY <1>1, <1>7, <1>8, <1>11, SMT DEF View
<1>13. [j \in Blocks |-> Owner(j)]' = [[j \in Blocks |-> Owner(j)] EXCEPT ![k] = NoProc]
  BY <1>10, <1>12, OneOwnerChange
<1>14. UNCHANGED [j \in Blocks |-> Contents(j)]
  BY <1>5
<1> QED
  BY <1>10, <1>13, <1>14 DEF Store!Release

\* An empty cache is a store nobody owns a block of.
LEMMA InitRefines == Init => Store!Init
<1> SUFFICES ASSUME Init PROVE Store!Init
  OBVIOUS
<1>1. IInv /\ View
  BY InitInv, ViewHolds
<1>2. \A j \in Blocks : Contents(j) \in Vals
  BY <1>1, ContentsType
<1>3. \A j \in Blocks : Owner(j) = NoProc
  BY <1>1 DEF Init, View, Has, Owning
<1>4. setup.errors \in BOOLEAN
  BY BioAssumption DEF Init
<1> QED
  BY <1>2, <1>3, <1>4 DEF Store!Init

\* Every step is a step of the store, or none.
LEMMA NextRefines == IInv /\ IInv' /\ [Next]_vars => [Store!Next]_(Store!vars)
<1> SUFFICES ASSUME IInv, IInv', [Next]_vars PROVE Store!Next \/ UNCHANGED Store!vars
  OBVIOUS
<1>1. ASSUME Ideintr, UNCHANGED setup PROVE Store!Next \/ UNCHANGED Store!vars
  BY <1>1, IdeintrRefines DEF Store!Next
<1>2. ASSUME NEW p \in Procs, UNCHANGED setup, BgetCached(p) \/ BgetRecycle(p)
      PROVE  Store!Next \/ UNCHANGED Store!vars
  BY <1>2, BgetCachedRefines, BgetRecycleRefines DEF Store!Next
<1>3. ASSUME NEW p \in Procs, UNCHANGED setup, Iderw(p) \/ Brelse(p)
      PROVE  Store!Next \/ UNCHANGED Store!vars
  BY <1>3, IderwRefines, BrelseRefines DEF Store!Next
<1>4. ASSUME NEW p \in Procs, NEW k \in Blocks, Bread(p, k), UNCHANGED setup
      PROVE  UNCHANGED Store!vars
  BY <1>4, BreadRefines
<1>5. ASSUME NEW p \in Procs, NEW v \in Vals, UNCHANGED setup, LogWrite(p, v) \/ Bwrite(p, v)
      PROVE  Store!Next
  BY <1>5, WriteRefines DEF Store!Next
<1>6. CASE UNCHANGED vars \/ \E p \in Procs : BgetPanic(p) /\ UNCHANGED setup
  <2>0. UNCHANGED vars
    BY <1>6 DEF vars, bufVars, BgetPanic
  <2>1. \A j \in Blocks : Contents(j)' = Contents(j) /\ Owner(j)' = Owner(j)
    BY <2>0, SMT DEF vars, bufVars, Contents, Cached, Owner, Owns
  <2> QED
    BY <2>0, <2>1, Stutters DEF vars
<1> QED
  BY <1>1, <1>2, <1>3, <1>4, <1>5, <1>6 DEF Next, Step

\* The cache and the disk queue implement blocks with exclusive owners (bio.c,
\* ide.c): between bread and brelse a process has the block to itself, and
\* bread returns what was last written, in this buffer or another, for any
\* number of processes, blocks and buffers.
THEOREM CacheIsStore == Spec => StoreSpec
<1>1. Spec => []IInv
  BY Invariance
<1> QED
  BY <1>1, InitRefines, NextRefines, PTL DEF Spec, StoreSpec, Store!Spec

-----------------------------------------------------------------------------
(* When bget finds no buffer *)

\* The buffers that stay dirty: log_write's, not those on their way to the disk.
InIo == {"iderw", "io"}
Kept == {b \in Bufs : dirty[b] /\ \A q \in Procs : ~(pc[q] \in InIo /\ bp[q] = b)}
FewKept == Cardinality(Kept) <= setup.pinned

\* No step but log_write makes a buffer stay dirty.
LEMMA KeptShrinks ==
  ASSUME \A b \in Bufs : dirty'[b] => dirty[b] \/ \E q \in Procs : pc'[q] \in InIo /\ bp'[q] = b,
         \A q \in Procs : pc[q] \in InIo => (pc'[q] \in InIo /\ bp'[q] = bp[q]) \/ ~dirty'[bp[q]]
  PROVE  Kept' \subseteq Kept
BY DEF Kept

\* The buffers can be counted.
LEMMA BufsFinite ==
  /\ IsFiniteSet(Bufs) /\ Cardinality(Bufs) = NBUF
  /\ \A S \in SUBSET Bufs : IsFiniteSet(S) /\ Cardinality(S) \in Nat
<1>1. 1 \in Int /\ NBUF \in Int
  BY BioAssumption, SMT
<1>2. IsFiniteSet(Bufs) /\ Cardinality(Bufs) = IF 1 > NBUF THEN 0 ELSE NBUF - 1 + 1
  BY <1>1, FS_Interval DEF Bufs
<1>3. Cardinality(Bufs) = NBUF
  BY <1>2, BioAssumption, SMT
<1> QED
  BY <1>2, <1>3, FS_Subset, FS_CardinalityType

\* A step of bio.c after which no further buffer is kept by the log leaves FewKept.
LEMMA FewKeptStays ==
  ASSUME FewKept, setup \in Setups, UNCHANGED setup, Kept' \subseteq Kept
  PROVE  FewKept'
<1>1. Kept \in SUBSET Bufs /\ Kept' \in SUBSET Kept
  BY DEF Kept
<1>2. IsFiniteSet(Kept) /\ Cardinality(Kept) \in Nat /\ Cardinality(Kept') \in Nat
  BY <1>1, BufsFinite
<1>3. Cardinality(Kept') <= Cardinality(Kept)
  BY <1>1, <1>2, FS_Subset
<1>4. setup.pinned \in Nat
  BY BioAssumption
<1> QED
  BY <1>2, <1>3, <1>4, SMT DEF FewKept

\* Every step leaves it: log_write alone adds a buffer, and within its bound.
LEMMA FewKeptStep == IInv /\ FewKept /\ [Next]_vars => FewKept'
<1> SUFFICES ASSUME IInv, FewKept, [Next]_vars PROVE FewKept'
  OBVIOUS
<1>0. setup \in Setups
  BY DEF IInv, TypeOK
<1>1. ASSUME Ideintr, UNCHANGED setup PROVE FewKept'
  <2>1. PICK b \in Bufs : b = Head(idequeue) /\ idequeue # <<>>
    BY <1>1, HeadOfQueue DEF Ideintr
  <2>2. dirty' = [dirty EXCEPT ![b] = FALSE] /\ pc' = WakeupIn(b, valid', dirty') /\ bp' = bp
    BY <1>1, <2>1 DEF Ideintr, IntrDirty
  <2>3. \A c \in Bufs : dirty'[c] => dirty[c]
    BY <2>2 DEF IInv, TypeOK
  <2>4. ~dirty'[b]
    BY <2>2 DEF IInv, TypeOK
  <2>5. \A q \in Procs : bp[q] # b => pc'[q] = pc[q]
    BY <2>2 DEF WakeupIn
  <2>6. Kept' \subseteq Kept
    BY <2>2, <2>3, <2>4, <2>5, KeptShrinks
  <2> QED
    BY <1>0, <1>1, <2>6, FewKeptStays
<1>2. ASSUME NEW p \in Procs, NEW k \in Blocks, Bread(p, k), UNCHANGED setup PROVE FewKept'
  <2>1. dirty' = dirty /\ bp' = bp /\ pc[p] = "idle" /\ \A q \in Procs \ {p} : pc'[q] = pc[q]
    BY <1>2 DEF Bread, bufVars, IInv, TypeOK
  <2>2. Kept' \subseteq Kept
    BY <2>1, KeptShrinks DEF InIo
  <2> QED
    BY <1>0, <1>2, <2>2, FewKeptStays
<1>3. ASSUME NEW p \in Procs, BgetCached(p), UNCHANGED setup PROVE FewKept'
  <2>1. /\ dirty' = dirty /\ pc[p] = "bget"
        /\ \A q \in Procs \ {p} : pc'[q] = pc[q] /\ bp'[q] = bp[q]
    BY <1>3 DEF BgetCached, IInv, TypeOK
  <2>2. Kept' \subseteq Kept
    BY <2>1, KeptShrinks DEF InIo
  <2> QED
    BY <1>0, <1>3, <2>2, FewKeptStays
<1>4. ASSUME NEW p \in Procs, BgetRecycle(p), UNCHANGED setup PROVE FewKept'
  <2>1. PICK b \in Bufs :
          /\ dirty' = [dirty EXCEPT ![b] = FALSE]
          /\ bp' = [bp EXCEPT ![p] = b] /\ pc' = [pc EXCEPT ![p] = "iderw"]
    BY <1>4, RecycledBuffer
  <2>2. pc[p] = "bget" /\ \A q \in Procs \ {p} : pc'[q] = pc[q] /\ bp'[q] = bp[q]
    BY <1>4, <2>1, SMT DEF BgetRecycle, IInv, TypeOK
  <2>3. \A c \in Bufs : dirty'[c] => dirty[c]
    BY <2>1 DEF IInv, TypeOK
  <2>4. Kept' \subseteq Kept
    BY <2>2, <2>3, KeptShrinks DEF InIo
  <2> QED
    BY <1>0, <1>4, <2>4, FewKeptStays
<1>5. ASSUME NEW p \in Procs, Iderw(p), UNCHANGED setup PROVE FewKept'
  <2>1. dirty' = dirty /\ bp' = bp /\ pc'[p] = "io" /\ \A q \in Procs \ {p} : pc'[q] = pc[q]
    BY <1>5 DEF Iderw, bufVars, IInv, TypeOK
  <2>2. Kept' \subseteq Kept
    BY <2>1, KeptShrinks DEF InIo
  <2> QED
    BY <1>0, <1>5, <2>2, FewKeptStays
<1>6. ASSUME NEW p \in Procs, Brelse(p), UNCHANGED setup PROVE FewKept'
  <2>1. /\ dirty' = dirty /\ pc[p] = "hold" /\ pc' = [WakeupIn(bp[p], valid, dirty) EXCEPT ![p] = "idle"]
        /\ \A q \in Procs \ {p} : bp'[q] = bp[q]
    BY <1>6 DEF Brelse, ReleaseWakeup, IInv, TypeOK
  <2>2. \A q \in Procs \ {p} : pc[q] \in InIo => bp[q] # bp[p]
    BY <2>1 DEF IInv, Owners, Owning, InIo
  <2>3. \A q \in Procs \ {p} : pc[q] \in InIo => pc'[q] = pc[q]
    BY <2>1, <2>2 DEF WakeupIn
  <2>4. Kept' \subseteq Kept
    BY <2>1, <2>3, KeptShrinks DEF InIo
  <2> QED
    BY <1>0, <1>6, <2>4, FewKeptStays
<1>7. ASSUME NEW p \in Procs, NEW v \in Vals, Bwrite(p, v), UNCHANGED setup PROVE FewKept'
  <2>1. /\ pc[p] = "hold" /\ bp' = bp /\ pc'[p] = "iderw" /\ (\A q \in Procs \ {p} : pc'[q] = pc[q])
        /\ \A c \in Bufs : c # bp[p] => dirty'[c] = dirty[c]
    BY <1>7 DEF Bwrite, IInv, TypeOK
  <2>2. Kept' \subseteq Kept
    BY <2>1, KeptShrinks DEF InIo
  <2> QED
    BY <1>0, <1>7, <2>2, FewKeptStays
<1>8. ASSUME NEW p \in Procs, NEW v \in Vals, LogWrite(p, v), UNCHANGED setup PROVE FewKept'
  <2> DEFINE D == {b \in Bufs : dirty[b]} \cup {bp[p]}
  <2>1. Cardinality(D) <= setup.pinned /\ setup.pinned \in Nat
    BY <1>0, <1>8, BioAssumption DEF LogWrite
  <2>2. \A c \in Bufs : dirty'[c] => c \in D
    BY <1>8 DEF LogWrite, IInv, TypeOK
  <2>3. Kept' \subseteq D
    BY <2>2 DEF Kept
  <2>4. D \subseteq Bufs
    BY <1>8, HolderIs DEF LogWrite
  <2> HIDE DEF D
  <2>5. IsFiniteSet(D) /\ Cardinality(D) \in Nat /\ Kept' \in SUBSET Bufs
    BY <2>3, <2>4, BufsFinite
  <2>6. Cardinality(Kept') <= Cardinality(D) /\ Cardinality(Kept') \in Nat
    BY <2>3, <2>5, FS_Subset, BufsFinite
  <2> QED
    BY <1>8, <2>1, <2>5, <2>6, SMT DEF FewKept
<1>9. CASE UNCHANGED vars \/ \E p \in Procs : BgetPanic(p) /\ UNCHANGED setup
  BY <1>9 DEF vars, BgetPanic, bufVars, FewKept, Kept
<1> QED
  BY <1>1, <1>2, <1>3, <1>4, <1>5, <1>6, <1>7, <1>8, <1>9 DEF Next, Step

\* A buffer that cannot be recycled is held, or log_write keeps it dirty.
LEMMA HeldOrKept ==
  ASSUME IInv, FewKept, \A b \in Bufs : ~Recyclable(b)
  PROVE  Cardinality(Held) + setup.pinned >= NBUF
<1>1. Held \in SUBSET Bufs
  BY DEF Held, IInv, Pointers, Owns, Owning
<1>2. \A b \in Bufs : busy[b] => b \in Held
  <2> SUFFICES ASSUME NEW b \in Bufs, busy[b] PROVE b \in Held
    OBVIOUS
  <2>1. PICK p \in Procs : Owns(p, b)
    BY DEF IInv, Owners
  <2>2. bp[p] = b /\ Owns(p, bp[p])
    BY <2>1 DEF Owns
  <2> QED
    BY <2>2 DEF Held
<1>3. \A b \in Bufs : ~busy[b] => b \in Kept
  <2> SUFFICES ASSUME NEW b \in Bufs, ~busy[b] PROVE b \in Kept
    OBVIOUS
  <2>1. dirty[b]
    BY DEF Recyclable
  <2>2. \A q \in Procs : pc[q] \in InIo => bp[q] # b
    BY DEF IInv, Pointers, Owning, InIo
  <2> QED
    BY <2>1, <2>2 DEF Kept
<1>4. Kept \in SUBSET Bufs /\ Held \cup Kept = Bufs /\ Held \cap Kept \in SUBSET Bufs
  BY <1>1, <1>2, <1>3 DEF Kept
<1>5. /\ IsFiniteSet(Held) /\ Cardinality(Held) \in Nat
      /\ IsFiniteSet(Kept) /\ Cardinality(Kept) \in Nat /\ Cardinality(Held \cap Kept) \in Nat
  BY <1>1, <1>4, BufsFinite
<1>6. Cardinality(Bufs) = Cardinality(Held) + Cardinality(Kept) - Cardinality(Held \cap Kept)
  BY <1>4, <1>5, FS_Union
<1>7. Cardinality(Bufs) = NBUF /\ setup.pinned \in Nat
  BY BufsFinite, BioAssumption DEF IInv, TypeOK
<1>8. NBUF \in Nat
  BY BioAssumption
<1> QED
  BY <1>5, <1>6, <1>7, <1>8, SMT DEF FewKept

\* The panics of bio.c and ide.c: a process that calls iderw has a busy buffer to
\* read or write, and bget finds no buffer to recycle only while the buffers
\* that are held and those the log may pin are as many as there are, for any
\* number of processes, blocks and buffers.
THEOREM NeverPanics == Spec => []NoPanic
<1>1. Init => FewKept
  <2> SUFFICES ASSUME Init PROVE FewKept
    OBVIOUS
  <2>1. Kept = {}
    BY DEF Init, Kept
  <2>2. Cardinality(Kept) = 0
    BY <2>1, FS_EmptySet
  <2>3. setup.pinned \in Nat
    BY BioAssumption DEF Init
  <2> QED
    BY <2>2, <2>3, SMT DEF FewKept
<1>2. IInv /\ FewKept => NoPanic
  <2> SUFFICES ASSUME IInv, FewKept, NEW p \in Procs
               PROVE  /\ pc[p] = "iderw" => busy[bp[p]] /\ (~valid[bp[p]] \/ dirty[bp[p]])
                      /\ OutOfBuffers(p) => Cardinality(Held) + setup.pinned >= NBUF
    BY DEF NoPanic
  <2>1. pc[p] = "iderw" => busy[bp[p]] /\ (~valid[bp[p]] \/ dirty[bp[p]])
    BY DEF IInv, Pointers, Flags, Owning
  <2>2. OutOfBuffers(p) => Cardinality(Held) + setup.pinned >= NBUF
    BY HeldOrKept DEF OutOfBuffers
  <2> QED
    BY <2>1, <2>2
<1> QED
  BY <1>1, <1>2, Invariance, FewKeptStep, PTL DEF Spec
==============================================================================
