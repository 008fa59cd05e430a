--------------------------------- MODULE Bio ---------------------------------
(***************************************************************************)
(* The buffer cache (bio.c) and the IDE driver below it (ide.c).            *)
(*                                                                          *)
(* A buffer's flags, block number and data are functions of the buffer; a   *)
(* block's contents are one value.  Each step is one critical section of    *)
(* bcache.lock or idelock.  A member of Procs holds one buffer at a time: a *)
(* caller that holds two (write_log, install_trans, bmap around balloc) is  *)
(* two of them.                                                             *)
(***************************************************************************)
EXTENDS Integers, Sequences, FiniteSets, Functions

CONSTANTS Procs, Blocks, Vals,
          NBUF,
          Setups,       \* see setup
          NoBlock, NoProc

Bufs == 1..NBUF

ASSUME BioAssumption ==
  /\ NBUF \in Nat /\ (\A s \in Setups : s.pinned \in Nat /\ s.errors \in BOOLEAN)
  /\ 0 \in Vals /\ NoBlock \notin Blocks /\ NoProc \notin Procs

VARIABLES setup,      \* errors: may a read fail?  pinned: buffers log_write may have
                      \* pinned at once (the log's size)
          blockno, busy, valid, dirty, data,   \* struct buf
          lru,        \* bcache's list from head.next on: most recently used first
          idequeue,   \* waiting for the disk; the first is the active request
          disk,
          pc,         \* where each process is
          want,       \* the block it asked bread for
          bp          \* the buffer it has or sleeps on

bufVars == <<blockno, busy, valid, dirty, data>>
vars == <<setup, bufVars, lru, idequeue, disk, pc, want, bp>>

\* binit: the last buffer linked is first in the list; no buffer has a block.
Init ==
  /\ setup \in Setups
  /\ blockno = [b \in Bufs |-> NoBlock]
  /\ busy = [b \in Bufs |-> FALSE]
  /\ valid = [b \in Bufs |-> FALSE]
  /\ dirty = [b \in Bufs |-> FALSE]
  /\ data = [b \in Bufs |-> 0]
  /\ lru = [i \in Bufs |-> NBUF + 1 - i]
  /\ idequeue = <<>>
  /\ disk \in [Blocks -> Vals]
  /\ pc = [p \in Procs |-> "idle"]
  /\ want = [p \in Procs |-> NoBlock]
  /\ bp = [p \in Procs |-> 0]

-----------------------------------------------------------------------------
(* Seeded faults: variants of definitions below that the properties reject. *)

\* bget: the flags of the recycled buffer stay.
RecycledValid_Kept(b) == valid

\* brelse: nobody is woken.
ReleaseWakeup_None(b) == pc

\* bget: only a buffer without any flag is recycled.
Recyclable_NoFlags(b) == ~busy[b] /\ ~dirty[b] /\ ~valid[b]

-----------------------------------------------------------------------------
Cached(k) == {b \in Bufs : blockno[b] = k}

\* wakeup(b): the sleepers in bget look again; the one in iderw tests the flags
\* again, and returns if the buffer is valid and clean.
WakeupIn(b, v, d) ==
  [p \in Procs |->
     IF bp[p] # b THEN pc[p]
     ELSE IF pc[p] = "wait" THEN "bget"
     ELSE IF pc[p] = "io" /\ v[b] /\ ~d[b] THEN "hold" ELSE pc[p]]

Bread(p, k) ==
  /\ pc[p] = "idle"
  /\ pc' = [pc EXCEPT ![p] = "bget"]
  /\ want' = [want EXCEPT ![p] = k]
  /\ UNCHANGED <<bufVars, lru, idequeue, disk, bp>>

\* bget, when a buffer has the block: take it, or sleep on it.  bread goes on
\* to the disk if the buffer is not valid.
BgetCached(p) ==
  /\ pc[p] = "bget"
  /\ \E b \in Cached(want[p]) :
       /\ bp' = [bp EXCEPT ![p] = b]
       /\ \/ /\ ~busy[b]
             /\ busy' = [busy EXCEPT ![b] = TRUE]
             /\ pc' = [pc EXCEPT ![p] = IF valid[b] THEN "hold" ELSE "iderw"]
          \/ /\ busy[b]
             /\ pc' = [pc EXCEPT ![p] = "wait"]
             /\ UNCHANGED busy
  /\ UNCHANGED <<blockno, valid, dirty, data, lru, idequeue, disk, want>>

Recyclable(b) == ~busy[b] /\ ~dirty[b]
RecycledValid(b) == [valid EXCEPT ![b] = FALSE]

\* bget, when none has: recycle the least recently used buffer that is clean
\* and not busy.
BgetRecycle(p) ==
  /\ pc[p] = "bget" /\ Cached(want[p]) = {}
  /\ \E i \in Bufs :
       /\ Recyclable(lru[i]) /\ \A j \in (i + 1)..NBUF : ~Recyclable(lru[j])
       /\ blockno' = [blockno EXCEPT ![lru[i]] = want[p]]
       /\ busy' = [busy EXCEPT ![lru[i]] = TRUE]
       /\ valid' = RecycledValid(lru[i])
       /\ dirty' = [dirty EXCEPT ![lru[i]] = FALSE]
       /\ bp' = [bp EXCEPT ![p] = lru[i]]
       /\ pc' = [pc EXCEPT ![p] = IF valid'[lru[i]] THEN "hold" ELSE "iderw"]
  /\ UNCHANGED <<data, lru, idequeue, disk, want>>

\* bget, when there is none to recycle either: panic("bget: no buffers").  The
\* machine stops, unless another CPU is ahead of it.
OutOfBuffers(p) ==
  pc[p] = "bget" /\ Cached(want[p]) = {} /\ \A b \in Bufs : ~Recyclable(b)
BgetPanic(p) ==
  /\ OutOfBuffers(p)
  /\ UNCHANGED <<bufVars, lru, idequeue, disk, pc, want, bp>>

\* iderw: append to the queue (the disk is started if it was idle), sleep.
Iderw(p) ==
  /\ pc[p] = "iderw"
  /\ idequeue' = Append(idequeue, bp[p])
  /\ pc' = [pc EXCEPT ![p] = "io"]
  /\ UNCHANGED <<bufVars, lru, disk, want, bp>>

\* The disk finishes the active request and interrupts; ideintr takes the
\* data of a read, unless the disk reports an error, and starts the next.
IntrDirty(b) == [dirty EXCEPT ![b] = FALSE]
Ideintr ==
  /\ idequeue # <<>>
  /\ LET b == Head(idequeue) IN
       /\ \/ dirty[b] /\ disk' = [disk EXCEPT ![blockno[b]] = data[b]] /\ UNCHANGED data
          \/ ~dirty[b] /\ data' = [data EXCEPT ![b] = disk[blockno[b]]] /\ UNCHANGED disk
          \/ ~dirty[b] /\ setup.errors /\ UNCHANGED <<data, disk>>
       /\ valid' = [valid EXCEPT ![b] = TRUE]
       /\ dirty' = IntrDirty(b)
       /\ pc' = WakeupIn(b, valid', dirty')
  /\ idequeue' = Tail(idequeue)
  /\ UNCHANGED <<blockno, busy, lru, want, bp>>

\* The holder changes the data and calls log_write, which pins the buffer.
LogWrite(p, v) ==
  /\ pc[p] = "hold"
  /\ Cardinality({b \in Bufs : dirty[b]} \cup {bp[p]}) <= setup.pinned
  /\ data' = [data EXCEPT ![bp[p]] = v]
  /\ dirty' = [dirty EXCEPT ![bp[p]] = TRUE]
  /\ UNCHANGED <<blockno, busy, valid, lru, idequeue, disk, pc, want, bp>>

\* The holder changes the data and calls bwrite.
Bwrite(p, v) ==
  /\ pc[p] = "hold"
  /\ data' = [data EXCEPT ![bp[p]] = v]
  /\ dirty' = [dirty EXCEPT ![bp[p]] = TRUE]
  /\ pc' = [pc EXCEPT ![p] = "iderw"]
  /\ UNCHANGED <<blockno, busy, valid, lru, idequeue, disk, want, bp>>

\* brelse: the list with b moved from its place to the head
Place(b) == CHOOSE i \in Bufs : lru[i] = b
ToFront(b) ==
  [i \in Bufs |-> IF i = 1 THEN b ELSE IF i <= Place(b) THEN lru[i - 1] ELSE lru[i]]
Released(b) == [busy EXCEPT ![b] = FALSE]
ReleaseWakeup(b) == WakeupIn(b, valid, dirty)
Brelse(p) ==
  /\ pc[p] = "hold"
  /\ lru' = ToFront(bp[p])
  /\ busy' = Released(bp[p])
  /\ pc' = [ReleaseWakeup(bp[p]) EXCEPT ![p] = "idle"]
  /\ want' = [want EXCEPT ![p] = NoBlock]
  /\ bp' = [bp EXCEPT ![p] = 0]
  /\ UNCHANGED <<blockno, valid, dirty, data, idequeue, disk>>

Step ==
  \/ Ideintr
  \/ \E p \in Procs :
       \/ BgetCached(p) \/ BgetRecycle(p) \/ BgetPanic(p) \/ Iderw(p) \/ Brelse(p)
       \/ \E k \in Blocks : Bread(p, k)
       \/ \E v \in Vals : LogWrite(p, v) \/ Bwrite(p, v)

Next == Step /\ UNCHANGED setup

Spec == Init /\ [][Next]_vars

-----------------------------------------------------------------------------
(* Properties *)

\* The holder of a buffer, the process waiting for its request included.
Owns(p, b) == bp[p] = b /\ pc[p] \in {"hold", "iderw", "io"}

\* bget never gives one block two buffers, B_BUSY has exactly one owner, every
\* request in the queue is an owner's, queued once, a sleeper in bget waits for
\* an owner (brelse wakes them all), and brelse loses no buffer from the list.
OneBufferOneOwner ==
  /\ lru \in Surjection(Bufs, Bufs)
  /\ \A k \in Blocks : Cardinality(Cached(k)) <= 1
  /\ \A b \in Bufs : Cardinality({p \in Procs : Owns(p, b)}) = (IF busy[b] THEN 1 ELSE 0)
  /\ \A b \in Bufs :
       Cardinality({i \in 1..Len(idequeue) : idequeue[i] = b})
         = Cardinality({p \in Procs : pc[p] = "io" /\ bp[p] = b})
  /\ \A p \in Procs : pc[p] = "wait" => busy[bp[p]]

\* The cache and the disk queue implement blocks with exclusive owners: bread
\* returns what was last written to the block, in this buffer or another.
Contents(k) == LET B == {b \in Cached(k) : valid[b]}
               IN  IF B = {} THEN disk[k] ELSE data[CHOOSE b \in B : TRUE]
Owner(k) == LET P == {p \in Procs : want[p] = k /\ Owns(p, bp[p]) /\ valid[bp[p]]}
            IN  IF P = {} THEN NoProc ELSE CHOOSE p \in P : TRUE
Store == INSTANCE BlockStore WITH
           content <- [k \in Blocks |-> Contents(k)],
           owner <- [k \in Blocks |-> Owner(k)],
           errors <- setup.errors
StoreSpec == Store!Spec

\* iderw is never called without something to do ("iderw: nothing to do").
\* bget runs out of buffers ("bget: no buffers") only while the buffers that are
\* held and those the log may keep pinned make up the whole cache: brelse and
\* the disk give back every other.  (param.h's NBUF = LOGSIZE does not exclude
\* that; a cache with a buffer more than the log and all callers hold does.)
Held == {bp[p] : p \in {q \in Procs : Owns(q, bp[q])}}
NoPanic ==
  \A p \in Procs :
    /\ pc[p] = "iderw" => busy[bp[p]] /\ (~valid[bp[p]] \/ dirty[bp[p]])
    /\ OutOfBuffers(p) => Cardinality(Held) + setup.pinned >= NBUF

=============================================================================
