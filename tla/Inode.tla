--------------------------------- MODULE Inode ---------------------------------
(***************************************************************************)
(* The contents of files in fs.c: the bitmap of blocks, direct blocks and   *)
(* the indirect block of an i-node, reading, writing and truncating.        *)
(*                                                                          *)
(* The unit of data is a word, as long as a block number: an indirect block *)
(* holds BSIZE of them.  d stands for the data area of the disk, n for an   *)
(* i-node; an operator that changes both returns them in one record.        *)
(***************************************************************************)
EXTENDS Integers, FiniteSets, SequencesExt

CONSTANTS BSIZE, NDIRECT, NBLOCKS

Blocks == 1..NBLOCKS
NINDIRECT == BSIZE
MAXFILE == NDIRECT + NINDIRECT

ASSUME InodeAssumption == BSIZE \in Nat \ {0} /\ NDIRECT \in Nat /\ NBLOCKS \in Nat

Zeroes == [o \in 0..(BSIZE - 1) |-> 0]
EmptyInode == [size |-> 0, addrs |-> [b \in 0..NDIRECT |-> 0]]
EmptyData == [used |-> {}, blk |-> [b \in Blocks |-> Zeroes], panic |-> "none"]

-----------------------------------------------------------------------------
(* Seeded faults: variants of definitions below that Files' properties reject. *)

\* bmap: the indirect block is entered one place too far.
IndirectIndex_Next(bn) == (bn - NDIRECT + 1) % NINDIRECT

\* itrunc: the blocks the indirect block names are not freed.
FreedBlocks_Direct(d, n) == {n.addrs[i] : i \in 0..NDIRECT} \ {0}
-----------------------------------------------------------------------------

\* bzero
Cleared(blk, b) == [blk EXCEPT ![b] = Zeroes]

\* balloc takes the first free block; there may be none.
Free(d) == Blocks \ d.used
Balloc(d) ==
  IF Free(d) = {} THEN [d EXCEPT !.panic = "balloc"]
  ELSE [d EXCEPT !.used = @ \cup {Min(Free(d))}, !.blk = Cleared(@, Min(Free(d)))]
Ballocated(d) == IF Free(d) = {} THEN 0 ELSE Min(Free(d))

\* bfree of every block of S
Bfree(d, S) ==
  IF S \subseteq d.used THEN [d EXCEPT !.used = @ \ S] ELSE [d EXCEPT !.panic = "bfree"]

\* bmap: the block of the bn-th block of the file, allocated if need be.
IndirectIndex(bn) == bn - NDIRECT
Direct(d, n, k) ==
  IF n.addrs[k] # 0 THEN [d |-> d, n |-> n, addr |-> n.addrs[k]]
  ELSE [d |-> Balloc(d), n |-> [n EXCEPT !.addrs[k] = Ballocated(d)], addr |-> Ballocated(d)]
Indirect(m, k) ==
  IF m.addr = 0 \/ m.d.blk[m.addr][k] # 0
  THEN [m EXCEPT !.addr = IF m.addr = 0 THEN 0 ELSE m.d.blk[m.addr][k]]
  ELSE LET b == Ballocated(m.d) IN
       [m EXCEPT !.d = [Balloc(m.d) EXCEPT !.blk[m.addr][k] = b], !.addr = b]
Bmap(d, n, bn) ==
  IF bn < NDIRECT THEN Direct(d, n, bn)
  ELSE Indirect(Direct(d, n, NDIRECT), IndirectIndex(bn))

\* itrunc
FreedBlocks(d, n) ==
  ({n.addrs[i] : i \in 0..NDIRECT}
     \cup (IF n.addrs[NDIRECT] = 0 THEN {}
           ELSE {d.blk[n.addrs[NDIRECT]][j] : j \in 0..(NINDIRECT - 1)})) \ {0}
Itrunc(d, n) == [d |-> Bfree(d, FreedBlocks(d, n)), n |-> EmptyInode]

\* readi: how much is read, and the words.  (cnt is a natural number far below
\* 2^32: off + cnt does not wrap, and the test off + n < off of readi and writei
\* never holds.)
Readable(n, off, cnt) ==
  IF off > n.size THEN -1 ELSE IF off + cnt > n.size THEN n.size - off ELSE cnt
Readi(d, n, off, cnt) ==
  [k \in 1..Readable(n, off, cnt) |->
     d.blk[Bmap(d, n, (off + k - 1) \div BSIZE).addr][(off + k - 1) % BSIZE]]

\* writei: whether it writes, and what it leaves: word[o] goes to offset o.
Writable(n, off, cnt) == off <= n.size /\ off + cnt <= MAXFILE * BSIZE
Writei(d, n, off, cnt, word) ==
  LET put(m, o) ==
        LET b == Bmap(m.d, m.n, o \div BSIZE) IN
        IF b.addr = 0 THEN [d |-> b.d, n |-> b.n]
        ELSE [d |-> [b.d EXCEPT !.blk[b.addr][o % BSIZE] = word[o]], n |-> b.n]
      all == FoldLeft(put, [d |-> d, n |-> n], [k \in 1..cnt |-> off + k - 1])
  IN  IF cnt > 0 /\ off + cnt > n.size THEN [all EXCEPT !.n.size = off + cnt] ELSE all
=============================================================================
