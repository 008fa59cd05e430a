---------------------------------- MODULE Mkfs ----------------------------------
(***************************************************************************)
(* The file system that mkfs.c makes, in the terms of Inode: the root       *)
(* directory, the files given on the command line, and the bitmap.  mkfs    *)
(* has its own code for all of it; the kernel has to find the result right. *)
(*                                                                          *)
(* m is the state of mkfs: its i-nodes, the data blocks, freeinode and      *)
(* freeblock.  Blocks of the data area are counted from 1; a directory      *)
(* entry is one word, the number of its i-node.                             *)
(***************************************************************************)
EXTENDS Inode

CONSTANTS NInodes,
          Made          \* the lengths of the files on the command line

ROOTINO == 1
Inums == 1..NInodes

ASSUME MkfsAssumption == NInodes \in Nat \ {0} /\ Made \in Seq(Nat) /\ Len(Made) < NInodes

NoInode == [nlink |-> 0, ref |-> 0, size |-> 0, addrs |-> EmptyInode.addrs]
Blank == [ino |-> [i \in Inums |-> NoInode], blk |-> EmptyData.blk, freeinode |-> 1, freeblock |-> 1, ok |-> TRUE]

\* What goes into the files: the word tells the file and its place in it.
Word(i, o) == i * MAXFILE * BSIZE + o + 1

-----------------------------------------------------------------------------
ialloc(m) ==
  [m EXCEPT !.ino[m.freeinode] = [NoInode EXCEPT !.nlink = 1], !.freeinode = @ + 1]

\* The block for the next word of i-node i, taken from freeblock on if need be
DirectBlock(m, i, k) ==
  IF m.ino[i].addrs[k] # 0 THEN m
  ELSE [m EXCEPT !.ino[i].addrs[k] = m.freeblock, !.freeblock = @ + 1]
IndirectBlock(m, i, k) ==
  LET b == m.ino[i].addrs[NDIRECT] IN
  IF m.blk[b][k] # 0 THEN m
  ELSE [m EXCEPT !.blk[b][k] = m.freeblock, !.freeblock = @ + 1]

\* iappend, a word at a time
Put(m, i, x) ==
  LET off == m.ino[i].size
      fbn == off \div BSIZE
      a == IF fbn < NDIRECT THEN DirectBlock(m, i, fbn)
           ELSE IndirectBlock(DirectBlock(m, i, NDIRECT), i, fbn - NDIRECT)
      b == IF fbn < NDIRECT THEN a.ino[i].addrs[fbn] ELSE a.blk[a.ino[i].addrs[NDIRECT]][fbn - NDIRECT]
  IN IF fbn >= MAXFILE THEN [m EXCEPT !.ok = FALSE]
     ELSE [a EXCEPT !.blk[b][off % BSIZE] = x, !.ino[i].size = off + 1]
iappend(m, i, words) == FoldLeft(LAMBDA t, x : Put(t, i, x), m, words)

\* balloc(freeblock)
UsedBlocks(m) == 1..(m.freeblock - 1)

\* main: the root with "." and "..", each file with its entry, and the size of
\* the root rounded up, to one block more when it is full.
Root == iappend(ialloc(Blank), ROOTINO, <<ROOTINO, ROOTINO>>)
AddFile(m, len) ==
  LET i == m.freeinode IN
  iappend(iappend(ialloc(m), ROOTINO, <<i>>), i, [o \in 1..len |-> Word(i, o - 1)])
FixRoot(m) == [m EXCEPT !.ino[ROOTINO].size = ((@ \div BSIZE) + 1) * BSIZE]
Image == FixRoot(FoldLeft(AddFile, Root, Made))

\* The entries of the root
Entry(o) == IF o < 2 THEN ROOTINO ELSE IF o < Len(Made) + 2 THEN o ELSE 0
=============================================================================
