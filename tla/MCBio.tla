-------------------------------- MODULE MCBio --------------------------------
EXTENDS Bio, TLC

\* The log pins all buffers but one; the disk fails.
TwoSetups == {[pinned |-> NBUF - 1, errors |-> FALSE], [pinned |-> 0, errors |-> TRUE]}

Symmetry == Permutations(Procs) \cup Permutations(Blocks)

\* Which buffer is at a place of the list does not tell states apart, nor does
\* what nothing reads any more: the data of a buffer that a read will fill, and
\* the disk's copy of a block to be written before its buffer can be recycled.
DataRead(b) == valid[b] \/ setup.errors
DiskRead(k) == \A b \in Cached(k) : ~(valid[b] /\ dirty[b])
At(b) == IF b = 0 THEN 0 ELSE Place(b)
View ==
  <<setup, pc, want, [p \in Procs |-> At(bp[p])], [i \in DOMAIN idequeue |-> At(idequeue[i])],
    [i \in Bufs |-> LET b == lru[i] IN
       <<blockno[b], busy[b], valid[b], dirty[b], IF DataRead(b) THEN data[b] ELSE 0>>],
    [k \in Blocks |-> IF DiskRead(k) THEN disk[k] ELSE 0]>>
=============================================================================
