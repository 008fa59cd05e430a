-------------------------------- MODULE MCVM --------------------------------
EXTENDS VM

\* Memory enough and the default allocator, with sizes that are not multiples of
\* a page; little memory, and the lazy allocator.
Roomy == [frames |-> 32, npde |-> 3, deltas |-> {-3, 1, 4}, lazy |-> FALSE]
Tight == [frames |-> 13, npde |-> 2, deltas |-> {-5, 4}, lazy |-> TRUE]
TwoMachines == {Roomy, Tight}

\* Memory enough, and the lazy allocator
LazyMachine ==
  {[frames |-> 32, npde |-> 3, deltas |-> {-5, 4}, lazy |-> TRUE]}

\* States that differ only in which frames are used where are explored once.
\* NoSharing and the numbers of frames are part of the view, so that no state
\* that breaks an invariant is taken for one that does not.
Shape ==
  <<mach, [p \in Procs |-> {u \in Places : FrameAt(p, u) # 0}], [p \in Procs |-> pt[p].guard],
    Cardinality(free), cnt, NoSharing, sz, lazy, killed, state, panic>>
=============================================================================
