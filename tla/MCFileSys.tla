------------------------------ MODULE MCFileSys ------------------------------
EXTENDS FileSys, TLC

Abs(el) == [abs |-> TRUE, el |-> el]
Rel(el) == [abs |-> FALSE, el |-> el]
Call(op, path) == [op |-> op, path |-> path]

\* A directory and a file in it.
TreeCalls ==
  {Call("mkdir", Abs(<<"a">>)), Call("unlink", Abs(<<"a">>)),
   Call("creat", Rel(<<"a", "b">>)), Call("unlink", Abs(<<"a", "b">>)),
   Call("unlink", Rel(<<"..">>)),
   Call("chdir", Abs(<<"a">>)), [op |-> "close"],
   [op |-> "open", path |-> Rel(<<"a">>), write |-> TRUE]}

\* A file and its names, one of them a path through the file itself.
LinkCalls ==
  {Call("creat", Abs(<<"a">>)), Call("unlink", Abs(<<"a">>)), [op |-> "close"],
   [op |-> "link", path |-> Rel(<<"a">>), new |-> Rel(<<"b">>)],
   [op |-> "link", path |-> Rel(<<"a">>), new |-> Rel(<<"a", "b">>)]}

\* A directory in a directory, and the way back through "..".
DotCalls ==
  {Call("mkdir", Abs(<<"a">>)), Call("mkdir", Abs(<<"a", "b">>)),
   Call("unlink", Abs(<<"a">>)), Call("unlink", Abs(<<"a", "b">>)),
   Call("chdir", Abs(<<"a", "b">>)), Call("chdir", Rel(<<"..">>)),
   [op |-> "link", path |-> Abs(<<"a">>), new |-> Rel(<<"b">>)]}

Scenes == <<TreeCalls, LinkCalls, DotCalls>>

\* States that differ only in which cache entry holds which i-node, or in
\* fields of entries that are overwritten before they are read, are explored
\* once.  Whether CacheCoherent holds is part of the view.
InumAt(s) == IF s = 0 THEN 0 ELSE ic[s].inum
Live ==
  <<disk, ents, scene, panic, CacheCoherent,
    [p \in Procs |-> [f \in DOMAIN pr[p] |-> IF f \in Pointers THEN InumAt(pr[p][f]) ELSE pr[p][f]]],
    [p \in Procs |-> InumAt(chan[p])],
    [i \in Inums |-> {IF ic[s].valid THEN ic[s] ELSE [ref |-> ic[s].ref, busy |-> ic[s].busy] : s \in Cached(ic, i)}]>>

Symmetry == Permutations(Procs)
=============================================================================
