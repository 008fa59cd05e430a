------------------------------- MODULE MCFiles -------------------------------
EXTENDS Files

\* mkfs makes one file, long enough to have an indirect block.
OneFile == <<3>>

\* Programs that pass descriptors around, programs that write files and
\* remove them, and programs that read what others write.
MCPrograms == {{"open", "dup", "close", "fork", "exit", "pipe"},
               {"open", "close", "fork", "write", "unlink"},
               {"open", "fork", "read", "write"}}

\* Which entry of the table an open file has, which number an i-node, which
\* blocks a file, and what is left in free ones does not tell states apart,
\* nor do fields of an open file that are set before they are read: a file is
\* seen as what it is and who refers to it, an i-node as its files.
\* Whether blocks and words are in their places is part of the view, so that
\* no state that breaks an invariant is taken for another; where they are, what
\* readi finds follows from the size.
Users(f) == {<<p, fd>> \in Procs \X Fds : ofile[p][fd] = f}
Holders(f) ==
  {<<p, "f">> : p \in {q \in Procs : pr[q].f = f}} \cup {<<p, "g">> : p \in {q \in Procs : pr[q].g = f}}
  \cup UNION {{<<p, k>> : k \in {j \in DOMAIN pr[p].closing : pr[p].closing[j] = f}} : p \in Procs}
Seen(e) ==
  CASE e.type = "inode" -> [e EXCEPT !.ip = 0]
    [] e.type = "pipe" -> [e EXCEPT !.ip = 0, !.off = 0]
    [] OTHER -> [NoFile EXCEPT !.ref = e.ref]
FileShape(f) == <<Seen(ft[f]), Users(f), Holders(f)>>
FilesOf(i) == {FileShape(f) : f \in {g \in FileNums : ft[g].ref > 0 /\ ft[g].type = "inode" /\ ft[g].ip = i}}
InodeShape(i) ==
  <<ino[i].nlink, ino[i].ref, ino[i].size, FilesOf(i),
    {p \in Procs : pr[p].ip = i}, {p \in Procs : pr[p].ff.ip = i /\ pr[p].ff.type = "inode"}>>
Shape ==
  <<InodeShape(ROOTINO), {InodeShape(i) : i \in Inums \ {ROOTINO}},
    {FileShape(f) : f \in {g \in FileNums : ft[g].ref > 0 /\ ft[g].type # "inode"}},
    [p \in Procs |-> <<pr[p].pc, pr[p].mode, pr[p].i, pr[p].n, pr[p].ff.type, pr[p].ff.writable>>],
    pipe, panic, data.panic, calls, BlocksExact,
    \A i \in Inums : \A o \in 0..(ino[i].size - 1) : InPlace(i, o)>>
=============================================================================
