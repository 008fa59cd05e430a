--------------------------------- MODULE Files ---------------------------------
(***************************************************************************)
(* File descriptors: the table of open files of file.c, the system calls of *)
(* sysfile.c on descriptors, the descriptors' side of pipealloc, fork and   *)
(* exit, and the contents of files below them (Inode), on the disk that     *)
(* mkfs has made (Mkfs).                                                    *)
(*                                                                          *)
(* Path names are the business of FileSys: here open is given an i-node,    *)
(* and Unlink is what sys_unlink does to it.  A step is one critical        *)
(* section of ftable.lock, or one hold of an i-node's lock.                 *)
(***************************************************************************)
EXTENDS Mkfs

CONSTANTS Procs,
          FirstProc,    \* the process that runs at the beginning
          NFILE, NOFILE,
          Counts,       \* arguments of read and write
          Modes,        \* modes of open
          MAXWRITE,     \* words filewrite puts into one transaction
          Programs      \* sets of system calls; the programs of a run use one of them

FileNums == 1..NFILE
Fds == 0..(NOFILE - 1)
AllCalls == {"open", "dup", "close", "fork", "exit", "pipe", "read", "write", "unlink"}

ASSUME FilesAssumption ==
  /\ FirstProc \in Procs /\ NFILE \in Nat /\ NOFILE \in Nat
  /\ Counts \subseteq Nat /\ Modes \subseteq {"r", "w", "rw"} /\ MAXWRITE \in Nat \ {0} /\ Programs \subseteq SUBSET AllCalls

VARIABLES ft,       \* ftable.file
          ofile,    \* descriptors of each process, 0 where there is none
          pr,       \* what each process is doing
          ino,      \* i-nodes: links, references, size, addrs
          data,     \* the data area of the disk
          pipe,     \* the pipe, of which there is at most one at a time
          panic,
          calls     \* the system calls that are made in this run

vars == <<ft, ofile, pr, ino, data, pipe, panic, calls>>

NoFile == [type |-> "none", ref |-> 0, readable |-> FALSE, writable |-> FALSE, ip |-> 0, off |-> 0]
NoPipe == [alloc |-> FALSE, readopen |-> FALSE, writeopen |-> FALSE]
NoFds == [fd \in Fds |-> 0]

\* f and g: files allocated and not yet in a descriptor; closing: the files
\* still to be given to fileclose; ff: fileclose's copy of the file it closes.
Idle == [pc |-> "idle", f |-> 0, g |-> 0, ip |-> 0, mode |-> "rw", i |-> 0, n |-> 0,
         closing |-> <<>>, ff |-> NoFile]

-----------------------------------------------------------------------------
(* Seeded faults: variants of definitions below that the properties reject. *)

\* fileclose: the file is closed for good while others use it.
LastClose_Any(e) == TRUE

\* sys_pipe: the first descriptor stays when there is no second.
FirstFdBack_Kept(o, f) ==
  LET free == {fd \in Fds : o[fd] = 0} IN IF free = {} THEN o ELSE [o EXCEPT ![Min(free)] = f]

-----------------------------------------------------------------------------
Init ==
  /\ ft = [f \in FileNums |-> NoFile]
  /\ ofile = [p \in Procs |-> NoFds]
  /\ pr = [p \in Procs |-> IF p = FirstProc THEN Idle ELSE [Idle EXCEPT !.pc = "unused"]]
  /\ ino = Image.ino
  /\ data = [used |-> UsedBlocks(Image), blk |-> Image.blk, panic |-> IF Image.ok THEN "none" ELSE "mkfs"]
  /\ pipe = NoPipe
  /\ panic = "none"
  /\ calls \in Programs

At(p, l) == panic = "none" /\ data.panic = "none" /\ pr[p].pc = l
May(p, call) == At(p, "idle") /\ call \in calls

\* filealloc
FreeFiles == {f \in FileNums : ft[f].ref = 0}
Filealloc == Min(FreeFiles)

\* filedup of every file of the sequence of files s
Refs(s, f) == Cardinality({k \in DOMAIN s : s[k] = f})
Filedup(t, s) == [f \in FileNums |-> [t[f] EXCEPT !.ref = @ + Refs(s, f)]]
FiledupPanic(s) == IF \E k \in DOMAIN s : s[k] # 0 /\ ft[s[k]].ref < 1 THEN "filedup" ELSE "none"

\* fdalloc: the lowest free descriptor
FreeFds(o) == {fd \in Fds : o[fd] = 0}
Fdalloc(o, f) == [o EXCEPT ![Min(FreeFds(o))] = f]

-----------------------------------------------------------------------------
(* fileclose *)

\* What a process does when it has no more files to close.
Closed(r) ==
  IF r.closing # <<>> \/ r.ff # NoFile THEN r
  ELSE CASE r.pc = "exit" -> [Idle EXCEPT !.pc = "unused"]
         [] r.pc = "openfail" -> r
         [] OTHER -> Idle

LastClose(e) == e.ref = 1

\* Under ftable.lock: the reference goes; the last one leaves a copy.
FilecloseRef(p) ==
  LET r == pr[p]  f == Head(r.closing)  e == ft[f] IN
  /\ panic = "none" /\ data.panic = "none"
  /\ r.closing # <<>> /\ r.ff = NoFile
  /\ panic' = IF e.ref < 1 THEN "fileclose" ELSE "none"
  /\ ft' = [ft EXCEPT ![f].ref = @ - 1, ![f].type = IF LastClose(e) THEN "none" ELSE @]
  /\ pr' = [pr EXCEPT ![p] = Closed([r EXCEPT !.closing = Tail(@),
              !.ff = IF LastClose(e) /\ e.type # "none" THEN [e EXCEPT !.ref = 0] ELSE NoFile])]
  /\ UNCHANGED <<ofile, ino, data, pipe>>

\* pipeclose of one end
PipeClosed(writable) ==
  LET q == IF writable THEN [pipe EXCEPT !.writeopen = FALSE]
           ELSE [pipe EXCEPT !.readopen = FALSE]
  IN  IF ~q.readopen /\ ~q.writeopen THEN NoPipe ELSE q

\* iput of i-node i: the last reference to one without links truncates it.
Iput(i) ==
  LET e == ino[i]  t == Itrunc(data, e) IN
  IF e.ref = 1 /\ e.nlink = 0
  THEN /\ data' = t.d
       /\ ino' = [ino EXCEPT ![i] = [nlink |-> 0, ref |-> 0, size |-> 0, addrs |-> t.n.addrs]]
  ELSE /\ ino' = [ino EXCEPT ![i].ref = @ - 1]
       /\ data' = data

\* After releasing the lock: the copy's pipe end or i-node is let go.
FilecloseEnd(p) ==
  LET r == pr[p] IN
  /\ panic = "none" /\ data.panic = "none"
  /\ r.ff # NoFile
  /\ \/ /\ r.ff.type = "pipe"
        /\ pipe' = PipeClosed(r.ff.writable)
        /\ UNCHANGED <<ino, data>>
     \/ /\ r.ff.type = "inode"
        /\ Iput(r.ff.ip)
        /\ UNCHANGED pipe
  /\ pr' = [pr EXCEPT ![p] = Closed([r EXCEPT !.ff = NoFile])]
  /\ UNCHANGED <<ft, ofile, panic>>

\* sys_close
Close(p) ==
  /\ May(p, "close")
  /\ \E fd \in Fds :
       /\ ofile[p][fd] # 0
       /\ ofile' = [ofile EXCEPT ![p][fd] = 0]
       /\ pr' = [pr EXCEPT ![p].pc = "close", ![p].closing = <<ofile[p][fd]>>]
  /\ UNCHANGED <<ft, ino, data, pipe, panic>>

\* exit closes every descriptor.
OpenFiles(o) == SelectSeq([k \in 1..NOFILE |-> o[k - 1]], LAMBDA f : f # 0)
Exit(p) ==
  /\ May(p, "exit")
  /\ p # FirstProc
  /\ ofile' = [ofile EXCEPT ![p] = NoFds]
  /\ pr' = [pr EXCEPT ![p] = IF OpenFiles(ofile[p]) = <<>> THEN [Idle EXCEPT !.pc = "unused"]
                             ELSE [Idle EXCEPT !.pc = "exit", !.closing = OpenFiles(ofile[p])]]
  /\ UNCHANGED <<ft, ino, data, pipe, panic>>

\* fork: the child gets the descriptors.
Fork(p) ==
  /\ May(p, "fork")
  /\ \E q \in Procs :
       /\ pr[q].pc = "unused"
       /\ ofile' = [ofile EXCEPT ![q] = ofile[p]]
       /\ pr' = [pr EXCEPT ![q] = Idle]
  /\ ft' = Filedup(ft, OpenFiles(ofile[p]))
  /\ panic' = FiledupPanic(OpenFiles(ofile[p]))
  /\ UNCHANGED <<ino, data, pipe>>

\* sys_dup
Dup(p) ==
  /\ May(p, "dup")
  /\ FreeFds(ofile[p]) # {}
  /\ \E f \in Range(ofile[p]) \ {0} :
       /\ ofile' = [ofile EXCEPT ![p] = Fdalloc(@, f)]
       /\ ft' = Filedup(ft, <<f>>)
       /\ panic' = FiledupPanic(<<f>>)
  /\ UNCHANGED <<pr, ino, data, pipe>>

-----------------------------------------------------------------------------
(* sys_open, from where it has found or created an i-node *)

Open(p) ==
  /\ May(p, "open")
  /\ \E i \in Inums, mode \in Modes :
       /\ i = ROOTINO => mode = "r"
       /\ ino[i].nlink = 0 => ino[i].ref = 0
       /\ \/ /\ FreeFiles = {}
             /\ ino' = [ino EXCEPT ![i].nlink = 1]
             /\ UNCHANGED <<ft, pr>>
          \/ /\ FreeFiles # {}
             /\ ino' = [ino EXCEPT ![i].nlink = 1, ![i].ref = @ + 1]
             /\ ft' = [ft EXCEPT ![Filealloc].ref = 1]
             /\ pr' = [pr EXCEPT ![p].pc = "open", ![p].f = Filealloc, ![p].ip = i, ![p].mode = mode]
  /\ UNCHANGED <<ofile, data, pipe, panic>>

\* No descriptor: fileclose, and then iput of the i-node.
OpenNoFd(p) ==
  LET r == pr[p] IN
  /\ At(p, "open")
  /\ FreeFds(ofile[p]) = {}
  /\ pr' = [pr EXCEPT ![p] = [Idle EXCEPT !.pc = "openfail", !.ip = r.ip, !.closing = <<r.f>>]]
  /\ UNCHANGED <<ft, ofile, ino, data, pipe, panic>>
OpenFail(p) ==
  /\ At(p, "openfail")
  /\ pr[p].closing = <<>> /\ pr[p].ff = NoFile
  /\ Iput(pr[p].ip)
  /\ pr' = [pr EXCEPT ![p] = Idle]
  /\ UNCHANGED <<ft, ofile, pipe, panic>>

Opened(e, i, mode) == [e EXCEPT !.type = "inode", !.ip = i, !.off = 0,
                                !.readable = mode # "w", !.writable = mode # "r"]
OpenDone(p) ==
  LET r == pr[p] IN
  /\ At(p, "open")
  /\ FreeFds(ofile[p]) # {}
  /\ ofile' = [ofile EXCEPT ![p] = Fdalloc(@, r.f)]
  /\ ft' = [ft EXCEPT ![r.f] = Opened(@, r.ip, r.mode)]
  /\ pr' = [pr EXCEPT ![p] = Idle]
  /\ UNCHANGED <<ino, data, pipe, panic>>

\* sys_unlink of the only name of an i-node, by whichever process
Unlink(p) ==
  /\ May(p, "unlink")
  /\ \E i \in Inums \ {ROOTINO} :
       /\ ino[i].nlink = 1
       /\ LET t == Itrunc(data, ino[i]) IN
          IF ino[i].ref = 0
          THEN /\ data' = t.d
               /\ ino' = [ino EXCEPT ![i] = [nlink |-> 0, ref |-> 0, size |-> 0, addrs |-> t.n.addrs]]
          ELSE /\ ino' = [ino EXCEPT ![i].nlink = 0]
               /\ data' = data
  /\ UNCHANGED <<ft, ofile, pr, pipe, panic>>

-----------------------------------------------------------------------------
(* sys_pipe and pipealloc *)

\* filealloc of the first file; without one sys_pipe returns -1.
Pipe(p) ==
  /\ May(p, "pipe")
  /\ FreeFiles # {}
  /\ ft' = [ft EXCEPT ![Filealloc].ref = 1]
  /\ pr' = [pr EXCEPT ![p].pc = "pipealloc", ![p].f = Filealloc]
  /\ UNCHANGED <<ofile, ino, data, pipe, panic>>

\* What pipealloc and sys_pipe close when they fail.
Rollback(fs) == [Idle EXCEPT !.pc = "close", !.closing = fs]

PipeFile(p) ==
  LET r == pr[p] IN
  /\ At(p, "pipealloc")
  /\ \/ /\ FreeFiles = {}
        /\ pr' = [pr EXCEPT ![p] = Rollback(<<r.f>>)]
        /\ ft' = ft
     \/ /\ FreeFiles # {}
        /\ ft' = [ft EXCEPT ![Filealloc].ref = 1]
        /\ pr' = [pr EXCEPT ![p].pc = "kalloc", ![p].g = Filealloc]
  /\ UNCHANGED <<ofile, ino, data, pipe, panic>>

\* kalloc; here there is memory for one pipe.
PipeEnd(e, writable) == [e EXCEPT !.type = "pipe", !.readable = ~writable, !.writable = writable]
PipeMemory(p) ==
  LET r == pr[p] IN
  /\ At(p, "kalloc")
  /\ \/ /\ pipe.alloc
        /\ pr' = [pr EXCEPT ![p] = Rollback(<<r.f, r.g>>)]
        /\ UNCHANGED <<ft, pipe>>
     \/ /\ ~pipe.alloc
        /\ pipe' = [alloc |-> TRUE, readopen |-> TRUE, writeopen |-> TRUE]
        /\ ft' = [ft EXCEPT ![r.f] = PipeEnd(@, FALSE), ![r.g] = PipeEnd(@, TRUE)]
        /\ pr' = [pr EXCEPT ![p].pc = "fds"]
  /\ UNCHANGED <<ofile, ino, data, panic>>

\* fdalloc of both; the first descriptor is taken back if there is no second.
FirstFdBack(o, f) == o
PipeFds(p) ==
  LET r == pr[p]  o == ofile[p]  one == Fdalloc(o, r.f) IN
  /\ At(p, "fds")
  /\ \/ /\ Cardinality(FreeFds(o)) >= 2
        /\ ofile' = [ofile EXCEPT ![p] = Fdalloc(one, r.g)]
        /\ pr' = [pr EXCEPT ![p] = Idle]
     \/ /\ Cardinality(FreeFds(o)) < 2
        /\ ofile' = [ofile EXCEPT ![p] = FirstFdBack(o, r.f)]
        /\ pr' = [pr EXCEPT ![p] = Rollback(<<r.f, r.g>>)]
  /\ UNCHANGED <<ft, ino, data, pipe, panic>>

-----------------------------------------------------------------------------
(* fileread and filewrite of i-nodes; pipes are in module Pipe. *)

Max0(r) == IF r > 0 THEN r ELSE 0

Read(p) ==
  /\ May(p, "read")
  /\ \E fd \in Fds, cnt \in Counts :
       LET f == ofile[p][fd]  e == ft[f] IN
       /\ f # 0 /\ e.readable /\ e.type # "pipe"
       /\ ft' = [ft EXCEPT ![f].off = @ + Max0(Readable(ino[e.ip], e.off, cnt))]
       /\ panic' = IF e.type = "none" THEN "fileread" ELSE "none"
  /\ UNCHANGED <<ofile, pr, ino, data, pipe>>

Write(p) ==
  /\ May(p, "write")
  /\ \E fd \in Fds, cnt \in Counts :
       LET f == ofile[p][fd] IN
       /\ f # 0 /\ ft[f].writable /\ ft[f].type # "pipe"
       /\ panic' = IF ft[f].type = "none" THEN "filewrite" ELSE "none"
       /\ pr' = [pr EXCEPT ![p].pc = "write", ![p].f = f, ![p].i = 0, ![p].n = cnt]
  /\ UNCHANGED <<ft, ofile, ino, data, pipe>>

\* One round of filewrite's loop, under the lock of the i-node.
Advance(off, r) == off + r
WriteChunk(p) ==
  LET r == pr[p]  e == ft[r.f]  n1 == IF r.n - r.i > MAXWRITE THEN MAXWRITE ELSE r.n - r.i
      word == [o \in 0..(MAXFILE * BSIZE - 1) |-> Word(e.ip, o)]
      w == Writei(data, [size |-> ino[e.ip].size, addrs |-> ino[e.ip].addrs], e.off, n1, word)
  IN
  /\ At(p, "write")
  /\ \/ /\ ~Writable(ino[e.ip], e.off, n1)
        /\ pr' = [pr EXCEPT ![p] = Idle]
        /\ UNCHANGED <<ft, ino, data>>
     \/ /\ Writable(ino[e.ip], e.off, n1)
        /\ data' = w.d
        /\ ino' = [ino EXCEPT ![e.ip].size = w.n.size, ![e.ip].addrs = w.n.addrs]
        /\ ft' = [ft EXCEPT ![r.f].off = Advance(@, n1)]
        /\ pr' = [pr EXCEPT ![p] = IF r.i + n1 = r.n THEN Idle ELSE [r EXCEPT !.i = @ + n1]]
  /\ UNCHANGED <<ofile, pipe, panic>>

-----------------------------------------------------------------------------
Step ==
  \E p \in Procs :
    \/ FilecloseRef(p) \/ FilecloseEnd(p) \/ Close(p) \/ Exit(p) \/ Fork(p) \/ Dup(p)
    \/ Open(p) \/ OpenNoFd(p) \/ OpenFail(p) \/ OpenDone(p) \/ Unlink(p)
    \/ Pipe(p) \/ PipeFile(p) \/ PipeMemory(p) \/ PipeFds(p)
    \/ Read(p) \/ Write(p) \/ WriteChunk(p)

Next == Step /\ UNCHANGED calls

Spec == Init /\ [][Next]_vars

-----------------------------------------------------------------------------
(* Properties *)

\* None of the assertions of file.c and fs.c fails: no dup or close of a free
\* file, no use of a file without a type, no block freed twice.
NoPanic == panic = "none" /\ data.panic = "none"

\* f->ref is the number of descriptors of the file, in all processes, and of
\* the references that calls in progress still hold.  No call, failing
\* half-way or not, loses a file or frees one that is in use.  Likewise for
\* ip->ref: an i-node is freed, with its contents, when neither a name nor a
\* file is left, and not before.
Held(p, f) == (IF pr[p].pc # "write" /\ pr[p].f = f THEN 1 ELSE 0)
              + (IF pr[p].g = f THEN 1 ELSE 0) + Refs(pr[p].closing, f)
RefsExact ==
  /\ \A f \in FileNums :
       ft[f].ref = Cardinality({<<p, fd>> \in Procs \X Fds : ofile[p][fd] = f})
                   + SumFunction([p \in Procs |-> Held(p, f)])
  /\ \A i \in Inums :
       /\ ino[i].ref =
            Cardinality({f \in FileNums : ft[f].ref > 0 /\ ft[f].type = "inode" /\ ft[f].ip = i})
            + Cardinality({p \in Procs : pr[p].ff.type = "inode" /\ pr[p].ff.ip = i})
            + Cardinality({p \in Procs : pr[p].pc \in {"open", "openfail"} /\ pr[p].ip = i})
       /\ ino[i].ref = 0 /\ ino[i].nlink = 0 => ino[i].size = 0

\* The blocks in use are those that i-nodes and their indirect blocks name, and
\* each is named once: no block is lost, and none belongs to two files.
IndirectOf(i) == ino[i].addrs[NDIRECT]
NameAt(i, k) ==
  IF k <= NDIRECT THEN ino[i].addrs[k]
  ELSE IF IndirectOf(i) = 0 THEN 0 ELSE data.blk[IndirectOf(i)][k - NDIRECT - 1]
Names == {s \in Inums \X (0..MAXFILE) : NameAt(s[1], s[2]) # 0}
BlocksExact ==
  /\ {NameAt(s[1], s[2]) : s \in Names} = data.used
  /\ Cardinality(Names) = Cardinality(data.used)

\* Every word of a file is what was written there, by mkfs or by a program, in
\* the block that mkfs would have put it in; readi finds the same, and every
\* block of the file is there, so that reading allocates none.  What a program
\* writes depends on the place alone, so the property is about where words are,
\* and not about which of two writes at one place comes last; and it is about a
\* disk whose root directory mkfs has not filled to the end of a block.
BlockOf(i, bn) == IF bn < NDIRECT THEN ino[i].addrs[bn] ELSE data.blk[IndirectOf(i)][bn - NDIRECT]
WordAt(i, o) == IF i = ROOTINO THEN Entry(o) ELSE Word(i, o)
InPlace(i, o) ==
  /\ BlockOf(i, o \div BSIZE) # 0
  /\ data.blk[BlockOf(i, o \div BSIZE)][o % BSIZE] = WordAt(i, o)
ReadsBack ==
  \A i \in Inums :
    LET all == Readi(data, ino[i], 0, ino[i].size) IN
    \A o \in 0..(ino[i].size - 1) : InPlace(i, o) /\ all[o + 1] = WordAt(i, o)

=============================================================================
