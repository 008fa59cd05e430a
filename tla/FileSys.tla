-------------------------------- MODULE FileSys --------------------------------
(***************************************************************************)
(* The i-node cache, directories and path names of fs.c under the system    *)
(* calls of sysfile.c that use them: open, link, unlink, mkdir, mknod,      *)
(* chdir, and close of an open file.                                        *)
(*                                                                          *)
(* A step is one critical section of icache.lock together with the work     *)
(* under locked i-nodes before it; iunlock, which only releases, belongs to *)
(* the step before it.  Buffers and transactions are the business of Bio    *)
(* and Log, file contents that of Inode: an update of a disk i-node or of a *)
(* directory is atomic here.  A path is the sequence of its elements.       *)
(***************************************************************************)
EXTENDS Integers, FiniteSets, SequencesExt

CONSTANTS Procs,
          NINODE,       \* entries of the i-node cache
          NInums,       \* i-nodes on disk; 1 is ROOTINO
          Names,        \* names of directory entries other than "." and ".."
          Calls         \* the system calls processes make, one set for each scenario

Slots == 1..NINODE
Inums == 1..NInums
Root == 1
Dots == {".", ".."}
Types == {"free", "file", "dir", "dev"}

ASSUME FileSysAssumption ==
  /\ NINODE \in Nat \ {0} /\ NInums \in Nat \ {0} /\ Names \cap Dots = {}
  /\ \A c \in UNION Range(Calls) : c.op \in {"open", "creat", "mkdir", "mknod", "unlink", "link", "chdir", "close"}

VARIABLES disk,     \* type and nlink of the i-nodes on disk
          ents,     \* contents of directories: the i-node of each name, 0 for none
          ic,       \* icache
          pr,       \* where each process is, and its pointers to cache entries
          chan,     \* the cache entry a process sleeps on, 0 when awake
          panic,
          scene     \* which set of calls it is

vars == <<disk, ents, ic, pr, chan, panic, scene>>

NoEnts == [n \in Names \cup Dots |-> 0]
Pointers == {"np", "ip", "dp", "put", "cwd", "file"}

\* Between calls a process holds its directory and its open file.
Resting(cwd, file) ==
  [pc |-> "idle", after |-> "idle", call |-> [op |-> "none"], path |-> <<>>, parent |-> FALSE,
   np |-> 0, ip |-> 0, dp |-> 0, put |-> 0, cwd |-> cwd, file |-> file]

-----------------------------------------------------------------------------
(* Seeded faults: variants of definitions below that the properties reject. *)

\* iget: the flags of a recycled entry stay.
Recycled_Flags(c, s, i) == [c[s] EXCEPT !.inum = i, !.ref = 1]

\* idup: no reference is counted.
Idup_NoRef(c, s) == c

\* iput: does not look at the number of references.
LastUse_AnyRef(e) == e.valid /\ e.nlink = 0

\* sys_link: the link is not counted.
LinkCount_None(c, s) == c

\* sys_unlink: "." and ".." may go.
Protected_None(n) == FALSE
-----------------------------------------------------------------------------
(* The cache; c stands for the array of entries. *)

Cached(c, i) == {s \in Slots : c[s].ref > 0 /\ c[s].inum = i}
Unused(c) == {s \in Slots : c[s].ref = 0}

\* iget: where i-node i is or will be, and the cache after; 0 is "no inodes".
IgetSlot(c, i) ==
  IF Cached(c, i) # {} THEN Min(Cached(c, i))
  ELSE IF Unused(c) # {} THEN Min(Unused(c)) ELSE 0
Recycled(c, s, i) == [c[s] EXCEPT !.inum = i, !.ref = 1, !.busy = FALSE, !.valid = FALSE]
Iget(c, i) ==
  LET s == IgetSlot(c, i) IN
  IF s = 0 THEN c
  ELSE IF Cached(c, i) # {} THEN [c EXCEPT ![s].ref = @ + 1]
  ELSE [c EXCEPT ![s] = Recycled(c, s, i)]

Idup(c, s) == [c EXCEPT ![s].ref = @ + 1]

\* ilock of an entry that is not busy; its disk i-node does not change between
\* the lock and the read, since only the holder of the lock writes it.
Ilock(c, s) ==
  [c EXCEPT ![s].busy = TRUE, ![s].valid = TRUE,
            ![s].type = IF c[s].valid THEN @ ELSE disk[c[s].inum].type,
            ![s].nlink = IF c[s].valid THEN @ ELSE disk[c[s].inum].nlink]

Iunlock(c, s) == [c EXCEPT ![s].busy = FALSE]

\* wakeup(ip)
Woken(s) == [p \in Procs |-> IF chan[p] = s THEN 0 ELSE chan[p]]

\* iput: is this the last use of an i-node without links?
LastUse(e) == e.ref = 1 /\ e.valid /\ e.nlink = 0

\* iupdate of the entry s of cache c into the disk i-nodes d
Iupdate(d, c, s) == [d EXCEPT ![c[s].inum] = [type |-> c[s].type, nlink |-> c[s].nlink]]

\* ip->ref--
Dropped(c, s) == [c EXCEPT ![s].ref = @ - 1]

IsDirEmpty(i) == \A n \in Names : ents[i][n] = 0

\* dirlookup: the i-node a directory's entry names
Entry(s, n) == ents[ic[s].inum][n]

-----------------------------------------------------------------------------
(* Steps *)

Init ==
  /\ disk = [i \in Inums |-> IF i = Root THEN [type |-> "dir", nlink |-> 1]
                             ELSE [type |-> "free", nlink |-> 0]]
  /\ ents = [i \in Inums |-> IF i = Root THEN [n \in Names \cup Dots |-> IF n \in Dots THEN Root ELSE 0]
                             ELSE NoEnts]
  /\ ic = [s \in Slots |-> IF s = 1
                           THEN [inum |-> Root, ref |-> Cardinality(Procs), busy |-> FALSE,
                                 valid |-> FALSE, type |-> "free", nlink |-> 0]
                           ELSE [inum |-> 0, ref |-> 0, busy |-> FALSE,
                                 valid |-> FALSE, type |-> "free", nlink |-> 0]]
  /\ pr = [p \in Procs |-> Resting(1, 0)]
  /\ chan = [p \in Procs |-> 0]
  /\ panic = "none"
  /\ scene \in DOMAIN Calls

At(p, l) == panic = "none" /\ chan[p] = 0 /\ pr[p].pc = l

\* The process calls iput for the entry its pointer v holds, and goes on at l.
Put(r, v, l) == [r EXCEPT !.put = r[v], ![v] = 0, !.pc = "iput", !.after = l]

\* Where a call goes on when namex returns 0.
Failed(r) == IF r.call.op = "link" /\ r.parent THEN "bad" ELSE "idle"

\* namex returns np.
Found(r) == IF r.parent THEN [r EXCEPT !.dp = r.np, !.np = 0, !.pc = "lockdp"]
            ELSE [r EXCEPT !.ip = r.np, !.np = 0, !.pc = "lockip"]

\* The process goes on at label l; namex stops when the path is used up.
Goto(r, l) ==
  CASE l = "idle" -> Resting(r.cwd, r.file)
    [] l = "putip" -> Put(r, "ip", "idle")
    [] l = "namex" /\ r.path = <<>> -> IF r.parent THEN Put(r, "np", Failed(r)) ELSE Found(r)
    [] OTHER -> [r EXCEPT !.pc = l, !.after = "idle"]

\* p becomes r, the cache c; whoever sleeps on entry s wakes up (0: nobody).
Become(p, r, c, s) ==
  /\ pr' = [pr EXCEPT ![p] = r]
  /\ ic' = c
  /\ chan' = Woken(s)
  /\ UNCHANGED scene

\* panic("iget: no inodes"), and the panic of iunlock
IgetPanic(c, i) == IF IgetSlot(c, i) = 0 THEN "iget" ELSE "none"
IunlockPanic(s) == IF ic[s].busy /\ ic[s].ref >= 1 THEN "none" ELSE "iunlock"

\* namex begins at the root or at the current directory.
NamexFrom(p, r, path, parent) ==
  LET from(s) == Goto([r EXCEPT !.path = path.el, !.parent = parent, !.np = s], "namex") IN
  IF path.abs
  THEN /\ Become(p, from(IgetSlot(ic, Root)), Iget(ic, Root), 0)
       /\ panic' = IgetPanic(ic, Root)
  ELSE /\ Become(p, from(r.cwd), Idup(ic, r.cwd), 0)
       /\ panic' = panic

\* A process makes a system call on a path name.
Start(p) ==
  \E c \in Calls[scene] :
    /\ At(p, "idle")
    /\ c.op # "close"
    /\ NamexFrom(p, [pr[p] EXCEPT !.call = c], c.path, c.op \in {"creat", "mkdir", "mknod", "unlink"})
    /\ UNCHANGED <<disk, ents>>

\* sys_close of the last descriptor of an open file: fileclose calls iput.
Close(p) ==
  /\ At(p, "idle")
  /\ \E c \in Calls[scene] : c.op = "close"
  /\ pr[p].file # 0
  /\ Become(p, Put(pr[p], "file", "idle"), ic, 0)
  /\ UNCHANGED <<disk, ents, panic>>

\* ilock(v); then l.
Lock(p, v, l) ==
  LET s == pr[p][v]  c == Ilock(ic, s) IN
  /\ IF ic[s].busy THEN /\ chan' = [chan EXCEPT ![p] = s]
                        /\ UNCHANGED <<ic, pr, panic, scene>>
     ELSE /\ Become(p, [pr[p] EXCEPT !.pc = l], c, 0)
          /\ panic' = IF ic[s].ref < 1 THEN "ilock"
                      ELSE IF ~ic[s].valid /\ c[s].type = "free" THEN "ilock: no type" ELSE panic
  /\ UNCHANGED <<disk, ents>>

LockIp(p) == At(p, "lockip") /\ Lock(p, "ip", "gotip")
LockDp(p) == At(p, "lockdp") /\ Lock(p, "dp", "gotdp")

\* iput: drop the reference, or make the entry busy in order to free it.
Iput(p) ==
  LET r == pr[p]  s == r.put IN
  /\ At(p, "iput")
  /\ IF LastUse(ic[s])
     THEN /\ Become(p, [r EXCEPT !.pc = "itrunc"], [ic EXCEPT ![s].busy = TRUE], 0)
          /\ panic' = IF ic[s].busy THEN "iput busy" ELSE panic
     ELSE /\ Become(p, Goto([r EXCEPT !.put = 0], r.after), Dropped(ic, s), 0)
          /\ panic' = panic
  /\ UNCHANGED <<disk, ents>>

\* iput: itrunc, type = 0, iupdate.
IputFree(p) ==
  LET s == pr[p].put  c == [ic EXCEPT ![s].type = "free"] IN
  /\ At(p, "itrunc")
  /\ Become(p, [pr[p] EXCEPT !.pc = "freed"], c, 0)
  /\ disk' = Iupdate(disk, c, s)
  /\ ents' = [ents EXCEPT ![ic[s].inum] = NoEnts]
  /\ UNCHANGED panic

\* iput: flags = 0, wakeup, and the reference goes.
IputWakeup(s) == s
IputDone(p) ==
  LET r == pr[p]  s == r.put IN
  /\ At(p, "freed")
  /\ Become(p, Goto([r EXCEPT !.put = 0], r.after),
            Dropped([ic EXCEPT ![s].busy = FALSE, ![s].valid = FALSE], s), IputWakeup(s))
  /\ UNCHANGED <<disk, ents, panic>>

-----------------------------------------------------------------------------
(* namex *)

NamexLock(p) == At(p, "namex") /\ Lock(p, "np", "look")

\* Under the lock of np: the last element of nameiparent, or nothing to find
\* (a seeded fault: the test for T_DIR is missing).
NamexLast(p) == pr[p].parent /\ Len(pr[p].path) = 1
NamexMiss_AnyType(p) == ~NamexLast(p) /\ Entry(pr[p].np, Head(pr[p].path)) = 0
NamexMiss(p) == \/ ic[pr[p].np].type # "dir"
                \/ ~NamexLast(p) /\ Entry(pr[p].np, Head(pr[p].path)) = 0

LookParent(p) ==
  LET s == pr[p].np IN
  /\ At(p, "look")
  /\ ~NamexMiss(p)
  /\ NamexLast(p)
  /\ Become(p, Found(pr[p]), Iunlock(ic, s), s)
  /\ panic' = IunlockPanic(s)
  /\ UNCHANGED <<disk, ents>>

LookMiss(p) ==
  LET s == pr[p].np IN
  /\ At(p, "look")
  /\ NamexMiss(p)
  /\ Become(p, Put(pr[p], "np", Failed(pr[p])), Iunlock(ic, s), s)
  /\ panic' = IunlockPanic(s)
  /\ UNCHANGED <<disk, ents>>

LookHit(p) ==
  LET r == pr[p]  s == r.np  i == Entry(s, Head(r.path)) IN
  /\ At(p, "look")
  /\ ~NamexMiss(p)
  /\ ~NamexLast(p)
  /\ Become(p, [Put(r, "np", "namex") EXCEPT !.np = IgetSlot(ic, i), !.path = Tail(r.path)],
            Iunlock(Iget(ic, i), s), s)
  /\ panic' = IgetPanic(ic, i)
  /\ UNCHANGED <<disk, ents>>

-----------------------------------------------------------------------------
(* The system calls, from where namex has returned and ip or dp is locked. *)

\* iunlockput(v), then l.
Leave(p, v, l) ==
  /\ Become(p, Put(pr[p], v, l), Iunlock(ic, pr[p][v]), pr[p][v])
  /\ panic' = IunlockPanic(pr[p][v])
  /\ UNCHANGED <<disk, ents>>

\* panic("dirlookup not DIR")
LookupPanic(s) == IF ic[s].type # "dir" THEN "dirlookup" ELSE "none"

\* create, and the type of the new i-node
Creating(r) == r.call.op \in {"creat", "mkdir", "mknod"}
NewType(op) == CASE op = "creat" -> "file" [] op = "mkdir" -> "dir" [] OTHER -> "dev"

\* With ip locked: does sys_open accept it, or create an i-node that existed?
Accepted(r) ==
  CASE r.call.op = "open" -> ~(ic[r.ip].type = "dir" /\ r.call.write)
    [] r.call.op = "chdir" -> ic[r.ip].type = "dir"
    [] OTHER -> r.call.op = "creat" /\ ic[r.ip].type = "file"
Existing(r) == r.call.op \in {"open", "chdir"} \/ (Creating(r) /\ r.dp = 0)

Refuse(p) ==
  /\ At(p, "gotip") /\ Existing(pr[p])
  /\ ~Accepted(pr[p])
  /\ Leave(p, "ip", "idle")

\* sys_open, with ip locked: filealloc or fdalloc fails, or the file is open.
Opening(p) == \/ At(p, "opened")
              \/ /\ At(p, "gotip") /\ Existing(pr[p])
                 /\ pr[p].call.op # "chdir" /\ Accepted(pr[p])

OpenFull(p) == Opening(p) /\ pr[p].file # 0 /\ Leave(p, "ip", "idle")

OpenDone(p) ==
  LET r == pr[p] IN
  /\ Opening(p) /\ r.file = 0
  /\ Become(p, Resting(r.cwd, r.ip), Iunlock(ic, r.ip), r.ip)
  /\ panic' = IunlockPanic(r.ip)
  /\ UNCHANGED <<disk, ents>>

\* sys_chdir: the old directory is put.
Chdir(p) ==
  LET r == pr[p] IN
  /\ At(p, "gotip") /\ r.call.op = "chdir"
  /\ Accepted(r)
  /\ Become(p, [Put(r, "cwd", "idle") EXCEPT !.cwd = r.ip, !.ip = 0], Iunlock(ic, r.ip), r.ip)
  /\ panic' = IunlockPanic(r.ip)
  /\ UNCHANGED <<disk, ents>>

\* The name exists: dp goes, and ip is locked.
CreateHit(p) ==
  LET r == pr[p]  s == r.dp  i == Entry(s, r.path[1]) IN
  /\ At(p, "gotdp") /\ Creating(r)
  /\ i # 0
  /\ Become(p, [Put(r, "dp", "lockip") EXCEPT !.ip = IgetSlot(ic, i)], Iunlock(Iget(ic, i), s), s)
  /\ panic' = IgetPanic(ic, i)
  /\ UNCHANGED <<disk, ents>>

\* The name is new: ialloc takes the first free i-node, or there is none.
FreeInums == {i \in Inums : disk[i].type = "free"}
CreateMiss(p) == At(p, "gotdp") /\ Creating(pr[p]) /\ Entry(pr[p].dp, pr[p].path[1]) = 0

IallocPanic(p) ==
  /\ CreateMiss(p)
  /\ FreeInums = {}
  /\ panic' = "ialloc"
  /\ UNCHANGED <<disk, ents, ic, pr, chan, scene>>

Ialloc(p) ==
  LET r == pr[p]  i == Min(FreeInums) IN
  /\ CreateMiss(p)
  /\ FreeInums # {}
  /\ disk' = [disk EXCEPT ![i] = [type |-> NewType(r.call.op), nlink |-> 0]]
  /\ Become(p, [r EXCEPT !.ip = IgetSlot(ic, i), !.pc = "lockip"], Iget(ic, i), 0)
  /\ panic' = IF LookupPanic(r.dp) # "none" THEN LookupPanic(r.dp) ELSE IgetPanic(ic, i)
  /\ UNCHANGED ents

\* What create does to the cache: one link, and one for ".." of a directory.
CreatedLinks(c, ip, dp) ==
  [c EXCEPT ![ip].nlink = 1, ![dp].nlink = IF c[ip].type = "dir" THEN @ + 1 ELSE @]

Create(p) ==
  LET r == pr[p]  i == ic[r.ip].inum  d == ic[r.dp].inum
      c == CreatedLinks(ic, r.ip, r.dp)
  IN
  /\ At(p, "gotip") /\ Creating(r) /\ r.dp # 0
  /\ disk' = IF c[r.ip].type = "dir" THEN Iupdate(Iupdate(disk, c, r.ip), c, r.dp)
             ELSE Iupdate(disk, c, r.ip)
  /\ ents' = [ents EXCEPT ![d][r.path[1]] = i,
                          ![i] = IF c[r.ip].type = "dir" THEN [@ EXCEPT !["."] = i, ![".."] = d] ELSE @]
  /\ Become(p, Put(r, "dp", IF r.call.op = "creat" THEN "opened" ELSE "made"), Iunlock(c, r.dp), r.dp)
  /\ panic' = IunlockPanic(r.dp)

\* sys_mkdir and sys_mknod only create.
Made(p) == At(p, "made") /\ Leave(p, "ip", "idle")

\* sys_link, first half: ip gets a link before its new name is written.
LinkCount(c, s) == [c EXCEPT ![s].nlink = @ + 1]
LinkOld(p) ==
  LET r == pr[p]  c == LinkCount(ic, r.ip) IN
  /\ At(p, "gotip") /\ r.call.op = "link" /\ ~r.parent
  /\ \/ /\ ic[r.ip].type = "dir"
        /\ Leave(p, "ip", "idle")
     \/ /\ ic[r.ip].type # "dir"
        /\ disk' = Iupdate(disk, c, r.ip)
        /\ Become(p, Goto(r, "linknew"), Iunlock(c, r.ip), r.ip)
        /\ panic' = IunlockPanic(r.ip)
        /\ UNCHANGED ents

LinkNew(p) ==
  /\ At(p, "linknew")
  /\ NamexFrom(p, pr[p], pr[p].call.new, TRUE)
  /\ UNCHANGED <<disk, ents>>

\* dirlink fails: dirlookup has found the name, and its i-node is put.
LinkExists(p) ==
  LET r == pr[p]  i == Entry(r.dp, r.path[1]) IN
  /\ At(p, "gotdp") /\ r.call.op = "link"
  /\ i # 0
  /\ Become(p, [r EXCEPT !.put = IgetSlot(ic, i), !.pc = "iput", !.after = "linkfail"], Iget(ic, i), 0)
  /\ panic' = IgetPanic(ic, i)
  /\ UNCHANGED <<disk, ents>>

LinkFail(p) == At(p, "linkfail") /\ Leave(p, "dp", "bad")

LinkDone(p) ==
  LET r == pr[p] IN
  /\ At(p, "gotdp") /\ r.call.op = "link"
  /\ Entry(r.dp, r.path[1]) = 0
  /\ ents' = [ents EXCEPT ![ic[r.dp].inum][r.path[1]] = ic[r.ip].inum]
  /\ Become(p, Put(r, "dp", "putip"), Iunlock(ic, r.dp), r.dp)
  /\ panic' = IF LookupPanic(r.dp) # "none" THEN LookupPanic(r.dp) ELSE IunlockPanic(r.dp)
  /\ UNCHANGED disk

\* sys_link, bad: takes the link back.
LinkBad(p) == At(p, "bad") /\ Lock(p, "ip", "undo")

\* nlink--, iupdate, iunlockput(ip)
DropLink(p, c) ==
  LET r == pr[p] IN
  /\ disk' = Iupdate(disk, c, r.ip)
  /\ Become(p, Put(r, "ip", "idle"), Iunlock(c, r.ip), r.ip)
  /\ panic' = IunlockPanic(r.ip)
  /\ UNCHANGED ents

Uncounted(c, s) == [c EXCEPT ![s].nlink = @ - 1]
LinkUndo(p) == At(p, "undo") /\ DropLink(p, Uncounted(ic, pr[p].ip))

\* sys_unlink, under the lock of dp; "." and ".." stay.
Protected(n) == n \in Dots
UnlinkMiss(p) ==
  LET r == pr[p] IN
  /\ At(p, "gotdp") /\ r.call.op = "unlink"
  /\ Protected(r.path[1]) \/ Entry(r.dp, r.path[1]) = 0
  /\ Leave(p, "dp", "idle")

UnlinkHit(p) ==
  LET r == pr[p]  i == Entry(r.dp, r.path[1]) IN
  /\ At(p, "gotdp") /\ r.call.op = "unlink"
  /\ ~Protected(r.path[1]) /\ i # 0
  /\ Become(p, [r EXCEPT !.ip = IgetSlot(ic, i), !.pc = "lockip"], Iget(ic, i), 0)
  /\ panic' = IgetPanic(ic, i)
  /\ UNCHANGED <<disk, ents>>

\* Under the locks of dp and ip: may the name go?  ("nlink < 1" comes first.)
Removable(e) == e.nlink < 1 \/ e.type # "dir" \/ IsDirEmpty(e.inum)

UnlinkRefused(p) ==
  /\ At(p, "gotip") /\ pr[p].call.op = "unlink"
  /\ ~Removable(ic[pr[p].ip])
  /\ Leave(p, "ip", "refused")

UnlinkLeave(p) == At(p, "refused") /\ Leave(p, "dp", "idle")

UnlinkName(p) ==
  LET r == pr[p]  isdir == ic[r.ip].type = "dir"
      c == [ic EXCEPT ![r.dp].nlink = IF isdir THEN @ - 1 ELSE @]
  IN
  /\ At(p, "gotip") /\ r.call.op = "unlink"
  /\ Removable(ic[r.ip])
  /\ ents' = [ents EXCEPT ![ic[r.dp].inum][r.path[1]] = 0]
  /\ disk' = IF isdir THEN Iupdate(disk, c, r.dp) ELSE disk
  /\ Become(p, Put(r, "dp", "nameless"), Iunlock(c, r.dp), r.dp)
  /\ panic' = IF ic[r.ip].nlink < 1 THEN "unlink" ELSE IunlockPanic(r.dp)

UnlinkCount(p) == At(p, "nameless") /\ DropLink(p, [ic EXCEPT ![pr[p].ip].nlink = @ - 1])

-----------------------------------------------------------------------------
Step(p) ==
  \/ Start(p) \/ Close(p) \/ LockIp(p) \/ LockDp(p) \/ Iput(p) \/ IputFree(p) \/ IputDone(p)
  \/ NamexLock(p) \/ LookParent(p) \/ LookMiss(p) \/ LookHit(p)
  \/ Refuse(p) \/ OpenFull(p) \/ OpenDone(p) \/ Chdir(p)
  \/ CreateHit(p) \/ IallocPanic(p) \/ Ialloc(p) \/ Create(p) \/ Made(p)
  \/ LinkOld(p) \/ LinkNew(p) \/ LinkExists(p) \/ LinkFail(p) \/ LinkDone(p) \/ LinkBad(p) \/ LinkUndo(p)
  \/ UnlinkMiss(p) \/ UnlinkHit(p) \/ UnlinkRefused(p) \/ UnlinkLeave(p) \/ UnlinkName(p)
  \/ UnlinkCount(p)

Next == \E p \in Procs : Step(p)

Spec == Init /\ [][Next]_vars

-----------------------------------------------------------------------------
(* Properties *)

\* A process whose path goes through ".." has come to an i-node that is free.
FreeByDots(p) ==
  /\ \E v \in {"np", "ip", "dp"} : pr[p][v] # 0 /\ disk[ic[pr[p][v]].inum].type = "free"
  /\ ".." \in Range(pr[p].call.path.el)

\* The assertions of fs.c and sysfile.c hold: no lock and no unlock of an entry
\* nobody refers to, no iput of a busy i-node, no dirlookup in a file, no unlink
\* of an i-node without links, and no lock of an i-node without a type, except
\* for a path through "..": the ".." of a directory that was removed while
\* somebody used it is not counted as a link, and its parent may be removed and
\* freed as well.  Besides, ialloc panics when every i-node of the disk is in
\* use.  ("iget: no inodes" needs more i-nodes in use than NINODE.)
NoPanic ==
  \/ panic = "none"
  \/ panic = "ialloc" /\ FreeInums = {}
  \/ panic = "ilock: no type" /\ \E p \in Procs : FreeByDots(p)

\* ip->ref is the number of pointers to the cache entry that processes hold,
\* in the middle of calls, as current directory and as open file.
RefsCounted ==
  \A s \in Slots :
    ic[s].ref = Cardinality({<<p, v>> \in Procs \X Pointers : pr[p][v] = s})

\* An i-node is cached once, and what an unlocked valid entry says is what the
\* disk says: nobody works with a copy that is out of date.
CacheCoherent ==
  \A s \in Slots : ic[s].ref > 0 =>
    /\ Cached(ic, ic[s].inum) = {s}
    /\ ic[s].valid /\ ~ic[s].busy =>
         disk[ic[s].inum] = [type |-> ic[s].type, nlink |-> ic[s].nlink]

\* The links of an i-node are never fewer than its names, at any step of any
\* call, so that no name is left with an i-node that is free.
NamesHaveLinks ==
  \A i \in Inums :
    LET names == {<<d, n>> \in Inums \X Names : ents[d][n] = i} IN
    /\ disk[i].nlink >= Cardinality(names)
    /\ names # {} => disk[i].type # "free"

\* The last iput, and no other, frees an i-node: an open file and a current
\* directory keep theirs, whoever unlinks it; and an i-node that is allocated
\* without links is one that somebody still refers to.
FreedByLastUse ==
  /\ \A p \in Procs : \A v \in {"cwd", "file"} :
       pr[p][v] # 0 => disk[ic[pr[p][v]].inum].type # "free"
  /\ \A i \in Inums : disk[i].type # "free" /\ disk[i].nlink = 0 => Cached(ic, i) # {}

\* Nobody sleeps in ilock for an i-node that is not locked, and processes in the
\* middle of calls never all sleep: the order in which namex, create, link and
\* unlink lock two i-nodes admits no circle.
NobodyStuck ==
  /\ \A p \in Procs : chan[p] # 0 => ic[chan[p]].busy
  /\ (\E p \in Procs : pr[p].pc # "idle") => \E p \in Procs : pr[p].pc # "idle" /\ chan[p] = 0
=============================================================================
