---------------------------------- MODULE VM ----------------------------------
(***************************************************************************)
(* Physical frames and page tables: kalloc.c, vm.c, growproc and fork of    *)
(* proc.c, the memory side of exec.c and of wait, the page-fault handler of *)
(* trap.c, and the two page allocators of sysproc.c.                        *)
(*                                                                          *)
(* Addresses count in units of which PGSIZE make a page, modulo 2*KERNBASE  *)
(* (2^32 in the code).  Which free frame kalloc returns does not matter, as *)
(* frames carry no contents here: it is the lowest.                         *)
(***************************************************************************)
EXTENDS Integers, FiniteSets, SequencesExt

CONSTANTS NPROC,
          PGSIZE,
          NPT,          \* NPTENTRIES: pages that one page-table page maps
          ImagePages,   \* pages of a program's segments
          Machines      \* what the program may run on: see mach

Procs == 1..NPROC

ASSUME VMAssumption ==
  /\ NPROC \in Nat \ {0} /\ PGSIZE \in Nat \ {0} /\ NPT \in Nat \ {0}
  /\ ImagePages \in Nat \ {0}
  /\ \A m \in Machines :
       /\ m.frames \in Nat /\ m.lazy \in BOOLEAN
       /\ m.npde \in Nat /\ ImagePages + 2 < NPT * m.npde
       /\ m.deltas \subseteq (-(NPT * m.npde * PGSIZE))..(NPT * m.npde * PGSIZE - 1)

VARIABLES mach,     \* frames: of physical memory; npde: page-table pages of the
                    \* user part; deltas: arguments of sbrk;
                    \* lazy: set_page_allocator may choose the lazy allocator
          free,     \* kmem.freelist
          cnt,      \* free_frame_cnt
          pt,       \* page table of each process
          kstack, sz, lazy, killed, state,   \* struct proc
          panic     \* the panic that stopped the machine

vars == <<mach, free, cnt, pt, kstack, sz, lazy, killed, state, panic>>

NPDE == mach.npde
Pages == 0..(NPT * NPDE - 1)
KERNBASE == NPT * NPDE * PGSIZE
WORD == 2 * KERNBASE
Frames == 1..mach.frames

\* A page table: the directory, the kernel's page-table page, the user's, the
\* frame of each page, the pages without PTE_U.  0 stands for "not present".
NoPt == [dir |-> 0, ktab |-> 0, tab |-> [d \in 0..(NPDE - 1) |-> 0],
         pte |-> [g \in Pages |-> 0], guard |-> {}]

-----------------------------------------------------------------------------
(* Seeded faults: variants of definitions below that the properties reject. *)

\* deallocuvm: starts one page too late.
ShrinkFrom_Next(newsz) == (newsz + PGSIZE - 1) \div PGSIZE + 1

\* deallocuvm: the page-table entry stays.
Unmap_Kept(m, G) == m

\* wait: the kernel stack is not freed.
ReapStack_Kept(m, f) == m

-----------------------------------------------------------------------------
(* kalloc.c; m holds what an operation works on. *)

\* kfree of every frame of S
Kfree(m, S) == [m EXCEPT !.free = @ \cup S, !.cnt = @ + Cardinality(S)]

\* kalloc: the frame, and the memory without it.
Frame(m) == Min(m.free)
Take(m) == [m EXCEPT !.free = @ \ {Min(@)}, !.cnt = @ - 1]

-----------------------------------------------------------------------------
(* vm.c *)

RoundUp(a) == (a + PGSIZE - 1) \div PGSIZE     \* PGROUNDUP, as a page number

\* Where the loops of allocuvm and deallocuvm start, and that of copyuvm ends.
GrowFrom(oldsz) == RoundUp(oldsz)
ShrinkFrom(newsz) == RoundUp(newsz)
CopyUpto(size) == RoundUp(size)

\* The pages from..upto-1 in order.
Run(from, upto) == [i \in 1..(IF upto > from THEN upto - from ELSE 0) |-> from + i - 1]

\* mappages for one user page: walkpgdir may need a frame for the table.
Mappages(m, g, f) ==
  LET d == g \div NPT IN
  IF m.pt.tab[d] = 0 THEN
    IF m.free = {} THEN [m EXCEPT !.ok = FALSE]
    ELSE [Take(m) EXCEPT !.pt.tab[d] = Frame(m), !.pt.pte[g] = f]
  ELSE IF m.pt.pte[g] # 0 THEN [m EXCEPT !.panic = "remap"]
  ELSE [m EXCEPT !.pt.pte[g] = f]

\* setupkvm: a directory and the kernel's mappings; on failure the directory
\* stays allocated.
Setupkvm(m) ==
  IF m.free = {} THEN [m EXCEPT !.ok = FALSE]
  ELSE IF Take(m).free = {} THEN [Take(m) EXCEPT !.ok = FALSE]
  ELSE [Take(Take(m)) EXCEPT !.pt = [NoPt EXCEPT !.dir = Frame(m), !.ktab = Frame(Take(m))]]

\* The pages deallocuvm looks at between newsz and oldsz: where there is no
\* page-table page, it goes NPT pages ahead of where it is.
Visited(t, oldsz, newsz) ==
  LET last == RoundUp(oldsz)
      v[g \in 0..(NPT * NPDE + NPT)] ==
        IF g >= last THEN {}
        ELSE IF t.tab[g \div NPT] = 0 THEN v[g + NPT]
        ELSE {g} \cup v[g + 1]
  IN  IF newsz >= oldsz THEN {} ELSE v[ShrinkFrom(newsz)]

Unmap(m, G) == [m EXCEPT !.pt.pte = [g \in Pages |-> IF g \in G THEN 0 ELSE @[g]],
                         !.pt.guard = @ \ G]

Deallocuvm(m, oldsz, newsz) ==
  LET G == {g \in Visited(m.pt, oldsz, newsz) : m.pt.pte[g] # 0}
  IN  Unmap(Kfree(m, {m.pt.pte[g] : g \in G}), G)

TableFrames(t) == {t.dir, t.ktab} \cup {t.tab[d] : d \in 0..(NPDE - 1)}
Freevm(m) ==
  LET n == Deallocuvm(m, KERNBASE, 0)
  IN  [Kfree(n, TableFrames(n.pt) \ {0}) EXCEPT !.pt = NoPt]

\* allocuvm returns 0 (~ok) when kalloc fails; what mappages returns is ignored.
Allocuvm(m, oldsz, newsz) ==
  LET grow(n, g) ==
        IF ~n.ok \/ n.panic # "none" THEN n
        ELSE IF n.free = {} THEN [Deallocuvm(n, newsz, oldsz) EXCEPT !.ok = FALSE]
        ELSE [Mappages(Take(n), g, Frame(n)) EXCEPT !.ok = TRUE]
  IN  IF newsz >= KERNBASE THEN [m EXCEPT !.ok = FALSE]
      ELSE FoldLeft(grow, m, Run(GrowFrom(oldsz), RoundUp(newsz)))

\* copyuvm: a copy of the first size units of page table t.
Copyuvm(m, t, size) ==
  LET bad(n) == [Freevm(n) EXCEPT !.ok = FALSE]
      mapped(n, g) == IF n.ok THEN [n EXCEPT !.pt.guard = @ \cup ({g} \cap t.guard)] ELSE bad(n)
      copy(n, g) ==
        IF ~n.ok \/ n.panic # "none" THEN n
        ELSE IF t.tab[g \div NPT] = 0 \/ t.pte[g] = 0 THEN [n EXCEPT !.panic = "copyuvm"]
        ELSE IF n.free = {} THEN bad(n)
        ELSE mapped(Mappages(Take(n), g, Frame(n)), g)
      new == Setupkvm(m)
  IN  FoldLeft(copy, new, Run(0, CopyUpto(size)))

-----------------------------------------------------------------------------
Mem == [free |-> free, cnt |-> cnt, pt |-> NoPt, ok |-> TRUE, panic |-> "none"]
MemOf(p) == [Mem EXCEPT !.pt = pt[p]]

\* userinit: the first process has a kernel stack and one page.
Boot ==
  LET m == Setupkvm([free |-> Frames \ {1}, cnt |-> mach.frames - 1, pt |-> NoPt,
                     ok |-> TRUE, panic |-> "none"])
  IN  Mappages(Take(m), 0, Frame(m))

Init ==
  /\ mach \in Machines
  /\ free = Boot.free
  /\ cnt = Boot.cnt
  /\ pt = [p \in Procs |-> IF p = 1 THEN Boot.pt ELSE NoPt]
  /\ kstack = [p \in Procs |-> IF p = 1 THEN 1 ELSE 0]
  /\ sz = [p \in Procs |-> IF p = 1 THEN PGSIZE ELSE 0]
  /\ lazy = [p \in Procs |-> FALSE]
  /\ killed = [p \in Procs |-> FALSE]
  /\ state = [p \in Procs |-> IF p = 1 THEN "live" ELSE "unused"]
  /\ panic = "none"

Running(p) == panic = "none" /\ state[p] = "live"

\* The program of p makes a system call: its text, at address 0, is there.  A
\* process that has given it back (sbrk(-sz)) can only fault.
Calls(p) == Running(p) /\ ~killed[p] /\ pt[p].pte[0] # 0

\* What an operation leaves: memory m, in which process p has its page table.
Store(p, m) ==
  /\ free' = m.free /\ cnt' = m.cnt /\ panic' = m.panic
  /\ pt' = [pt EXCEPT ![p] = m.pt]

TooBig(a) == a >= KERNBASE

\* growproc: [ok, mem, size]
Growproc(p, n) ==
  LET newsz == (sz[p] + n) % WORD
      m == MemOf(p)
  IN  CASE n > 0 /\ lazy[p] -> [ok |-> ~TooBig(newsz), mem |-> m, size |-> newsz]
        [] n > 0 /\ ~lazy[p] -> LET r == Allocuvm(m, sz[p], newsz)
                                IN  [ok |-> r.ok, mem |-> r, size |-> newsz]
        [] n < 0 -> LET left == IF newsz >= sz[p] THEN sz[p] ELSE newsz
                    IN  [ok |-> left # 0, mem |-> Deallocuvm(m, sz[p], newsz), size |-> left]
        [] n = 0 -> [ok |-> TRUE, mem |-> m, size |-> sz[p]]

Sbrk(p, n) ==
  LET r == Growproc(p, n) IN
  /\ Calls(p)
  /\ p = 1 => sz[p] + n >= PGSIZE   \* init keeps its text
  /\ Store(p, r.mem)
  /\ sz' = [sz EXCEPT ![p] = IF r.ok THEN r.size ELSE @]
  /\ UNCHANGED <<kstack, lazy, killed, state>>

SetPageAllocator(p, type) ==
  /\ Calls(p) /\ mach.lazy
  /\ lazy' = [lazy EXCEPT ![p] = type]
  /\ UNCHANGED <<free, cnt, pt, kstack, sz, killed, state, panic>>

\* trap, T_PGFLT: user code touched page g, which is not there or not its own.  A
\* killed process is not stopped here, and may fault again.
PageFault(p, g) ==
  /\ Running(p)
  /\ pt[p].pte[g] = 0 \/ g \in pt[p].guard
  /\ LET m == MemOf(p)
         mapped == Mappages(Take(m), g, Frame(m))
     IN  \/ /\ p # 1    \* init makes no bad access
            /\ ~lazy[p] \/ g * PGSIZE >= sz[p] \/ free = {}
            /\ killed' = [killed EXCEPT ![p] = TRUE]
            /\ UNCHANGED <<free, cnt, pt, panic>>
         \/ /\ lazy[p] /\ g * PGSIZE < sz[p] /\ free # {}
            /\ Store(p, IF mapped.ok THEN mapped ELSE Kfree(mapped, {Frame(m)}))
            /\ killed' = [killed EXCEPT ![p] = @ \/ ~mapped.ok]
  /\ UNCHANGED <<kstack, sz, lazy, state>>

\* fork: into an unused slot, with a kernel stack and a copy of the memory.
Fork(p, c) ==
  /\ Calls(p) /\ state[c] = "unused" /\ free # {}
  /\ LET m == Copyuvm(Take(Mem), pt[p], sz[p]) IN
       \/ /\ m.ok
          /\ Store(c, m)
          /\ kstack' = [kstack EXCEPT ![c] = Frame(Mem)]
          /\ sz' = [sz EXCEPT ![c] = sz[p]]
          /\ lazy' = [lazy EXCEPT ![c] = FALSE]
          /\ state' = [state EXCEPT ![c] = "live"]
       \/ /\ ~m.ok
          /\ Store(c, Kfree(m, {Frame(Mem)}))
          /\ UNCHANGED <<kstack, sz, lazy, state>>
  /\ UNCHANGED killed

\* exec: a new page table with the segments, a guard page and a stack; it
\* replaces the old one, or is freed if memory runs out or the file or the
\* arguments are bad (usable is FALSE).  When allocuvm has left out a page:
\* loaduvm panics if it has to load it; for the stack page copyout follows a
\* null pte, and whatever that finds makes exec fail or write anywhere.
Exec(p, usable) ==
  LET size == (ImagePages + 2) * PGSIZE
      k == Setupkvm(Mem)
      image == Allocuvm(k, 0, ImagePages * PGSIZE)
      stack == Allocuvm(image, ImagePages * PGSIZE, size)
      done == IF image.ok THEN stack ELSE image
      built == k.ok /\ done.ok /\ usable
      stacked == done.pt.pte[ImagePages + 1] # 0
      new == [done EXCEPT !.pt.guard = {ImagePages}]
      old == [new EXCEPT !.pt = pt[p]]
  IN
  /\ Calls(p)
  /\ \/ /\ built /\ stacked
        /\ Store(p, [Freevm(old) EXCEPT !.pt = new.pt])
        /\ sz' = [sz EXCEPT ![p] = size]
     \/ /\ k.ok /\ ~(built /\ stacked)
        /\ Store(p, [Freevm(done) EXCEPT !.pt = pt[p]])
        /\ UNCHANGED sz
     \/ /\ k.ok /\ image.ok /\ \E g \in 0..(ImagePages - 1) : image.pt.pte[g] = 0
        /\ Store(p, [image EXCEPT !.pt = pt[p], !.panic = "loaduvm"])
        /\ UNCHANGED sz
     \/ /\ built /\ ~stacked
        /\ Store(p, [done EXCEPT !.pt = pt[p], !.panic = "copyout"])
        /\ UNCHANGED sz
     \/ /\ ~k.ok
        /\ Store(p, [k EXCEPT !.pt = pt[p]])
        /\ UNCHANGED sz
  /\ UNCHANGED <<kstack, lazy, killed, state>>

\* exit; process 1 stands for init, which never does.
Exit(p) ==
  /\ Running(p) /\ p # 1
  /\ state' = [state EXCEPT ![p] = "zombie"]
  /\ UNCHANGED <<free, cnt, pt, kstack, sz, lazy, killed, panic>>

\* wait, when it finds the zombie c.
ReapStack(m, f) == Kfree(m, {f})
Wait(c) ==
  /\ panic = "none" /\ state[c] = "zombie"
  /\ Store(c, Freevm(ReapStack(MemOf(c), kstack[c])))
  /\ kstack' = [kstack EXCEPT ![c] = 0]
  /\ killed' = [killed EXCEPT ![c] = FALSE]
  /\ state' = [state EXCEPT ![c] = "unused"]
  /\ UNCHANGED <<sz, lazy>>

Step ==
  \E p \in Procs :
    \/ Exit(p) \/ Wait(p)
    \/ \E n \in mach.deltas : Sbrk(p, n)
    \/ \E t \in BOOLEAN : SetPageAllocator(p, t)
    \/ \E g \in Pages : PageFault(p, g)
    \/ \E c \in Procs : Fork(p, c)
    \/ \E u \in BOOLEAN : Exec(p, u)

Next == Step /\ UNCHANGED mach

Spec == Init /\ [][Next]_vars

-----------------------------------------------------------------------------
(* Properties *)

\* What a process uses frames for, and the frame it has there.
Places == ({"kstack", "dir", "ktab"} \X {0}) \cup ({"tab"} \X (0..(NPDE - 1))) \cup ({"pte"} \X Pages)
FrameAt(p, u) == CASE u[1] = "kstack" -> kstack[p]
                   [] u[1] \in {"dir", "ktab"} -> pt[p][u[1]]
                   [] u[1] \in {"tab", "pte"} -> pt[p][u[1]][u[2]]
Uses(f) == {x \in Procs \X Places : FrameAt(x[1], x[2]) = f}

\* A frame is never in use twice, nor both free and in use: no process sees
\* another's memory, and kfree never gets a frame that is still mapped.  And
\* free_frame_cnt is the number of free frames, through every error path.
NoSharing == \A f \in Frames : Cardinality(Uses(f)) <= (IF f \in free THEN 0 ELSE 1)
FramesExact == NoSharing /\ cnt = Cardinality(free)

\* Memory for as many processes as there are, and for one exec on top; the
\* default allocator.
Enough == NPROC * (3 + NPDE + NPT * NPDE) + 2 + NPDE + ImagePages + 2
Plain == ~mach.lazy /\ mach.frames >= Enough

\* README.md: "Enhanced physical memory tracking to prevent leaks".  Every
\* frame is free or in use, as long as there is memory enough.
NoLeak == Plain => \A f \in Frames : f \in free \/ Uses(f) # {}

\* With the default allocator and memory enough, a process has every page below
\* its size and none above it, after any sequence of growing and shrinking by any
\* amounts (deallocuvm: "bring the process size from oldsz to newsz"), and mappages
\* never finds a page mapped already ("remap").  The exception is sbrk(-sz):
\* growproc takes deallocuvm's new size 0 for a failure, so the process keeps its
\* size without a single page, and can only fault.
PagesMatchSize ==
  Plain =>
  /\ panic # "remap"
  /\ \A p \in Procs : state[p] = "live" =>
       \/ \A g \in Pages : pt[p].pte[g] # 0 <=> g * PGSIZE < sz[p]
       \/ p # 1 /\ \A g \in Pages : pt[p].pte[g] = 0

\* copyuvm finds every page of the parent ("copyuvm: pte should exist",
\* "copyuvm: page not present").
AllPagesToCopy == panic # "copyuvm"
=============================================================================
