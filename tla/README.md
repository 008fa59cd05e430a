# TLA+ models of the kernel

This directory holds a verification development for the kernel in `src/`: xv6
for x86 with the changes of a course project (a count of free frames, a lazy
page allocator chosen per process, stubs for shared memory). TLA+ modules model
its components, together with the shell and with the program that makes its file
system; TLC checks them on small instances. TLAPS proves, for every size, the
invariants of the process table, the console, the pipes, the redo log and the
buffer cache, and that the last three implement a queue, an atomic disk and a store
of blocks.
`PROJECT.json` is the index: components, runs, seeded faults, the source lines
of every definition, hazards and theorems.

    tlc -workers 2 -config MCProc.cfg MCProc      # model-check one run
    tlapm ProcProofs.tla                          # check the proofs of one module

## The system and its parts

| Part | Source | State | Operations | Module |
|---|---|---|---|---|
| processes, scheduler | `proc.c`, `swtch.S` | `ptable`, per-CPU `proc`, `nextpid` | fork, exit, wait, kill, sleep, wakeup, yield, sched, scheduler | `Proc` |
| traps, clock | `trap.c`, `sysproc.c` | `ticks`, `tickslock`, `killed` | system-call entry, timer interrupt, faults, sys_sleep | `Proc`, `VM` |
| frames, page tables | `kalloc.c`, `vm.c`, `exec.c` | free list, `free_frame_cnt`, page tables, `sz` | kalloc, kfree, allocuvm, deallocuvm, copyuvm, freevm, exec | `VM` |
| page allocators | `sysproc.c`, `trap.c`, `proc.c` | `page_allocator_type` | set_page_allocator, sbrk, page fault | `VM` |
| redo log | `log.c` | `log`, log blocks on disk | begin_op, log_write, end_op, commit, recovery | `Log`, `LogSpace` |
| buffer cache, disk | `bio.c`, `ide.c` | buffers, LRU list, `idequeue` | bread, bwrite, brelse, iderw, ideintr | `Bio` |
| pipes | `pipe.c` | ring buffer, open flags | pipewrite, piperead, pipeclose | `Pipe` |
| spinlocks | `spinlock.c` | owner, `ncli`, `intena`, the interrupt flag | acquire, release, pushcli, popcli | `Spin` |
| console | `console.c`, `trap.c` | input ring, cursor | consoleintr, consoleread, consolewrite, cgaputc | `Console` |
| i-nodes, directories | `fs.c`, `sysfile.c` | `icache`, i-nodes and directories on disk | iget, iput, ilock, namex, create, open, link, unlink, chdir | `FileSys` |
| contents of files | `fs.c` | bitmap, `addrs`, indirect blocks | balloc, bfree, bmap, itrunc, readi, writei | `Inode` |
| file table, descriptors | `file.c`, `sysfile.c` | `ftable`, `ofile` | filealloc, filedup, fileclose, fileread, filewrite, sys_dup, sys_pipe | `Files` |
| file system image | `mkfs.c` | the image | ialloc, iappend, balloc | `Mkfs` |
| shell, init, cat, echo | `sh.c`, `init.c`, `cat.c`, `echo.c` | commands, processes, descriptors | parsecmd, runcmd, getcmd, the loops of init and the programs | `ShParse`, `Shell` |
| user allocator | `umalloc.c` | circular free list | malloc, free | not modelled |
| shared memory | `sysproc.c` | none | shmget, shmdel are stubs | no state |
| boot, interrupt controllers, strings, other user programs | several | | | not modelled |

The parts meet in six places. Everything that blocks goes through `sleep` and
`wakeup` of `proc.c`: `Proc` models these two in full, with `wait` and
`sys_sleep` as users; the other modules model a sleeping process by its place in
the code and a wakeup by moving the sleepers of a channel back into their loop.
The file system runs inside `begin_op`/`end_op` on buffers: `Log` abstracts the
cache to "cached or not, dirty or not", and `Bio` models the cache in detail.
Frames pass between `fork`, `exec`, `sbrk`, page faults and `wait`: one module,
`VM`. Open files join descriptors to i-nodes and pipes: `Files` models the table,
with a pipe reduced to its two open flags and an i-node to its counts and its
blocks; `Pipe` and `FileSys` model what is behind. `Files` starts from the image
that `Mkfs` computes. Locks, interrupts and the scheduler meet wherever a process
sleeps: `Console` composes `Spin`, the console, the keyboard and timer interrupts,
`sleep`, `sched` and the scheduler's loop, one instruction that another CPU or an
interrupt can see at a time. And the system calls meet in the shell: `Shell` runs
`fork`, `wait`, `pipe`, `dup`, `open` and `close`, each as one step, in the order in
which `sh.c` issues them.

## Modules

**Proc.** A process is a slot of `ptable`. `stack[c]` is the kernel stack CPU `c`
executes on (0 is its scheduler's), `lock` and `tlock` are the CPUs holding
`ptable.lock` and `tickslock`, `pc[p]` and `ret[p]` tell where the kernel code of
a process stands and where it goes on once `sched` returns. One step is one
stretch of code between two points where another CPU can interfere: a critical
section is one step, the work of `allocproc` and `fork` outside the lock is
another. `Run`, `Swtch`, `SchedReturn` and `EndPass` are the two halves of the
two `swtch` calls, with `ptable.lock` held across them and released by whoever
comes out at the other side; label `sched` is where `sched` makes its assertions, `swtch`
where the context has been saved. `Tick` and `TickWakeup` are the two halves of the
clock interrupt on CPU 0, `Timer` the interrupt on another CPU; they happen
wherever interrupts are on, in the middle of `fork` as well as in user code.
`sys_sleep` keeps the number of ticks left rather than `ticks` and `ticks0`.
A failing kernel-stack allocation or page copy in `fork` is a choice. init forks
again when its fork fails, whereas `init.c` exits and the kernel panics: the model
only has additional behaviours after that point. `exit` of init is a panic, so
`Exit` is not a step of init.

**Log, AtomicDisk.** Blocks hold values; `disk`, `dlog` and `dhead` survive a
crash, everything else is lost in one. `commit` and `recover_from_log` are split
into one step per disk write, and `Crash` may come between any two of them.
`AtomicDisk` says what the log promises: operations write, a commit makes all
writes so far durable at a moment with no operation active, a crash goes back to
the last commit. `Log` implements it under the mapping *durable = disk after
replaying the log on it*, *volatile = what bread returns*.

**LogSpace.** The counters of the log with the sizes of `param.h` and `mkfs.c`.
`log_write` is two steps because it checks for space before it takes `log.lock`; the
block it logs is new, or absorbed. Operations may log more than they should: `over` is
a history variable that says that one of the transaction has.

**Bio, BlockStore.** Buffers with their flags, the LRU list, the disk queue. bget,
iderw, ideintr and brelse are one step per critical section of `bcache.lock` or
`idelock`; both kinds of sleepers use the buffer as channel, as in the code, and test
again what they wait for. A caller that holds two buffers at a time counts as two
processes. `bget`'s panic is a step that changes nothing.
`BlockStore` says what `bread` and `brelse` promise: one owner per block, who
sees what was last written.

**Pipe, ByteQueue.** The ring buffer with counters modulo `Width` (2^32 in the
code), readers and writers that take `p->lock`, and `kill`, which does not take
it. `sleep` is a step of its own, so a kill can come between the test of
`killed` and falling asleep. `ByteQueue` is a bounded queue.

**FileSys.** The i-node cache, i-nodes and directories on disk, and the system
calls on path names. A step is one critical section of `icache.lock`, together
with what the process does before the next one to data it alone may touch (it
holds the i-node's lock, or works on its own variables). `pr[p]` has the pointers
to cache entries that the call in progress holds (`np` is namex's `ip`, `put` the
entry being put), the current directory and one open file; `chan[p]` the entry it
sleeps on in `ilock`. All calls run `namex` through the same actions. A panic stops
the machine, so the run is not checked for deadlock by TLC: `NobodyStuck` says
what matters. `Calls` has a set of calls for each of three scenarios, which the
run explores in turn: a directory and a file in it; a file with several names; a directory in
a directory and paths through "..".

**Inode.** `bmap`, `balloc`, `itrunc`, `readi` and `writei` as operators on the data
area of the disk and one i-node. The unit is a word of the size of a block
number.

**Files.** Descriptors, the file table, and the contents of files below it. The
steps are the critical sections of `ftable.lock` and the holds of an i-node's
lock; `fileclose` is two, since it lets go of the pipe end or the i-node after
releasing the lock, from a copy. A write is one step per chunk of `filewrite`. A
program that writes puts into each place of a file a word that tells file and
place, so a misplaced word shows. `Programs` names sets of system calls, of which
the programs of one run use one: the instance explores each set, not their
mixture.

**VM.** Frames are numbers, a page table is a record of the frames for the
directory, the kernel's tables, the user's tables and the pages, and the set of
pages without `PTE_U`. The functions of `vm.c` are operators on a record of the
allocator and one page table, with every failure path of the code; the actions
are the system calls, the page fault, and `wait`'s freeing. An address counts in
units of which `PGSIZE` make a page, so unaligned sizes occur, and arithmetic
wraps at twice `KERNBASE`. A process makes system calls as long as its first page is
there; without it, it only faults. A system call is one step: every process changes only
its own page table, and the allocator's lock makes the order of single kallocs
irrelevant to the properties.

**Mkfs.** The functions of `mkfs.c` as operators on a record of i-nodes, data blocks
and the two counters from which it allocates. It has its own code for laying out
files, different from the kernel's; `Files` starts from its result, with the root
directory and one file that is long enough to have an indirect block.

**Spin.** A lock is the CPU that holds it; `iflag`, `ncli` and `intena` are per CPU.
`acquire` is two steps, `pushcli` and the `xchg` that finds the lock free.

**Console, Terminal.** What CPU `c` executes is given by three layers: `kb[c]`, the
keyboard handler on top of whatever it interrupted; else `cur[c]`, a process at its
label `pc`; else the scheduler at `sp[c]`. `saved[p]` is the local `intena` of `sched`,
which travels with the process to another CPU while `cpu->intena` stays. `under[p]`
is where the timer interrupted a process, in user mode or inside a system call. Any
runnable process may be picked, which abstracts the order that `Proc` models. All
who sleep here do so in `consoleread`, so `wakeup` wakes every sleeper. A kill is
one step of some other process. `exit` is reduced to taking `ptable.lock` and never
coming back. `Terminal` says what the input ring promises: a line that is edited,
and a queue of characters that are ready.

**ShParse.** The parser on sequences of tokens; a word is a token, as `gettoken`
makes it. The parsing functions call each other as in `sh.c`, through one recursive
function of parser and position. The second half of the module is the language the
shell accepts, as a grammar that cuts the tokens into parts, with which the parser
is compared. MAXARGS is modelled, `nulterminate` is not.

**Shell.** A process is the instructions it still has to execute, its descriptors and
its place: the number of the line and the way down the parsed command (`l` and `r`
for the sides of a pipe, `L` and `R` of a list, `d` inside a redirection, `b` in the
background). `runcmd` maps a command to instructions; each system call is one step
and all processes interleave. An open file or pipe is named after the place that
made it, so a descriptor can be compared with what the line says. Files and pipes
count their data. `fork` fails when there is no slot and `pipe` when there is no
memory, as the script of an instance says. The line `^D` is the end of the input; the
empty line is a bare newline, for which the shell forks a child that exits.

`MCProc`, `MCLog`, `MCLogSpace`, `MCPipe`, `MCBio`, `MCVM`, `MCFileSys`, `MCFiles`,
`MCConsole` and `MCShell` instantiate them. `MCLog`, `MCPipe`, `MCBio` and `MCFileSys` use symmetry,
in runs that check no liveness.
`MCVM` uses the view `Shape`: frames have no contents, so which of them is used
where does not matter, and states that differ in this alone are visited once.
`MCFileSys` and `MCFiles` do the same for entries of the i-node cache and of the
file table, i-node numbers and block numbers; the invariants that could tell such
states apart are part of the view. `MCConsole` uses a view that leaves out what no
code will read any more, such as the locals of a call that has returned, and which
of two processes that may do the same is which. `MCProc` does so too, in the run
without liveness: whether a process that exits was killed, for one, or the position of
a scheduler loop apart from the process it runs next. `MCBio` leaves out data
that will be overwritten before it is read, and names a buffer by its place in the list.

## Runs

| Run | Instance | What it shows |
|---|---|---|
| `proc` | 4 slots, 2 CPUs, 4 pids, all of fork, wait, kill(2), exit, faults, and `sys_sleep` of pid 3 (`SleepPids`) | a kernel stack is used by one CPU and not freed in use; `sched` is entered as it asserts, with `ptable.lock` alone and no longer RUNNING; no process has a dead parent; no parent sleeps with a zombie child, init with adopted ones included, and no kill is missed by `wait` |
| `proc_live` | 3 slots, 1 CPU, with `sys_sleep` of pids 2 and 3 and the clock | no tick is missed; runnable processes run, killed ones die, orphans are reaped |
| `log` | 2 processes, 3 blocks, 2 values, log of 6 | crash-atomicity as refinement of `AtomicDisk`; ended operations survive once the commit is over |
| `log_space` | 3 processes, 10/30/30 as in `param.h`, up to 16 blocks per operation, as `filewrite` makes them | while operations keep to nine blocks each, `log_write` finds room before and after it takes the lock; someone who waits in `begin_op` is admitted |
| `pipe` | 2 readers, 1 writer, 2 byte values, ring of 2, counters modulo 4, up to 3 bytes per call, everybody may be killed | refinement of `ByteQueue`; sleepers are woken; end of file only when closed and empty; the page is freed when, and only when, unused |
| `bio` | 2 processes, 4 blocks, 3 buffers; up to two of them pinned, or reads that fail | refinement of `BlockStore`; one buffer per block and one owner per buffer, nobody waits for a free one; `bget` panics only when buffers held and pinned are all there are |
| `vm` | 2 processes; 6 pages in 3 tables, 32 frames, default allocator; and 4 pages in 2 tables, 13 frames, lazy allocator | with memory to spare no frame is lost and exactly the pages below `sz` are mapped; always, no frame is used twice or both used and free, and `free_frame_cnt` is exact, when allocations fail at every point |
| `vm_fork` | lazy allocator, memory to spare | *violated*: see observation 3 |
| `filesys` | 2 processes, 3 i-nodes, 2 names, three sets of five to eight calls in a tree of depth 2 | `ref` is the number of pointers held; the cache has an i-node once and agrees with the disk; links are never fewer than names; the last `iput`, and no other, frees an i-node; nobody sleeps for a free lock, and locks are never waited for in a circle; no panic, but for ".." of a removed directory (observation 13) and a disk without free i-nodes |
| `files` | the image of `mkfs` with one file; 2 processes with 2 descriptors, 3 open files, 3 i-nodes with 1 direct block and 2 indirect ones, 11 blocks, writes of 6 words in chunks of 3 | `f->ref` and `ip->ref` are exact, also when `open`, `pipe` or `fork` fail half-way or interleave, and i-nodes are truncated with the last use; every block in use has one place in one file; files read back as written, by `mkfs` or by programs; no panic |
| `console` | 2 CPUs, 2 processes, ring of 2, counters modulo 4, a screen of 2 by 2; two readers, or a single process that reads, writes and is killed | no assertion of `spinlock.c`, `sched` or `cgaputc` fails; the interrupt flag is restored across sleep, yield and migration; nobody sleeps in `consoleread` with input there; the ring implements `Terminal` |
| `shell` | every line of up to 3 tokens, and 13 scripts of longer lines, some with too few processes or pipes; up to 7 processes, pipes that hold 1 | the parser agrees with the grammar; each program starts with exactly the descriptors its line gives it; the right side of `;` waits for the left; every line ends and the prompt comes back |

Why the bounds are enough to be interesting: four slots are needed for a zombie
whose grandparent is not init (only then does `exit` wake init separately); four
pids let a slot be reused; 4 blocks over 3 buffers force recycling, and with two
buffers pinned and one held there is none left; a ring of 2 with calls of 3 bytes makes a writer
sleep in the middle of a call and the counters wrap; the log holds two
operations' worth of blocks, so admission, absorption and waiting all occur; 13
frames are fewer than two programs need, so `setupkvm`, `allocuvm`, `copyuvm`,
`exec` and the page-fault handler each fail at each of their allocations. Three
i-nodes and two names make a directory with a file or a directory in it, or a second
link, and can run out;
writes of 6 words fill a file to its maximum, over the direct block and the
indirect ones, and start in the middle of a block; 3 files for 2 processes with 2
descriptors run out, and so do descriptors. A ring of 2 is full after two letters, so
a line without a newline is handed over and the counters wrap; two CPUs let a
process sleep on one and go on on the other, while the keyboard interrupts only the
first; a screen of two columns and two rows scrolls with every other character.
Lines of three tokens have every pair of symbols next to each other; the longer
ones nest a block in a pipeline, a list in a block, redirections of a block, and a
background pipeline inside a block; pipes that hold one write make writers wait.

Every property of a passing run has a seeded fault (the definitions with an
underscore in their names): a change to one definition, of the kind a slip in
the code would be, under which TLC finds the property violated.

### Fairness

* `Proc`: every CPU goes on executing, a spinlock that is free again and again is
  eventually got, and timer interrupts keep coming (strong fairness, since a
  spinlock or an interrupt window is not enabled continuously). Nothing makes a
  user program do a system call, except that init calls `wait` for ever
  (`init.c`).
* `LogSpace`: a process in `begin_op` goes on when it can and a commit ends (weak
  fairness); an operation ends, since none calls `log_write` for ever (strong fairness
  of `EndOp`, which a call of `log_write` in progress disables). Idle processes may stay
  idle.
* `Shell`: a process that can go on does, which `RunnableRuns` of `Proc` justifies;
  a pipe wakes its readers and writers (`NoMissedWakeup` of `Pipe`), `wait` the parent
  (`NoMissedWakeup` of `Proc`). The user types only what the script says.

## Proofs

Eight modules hold theorems, each about the module whose name it starts with. All are
for any value of the constants that satisfies the named assumptions of the model.
What the code answers with a panic is a step that is not taken; the theorems about
panics say that the guard holds.

| Module | Theorem | Statement |
|---|---|---|
| `ProcProofs` | `TypeCorrect`, `StacksSafe`, `SchedNeverPanics` | `Spec => []TypeOK`, `[]KernelStacksSafe`, `[]SchedAssertions` |
| `ProcWaitProofs` | `ParentsAlive`, `WaitMissesNothing`, `SleepMissesNoTick` | `Spec => []ParentAlive`, `[]NoMissedWakeup`, `[]NoMissedTick` |
| `ConsoleProofs` | `InterruptsAreRestored`, `NoInputMissed`, `LocksNeverPanic` | `Spec => []InterruptsRestored`, `[]NoMissedInput`, `[]LocksSafe` (the part of `NoPanic` about locks and `sched`) |
| `PipeProofs` | `NobodyForgotten`, `FreedWhenUnused`, `EofIsTheEnd`, `RingIsQueue` | `Spec => []NoMissedWakeup`, `[]FreedUnused`, `EofOnlyWhenClosed`, `QueueSpec` |
| `LogProofs` | `EndedOpsAreDurable`, `LogIsAtomic` | `Spec => []EndedIsDurable`, `AtomicSpec` |
| `LogSpaceProofs` | `NeverTooBig` | `Spec => []NoTooBig` |
| `BioProofs` | `OneOwner`, `CacheIsStore`, `NeverPanics` | `Spec => []OneBufferOneOwner`, `StoreSpec`, `[]NoPanic` |

Each module but `ProcWaitProofs` and `ConsoleStepProofs`, the lower half of
`ConsoleProofs`, also has a theorem `Invariance`, which states the inductive invariant
`IInv`. There is one lemma per action, with one step per conjunct that the action can
disturb, and for a refinement a second one, which says which step of the abstract
specification the action is. The modules begin with `USE Zenon`, and name SMT in the
leaves that need it: that is faster, and keeps every leaf well below its time limit.

**Processes.** `KernelStacksSafe` is not inductive: that a CPU cannot pick up a process
whose stack is in use follows from where contexts are saved and who holds
`ptable.lock`. `IInv` adds: a process is on a CPU's stack
exactly when it is RUNNING, or when it is in `sched` with that CPU holding
`ptable.lock` (`OnCpu`); a CPU runs on one stack (`OneCpu`); a used slot has a
stack (`HasStack`); a process on no CPU has left through `swtch`, with a continuation
(`Suspended`); one that is in `sched` and has not is on the CPU that holds
`ptable.lock`, and not RUNNING (`Leaving`); `ptable.lock` is held by the CPU that is in `sched`, in the
scheduler's loop or in `wait`'s rescan, `tickslock` by the one in the clock
interrupt or between `sys_sleep` and `sleep` (`LockHeld`, `TickLockHeld`); the slot
a `fork` fills belongs to that fork alone (`Embryos`). `ProcWaitProofs` adds what
parents and sleepers need: init is alive and without a parent, nobody is their own
parent, and who is about to `sleep` in `sys_sleep` has time left. Most steps are quiet
(nobody changes parent, dies or falls asleep), and one lemma covers these; what remains
is `exit`, `wait`, `kill`, the two sleeps and the tick.

**Console.** What the interrupt flag will be after a `popcli` depends on the depth and
on `intena`, which depend on where the CPU is, and for a process that comes back from
`sched` on what it saved on another CPU. `IInv`, in
`ConsoleStepProofs`, says for each label which locks the CPU holds, its depth of `pushcli`,
its flag and its `intena` (`Local`); that the handler runs only on top of code that
holds nothing, and a process runs out of a pass of its scheduler (`Placed`), on one
CPU (`OneCpu`); and what a process that is on no CPU has saved (`Suspended`): TRUE
when it sleeps, FALSE when it yielded in an interrupt handler. A process about to
sleep has seen an empty ring that stays empty until it is SLEEPING, which is why no
input is missed. Four lemmas say what `pushcli`, `acquire`, `release` and `sti` do to
one CPU; two (`ProcMove`, `CpuMove`) say that a step of one CPU leaves the others'
part of the invariant alone. The lemmas about the keyboard handler and the system
calls are in `ConsoleStepProofs`, those about the scheduler in `ConsoleProofs`.

**Pipes.** The counters wrap at `Width`, which need not be 2^32 but must be a multiple
of `PIPESIZE` and larger, as it is in the code: `WrapKeepsSlot` shows that the slot
`nwrite % PIPESIZE` is then the one a counter that does not wrap would give, and
`NearSlotsDiffer` that a byte is not overwritten before it is read. There is at least one
reader and one writer, who have the two descriptors that `pipealloc` makes. `IInv` says
that the counters are at most `PIPESIZE` apart, who has the lock, who is left at
an open end, and that what a process saw before `sleep` still holds when it gets there:
`sleep` takes `ptable.lock` before it lets go of `p->lock`.

**Log.** `IInv` follows the transaction through its phases: operations run only when
there is neither commit nor recovery (`Phases`), the header on disk is empty, or is
the one in memory between the two `write_head`s (`Headers`), exactly the blocks that are
not home yet are dirty (`Pinned`) and in the cache (`Coherent`), and the loops of
`write_log` and `install_trans` have copied what is behind them (`Copied`). The last two make
a crash in the middle harmless: what is home is in the log as well, so replaying the
log again changes nothing.

**LogSpace.** The invariant counts pairs of an operation and a block that `begin_op` has
reserved for it and it has not logged; with those already logged they never exceed
LOGSIZE, until an operation exceeds its share (`Room`). The share is MAXOPBLOCKS - 1,
one less than what `begin_op` reserves, because the header takes one of the LOGSIZE
blocks (observation 1). There is no assumption on the sizes, nor on how much operations log.

**Bio.** `IInv` says that a block has one buffer and the LRU list all of them, what `bp`
means at each label, that a busy buffer has one owner, that the disk queue is the
sleepers of `iderw`, once each, and how B_VALID and B_DIRTY go with
labels and with the disk's contents. For `CacheIsStore`, `View` replaces the CHOOSE of the
refinement mapping by what it picks. For `bget`'s panic, `FewKept` counts the buffers
that stay dirty when nobody writes them, at most as many as the log pins: when none can
be recycled, every buffer is one of these or held (`HeldOrKept`). `param.h` has as many
buffers as log blocks, so the code rests here on few operations being that long.

Only model-checked: liveness (out of the prover's reach); `NoPanic` of the console as far
as it is about the cursor, and its refinement of `Terminal`; all of `VM`, `FileSys`,
`Files`, `ShParse` and `Shell`. `VM`, `Inode`, `Mkfs` and `ShParse` compute over sequences of
pages, words and tokens, whose effect for every length needs induction over data.

## Observations

What the models showed about the code, where it differs from what its comments,
assertions or documentation say. The third is a run; the others were found with
the models and can be reproduced by changing an instance as described.

1. `log.c:215`: `log_write` checks for space before it takes `log.lock`, and
   `begin_op` admits against `LOGSIZE` (30) although the log has 29 data blocks
   (`mkfs.c:25` counts the header). Three operations of `MAXOPBLOCKS` blocks can
   panic with "too big a transaction", or two of them pass the check for the last
   block and the commit writes one block past the log, where `mkfs.c:21` puts the
   i-nodes: `n <= NLOG - 1` is violated in `MCLogSpace`, with `OpBlocks` 10 already.
   `NoTooBig` therefore promises nine blocks, not ten.
2. `pipe.c:85`, `pipe.c:106`: `killed` is tested under `p->lock`, `kill` does not
   take it, so a kill just before `sleep` wakes nobody and the process stays in
   the pipe, although `proc.c:457` says "Wake process from sleep if necessary".
   `wait` is not affected, it tests under `ptable.lock`.
3. `vm.c:321`: `fork` of a process with untouched lazy memory panics in
   `copyuvm`. (`vm_fork`)
4. `pipe.c:85`: a killed writer returns from a full pipe without waking readers
   that went to sleep before it wrote. `NoMissedWakeup` states the exception.
5. `proc.c:455`: `kill` finds UNUSED slots by the pid a failed fork leaves in them,
   and `allocproc` does not clear `killed`.
6. `trap.c:71`: with the lazy allocator a fault on the guard page of `exec` ends in
   panic("remap"). Reachable with the lazy allocator in `vm`, where it is not
   checked.
7. `vm.c:262`: `deallocuvm` skips a whole table's worth of pages from wherever it
   is, so shrinking over a hole can leave pages above the new size.
8. `proc.c:143`: `sbrk` of minus the whole size frees every page, then fails and
   leaves `sz` as it was; `sbrk` below that succeeds and does nothing. `PagesMatchSize`
   states the exception.
9. `vm.c:240`: `allocuvm` ignores a failing `mappages`; `loaduvm` may then panic.
   `vm.c:140` and `vm.c:329`: frames are lost when `setupkvm` or `copyuvm` fails.
   So `NoLeak` and `PagesMatchSize` are checked with memory to spare.
10. `ide.c:114`: after a failed read the buffer is marked valid with old contents.
11. `file.c:132`: a chunk of `filewrite` can log 16 blocks; `begin_op` reserves 10.
    `log_space` has such operations, and `NoTooBig` makes no promise once one of
    them has added more than nine blocks.
12. `sysfile.c:245`, `sysfile.c:141`: `nameiparent` returns a directory unlocked, and
    `create` and `link` do not look whether it was removed meanwhile. What is
    created there has a link and no name, and is never freed.
13. `sysfile.c:210`: a directory that is somebody's current directory can be
    removed; its ".." stays without being counted, so its parent can be removed
    and freed too, and looking up ".." then ends in panic("ilock: no type")
    (`fs.c:293`), or, when the i-node was allocated again, in another directory. `filesys`
    reaches both, and `NoPanic` states the exception.
14. `fs.c:324`: an i-node that is unlinked while open is freed by the last `iput`;
    after a crash before that, it has no link and nothing frees it.
15. `mkfs.c:161`: the size of the root directory is rounded up to the *next* block
    boundary, so when its entries fill the last block exactly (32 entries a block),
    the size covers a block that was never allocated, and reading the directory to
    its end allocates it. With `OneFile == <<3, 1>>` and another i-node
    in `MCFiles`, `ReadsBack` is violated in the initial state.
16. `init.c:25`: when its fork fails, init exits, and `exit` panics (`proc.c:209`).
    `PromptReturns` states the exception.
17. `sh.c:111`: when the second fork of a pipeline fails, the shell's child exits
    without waiting for the first, which goes on as an orphan; the right side of a
    list or the next prompt may then overlap it. `ListInOrder` states the exception.
18. `sh.c:345`: `a & b` is a syntax error, a background command ends its line or is
    followed by `;`. `sh.c:84`: of two redirections of one descriptor the last on the
    line is carried out first, and the first one stays. `sh.c:392`: `>>` does the same
    as `>`, and neither truncates.
19. `README.md:18` of the repository lists `shmget` and `shmdel` as implemented;
    both are stubs.

## Not modelled

* Contents of memory, formatted output, device registers, key codes and the serial
  port: data and I/O that no property here tells apart.
* Boot and machine discovery, interrupt controllers and the assembler entry code: they
  run once, before there is concurrency, or consist of device set-up.
* `umalloc.c`, `ulib.c`, `printf.c` and the other user programs: sequential code of one
  process, and clients that make the calls the models enumerate. `usertests.c` and
  `proj3_test.c` are tests. `string.c` has no state.
* Devices behind `readi` and `writei`; the fetching of system-call arguments; page
  faults taken in kernel mode; wrapping of `ticks` and `nextpid`. A system call's
  accesses to user memory are part of its step.
* Crashes of whole file-system calls: `Log` covers crashes between disk writes, but
  `FileSys` runs without them.

What would come next: `FileSys` on top of `AtomicDisk`, to state which i-nodes a crash
can leave behind, and proofs of the reference counts of `FileSys` and of the refinement
of `Terminal` by `Console`.
