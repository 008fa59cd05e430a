---------------------------------- MODULE Shell ----------------------------------
(***************************************************************************)
(* User processes: init (init.c), the shell (sh.c) and the programs cat and *)
(* echo that it runs, with the system calls they make: fork, exit, wait,    *)
(* open, close, dup, pipe, read, write.  A line that is typed is parsed     *)
(* (ShParse) and becomes a tree of processes whose descriptors runcmd wires *)
(* up one system call at a time, while the others run.                      *)
(*                                                                          *)
(* A process is the instructions it has still to execute, its descriptors,  *)
(* and the place of the command it runs: the number of the line, then the   *)
(* way down the command.  What a descriptor refers to is named after the    *)
(* place that made it.  Data is counted, not stored.                        *)
(***************************************************************************)
EXTENDS ShParse, Functions

CONSTANTS Scripts,      \* what may be typed: see script
          NPROC,
          PIPESIZE,     \* what a pipe holds
          MAXFD         \* descriptors are 0..MAXFD - 1

VARIABLES script,       \* lines: what is typed; slots, pipes: how many processes
                        \* and pipes there is room for
          typed,        \* how many lines have been read
          proc,         \* the processes: a function of slots
          pipes,        \* what is in each pipe
          files, offs,  \* the length of each file; the offset of each open
          said          \* messages of panic and init

vars == <<script, typed, proc, pipes, files, offs, said>>

Slots == 1..NPROC
Live == {p \in Slots : proc[p].state = "live"}
Children(p) == {q \in Slots : proc[q].state # "unused" /\ proc[q].parent = p}
Fds == 0..(MAXFD - 1)

InitProc == 1
Console == <<"console">>
Std == [fd \in 0..2 |-> Console]
Unused == [state |-> "unused", parent |-> 0, code |-> <<>>, fds |-> <<>>, place |-> <<>>]

I(op) == [op |-> op]
InitLoop == <<I("fork sh"), I("wait sh")>>
ShLoop == <<I("getcmd")>>

\* What gets reads when the user types ^D; <<>> is a line with nothing on it.
EOF == <<"^D">>

\* What parsecmd makes of the lines; it reads nothing else.
Parsed == [line \in UNION {Range(g.lines) : g \in Scripts} |-> parsecmd(line)]

\* init has opened the console three times.
Init ==
  /\ script \in Scripts /\ typed = 0
  /\ proc = [p \in Slots |-> IF p = InitProc
                             THEN [Unused EXCEPT !.state = "live", !.code = InitLoop, !.fds = Std]
                             ELSE Unused]
  /\ pipes = <<>> /\ files = <<>> /\ offs = <<>> /\ said = {}

-----------------------------------------------------------------------------
(* Seeded faults: variants of definitions below that the properties reject. *)

\* runcmd, PIPE: the right child keeps the write end.
PipeRight_Open(place, cmd, p0, p1) ==
  <<[op |-> "close", fd |-> 0], [op |-> "dup", fd |-> p0], [op |-> "close", fd |-> p0],
    [op |-> "run", place |-> Append(place, "r"), cmd |-> cmd.right]>>

\* runcmd, PIPE: the parent closes its ends after the waits.
PipeParent_Late(p0, p1) ==
  <<I("wait"), I("wait"), [op |-> "close", fd |-> p0], [op |-> "close", fd |-> p1], I("exit")>>

\* runcmd, LIST: does not wait for the left side.
ListCode_NoWait(place, cmd) ==
  <<[op |-> "fork", place |-> Append(place, "L"), code |-> <<[op |-> "run", place |-> Append(place, "L"), cmd |-> cmd.left]>>],
    [op |-> "run", place |-> Append(place, "R"), cmd |-> cmd.right]>>

-----------------------------------------------------------------------------
(* runcmd: the instructions for a command. *)

Close(fd) == [op |-> "close", fd |-> fd]
Dup(fd) == [op |-> "dup", fd |-> fd]
RunCmd(place, cmd) == [op |-> "run", place |-> place, cmd |-> cmd]
Fork(place, code) == [op |-> "fork", place |-> place, code |-> code]

ListCode(place, cmd) ==
  <<Fork(Append(place, "L"), <<RunCmd(Append(place, "L"), cmd.left)>>), I("wait"), RunCmd(Append(place, "R"), cmd.right)>>

PipeLeft(place, cmd, p0, p1) ==
  <<Close(1), Dup(p1), Close(p0), Close(p1), RunCmd(Append(place, "l"), cmd.left)>>
PipeRight(place, cmd, p0, p1) ==
  <<Close(0), Dup(p0), Close(p0), Close(p1), RunCmd(Append(place, "r"), cmd.right)>>
PipeParent(p0, p1) == <<Close(p0), Close(p1), I("wait"), I("wait"), I("exit")>>

runcmd(place, cmd) ==
  CASE cmd.type = "EXEC" -> IF cmd.argv = <<>> THEN <<I("exit")>> ELSE <<[op |-> "exec", argv |-> cmd.argv]>>
    [] cmd.type = "REDIR" -> <<Close(cmd.fd), [op |-> "open", file |-> cmd.file, mode |-> cmd.mode],
                               RunCmd(Append(place, "d"), cmd.cmd)>>
    [] cmd.type = "LIST" -> ListCode(place, cmd)
    [] cmd.type = "PIPE" -> <<[op |-> "pipe", cmd |-> cmd]>>
    [] cmd.type = "BACK" -> <<Fork(Append(place, "b"), <<RunCmd(Append(place, "b"), cmd.cmd)>>), I("exit")>>

\* cat: copy each file that is named, or the standard input; echo: write each word.
cat(argv) ==
  IF Len(argv) = 1 THEN <<[op |-> "read", fd |-> 0], I("exit")>>
  ELSE [k \in 1..(Len(argv) - 1) |-> [op |-> "cat", file |-> argv[k + 1]]] \o <<I("exit")>>
echo(argv) == [k \in 1..(Len(argv) - 1) |-> I("write")] \o <<I("exit")>>

-----------------------------------------------------------------------------
(* System calls *)

\* The next instruction of a live process is op.
Does(p, op) == proc[p].state = "live" /\ Head(proc[p].code).op = op
Arg(p) == Head(proc[p].code)
Rest(p) == Tail(proc[p].code)
Code(p, code) == proc' = [proc EXCEPT ![p].code = code]

Free(fds) == Fds \ DOMAIN fds
Lowest(S) == CHOOSE x \in S : \A y \in S : x <= y
With(fds, fd, x) == [f \in DOMAIN fds \cup {fd} |-> IF f = fd THEN x ELSE fds[f]]
Put(f, k, x) == [i \in DOMAIN f \cup {k} |-> IF i = k THEN x ELSE f[i]]

\* Whether some process has end e, "r" or "w", of a pipe open
Open(e, pipe) == \E p \in Live : \E fd \in DOMAIN proc[p].fds : proc[p].fds[fd] = <<e, pipe>>
PipesOpen == {x \in DOMAIN pipes : Open("r", x) \/ Open("w", x)}

\* panic: a message and exit
Dies(p, message) == said' = said \cup {message} /\ Code(p, <<I("exit")>>)

\* fork, from fork1: the child starts with code.
Forked(p, q) ==
  proc' = [proc EXCEPT ![q] = [state |-> "live", parent |-> p, code |-> Arg(p).code,
                               fds |-> proc[p].fds, place |-> Arg(p).place],
                       ![p].code = Rest(p)]
Unuseds == {q \in 1..script.slots : proc[q].state = "unused"}
DoFork(p) ==
  /\ Does(p, "fork")
  /\ \/ /\ Unuseds # {}
        /\ Forked(p, Lowest(Unuseds))
        /\ UNCHANGED said
     \/ /\ Unuseds = {}
        /\ Dies(p, "fork")
  /\ UNCHANGED <<script, typed, pipes, files, offs>>

\* exit closes everything and leaves the children to init; runcmd's last
\* command and main's end come here too.
DoExit(p) ==
  /\ Does(p, "exit") /\ p # InitProc
  /\ proc' = [q \in Slots |->
                IF q = p THEN [proc[p] EXCEPT !.state = "zombie", !.fds = <<>>, !.code = <<>>]
                ELSE IF q \in Children(p) THEN [proc[q] EXCEPT !.parent = InitProc] ELSE proc[q]]
  /\ UNCHANGED <<script, typed, pipes, files, offs, said>>

\* wait: takes a child that has exited.  (Each of these calls has a child to wait
\* for: fork1 does not return without one.)
Reaped(p, q, code) == proc' = [proc EXCEPT ![q] = Unused, ![p].code = code]
DoWait(p) ==
  /\ Does(p, "wait")
  /\ \E q \in Children(p) : proc[q].state = "zombie" /\ Reaped(p, q, Rest(p))
  /\ UNCHANGED <<script, typed, pipes, files, offs, said>>

DoClose(p) ==
  /\ Does(p, "close")
  /\ proc' = [proc EXCEPT ![p].fds = Restrict(@, DOMAIN @ \ {Arg(p).fd}), ![p].code = Rest(p)]
  /\ UNCHANGED <<script, typed, pipes, files, offs, said>>

DoDup(p) ==
  /\ Does(p, "dup")
  /\ proc' = [proc EXCEPT ![p].fds = With(@, Lowest(Free(@)), @[Arg(p).fd]), ![p].code = Rest(p)]
  /\ UNCHANGED <<script, typed, pipes, files, offs, said>>

\* open of a redirection: the new descriptor is the lowest, whatever was closed.
DoOpen(p) ==
  LET f == Arg(p).file
      key == Append(proc[p].place, f)
  IN
  /\ Does(p, "open")
  /\ \/ /\ Arg(p).mode = "read" => f \in DOMAIN files
        /\ files' = IF f \in DOMAIN files THEN files ELSE Put(files, f, 0)
        /\ offs' = Put(offs, key, 0)
        /\ proc' = [proc EXCEPT ![p].fds = With(@, Lowest(Free(@)), <<"file", f, key>>), ![p].code = Rest(p)]
        /\ UNCHANGED said
     \/ /\ Arg(p).mode = "read" /\ f \notin DOMAIN files
        /\ Dies(p, "open")
        /\ UNCHANGED <<files, offs>>
  /\ UNCHANGED <<script, typed, pipes>>

DoPipe(p) ==
  LET p0 == Lowest(Free(proc[p].fds))
      p1 == Lowest(Free(proc[p].fds) \ {p0})
      place == proc[p].place
      cmd == Arg(p).cmd
  IN
  /\ Does(p, "pipe")
  /\ \/ /\ Cardinality(PipesOpen) < script.pipes
        /\ pipes' = Put(pipes, place, 0)
        /\ proc' = [proc EXCEPT ![p].fds = With(With(@, p0, <<"r", place>>), p1, <<"w", place>>),
                                ![p].code = <<Fork(Append(place, "l"), PipeLeft(place, cmd, p0, p1)),
                                              Fork(Append(place, "r"), PipeRight(place, cmd, p0, p1))>>
                                            \o PipeParent(p0, p1)]
        /\ UNCHANGED said
     \/ /\ Cardinality(PipesOpen) >= script.pipes
        /\ Dies(p, "pipe")
        /\ UNCHANGED pipes
  /\ UNCHANGED <<script, typed, files, offs>>

\* The switch of runcmd
DoRun(p) ==
  /\ Does(p, "run")
  /\ proc' = [proc EXCEPT ![p].code = runcmd(Arg(p).place, Arg(p).cmd), ![p].place = Arg(p).place]
  /\ UNCHANGED <<script, typed, pipes, files, offs, said>>

DoExec(p) ==
  LET argv == Arg(p).argv IN
  /\ Does(p, "exec")
  /\ Code(p, CASE argv[1] = "cat" -> cat(argv) [] argv[1] = "echo" -> echo(argv) [] OTHER -> <<I("exit")>>)
  /\ UNCHANGED <<script, typed, pipes, files, offs, said>>

-----------------------------------------------------------------------------
(* cat and echo at work *)

\* cat opens a file that it was given and reads it to the end.
DoCat(p) ==
  LET f == Arg(p).file
      key == Append(proc[p].place, f)
      fd == Lowest(Free(proc[p].fds))
  IN
  /\ Does(p, "cat")
  /\ \/ /\ f \in DOMAIN files
        /\ offs' = Put(offs, key, 0)
        /\ proc' = [proc EXCEPT ![p].fds = With(@, fd, <<"file", f, key>>),
                                ![p].code = <<[op |-> "read", fd |-> fd], Close(fd)>> \o Rest(p)]
     \/ f \notin DOMAIN files /\ Code(p, <<I("exit")>>) /\ UNCHANGED offs
  /\ UNCHANGED <<script, typed, pipes, files, said>>

\* read: what comes in is written and read goes on; at the end cat goes on.  At
\* the console the user types ^D.
Got(p) == Code(p, <<I("write")>> \o proc[p].code)
End(p) == Code(p, Rest(p))
DoRead(p) ==
  LET x == proc[p].fds[Arg(p).fd] IN
  /\ Does(p, "read")
  /\ \/ x = Console /\ End(p) /\ UNCHANGED <<pipes, offs>>
     \/ /\ x[1] = "file"
        /\ \/ offs[x[3]] < files[x[2]] /\ Got(p) /\ offs' = [offs EXCEPT ![x[3]] = @ + 1]
           \/ offs[x[3]] >= files[x[2]] /\ End(p) /\ UNCHANGED offs
        /\ UNCHANGED pipes
     \/ /\ x[1] = "r"
        /\ \/ pipes[x[2]] > 0 /\ Got(p) /\ pipes' = [pipes EXCEPT ![x[2]] = @ - 1]
           \/ pipes[x[2]] = 0 /\ ~Open("w", x[2]) /\ End(p) /\ UNCHANGED pipes
        /\ UNCHANGED offs
  /\ UNCHANGED <<script, typed, files, said>>

\* write to descriptor 1; a pipe that is full fails when it has no reader, and
\* neither program looks.
DoWrite(p) ==
  LET x == proc[p].fds[1] IN
  /\ Does(p, "write")
  /\ \/ x = Console /\ UNCHANGED <<pipes, files, offs>>
     \/ /\ x[1] = "file"
        /\ files' = [files EXCEPT ![x[2]] = IF @ > offs[x[3]] THEN @ ELSE offs[x[3]] + 1]
        /\ offs' = [offs EXCEPT ![x[3]] = @ + 1]
        /\ UNCHANGED pipes
     \/ /\ x[1] = "w"
        /\ \/ pipes[x[2]] < PIPESIZE /\ pipes' = [pipes EXCEPT ![x[2]] = @ + 1]
           \/ pipes[x[2]] = PIPESIZE /\ ~Open("r", x[2]) /\ UNCHANGED pipes
        /\ UNCHANGED <<files, offs>>
  /\ Code(p, Rest(p))
  /\ UNCHANGED <<script, typed, said>>

-----------------------------------------------------------------------------
(* The loops of the shell and of init *)

\* getcmd and main: cd is done in place, the end of input ends the shell, any
\* other line is parsed and run by a child.
Child(line, n) == IF Parsed[line].i = 0 THEN <<I("exit")>> ELSE <<RunCmd(<<n>>, Parsed[line].cmd)>>
DoGetcmd(p) ==
  LET line == script.lines[typed + 1] IN
  /\ Does(p, "getcmd") /\ typed < Len(script.lines)
  /\ typed' = typed + 1
  /\ Code(p, CASE line = EOF -> <<I("exit")>>
               [] line # <<>> /\ Head(line) = "cd" -> ShLoop
               [] OTHER -> <<Fork(<<typed + 1>>, Child(line, typed + 1)), I("wait")>> \o ShLoop)
  /\ UNCHANGED <<script, pipes, files, offs, said>>

\* init starts a shell, and waits until that shell, not an orphan, has exited.
InitFork ==
  /\ Does(InitProc, "fork sh")
  /\ \/ /\ Unuseds # {}
        /\ proc' = [proc EXCEPT ![Lowest(Unuseds)] =
                                  [state |-> "live", parent |-> InitProc, code |-> ShLoop, fds |-> Std, place |-> <<>>],
                                ![InitProc].code = <<[op |-> "wait sh", pid |-> Lowest(Unuseds)]>>]
        /\ UNCHANGED said
     \/ /\ Unuseds = {}
        /\ Dies(InitProc, "init: fork failed")
  /\ UNCHANGED <<script, typed, pipes, files, offs>>
InitWait ==
  /\ Does(InitProc, "wait sh")
  /\ \E q \in Children(InitProc) :
       /\ proc[q].state = "zombie"
       /\ Reaped(InitProc, q, IF q = Arg(InitProc).pid THEN InitLoop ELSE proc[InitProc].code)
  /\ UNCHANGED <<script, typed, pipes, files, offs, said>>

-----------------------------------------------------------------------------
Step(p) ==
  \/ DoFork(p) \/ DoExit(p) \/ DoWait(p) \/ DoClose(p) \/ DoDup(p) \/ DoOpen(p) \/ DoPipe(p)
  \/ DoRun(p) \/ DoExec(p) \/ DoCat(p) \/ DoRead(p) \/ DoWrite(p) \/ DoGetcmd(p)

\* The kernel panics if init exits.
Down == Does(InitProc, "exit")

InitStep == InitFork \/ InitWait
Next == ~Down /\ (InitStep \/ \E p \in Slots : Step(p))

\* Every process that can go on does: the scheduler leaves out nobody
\* (RunnableRuns in Proc).
Spec ==
  /\ Init /\ [][Next]_vars
  /\ WF_vars(~Down /\ InitStep)
  /\ \A p \in Slots : WF_vars(~Down /\ Step(p))

-----------------------------------------------------------------------------
(* Properties *)

\* What the descriptors of the command at the end of a way down cmd should be.
Below(x, k) ==
  LET cmd == x.cmd IN
  [place |-> Append(x.place, k),
   cmd |-> CASE k \in {"L", "l"} -> cmd.left [] k \in {"R", "r"} -> cmd.right [] OTHER -> cmd.cmd,
   fds |-> CASE k = "l" -> With(x.fds, 1, <<"w", x.place>>)
             [] k = "r" -> With(x.fds, 0, <<"r", x.place>>)
             [] k = "d" -> With(x.fds, cmd.fd, <<"file", cmd.file, Append(x.place, cmd.file)>>)
             [] OTHER -> x.fds]
Wired(n, way) == FoldLeft(Below, [place |-> <<n>>, cmd |-> Parsed[script.lines[n]].cmd, fds |-> Std], way).fds

\* A program starts with exactly the descriptors that the line gives it: its side
\* of each pipe, the redirections around it, the console for the rest, and no
\* other end of any pipe, whatever the order in which the processes of the line
\* made their system calls (runcmd).
FdsAsWritten ==
  \A p \in Slots :
    Does(p, "exec") =>
      LET place == proc[p].place IN
      proc[p].fds = Wired(place[1], Tail(place))

\* The right side of ";" runs only when the left side is over, pipelines and
\* blocks in it included, but for what it put in the background (runcmd, LIST).
\* A pipeline that could not be set up because fork failed may be still around.
InBackground(place, k) == \E j \in (k + 1)..Len(place) : place[j] = "b"
ListInOrder ==
  "fork" \notin said =>
    \A p, q \in Live :
      LET a == proc[p].place
          b == proc[q].place
      IN \A k \in 2..Len(a) :
           /\ a[k] = "R" /\ k <= Len(b) /\ b[k] = "L"
           /\ SubSeq(a, 1, k - 1) = SubSeq(b, 1, k - 1)
           => InBackground(b, k)

\* The parser reads what the user types as the language of the shell has it.
ParsesLine ==
  \A p \in Slots :
    Does(p, "getcmd") /\ typed < Len(script.lines) /\ script.lines[typed + 1] # EOF =>
      LET line == script.lines[typed + 1] IN
      Lines(line) = IF Parsed[line].i = 0 THEN {} ELSE {Parsed[line].cmd}

\* Nothing is running: the shell waits for the user.
AtPrompt ==
  /\ typed = Len(script.lines)
  /\ \A p \in Slots : p = InitProc \/ proc[p].state = "unused" \/ Does(p, "getcmd")
  /\ \E p \in Slots : Does(p, "getcmd")

\* Every line comes to an end: nobody waits for the end of a pipe that somebody
\* has forgotten to close, every process is reaped, by the shell or by init, and
\* a shell is back at its prompt, unless init itself could not fork.
PromptReturns == <>[](AtPrompt \/ Down)
=============================================================================
