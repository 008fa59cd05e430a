-------------------------------- MODULE ShParse --------------------------------
(***************************************************************************)
(* The shell's recursive-descent parser (sh.c) on sequences of tokens.      *)
(* A parser takes the tokens and a position and returns what it has read    *)
(* and the position after it; position 0 stands for panic.  The parsers     *)
(* call each other through the recursive function P of parsers.             *)
(***************************************************************************)
EXTENDS Naturals, FiniteSets, Sequences, SequencesExt

CONSTANT MAXARGS

Symbols == {"|", "&", ";", "(", ")", "<", ">", ">>"}
Redirs == {"<", ">", ">>"}

Tok(s, i) == IF i <= Len(s) THEN s[i] ELSE "end"
IsWord(t) == t \notin Symbols \cup {"end"}

execcmd(argv) == [type |-> "EXEC", argv |-> argv]
redircmd(cmd, rd) == [type |-> "REDIR", cmd |-> cmd, file |-> rd.file, mode |-> rd.mode, fd |-> rd.fd]
pipecmd(left, right) == [type |-> "PIPE", left |-> left, right |-> right]
listcmd(left, right) == [type |-> "LIST", left |-> left, right |-> right]
backcmd(cmd) == [type |-> "BACK", cmd |-> cmd]

Result(cmd, i) == [cmd |-> cmd, i |-> i]
Panic == Result(execcmd(<<>>), 0)

\* Of several redirections the later one is the outer one.
Redirected(cmd, rds) == FoldLeft(redircmd, cmd, rds)
Redirection(tok, file) ==
  IF tok = "<" THEN [file |-> file, mode |-> "read", fd |-> 0]
  ELSE [file |-> file, mode |-> "create", fd |-> 1]

-----------------------------------------------------------------------------
(* Seeded faults: variants of definitions below that the properties reject. *)

\* parsepipe: the rest of a pipeline is a single command.
PipeRest_One == "exec"

-----------------------------------------------------------------------------
\* The redirections at i: a symbol and the word after it, each
parseredirs(P, s, i) ==
  LET more == P["redirs", i + 2] IN
  CASE Tok(s, i) \notin Redirs -> Result(<<>>, i)
    [] Tok(s, i) \in Redirs /\ (~IsWord(Tok(s, i + 1)) \/ more.i = 0) -> Panic
    [] OTHER -> Result(<<Redirection(Tok(s, i), Tok(s, i + 1))>> \o more.cmd, more.i)

\* The loop of parseexec: arguments, and the redirections after each
parseargs(P, s, i) ==
  LET rds == P["redirs", i + 1]
      more == P["args", rds.i]
  IN CASE Tok(s, i) \in {"|", ")", "&", ";", "end"} -> Result([argv |-> <<>>, rds |-> <<>>], i)
       [] Tok(s, i) = "(" \/ rds.i = 0 \/ more.i = 0 -> Panic
       [] OTHER -> Result([argv |-> <<s[i]>> \o more.cmd.argv, rds |-> rds.cmd \o more.cmd.rds], more.i)

parseblock(P, s, i) ==
  LET line == P["line", i + 1]
      rds == P["redirs", line.i + 1]
  IN IF line.i = 0 \/ Tok(s, line.i) # ")" \/ rds.i = 0 THEN Panic
     ELSE Result(Redirected(line.cmd, rds.cmd), rds.i)

parseexec(P, s, i) ==
  LET rds == P["redirs", i]
      args == P["args", rds.i]
  IN CASE Tok(s, i) = "(" -> parseblock(P, s, i)
       [] Tok(s, i) # "(" /\ (rds.i = 0 \/ args.i = 0 \/ Len(args.cmd.argv) >= MAXARGS) -> Panic
       [] OTHER -> Result(Redirected(execcmd(args.cmd.argv), rds.cmd \o args.cmd.rds), args.i)

PipeRest == "pipe"
parsepipe(P, s, i) ==
  LET left == P["exec", i]
      right == P[PipeRest, left.i + 1]
  IN CASE left.i = 0 \/ Tok(s, left.i) # "|" -> left
       [] left.i # 0 /\ Tok(s, left.i) = "|" /\ right.i = 0 -> Panic
       [] OTHER -> Result(pipecmd(left.cmd, right.cmd), right.i)

\* The loop of parseline: a background command for each "&"
Amps(s, i) == CHOOSE n \in 0..Len(s) : Tok(s, i + n) # "&" /\ \A m \in 0..(n - 1) : Tok(s, i + m) = "&"
Backgrounded(cmd, n) == FoldLeft(LAMBDA c, x : backcmd(c), cmd, [x \in 1..n |-> x])

parseline(P, s, i) ==
  LET pipe == P["pipe", i]
      n == Amps(s, pipe.i)
      left == Backgrounded(pipe.cmd, n)
      right == P["line", pipe.i + n + 1]
  IN CASE pipe.i = 0 -> Panic
       [] pipe.i # 0 /\ Tok(s, pipe.i + n) # ";" -> Result(left, pipe.i + n)
       [] pipe.i # 0 /\ Tok(s, pipe.i + n) = ";" /\ right.i = 0 -> Panic
       [] OTHER -> Result(listcmd(left, right.cmd), right.i)

Parsers == {"line", "pipe", "exec", "args", "redirs"}
parsers(s) ==
  LET P[k \in Parsers, i \in 0..(Len(s) + 2)] ==
        CASE k = "line" -> parseline(P, s, i)
          [] k = "pipe" -> parsepipe(P, s, i)
          [] k = "exec" -> parseexec(P, s, i)
          [] k = "args" -> parseargs(P, s, i)
          [] k = "redirs" -> parseredirs(P, s, i)
  IN P

\* The whole line, or a syntax error
parsecmd(s) ==
  LET line == parsers(s)["line", 1] IN
  IF line.i = Len(s) + 1 THEN line ELSE Panic

-----------------------------------------------------------------------------
(***************************************************************************)
(* The language, by cutting the tokens rather than reading them: the        *)
(* commands that the tokens from i to j can mean.                           *)
(*     line = back | back ; line        back = pipe | back &                *)
(*     pipe = exec | exec "|" pipe      exec = simple | ( line ) redir*     *)
(***************************************************************************)
Places(s, i, j, t) == {k \in i..j : s[k] = t}

\* Each redirection symbol is followed by the word that names its file; the other
\* words are the arguments.
Files(s, i, j) == {k \in (i + 1)..j : s[k - 1] \in Redirs}
Args(s, i, j) == {k \in i..j : s[k] \notin Redirs} \ Files(s, i, j)
Simple(s, i, j) ==
  /\ i <= j => s[j] \notin Redirs
  /\ \A k \in i..j : IsWord(s[k]) \/ (s[k] \in Redirs /\ k \notin Files(s, i, j))
Sorted(K) == SetToSortSeq(K, <)
Words(s, i, j) == [k \in 1..Cardinality(Args(s, i, j)) |-> s[Sorted(Args(s, i, j))[k]]]
Redirections(s, i, j) ==
  LET at == Sorted(Files(s, i, j)) IN
  [k \in 1..Len(at) |-> Redirection(s[at[k] - 1], s[at[k]])]

Commands(s, i, j) ==
  IF Simple(s, i, j) /\ Cardinality(Args(s, i, j)) < MAXARGS
  THEN {Redirected(execcmd(Words(s, i, j)), Redirections(s, i, j))} ELSE {}
Blocks(L, s, i, j) ==
  UNION {{Redirected(c, Redirections(s, k + 1, j)) : c \in L["line", i + 1, k - 1]} :
           k \in {h \in Places(s, i, j, ")") : s[i] = "(" /\ Simple(s, h + 1, j) /\ Args(s, h + 1, j) = {}}}
Lists(L, s, i, j) ==
  UNION {{listcmd(a, b) : a \in L["back", i, k - 1], b \in L["line", k + 1, j]} : k \in Places(s, i, j, ";")}
Pipelines(L, s, i, j) ==
  UNION {{pipecmd(a, b) : a \in L["exec", i, k - 1], b \in L["pipe", k + 1, j]} : k \in Places(s, i, j, "|")}
Backs(L, s, i, j) == UNION {{backcmd(c) : c \in L["back", i, j - 1]} : k \in Places(s, i, j, "&") \cap {j}}

Lines(s) ==
  LET L[k \in {"line", "back", "pipe", "exec"}, i \in 1..(Len(s) + 1), j \in 0..Len(s)] ==
        CASE k = "line" -> L["back", i, j] \cup Lists(L, s, i, j)
          [] k = "back" -> L["pipe", i, j] \cup Backs(L, s, i, j)
          [] k = "pipe" -> L["exec", i, j] \cup Pipelines(L, s, i, j)
          [] k = "exec" -> Commands(s, i, j) \cup Blocks(L, s, i, j)
  IN L["line", 1, Len(s)]
=============================================================================
