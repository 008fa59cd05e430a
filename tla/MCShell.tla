--------------------------------- MODULE MCShell ---------------------------------
(* The lines that are typed: every sequence of up to MaxTokens tokens, whose    *)
(* only word is no program, and lines that make processes work together.       *)
EXTENDS Shell

CONSTANT MaxTokens
Tokens == {"x"} \cup (Symbols \ {">>"})
One(line) == [lines |-> <<line>>, slots |-> 7, pipes |-> 3]
Short == {One(s) : s \in UNION {[1..n -> Tokens] : n \in 0..MaxTokens}}

Filter == <<"echo", "a", "b", "|", "cat">>
ToFile == <<"echo", "a", "b", ">", "f">>
Long ==
  {[lines |-> ls, slots |-> 7, pipes |-> 3] : ls \in
    {<<Filter \o <<"|", "cat", ">>", "f">>, <<"cat", "f", "<", "f">>>>,
     <<ToFile \o <<";", "cat", "<", "f", "|", "cat">>>>,
     <<<<"(", "echo", "a", ";", "cat", "f", ")", "|", "cat", ">", "g">>>>,
     <<<<"(", "cat", "|", "x", ")", "<", "f">>, <<"cat", ">", "g", ">", "f">>>>,
     <<<<"(">> \o Filter \o <<"&", ")", ";", "echo", "c">>, <<"cd", "x">>, EOF>>,
     <<Filter \o <<"&">>, <<"echo", "c">>>>}}

\* Not enough processes or pipes
Tight ==
  {[lines |-> <<Filter, ToFile>>, slots |-> k, pipes |-> 1] : k \in 2..5}
  \cup {[lines |-> <<Filter \o <<"|", "cat">>>>, slots |-> 7, pipes |-> 1],
        [lines |-> <<Filter \o <<"&">>, <<"x", "|", "x">>>>, slots |-> 6, pipes |-> 2],
        [lines |-> <<Filter \o <<"&">>, EOF>>, slots |-> 4, pipes |-> 1]}

AllScripts == Short \cup Long \cup Tight
=============================================================================
