-------------------------------- MODULE Terminal --------------------------------
(***************************************************************************)
(* What the console promises its readers: characters are edited in a line,  *)
(* a line becomes readable as a whole, readable characters are taken once,  *)
(* in order.                                                                *)
(***************************************************************************)
EXTENDS Naturals, Sequences

CONSTANTS Chars, Ends, SIZE

VARIABLES line,     \* typed, still being edited
          ready     \* readable

Init == line = <<>> /\ ready = <<>>

Put(ch) ==
  /\ Len(line) + Len(ready) < SIZE
  /\ IF ch \in Ends \/ Len(line) + Len(ready) + 1 = SIZE
     THEN ready' = ready \o Append(line, ch) /\ line' = <<>>
     ELSE line' = Append(line, ch) /\ UNCHANGED ready

Erase ==
  /\ line # <<>>
  /\ \/ line' = SubSeq(line, 1, Len(line) - 1)
     \/ line' = <<>>
  /\ UNCHANGED ready

Get ==
  /\ ready # <<>>
  /\ ready' = Tail(ready)
  /\ UNCHANGED line

Next == (\E ch \in Chars : Put(ch)) \/ Erase \/ Get

Spec == Init /\ [][Next]_<<line, ready>>
=============================================================================
