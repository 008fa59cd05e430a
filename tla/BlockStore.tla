----------------------------- MODULE BlockStore -----------------------------
(***************************************************************************)
(* What the buffer cache promises: between bread and brelse a process has a *)
(* disk block to itself and sees what was last written to it, whatever is   *)
(* cached, recycled or queued for the disk meanwhile.  If the disk may fail  *)
(* to read, that is true only while the process has the block.              *)
(***************************************************************************)
CONSTANTS Procs, Blocks, Vals, NoProc

VARIABLES content, owner, errors

vars == <<content, owner, errors>>

Init ==
  /\ content \in [Blocks -> Vals]
  /\ owner = [k \in Blocks |-> NoProc]
  /\ errors \in BOOLEAN

\* What a block that nobody has may turn into
Lost(k) == errors /\ owner[k] = NoProc /\ \E v \in Vals : content' = [content EXCEPT ![k] = v]

Acquire(p, k) ==
  /\ owner[k] = NoProc
  /\ owner' = [owner EXCEPT ![k] = p]
  /\ UNCHANGED content \/ Lost(k)

Write(p, k, v) == owner[k] = p /\ content' = [content EXCEPT ![k] = v] /\ UNCHANGED owner

Release(p, k) == owner[k] = p /\ owner' = [owner EXCEPT ![k] = NoProc] /\ UNCHANGED content

Next ==
  /\ \E k \in Blocks :
       \/ \E p \in Procs :
            Acquire(p, k) \/ Release(p, k) \/ \E v \in Vals : Write(p, k, v)
       \/ Lost(k) /\ UNCHANGED owner
  /\ UNCHANGED errors

Spec == Init /\ [][Next]_vars
=============================================================================
