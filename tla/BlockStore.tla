----------------------------- MODULE BlockStore ------------------------------
(***************************************************************************)
(* What the buffer cache promises: one current content of every block, seen*)
(* and changed by the one process that has the block locked.               *)
(***************************************************************************)
CONSTANTS Proc, Block, Val,
          None               \* the process has no block

VARIABLES content,           \* of every block
          view               \* the block a process has locked, and what it sees

vars == <<content, view>>

Init == content \in [Block -> Val] /\ view = [p \in Proc |-> None]

Locked(k) == \E p \in Proc : view[p] # None /\ view[p][1] = k

bread(p, k) ==
    /\ view[p] = None
    /\ ~ Locked(k)
    /\ view' = [view EXCEPT ![p] = <<k, content[k]>>]
    /\ UNCHANGED content

Write(p, v) ==
    /\ view[p] # None
    /\ view' = [view EXCEPT ![p][2] = v]
    /\ content' = [content EXCEPT ![view[p][1]] = v]

brelse(p) ==
    /\ view[p] # None
    /\ view' = [view EXCEPT ![p] = None]
    /\ UNCHANGED content

Next ==
    \E p \in Proc :
       \/ \E k \in Block : bread(p, k)
       \/ \E v \in Val : Write(p, v)
       \/ brelse(p)

Spec == Init /\ [][Next]_vars
==============================================================================
