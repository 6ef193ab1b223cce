----------------------------- MODULE AtomicDisk ------------------------------
(***************************************************************************)
(* What kernel/log.c promises to the file system: a group of system calls  *)
(* reaches the disk as a whole, when none of them is running, and a crash  *)
(* returns to the last group that did.  No log, no header, no cache.       *)
(***************************************************************************)
CONSTANTS Proc, Block, Val, NoBlock

VARIABLES disk,     \* what a reboot would find
          view,     \* what system calls read
          active,   \* processes inside begin_op() ... end_op()
          hand      \* the block each of them has read to change it

vars == <<disk, view, active, hand>>

Init ==
    /\ disk \in [Block -> Val]
    /\ view = disk
    /\ active = {}
    /\ hand = [p \in Proc |-> NoBlock]

Begin(p) == active' = active \cup {p} /\ UNCHANGED <<disk, view, hand>>

(* Only a call that has the block in hand changes what is read in it.      *)
Write(p, b) ==
    /\ p \in active
    /\ \A q \in Proc : hand[q] # b
    /\ hand' = [hand EXCEPT ![p] = b]
    /\ \E x \in Val : view' = [view EXCEPT ![b] = x]
    /\ UNCHANGED <<disk, active>>

Release(p) ==
    /\ hand' = [hand EXCEPT ![p] = NoBlock]
    /\ UNCHANGED <<disk, view, active>>

End(p) ==
    /\ hand[p] = NoBlock
    /\ active' = active \ {p}
    /\ UNCHANGED <<disk, view, hand>>

Commit ==
    /\ active = {}
    /\ disk' = view
    /\ UNCHANGED <<view, active, hand>>

Crash ==
    /\ view' = disk
    /\ active' = {}
    /\ hand' = [p \in Proc |-> NoBlock]
    /\ UNCHANGED disk

Next ==
    \/ \E p \in Proc : \/ Begin(p) \/ Release(p) \/ End(p)
                       \/ \E b \in Block : Write(p, b)
    \/ Commit
    \/ Crash

Spec == Init /\ [][Next]_vars
==============================================================================
