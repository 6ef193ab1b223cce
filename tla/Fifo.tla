-------------------------------- MODULE Fifo ---------------------------------
(***************************************************************************)
(* What a pipe promises its readers and writers: a bounded queue of bytes  *)
(* with two ends.  A byte leaves the queue at one read, in the order the   *)
(* bytes were written, and the queue is gone only when both ends are.      *)
(***************************************************************************)
EXTENDS Integers, Sequences

CONSTANTS Proc, Pipe, Val, CAPACITY,
          None               \* no byte

VARIABLES queue, ends,       \* of every pipe
          got                \* the byte each process took out last

vars == <<queue, ends, got>>

Init ==
    /\ queue = [pi \in Pipe |-> << >>]
    /\ ends = [pi \in Pipe |-> {}]
    /\ got = [p \in Proc |-> None]

Create(pi) ==
    /\ ends[pi] = {}
    /\ ends' = [ends EXCEPT ![pi] = {"read", "write"}]
    /\ UNCHANGED <<queue, got>>

Put(pi, v) ==
    /\ "write" \in ends[pi]
    /\ Len(queue[pi]) < CAPACITY
    /\ queue' = [queue EXCEPT ![pi] = Append(@, v)]
    /\ UNCHANGED <<ends, got>>

Get(p, pi) ==
    /\ "read" \in ends[pi]
    /\ queue[pi] # << >>
    /\ got' = [got EXCEPT ![p] = Head(queue[pi])]
    /\ queue' = [queue EXCEPT ![pi] = Tail(@)]
    /\ UNCHANGED ends

(* The process returns to its caller.                                      *)
Forget(p) ==
    /\ got' = [got EXCEPT ![p] = None]
    /\ UNCHANGED <<queue, ends>>

(* Closing the last end drops what is left.                                *)
Close(pi, e) ==
    /\ e \in ends[pi]
    /\ ends' = [ends EXCEPT ![pi] = @ \ {e}]
    /\ queue' = IF ends[pi] = {e} THEN [queue EXCEPT ![pi] = << >>] ELSE queue
    /\ UNCHANGED got

Next ==
    \/ \E pi \in Pipe : Create(pi) \/ \E e \in {"read", "write"} : Close(pi, e)
    \/ \E pi \in Pipe, v \in Val : Put(pi, v)
    \/ \E p \in Proc : Forget(p) \/ \E pi \in Pipe : Get(p, pi)

Spec == Init /\ [][Next]_vars
==============================================================================
