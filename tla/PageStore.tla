------------------------------ MODULE PageStore ------------------------------
(***************************************************************************)
(* What kernel/kalloc.c and copy-on-write promise to the rest of the       *)
(* kernel, with no free list, no reference counts and no locks: a page may *)
(* be handed out exactly when nothing refers to it, sharing costs nothing, *)
(* and a slot that may be written is the only one that refers to its page. *)
(*                                                                         *)
(* A slot is a place that holds the address of a page: a page-table entry, *)
(* p->trapframe, a pipe pointer.  Every operation is one atomic step.      *)
(***************************************************************************)
CONSTANTS Page, Slot, Val, NoPage

VARIABLES slot,     \* the page each slot refers to, or NoPage
          wr,       \* whether the slot may be written through (PTE_W)
          content   \* what is seen through each slot

vars == <<slot, wr, content>>

Unreferenced == {pa \in Page : \A s \in Slot : slot[s] # pa}

Init ==
    /\ slot = [s \in Slot |-> NoPage]
    /\ wr = [s \in Slot |-> FALSE]
    /\ content = [s \in Slot |-> NoPage]

(* An empty slot receives a page nobody refers to.                         *)
Alloc(s) ==
    /\ slot[s] = NoPage
    /\ \E pa \in Unreferenced, x \in Val :
          /\ slot' = [slot EXCEPT ![s] = pa]
          /\ wr' = [wr EXCEPT ![s] = TRUE]
          /\ content' = [content EXCEPT ![s] = x]

(* A slot gives its reference up; the others see what they saw.            *)
Drop(s) ==
    /\ slot[s] # NoPage
    /\ slot' = [slot EXCEPT ![s] = NoPage]
    /\ wr' = [wr EXCEPT ![s] = FALSE]
    /\ content' = [content EXCEPT ![s] = NoPage]

(* The source of a fork's sharing loses its write permission first.        *)
Protect(s) ==
    /\ slot[s] # NoPage
    /\ wr' = [wr EXCEPT ![s] = FALSE]
    /\ UNCHANGED <<slot, content>>

(* The destination starts out with what the source sees.                   *)
Share(s, d) ==
    /\ slot[s] # NoPage
    /\ ~ wr[s]
    /\ slot[d] = NoPage
    /\ slot' = [slot EXCEPT ![d] = slot[s]]
    /\ content' = [content EXCEPT ![d] = content[s]]
    /\ UNCHANGED wr

(* A shared slot moves to a page of its own with the same content.         *)
Unshare(s) ==
    /\ slot[s] # NoPage
    /\ ~ wr[s]
    /\ \E pa \in Unreferenced : slot' = [slot EXCEPT ![s] = pa]
    /\ UNCHANGED <<wr, content>>

(* Write permission comes back once the slot is alone on its page.         *)
Unprotect(s) ==
    /\ slot[s] # NoPage
    /\ \A d \in Slot \ {s} : slot[d] # slot[s]
    /\ wr' = [wr EXCEPT ![s] = TRUE]
    /\ UNCHANGED <<slot, content>>

Write(s, x) ==
    /\ wr[s]
    /\ content' = [content EXCEPT ![s] = x]
    /\ UNCHANGED <<slot, wr>>

Next ==
    \E s \in Slot :
       \/ Alloc(s) \/ Drop(s) \/ Protect(s) \/ Unshare(s) \/ Unprotect(s)
       \/ \E d \in Slot : Share(s, d)
       \/ \E x \in Val : Write(s, x)

Spec == Init /\ [][Next]_vars
==============================================================================
