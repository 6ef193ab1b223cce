----------------------------- MODULE PrivateMem ------------------------------
(***************************************************************************)
(* The memory a user program is entitled to: every process has its own, and*)
(* fork() gives the child a copy.  Nothing here says how pages are shared. *)
(***************************************************************************)
EXTENDS Naturals

CONSTANTS Proc, NPAGE, Val, Zero, None

VARIABLES view,    \* what each process sees at each page of its address space
          alive    \* the processes that exist

vars == <<view, alive>>

VA == 0..(NPAGE - 1)

Empty == [v \in VA |-> None]

(* One process with one page, as userinit() sets it up.                    *)
Init ==
    \E p \in Proc, x \in Val :
       /\ view = [q \in Proc |-> IF q = p THEN [Empty EXCEPT ![0] = x] ELSE Empty]
       /\ alive = {p}

(* A process stores to its own memory, or the kernel does for it.          *)
Write(p, v) ==
    /\ view[p][v] # None
    /\ \E x \in Val : view' = [view EXCEPT ![p][v] = x]
    /\ UNCHANGED alive

(* sbrk() adds zero-filled pages.                                          *)
Grow(p, v) ==
    /\ p \in alive
    /\ view[p][v] = None
    /\ view' = [view EXCEPT ![p][v] = Zero]
    /\ UNCHANGED alive

(* sbrk() and the reaping of a process remove pages.                       *)
Remove(p, v) ==
    /\ view' = [view EXCEPT ![p][v] = None]
    /\ UNCHANGED alive

(* The child starts with exactly what the parent has.                      *)
Fork(p, c) ==
    /\ p \in alive
    /\ c \notin alive
    /\ view[c] = Empty
    /\ view' = [view EXCEPT ![c] = view[p]]
    /\ alive' = alive \cup {c}

Reap(c) ==
    /\ view[c] = Empty
    /\ alive' = alive \ {c}
    /\ UNCHANGED view

(* What exec() can build: k pages of program, the zero guard page, a stack.*)
Image(k) ==
    {w \in [VA -> Val \cup {None}] :
        /\ \A v \in VA : (v > k + 1) = (w[v] = None)
        /\ w[k] = Zero}

(* exec() replaces the whole image in one step.                            *)
Exec(p) ==
    /\ p \in alive
    /\ \E k \in 0..(NPAGE - 2) :
          \E w \in Image(k) : view' = [view EXCEPT ![p] = w]
    /\ UNCHANGED alive

Next ==
    \E p \in Proc :
       \/ \E v \in VA : Write(p, v) \/ Grow(p, v) \/ Remove(p, v)
       \/ \E c \in Proc : Fork(p, c)
       \/ Reap(p)
       \/ Exec(p)

Spec == Init /\ [][Next]_vars
==============================================================================
