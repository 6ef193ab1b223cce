-------------------------------- MODULE Console ------------------------------
(***************************************************************************)
(* Console input: kernel/console.c, and the receiving half of              *)
(* kernel/uart.c.  consoleintr() edits a ring of INPUT_BUF characters with *)
(* three indices that only grow, as 32-bit numbers do, modulo WRAP; and    *)
(* consoleread() takes lines from it.  Both hold cons.lock throughout, so  *)
(* that each call is a step, except where consoleread() sleeps.            *)
(***************************************************************************)
EXTENDS Integers, Sequences, FiniteSets, FiniteSetsExt

CONSTANTS INPUT_BUF,
          WRAP,              \* the range of uint; INPUT_BUF divides it
          Reader             \* the processes

ASSUME ConsoleAssumption ==
    INPUT_BUF \in Nat \ {0} /\ WRAP \in Nat /\ WRAP > INPUT_BUF /\ WRAP % INPUT_BUF = 0

VARIABLES buf, r, w, e,      \* cons
          asleep,            \* the processes that sleep on &cons.r
          killed,            \* those with p->killed set
          got,               \* what a call that goes on has copied to its reader
          ret                \* who returned last, how, and with which characters

cons == <<buf, r, w, e>>

calls == <<asleep, killed, got, ret>>

ConsoleInit ==
    /\ buf = [k \in 0..(INPUT_BUF - 1) |-> "0"]
    /\ r = 0 /\ w = 0 /\ e = 0
    /\ asleep = {} /\ killed = {}
    /\ got = [p \in Reader |-> << >>]
    /\ ret = << >>

(* The character at index k.                                               *)
At(k) == buf[k % INPUT_BUF]

(* Of two indices, x is this far ahead of y.                               *)
Ahead(x, y) == (x - y) % WRAP

(***************************************************************************)
(* consoleintr(), called by uartintr() for each key                        *)
(***************************************************************************)
(* ^U: back to the start of the line or to a newline in it.                *)
kill_line ==
    LET nls == {k \in 1..Ahead(e, w) : At(w + k - 1) = "nl"} IN
    /\ e' = (w + Max(nls \cup {0})) % WRAP
    /\ UNCHANGED <<buf, r, w, calls>>

backspace ==
    /\ e' = IF e # w THEN (e - 1) % WRAP ELSE e
    /\ UNCHANGED <<buf, r, w, calls>>

(* Mutant: the readers are not woken.                                      *)
store_silent(k) ==
    LET c == IF k = "cr" THEN "nl" ELSE k IN
    IF Ahead(e, r) >= INPUT_BUF THEN UNCHANGED <<cons, calls>>
    ELSE /\ buf' = [buf EXCEPT ![e % INPUT_BUF] = c]
         /\ e' = (e + 1) % WRAP
         /\ w' = IF c \in {"nl", "^D"} \/ Ahead(e', r) = INPUT_BUF THEN e' ELSE w
         /\ UNCHANGED <<r, calls>>

(* A character is stored unless the ring is full; a whole line, an end of  *)
(* file or a full ring wakes the readers.                                  *)
store(k) ==
    LET c == IF k = "cr" THEN "nl" ELSE k IN
    IF Ahead(e, r) >= INPUT_BUF THEN UNCHANGED <<cons, calls>>
    ELSE /\ buf' = [buf EXCEPT ![e % INPUT_BUF] = c]
         /\ e' = (e + 1) % WRAP
         /\ UNCHANGED <<r, killed, got, ret>>
         /\ IF c \in {"nl", "^D"} \/ Ahead(e', r) = INPUT_BUF
            THEN w' = e' /\ asleep' = {}
            ELSE UNCHANGED <<w, asleep>>

consoleintr(k) ==
    CASE k = "^U" -> kill_line
      [] k = "^H" -> backspace
      [] OTHER -> store(k)

(***************************************************************************)
(* consoleread(): what it finds when n characters are wanted and target    *)
(* were asked for.                                                         *)
(***************************************************************************)
(* The characters up to the first that ends the read.                      *)
Taken(n) ==
    LET avail == Ahead(w, r)
        ends == {k \in 1..avail : At(r + k - 1) \in {"nl", "^D"}}
    IN Min({n, avail} \cup ends)

Eof(n) == At(r + Taken(n) - 1) = "^D"

(* The characters copied to the reader; an end of file is not.             *)
Copied(n) == [k \in 1..(IF Eof(n) THEN Taken(n) - 1 ELSE Taken(n)) |-> At(r + k - 1)]

(* Mutant: an end of file that comes late is not kept.                     *)
NextR_past(n, target) == (r + Taken(n)) % WRAP

(* "Save ^D for next time" when it does not come first.                    *)
NextR(n, target) ==
    (IF Eof(n) /\ (n < target \/ Taken(n) > 1) THEN r + Taken(n) - 1 ELSE r + Taken(n)) % WRAP

(* The read is over: n characters, a line or an end of file.               *)
Over(n) == Taken(n) = n \/ At(r + Taken(n) - 1) \in {"nl", "^D"}

Wanted(p, target) == target - Len(got[p])

(* What p has when it has taken what there is.                             *)
Filled(p, target) == got[p] \o Copied(Wanted(p, target))

Returns(p, how, s) == got' = [got EXCEPT ![p] = << >>] /\ ret' = <<p, how, s>>

(* p finds nothing and sleeps, or returns -1 if it was killed.             *)
consoleread_sleep(p) ==
    /\ p \notin asleep
    /\ r = w
    /\ IF p \in killed THEN Returns(p, "killed", << >>) /\ UNCHANGED asleep
                       ELSE asleep' = asleep \cup {p} /\ UNCHANGED <<got, ret>>
    /\ UNCHANGED <<cons, killed>>

(* p takes what there is.                                                  *)
consoleread(p, target) ==
    /\ p \notin asleep
    /\ r # w
    /\ r' = NextR(Wanted(p, target), target)
    /\ IF Over(Wanted(p, target))
       THEN Returns(p, "ok", Filled(p, target))
       ELSE got' = [got EXCEPT ![p] = Filled(p, target)] /\ UNCHANGED ret
    /\ UNCHANGED <<buf, w, e, asleep, killed>>

(* either_copyout() fails for the k-th character, which is lost, and the   *)
(* call returns what it has.                                               *)
consoleread_fault(p, target, k) ==
    /\ p \notin asleep
    /\ r # w
    /\ k <= Len(Copied(Wanted(p, target)))
    /\ r' = (r + k) % WRAP
    /\ Returns(p, "fault", got[p] \o [j \in 1..(k - 1) |-> At(r + j - 1)])
    /\ UNCHANGED <<buf, w, e, asleep, killed>>
==============================================================================
