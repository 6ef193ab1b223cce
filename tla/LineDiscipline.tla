---------------------------- MODULE LineDiscipline ---------------------------
(***************************************************************************)
(* What a terminal promises: the user edits the line they are typing, and  *)
(* readers get finished lines, in the order in which they were typed.  A   *)
(* key is lost only when the terminal holds CAPACITY characters; the line  *)
(* that fills it counts as finished.  An end of file is an empty read, of  *)
(* its own: a read that has characters already ends in front of it.        *)
(***************************************************************************)
EXTENDS Integers, Sequences, SequencesExt

CONSTANTS Key, CAPACITY, Reader

VARIABLES done,              \* the characters readers can get
          line,              \* the line being typed
          got,               \* what the reads that go on have so far
          ret                \* the last read to return: whose, how, with what

input == <<done, line>>

reads == <<got, ret>>

Init ==
    /\ done = << >> /\ line = << >>
    /\ got = [p \in Reader |-> << >>]
    /\ ret = << >>

type(c) ==
    LET l == Append(line, c) IN
    /\ Len(done) + Len(line) < CAPACITY
    /\ IF c \in {"nl", "^D"} \/ Len(done) + Len(l) = CAPACITY
       THEN done' = done \o l /\ line' = << >>
       ELSE line' = l /\ UNCHANGED done
    /\ UNCHANGED reads

erase == line # << >> /\ line' = Front(line) /\ UNCHANGED <<done, reads>>

kill == line' = << >> /\ UNCHANGED <<done, reads>>

(* The first k characters can be given to one reader.                      *)
Piece(k) ==
    /\ k \in 0..Len(done)
    /\ \A j \in 1..k : done[j] # "^D" /\ (done[j] = "nl" => j = k)

Take(k) == done' = SubSeq(done, k + 1, Len(done)) /\ UNCHANGED line

First(k) == SubSeq(done, 1, k)

Return(p, how, s) == got' = [got EXCEPT ![p] = << >>] /\ ret' = <<p, how, s>>

(* p takes all there is, no line and less than it wants, and goes on.      *)
get(p) ==
    LET k == Len(done) IN
    /\ Piece(k) /\ Last(done) # "nl"
    /\ Take(k)
    /\ got' = [got EXCEPT ![p] = @ \o done]
    /\ UNCHANGED ret

(* p returns with something: as much as it wants, a line, or what there is *)
(* in front of an end of file.                                             *)
read(p) ==
    \E k \in 0..Len(done) :
       /\ Piece(k)
       /\ k = 0 => done[1] = "^D" /\ got[p] # << >>
       /\ Take(k)
       /\ Return(p, "ok", got[p] \o First(k))

eof(p) ==
    /\ done[1] = "^D" /\ got[p] = << >>
    /\ Take(1)
    /\ Return(p, "ok", << >>)

(* p has no room for the k-th character.                                   *)
fault(p) ==
    \E k \in 1..Len(done) :
       /\ Piece(k)
       /\ Take(k)
       /\ Return(p, "fault", got[p] \o First(k - 1))

(* A reader that is killed takes what it has along.                        *)
killed(p) ==
    /\ done = << >>
    /\ Return(p, "killed", << >>)
    /\ UNCHANGED input

Next ==
    \/ (\E c \in Key : type(c)) \/ erase \/ kill
    \/ \E p \in Reader :
          \/ done # << >> /\ (get(p) \/ read(p) \/ eof(p) \/ fault(p))
          \/ killed(p)

Spec == Init /\ [][Next]_<<input, reads>>
==============================================================================
