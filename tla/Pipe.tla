-------------------------------- MODULE Pipe ---------------------------------
(***************************************************************************)
(* Pipes: kernel/pipe.c, one byte per step.  A process that goes to sleep  *)
(* holds pi->lock from the test that made it sleep to sleep() itself, and  *)
(* kill(), which does not take pi->lock, may come in between.              *)
(*                                                                         *)
(* The calls that start and end these operations are in module File.       *)
(***************************************************************************)
EXTENDS Integers, Sequences

CONSTANTS Proc,
          Page,              \* the pages kalloc() has for pipes
          Val,               \* bytes
          PIPESIZE,
          WRAP,              \* nread and nwrite have values 0..WRAP - 1
          None               \* no process, no byte

ASSUME PipeAssumption ==
    /\ PIPESIZE \in Nat \ {0} /\ WRAP \in Nat
    /\ WRAP > PIPESIZE /\ WRAP % PIPESIZE = 0

VARIABLES data, nread, nwrite, readopen, writeopen,
          lock,              \* the process that holds pi->lock
          pc, chan, killed,
          pipe,              \* the pipe a process works on
          n,                 \* the bytes it has left to transfer
          ch

pipes == <<data, nread, nwrite, readopen, writeopen>>

threads == <<pc, chan, killed, pipe, n, ch>>

Awake == <<None, "awake">>

ReadChan(pi) == <<pi, "nread">>

WriteChan(pi) == <<pi, "nwrite">>

Goto(p, l) == pc' = [pc EXCEPT ![p] = l]

Unlock(pi) == lock' = [lock EXCEPT ![pi] = None]

(* Process p runs at label l and has, or can take, the lock of its pipe.   *)
AtPipe(p, l) ==
    /\ pc[p] = l
    /\ chan[p] = Awake
    /\ lock[pipe[p]] \in {None, p}

(* wakeup(): a process that is to be found asleep holds its p->lock before *)
(* it lets go of pi->lock, so the scan misses none.                        *)
Wakeup(c) == chan' = [q \in Proc |-> IF chan[q] = c THEN Awake ELSE chan[q]]

(* The end of a call: the locals are gone.                                 *)
Return(p) ==
    /\ Goto(p, "user")
    /\ pipe' = [pipe EXCEPT ![p] = None]
    /\ n' = [n EXCEPT ![p] = 0]
    /\ ch' = [ch EXCEPT ![p] = None]

(* Mutant: one byte too many fits.                                         *)
Full_late(pi) == nwrite[pi] = (nread[pi] + PIPESIZE + 1) % WRAP

(* pi->nwrite == pi->nread + PIPESIZE, in unsigned arithmetic.             *)
Full(pi) == nwrite[pi] = (nread[pi] + PIPESIZE) % WRAP

Empty(pi) == nread[pi] = nwrite[pi]

Index(k) == k % PIPESIZE

(* Mutant: the index does not wrap round.                                  *)
Next_wide(k) == k + 1

(* nread++ and nwrite++                                                    *)
Next_index(k) == (k + 1) % WRAP

(***************************************************************************)
(* pipewrite()                                                             *)
(***************************************************************************)
(* One byte; copyin() succeeds.                                            *)
pipewrite(p) ==
    LET pi == pipe[p] IN
    /\ AtPipe(p, "pipewrite")
    /\ n[p] > 0 /\ ~ Full(pi)
    /\ \E v \in Val : data' = [data EXCEPT ![pi][Index(nwrite[pi])] = v]
    /\ nwrite' = [nwrite EXCEPT ![pi] = Next_index(@)]
    /\ n' = [n EXCEPT ![p] = @ - 1]
    /\ lock' = [lock EXCEPT ![pi] = p]
    /\ UNCHANGED <<nread, readopen, writeopen, pc, chan, killed, pipe, ch>>

(* The end of the loop: nothing is left, or copyin() fails.                *)
pipewrite_end(p) ==
    /\ AtPipe(p, "pipewrite")
    /\ n[p] = 0 \/ ~ Full(pipe[p])
    /\ Wakeup(ReadChan(pipe[p]))
    /\ Unlock(pipe[p])
    /\ Return(p)
    /\ UNCHANGED <<pipes, killed>>

(* The buffer is full: return -1, or wake the readers and go to sleep.     *)
pipewrite_full(p) ==
    LET pi == pipe[p] IN
    /\ AtPipe(p, "pipewrite")
    /\ n[p] > 0 /\ Full(pi)
    /\ IF readopen[pi] = 0 \/ killed[p]
       THEN Unlock(pi) /\ Return(p) /\ UNCHANGED chan
       ELSE /\ Wakeup(ReadChan(pi))
            /\ lock' = [lock EXCEPT ![pi] = p]
            /\ Goto(p, "pipewrite_sleep")
            /\ UNCHANGED <<pipe, n, ch>>
    /\ UNCHANGED <<pipes, killed>>

(* sleep(&pi->nwrite, &pi->lock); the loop continues when woken.           *)
pipewrite_sleep(p) ==
    /\ AtPipe(p, "pipewrite_sleep")
    /\ chan' = [chan EXCEPT ![p] = WriteChan(pipe[p])]
    /\ Unlock(pipe[p])
    /\ Goto(p, "pipewrite")
    /\ UNCHANGED <<pipes, killed, pipe, n, ch>>

(***************************************************************************)
(* piperead()                                                              *)
(***************************************************************************)
Waits(pi) == Empty(pi) /\ writeopen[pi] = 1

piperead(p) ==
    LET pi == pipe[p] IN
    /\ AtPipe(p, "piperead")
    /\ IF Waits(pi)
       THEN IF killed[p]
            THEN Unlock(pi) /\ Return(p)
            ELSE /\ lock' = [lock EXCEPT ![pi] = p]
                 /\ Goto(p, "piperead_sleep")
                 /\ UNCHANGED <<pipe, n, ch>>
       ELSE /\ lock' = [lock EXCEPT ![pi] = p]
            /\ Goto(p, "piperead_copy")
            /\ UNCHANGED <<pipe, n, ch>>
    /\ UNCHANGED <<pipes, chan, killed>>

piperead_sleep(p) ==
    /\ AtPipe(p, "piperead_sleep")
    /\ chan' = [chan EXCEPT ![p] = ReadChan(pipe[p])]
    /\ Unlock(pipe[p])
    /\ Goto(p, "piperead")
    /\ UNCHANGED <<pipes, killed, pipe, n, ch>>

(* Mutant: the writers are not told that there is room.                    *)
piperead_end_silent(p) ==
    /\ Unlock(pipe[p])
    /\ Return(p)
    /\ UNCHANGED <<pipes, chan>>

piperead_end(p) ==
    /\ Wakeup(WriteChan(pipe[p]))
    /\ Unlock(pipe[p])
    /\ Return(p)
    /\ UNCHANGED pipes

(* One byte: it is taken out before copyout(), whose failure ends the loop.*)
piperead_copy(p) ==
    LET pi == pipe[p] IN
    /\ AtPipe(p, "piperead_copy")
    /\ IF n[p] = 0 \/ Empty(pi)
       THEN piperead_end(p)
       ELSE /\ ch' = [ch EXCEPT ![p] = data[pi][Index(nread[pi])]]
            /\ nread' = [nread EXCEPT ![pi] = Next_index(@)]
            /\ n' = [n EXCEPT ![p] = @ - 1] \/ n' = [n EXCEPT ![p] = 0]
            /\ UNCHANGED <<data, nwrite, readopen, writeopen, lock, pc, chan, pipe>>
    /\ UNCHANGED killed

(***************************************************************************)
(* pipeclose().  The page goes back, junk and all, with the second end.    *)
(***************************************************************************)
Junk == [k \in 0..(PIPESIZE - 1) |-> CHOOSE v \in Val : TRUE]

pipeclose(writable, pi) ==
    /\ lock[pi] = None
    /\ IF writable
       THEN /\ writeopen' = [writeopen EXCEPT ![pi] = 0]
            /\ Wakeup(ReadChan(pi))
            /\ UNCHANGED readopen
       ELSE /\ readopen' = [readopen EXCEPT ![pi] = 0]
            /\ Wakeup(WriteChan(pi))
            /\ UNCHANGED writeopen
    /\ IF readopen'[pi] = 0 /\ writeopen'[pi] = 0
       THEN /\ data' = [data EXCEPT ![pi] = Junk]
            /\ nread' = [nread EXCEPT ![pi] = 0]
            /\ nwrite' = [nwrite EXCEPT ![pi] = 0]
       ELSE UNCHANGED <<data, nread, nwrite>>
    /\ UNCHANGED lock

(* kill(): a process asleep wakes up.                                      *)
kill(p) ==
    /\ killed' = [killed EXCEPT ![p] = TRUE]
    /\ chan' = [chan EXCEPT ![p] = Awake]
    /\ UNCHANGED <<pipes, lock, pc, pipe, n, ch>>
==============================================================================
