-------------------------------- MODULE File ---------------------------------
(***************************************************************************)
(* The file table and the descriptors of the processes, with pipes as the  *)
(* open files: kernel/file.c, the descriptor calls of kernel/sysfile.c, and*)
(* what fork() and exit() do to descriptors.                               *)
(*                                                                         *)
(* A step is one critical section of ftable.lock or of a pipe's lock, with *)
(* what the process does to its own descriptors around it.                 *)
(***************************************************************************)
EXTENDS Pipe, FiniteSets, FiniteSetsExt

CONSTANTS NFILE, NOFILE,
          NWRITE, NREAD      \* the largest n of a write() and of a read()

ASSUME FileAssumption ==
    {NFILE, NOFILE, NWRITE, NREAD} \subseteq Nat \ {0}

FileSlot == 1..NFILE

Fd == 0..(NOFILE - 1)

NoFile == 0

VARIABLES ref, type, writable, fpipe,   \* of every struct file
          ofile,                        \* of every process
          alive,                        \* the process has not called exit()
          held                          \* references it holds outside ofile

ftable == <<ref, type, writable, fpipe>>

vars == <<pipes, lock, threads, ftable, ofile, alive, held>>

NoFiles == [fd \in Fd |-> NoFile]

(* One process runs and has nothing open.                                  *)
Init ==
    /\ data = [pi \in Page |-> Junk]
    /\ nread = [pi \in Page |-> 0] /\ nwrite = [pi \in Page |-> 0]
    /\ readopen = [pi \in Page |-> 0] /\ writeopen = [pi \in Page |-> 0]
    /\ lock = [pi \in Page |-> None]
    /\ pc = [p \in Proc |-> "user"]
    /\ chan = [p \in Proc |-> Awake]
    /\ killed = [p \in Proc |-> FALSE]
    /\ pipe = [p \in Proc |-> None]
    /\ n = [p \in Proc |-> 0]
    /\ ch = [p \in Proc |-> None]
    /\ ref = [f \in FileSlot |-> 0]
    /\ type = [f \in FileSlot |-> "FD_NONE"]
    /\ writable = [f \in FileSlot |-> FALSE]
    /\ fpipe = [f \in FileSlot |-> None]
    /\ ofile = [p \in Proc |-> NoFiles]
    /\ \E p \in Proc : alive = [q \in Proc |-> q = p]
    /\ held = [p \in Proc |-> << >>]

(* p is about to make a system call.                                       *)
User(p) == pc[p] = "user" /\ alive[p] /\ ~ killed[p]

(***************************************************************************)
(* The file table                                                          *)
(***************************************************************************)
(* Mutant: the type of the closed file stays behind.                       *)
ClosedType_kept(f) == type[f]

ClosedType(f) == "FD_NONE"

LastRef(f) == ref[f] = 1

FreeFiles == {f \in FileSlot : ref[f] = 0}

(* filealloc(), where a free slot exists: the first one.                   *)
filealloc(p) ==
    LET f == Min(FreeFiles) IN
    /\ FreeFiles # {}
    /\ ref' = [ref EXCEPT ![f] = 1]
    /\ held' = [held EXCEPT ![p] = Append(@, f)]
    /\ UNCHANGED <<type, writable, fpipe>>

(* fileclose(): the last reference closes the end of the pipe, after       *)
(* ftable.lock is released.                                                *)
fileclose(p) ==
    LET f == Head(held[p])
        last == LastRef(f)
        rest == IF Len(held[p]) = 1 THEN "user" ELSE "fileclose"
    IN
    /\ pc[p] = "fileclose"
    /\ held' = [held EXCEPT ![p] = Tail(@)]
    /\ ref' = [ref EXCEPT ![f] = @ - 1]
    /\ type' = IF last THEN [type EXCEPT ![f] = ClosedType(f)] ELSE type
    /\ IF last /\ type[f] = "FD_PIPE"
       THEN /\ Goto(p, IF writable[f] THEN "pipeclose_w" ELSE "pipeclose_r")
            /\ pipe' = [pipe EXCEPT ![p] = fpipe[f]]
       ELSE Goto(p, rest) /\ UNCHANGED pipe
    /\ UNCHANGED <<pipes, lock, chan, killed, n, ch, writable, fpipe, ofile, alive>>

fileclose_pipe(p) ==
    /\ pc[p] \in {"pipeclose_w", "pipeclose_r"}
    /\ pipeclose(pc[p] = "pipeclose_w", pipe[p])
    /\ pipe' = [pipe EXCEPT ![p] = None]
    /\ Goto(p, IF held[p] = << >> THEN "user" ELSE "fileclose")
    /\ UNCHANGED <<killed, n, ch, ftable, ofile, alive, held>>

(* p closes the files fs, one after the other.                             *)
CloseAll(p, fs) ==
    /\ held' = [held EXCEPT ![p] = fs]
    /\ Goto(p, "fileclose")

(***************************************************************************)
(* sys_pipe() and pipealloc()                                              *)
(***************************************************************************)
sys_pipe(p) ==
    /\ User(p)
    /\ filealloc(p)
    /\ Goto(p, "pipealloc")
    /\ UNCHANGED <<pipes, lock, chan, killed, pipe, n, ch, ofile, alive>>

(* The second filealloc().                                                 *)
pipealloc(p) ==
    /\ pc[p] = "pipealloc"
    /\ \/ filealloc(p) /\ Goto(p, "pipealloc_page")
       \/ FreeFiles = {} /\ Goto(p, "fileclose") /\ UNCHANGED <<ftable, held>>
    /\ UNCHANGED <<pipes, lock, chan, killed, pipe, n, ch, ofile, alive>>

(* kalloc() may fail; the page and the two files are set up otherwise.     *)
pipealloc_page(p) ==
    LET f0 == held[p][1]
        f1 == held[p][2]
    IN
    /\ pc[p] = "pipealloc_page"
    /\ \/ Goto(p, "fileclose") /\ UNCHANGED <<pipes, ftable>>
       \/ \E pi \in Page :
             /\ readopen[pi] = 0 /\ writeopen[pi] = 0
             /\ readopen' = [readopen EXCEPT ![pi] = 1]
             /\ writeopen' = [writeopen EXCEPT ![pi] = 1]
             /\ nread' = [nread EXCEPT ![pi] = 0]
             /\ nwrite' = [nwrite EXCEPT ![pi] = 0]
             /\ type' = [type EXCEPT ![f0] = "FD_PIPE", ![f1] = "FD_PIPE"]
             /\ writable' = [writable EXCEPT ![f0] = FALSE, ![f1] = TRUE]
             /\ fpipe' = [fpipe EXCEPT ![f0] = pi, ![f1] = pi]
             /\ Goto(p, "fdalloc")
             /\ UNCHANGED <<data, ref>>
    /\ UNCHANGED <<lock, chan, killed, pipe, n, ch, ofile, alive, held>>

FreeFds(p) == {fd \in Fd : ofile[p][fd] = NoFile}

(* fdalloc(): the lowest free descriptor.                                  *)
fdalloc(p, of, f) == [of EXCEPT ![Min({fd \in Fd : of[fd] = NoFile})] = f]

(* Both descriptors, or none: one is missing, or copyout() fails.          *)
sys_pipe_fds(p) ==
    /\ pc[p] = "fdalloc"
    /\ \/ /\ Cardinality(FreeFds(p)) >= 2
          /\ ofile' = [ofile EXCEPT ![p] =
                fdalloc(p, fdalloc(p, @, held[p][1]), held[p][2])]
          /\ held' = [held EXCEPT ![p] = << >>]
          /\ Goto(p, "user")
       \/ Goto(p, "fileclose") /\ UNCHANGED <<ofile, held>>
    /\ UNCHANGED <<pipes, lock, chan, killed, pipe, n, ch, ftable, alive>>

(***************************************************************************)
(* The other calls                                                         *)
(***************************************************************************)
(* Mutant: the reference is not counted.                                   *)
filedup_lost(f) == ref[f]

filedup(f) == ref[f] + 1

sys_dup(p, fd) ==
    LET f == ofile[p][fd] IN
    /\ User(p)
    /\ f # NoFile
    /\ FreeFds(p) # {}
    /\ ofile' = [ofile EXCEPT ![p] = fdalloc(p, @, f)]
    /\ ref' = [ref EXCEPT ![f] = filedup(f)]
    /\ UNCHANGED <<pipes, lock, threads, type, writable, fpipe, alive, held>>

sys_close(p, fd) ==
    /\ User(p)
    /\ ofile[p][fd] # NoFile
    /\ ofile' = [ofile EXCEPT ![p][fd] = NoFile]
    /\ CloseAll(p, <<ofile[p][fd]>>)
    /\ UNCHANGED <<pipes, lock, chan, killed, pipe, n, ch, ftable, alive>>

(* sys_read() and sys_write(), past the tests of fileread and filewrite.   *)
transfer(p, fd, l, k) ==
    LET f == ofile[p][fd] IN
    /\ User(p)
    /\ f # NoFile
    /\ writable[f] = (l = "pipewrite")
    /\ type[f] = "FD_PIPE"
    /\ pipe' = [pipe EXCEPT ![p] = fpipe[f]]
    /\ n' = [n EXCEPT ![p] = k]
    /\ Goto(p, l)
    /\ UNCHANGED <<pipes, lock, chan, killed, ch, ftable, ofile, alive, held>>

sys_read(p, fd) == \E k \in 1..NREAD : transfer(p, fd, "piperead", k)

sys_write(p, fd) == \E k \in 1..NWRITE : transfer(p, fd, "pipewrite", k)

(* "increment reference counts on open file descriptors": the references of*)
(* the parent keep all of them open meanwhile.                             *)
fork(p, q) ==
    /\ User(p)
    /\ ~ alive[q] /\ pc[q] = "user"
    /\ alive' = [alive EXCEPT ![q] = TRUE]
    /\ killed' = [killed EXCEPT ![q] = FALSE]
    /\ ofile' = [ofile EXCEPT ![q] = ofile[p]]
    /\ ref' = [f \in FileSlot |->
                  ref[f] + Cardinality({fd \in Fd : ofile[p][fd] = f})]
    /\ UNCHANGED <<pipes, lock, pc, chan, pipe, n, ch, type, writable, fpipe, held>>

(* "Close all open files", in the order of the descriptors.                *)
exit(p) ==
    LET Open[k \in 0..NOFILE] ==
            IF k = 0 THEN << >>
            ELSE IF ofile[p][k - 1] = NoFile THEN Open[k - 1]
            ELSE Append(Open[k - 1], ofile[p][k - 1])
    IN
    /\ pc[p] = "user" /\ alive[p]
    /\ alive' = [alive EXCEPT ![p] = FALSE]
    /\ killed' = [killed EXCEPT ![p] = FALSE]
    /\ ofile' = [ofile EXCEPT ![p] = NoFiles]
    /\ IF Open[NOFILE] = << >> THEN UNCHANGED <<pc, held>> ELSE CloseAll(p, Open[NOFILE])
    /\ UNCHANGED <<pipes, lock, chan, pipe, n, ch, ftable>>

files == <<ftable, ofile, alive, held>>

syscall(p) ==
    \/ sys_pipe(p)
    \/ \E fd \in Fd : sys_dup(p, fd) \/ sys_close(p, fd) \/ sys_read(p, fd) \/ sys_write(p, fd)
    \/ \E q \in Proc : fork(p, q)
    \/ exit(p)

kernel(p) ==
    \/ (pipewrite(p) \/ pipewrite_end(p)) /\ UNCHANGED files
    \/ (pipewrite_full(p) \/ pipewrite_sleep(p)) /\ UNCHANGED files
    \/ (piperead(p) \/ piperead_sleep(p) \/ piperead_copy(p)) /\ UNCHANGED files
    \/ fileclose(p) \/ fileclose_pipe(p)
    \/ pipealloc(p) \/ pipealloc_page(p) \/ sys_pipe_fds(p)

(* Elsewhere p->killed is only looked at on the way back to the user       *)
(* program, and ends in exit(), which a process may also call by itself.   *)
killed_in_pipe(p) ==
    /\ pc[p] \in {"pipewrite", "pipewrite_sleep", "piperead", "piperead_sleep"}
    /\ ~ killed[p]
    /\ kill(p)
    /\ UNCHANGED files

Next == \E p \in Proc : syscall(p) \/ kernel(p) \/ killed_in_pipe(p)

Spec == Init /\ [][Next]_vars

(***************************************************************************)
(* Properties                                                              *)
(***************************************************************************)
(* The types of the variables.                                             *)
TypeOK ==
    /\ data \in [Page -> [0..(PIPESIZE - 1) -> Val]]
    /\ nread \in [Page -> 0..(WRAP - 1)] /\ nwrite \in [Page -> 0..(WRAP - 1)]
    /\ readopen \in [Page -> {0, 1}] /\ writeopen \in [Page -> {0, 1}]
    /\ lock \in [Page -> Proc \cup {None}]
    /\ pc \in [Proc -> {"user", "pipewrite", "pipewrite_sleep", "piperead",
                        "piperead_sleep", "piperead_copy", "fileclose", "pipeclose_w",
                        "pipeclose_r", "pipealloc", "pipealloc_page", "fdalloc"}]
    /\ chan \in [Proc -> {Awake} \cup (Page \X {"nread", "nwrite"})]
    /\ killed \in [Proc -> BOOLEAN] /\ alive \in [Proc -> BOOLEAN]
    /\ pipe \in [Proc -> Page \cup {None}]
    /\ n \in [Proc -> 0..Max({NREAD, NWRITE})]
    /\ ch \in [Proc -> Val \cup {None}]
    /\ ref \in [FileSlot -> 0..(Cardinality(Proc) * NOFILE + 2)]
    /\ type \in [FileSlot -> {"FD_NONE", "FD_PIPE"}]
    /\ writable \in [FileSlot -> BOOLEAN]
    /\ fpipe \in [FileSlot -> Page \cup {None}]
    /\ ofile \in [Proc -> [Fd -> FileSlot \cup {NoFile}]]
    /\ \A p \in Proc : held[p] \in Seq(FileSlot)

(* f->ref is the number of descriptors and of calls in progress that have  *)
(* the file: fork, dup, close and exit, interleaved, lose and invent none. *)
RefExact ==
    \A f \in FileSlot :
       ref[f] = Cardinality({<<p, fd>> \in Proc \X Fd : ofile[p][fd] = f})
                + Cardinality({<<p, k>> \in Proc \X (1..NOFILE) :
                                  k <= Len(held[p]) /\ held[p][k] = f})

Closing(pi, w) ==
    \E p \in Proc : pipe[p] = pi /\ pc[p] = (IF w THEN "pipeclose_w" ELSE "pipeclose_r")

(* An end of a pipe is open exactly while a file refers to it or its last  *)
(* fileclose() is under way, so pipeclose() runs once for each end, and    *)
(* whoever works on a pipe has its end open: the page cannot be kfree()d   *)
(* or become another pipe under piperead() or pipewrite().                 *)
EndsMatch ==
    /\ \A pi \in Page, w \in BOOLEAN :
          LET users == {f \in FileSlot : /\ ref[f] > 0 /\ type[f] = "FD_PIPE"
                                         /\ writable[f] = w /\ fpipe[f] = pi}
          IN (IF w THEN writeopen[pi] ELSE readopen[pi]) =
                Cardinality(users) + (IF Closing(pi, w) THEN 1 ELSE 0)
    /\ \A p \in Proc : pipe[p] # None =>
          IF pc[p] \in {"pipewrite", "pipewrite_sleep", "pipeclose_w"}
          THEN writeopen[pipe[p]] = 1
          ELSE readopen[pipe[p]] = 1

(* p sleeps although what it waits for is there, and nobody is at work on  *)
(* the pipe who could still wake it.                                       *)
Missed(p, pi) ==
    /\ lock[pi] = None
    /\ \/ chan[p] = ReadChan(pi) /\ ~ Waits(pi)
       \/ chan[p] = WriteChan(pi) /\ ~ (Full(pi) /\ readopen[pi] = 1)

(* Bytes, room and the closing of an end are never left without the wakeup *)
(* they call for.  One path does so: pipewrite() of a killed process       *)
(* returns from a full pipe (pipe.c:86) without waking the readers.        *)
WakeupsDone ==
    [][\A p \in Proc, pi \in Page : Missed(p, pi)' /\ ~ Missed(p, pi) =>
          /\ chan[p] = ReadChan(pi) /\ Full(pi)
          /\ \E q \in Proc : killed[q] /\ pc[q] = "pipewrite" /\ pipe[q] = pi /\ pc'[q] # pc[q]]_vars

(* The bytes of the pipe, oldest first.                                    *)
Queue(pi) ==
    [k \in 1..((nwrite[pi] - nread[pi]) % WRAP) |-> data[pi][Index(nread[pi] + k - 1)]]

Ends(pi) ==
    {e \in {"read", "write"} : (IF e = "read" THEN readopen[pi] ELSE writeopen[pi]) = 1}

F == INSTANCE Fifo WITH Pipe <- Page, CAPACITY <- PIPESIZE, got <- ch,
                        queue <- [pi \in Page |-> Queue(pi)],
                        ends <- [pi \in Page |-> Ends(pi)]

(* pipe.c implements Fifo: with several readers and writers and indices    *)
(* that wrap round, every byte written is read at most once and in order.  *)
ImplementsFifo == F!Spec
==============================================================================
