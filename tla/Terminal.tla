------------------------------- MODULE Terminal ------------------------------
(***************************************************************************)
(* A terminal session: a user types, the console driver (module Console)   *)
(* makes lines of it, the shell of user/sh.c reads them with gets(), parses*)
(* them (module Shell) and runs them as trees of processes connected by    *)
(* pipes, and user/init.c starts the shell again when it ends.             *)
(*                                                                         *)
(* A process is a record of where it is, the command it runs, its          *)
(* descriptors and its parent (pid 0 is init).  Descriptors are private, so*)
(* the calls that rearrange them between two forks are one step.  Programs *)
(* that are run either read their input to its end or do not read.  Any    *)
(* process but init may be killed, and a program may read into a buffer    *)
(* that is not there.                                                      *)
(***************************************************************************)
EXTENDS Console, Shell

CONSTANTS Lines,             \* what the user may want to type
          Texts,             \* lines read already when a session is looked at first
          Edits,             \* keys they may hit besides
          MAXEVENT,          \* how many such keys, kills and bad buffers there are
          NPROC,             \* processes there is room for besides init
          NPIPE,             \* pipes
          NBUF,              \* sizeof(buf) in main()
          NREAD,             \* what a program asks read() for
          Readers            \* the programs that read their input

VARIABLES keys,              \* what is still to be typed
          events,
          proc

input == <<cons, calls, keys>>

vars == <<input, events, proc>>

(* One name for each process, and one for the shell, which init starts     *)
(* again and again: the processes that exist are NPROC at most.            *)
Pid == 1..(NPROC + 1)

sh == 1

Init_pid == 0

Closed == <<"closed", 0>>

Tty == <<"console", 0>>

Stdio == <<Tty, Tty, Tty, Closed, Closed>>

(* fds[k + 1] is descriptor k; p holds the two ends of a pipe.             *)
Unused == [pc |-> "unused", cmd |-> Panic, fds |-> << >>, p |-> << >>, parent |-> Init_pid,
           text |-> << >>, n |-> 0]

(* main() opened the console until it had three descriptors.               *)
Fresh == [Unused EXCEPT !.pc = "gets", !.fds = Stdio]

(* A session begins with nothing typed, or when a line has been read; the  *)
(* latter stay undisturbed.                                                *)
Init ==
    /\ ConsoleInit
    /\ \E me \in {Fresh} \cup {[Fresh EXCEPT !.pc = "main", !.text = t] : t \in Texts} :
          /\ keys \in IF me = Fresh THEN Lines ELSE {<< >>}
          /\ events = IF me = Fresh THEN 0 ELSE MAXEVENT
          /\ proc = [q \in Pid |-> IF q = sh THEN me ELSE Unused]

Goto(q, l) == [proc EXCEPT ![q].pc = l]

PcIs(q, l) == proc[q].pc = l

(* exit() of init stops the machine.                                       *)
Up == ~ PcIs(sh, "panic")

Live == {q \in Pid : proc[q].pc \notin {"unused", "init", "panic"}}

CanFork == Cardinality(Live) < NPROC

(***************************************************************************)
(* The user, kill() and init                                               *)
(***************************************************************************)
key ==
    /\ keys # << >>
    /\ consoleintr(Head(keys))
    /\ keys' = Tail(keys)
    /\ UNCHANGED <<events, proc>>

Event == events < MAXEVENT /\ events' = events + 1

edit(k) ==
    /\ keys # << >>
    /\ Event
    /\ consoleintr(k)
    /\ UNCHANGED <<keys, proc>>

(* q is marked, and woken up if it sleeps.                                 *)
kill(q) ==
    /\ q \in Live \ killed /\ ~ PcIs(q, "zombie")
    /\ Event
    /\ killed' = killed \cup {q}
    /\ asleep' = asleep \ {q}
    /\ UNCHANGED <<cons, got, ret, keys, proc>>

(* exit() of q in ps: its descriptors are closed, its children go to init, *)
(* and its parent will find a zombie; init reaps its own, and when it has  *)
(* reaped the shell it forks.                                              *)
exit(ps, q) ==
    [c \in Pid |->
       IF c = q
       THEN IF q = sh THEN [Unused EXCEPT !.pc = "init"]
            ELSE IF ps[q].parent = Init_pid THEN Unused
            ELSE [Unused EXCEPT !.pc = "zombie", !.parent = ps[q].parent]
       ELSE IF ps[c].parent = q /\ ps[c].pc # "unused"
       THEN IF ps[c].pc = "zombie" THEN Unused ELSE [ps[c] EXCEPT !.parent = Init_pid]
       ELSE ps[c]]

(* init starts the shell, or finds no room for it and exits.  When exec()  *)
(* fails it is back where it was.                                          *)
restart ==
    /\ PcIs(sh, "init")
    /\ proc' = [proc EXCEPT ![sh] = IF CanFork THEN Fresh ELSE [@ EXCEPT !.pc = "panic"]]
    /\ UNCHANGED <<input, events>>

(***************************************************************************)
(* Descriptors and fork()                                                  *)
(***************************************************************************)
close(fds, k) == [fds EXCEPT ![k + 1] = Closed]

(* open(), dup() and pipe() take the lowest free descriptor.               *)
Lowest(fds) == Min({k \in DOMAIN fds : fds[k] = Closed}) - 1

install(fds, f) == [fds EXCEPT ![Lowest(fds) + 1] = f]

Slots == {c \in Pid : PcIs(c, "unused")}

(* fork1() of q, which becomes me, while the child begins as np.           *)
fork1(q, me, np) ==
    proc' = IF ~ CanFork THEN exit(proc, q)
            ELSE [proc EXCEPT ![Min(Slots)] = [np EXCEPT !.parent = q], ![q] = me]

Reaped(q) == {c \in Pid : PcIs(c, "zombie") /\ proc[c].parent = q}

(* wait(0) of q, which becomes np.  Whoever calls it has a child.          *)
wait(q, np) == \E c \in Reaped(q) : proc' = [proc EXCEPT ![c] = Unused, ![q] = np]

(***************************************************************************)
(* main() of sh.c                                                          *)
(***************************************************************************)
Full(text) == Len(text) + 1 >= NBUF

(* gets() reads one character at a time, and stops when read() returns     *)
(* nothing; a shell that was killed exits on its way back.                 *)
gets_sleep ==
    /\ PcIs(sh, "gets") /\ ~ Full(proc[sh].text)
    /\ consoleread_sleep(sh)
    /\ proc' = IF sh \in killed THEN Goto(sh, "exit") ELSE proc

gets ==
    LET text == proc[sh].text \o Copied(1) IN
    /\ PcIs(sh, "gets") /\ ~ Full(proc[sh].text)
    /\ consoleread(sh, 1)
    /\ proc' = [proc EXCEPT ![sh].text = text,
                            ![sh].pc = CASE sh \in killed -> "exit"
                                         [] Copied(1) \in {<< >>, <<"nl">>} \/ Full(text) -> "main"
                                         [] OTHER -> "gets"]

IsCd(text) == Len(text) >= 3 /\ SubSeq(text, 1, 3) = <<"c", "d", " ">>

(* getcmd() returns -1 at the end of file; cd is done by the shell itself; *)
(* everything else is parsed and run by a child.                           *)
main ==
    LET me == proc[sh] IN
    /\ PcIs(sh, "main") /\ sh \notin killed
    /\ CASE me.text = << >> -> proc' = exit(proc, sh)
         [] IsCd(me.text) -> proc' = [proc EXCEPT ![sh] = Fresh]
         [] OTHER -> fork1(sh, [me EXCEPT !.pc = "main_wait"],
                                 [me EXCEPT !.pc = "runcmd", !.cmd = parsecmd(me.text)])
    /\ UNCHANGED <<input, events>>

main_wait ==
    /\ PcIs(sh, "main_wait") /\ sh \notin killed
    /\ wait(sh, [proc[sh] EXCEPT !.pc = "gets", !.text = << >>])

(***************************************************************************)
(* runcmd()                                                                *)
(***************************************************************************)
(* q goes on with command c.                                               *)
Becomes(q, c) == [proc[q] EXCEPT !.pc = "runcmd", !.cmd = c, !.text = << >>]

(* An empty command and one that does not parse end the process, and so    *)
(* does an exec() that fails.                                              *)
run_exec(q, ok) ==
    LET cmd == proc[q].cmd IN
    /\ cmd.type \in {"PANIC", "EXEC"}
    /\ proc' = IF cmd.type = "EXEC" /\ ok /\ cmd # execcmd(<< >>)
               THEN [proc EXCEPT ![q].pc = "program", ![q].text = << >>] ELSE exit(proc, q)

run_redir(q, ok) ==
    LET cmd == proc[q].cmd
        fd == IF cmd.mode = "<" THEN 0 ELSE 1
    IN
    /\ cmd.type = "REDIR"
    /\ proc' = IF ok THEN [proc EXCEPT ![q] = [Becomes(q, cmd.cmd) EXCEPT
                                                 !.fds = install(close(@, fd), <<"file", 0>>)]]
                     ELSE exit(proc, q)

run_list(q) ==
    LET cmd == proc[q].cmd IN
    /\ cmd.type = "LIST"
    /\ fork1(q, [Becomes(q, cmd.right) EXCEPT !.pc = "list_wait"], Becomes(q, cmd.left))

list_wait(q) == PcIs(q, "list_wait") /\ wait(q, [proc[q] EXCEPT !.pc = "runcmd"])

FreePipes == (1..NPIPE) \ UNION {{f[2] : f \in Range(proc[q].fds)} : q \in Pid}

(* pipe(), which may find no memory, and the fork of the left side.        *)
run_pipe(q) ==
    LET k == Min(FreePipes)
        r0 == install(proc[q].fds, <<"r", k>>)
        ends == <<Lowest(proc[q].fds), Lowest(r0)>>
        me == [Becomes(q, proc[q].cmd) EXCEPT !.pc = "pipe_right", !.p = ends,
                                              !.fds = install(r0, <<"w", k>>)]
    IN
    /\ proc[q].cmd.type = "PIPE"
    /\ IF FreePipes = {} THEN proc' = exit(proc, q)
       ELSE fork1(q, me, [me EXCEPT !.pc = "left", !.cmd = @.left])

CloseBoth(fds, p) == close(close(fds, p[1]), p[2])

(* The descriptors of the maker of a pipe while it waits.  Mutant: it keeps*)
(* the end for writing.                                                    *)
Maker_keeps(fds, p) == close(fds, p[1])

Maker(fds, p) == CloseBoth(fds, p)

(* The fork of the right side; the maker closes both ends.                 *)
pipe_right(q) ==
    LET me == [proc[q] EXCEPT !.pc = "pipe_wait", !.n = 2, !.fds = Maker(@, proc[q].p)] IN
    /\ PcIs(q, "pipe_right")
    /\ fork1(q, me, [proc[q] EXCEPT !.pc = "right", !.cmd = @.right])

(* close(fd); dup(p[fd]); close(p[0]); close(p[1])                         *)
Side(fds, p, fd) == CloseBoth(install(close(fds, fd), fds[p[fd + 1] + 1]), p)

side(q) ==
    /\ PcIs(q, "left") \/ PcIs(q, "right")
    /\ proc' = [proc EXCEPT ![q].pc = "runcmd", ![q].p = << >>,
                   ![q].fds = Side(@, proc[q].p, IF PcIs(q, "left") THEN 1 ELSE 0)]

pipe_wait(q) ==
    /\ PcIs(q, "pipe_wait")
    /\ wait(q, [proc[q] EXCEPT !.n = @ - 1, !.pc = IF proc[q].n = 1 THEN "exit" ELSE @])

run_back(q) ==
    /\ proc[q].cmd.type = "BACK"
    /\ fork1(q, [proc[q] EXCEPT !.pc = "exit", !.text = << >>], Becomes(q, proc[q].cmd.cmd))

runcmd(q) ==
    /\ PcIs(q, "runcmd")
    /\ \/ \E ok \in BOOLEAN : run_exec(q, ok) \/ run_redir(q, ok)
       \/ run_list(q) \/ run_pipe(q) \/ run_back(q)

(***************************************************************************)
(* The programs                                                            *)
(***************************************************************************)
Reads(q) == PcIs(q, "program") /\ proc[q].cmd.argv[1] \in Readers

Stdin(q) == proc[q].fds[1]

ReadsTty(q) == Reads(q) /\ Stdin(q) = Tty

Writers(k) == {q \in Pid : <<"w", k>> \in Range(proc[q].fds)}

(* A program ends when it has read everything: the other end of its pipe   *)
(* is closed.                                                              *)
program_exit(q) ==
    /\ PcIs(q, "program") /\ ~ ReadsTty(q)
    /\ Reads(q) /\ Stdin(q)[1] = "r" => Writers(Stdin(q)[2]) = {}
    /\ proc' = exit(proc, q)

(* read(0, buf, NREAD), again and again until it returns 0.  usertrap()    *)
(* ends a process that was killed before it can call read() again.         *)
Resumes(q, n) == IF n = 0 \/ q \in killed THEN Goto(q, "exit") ELSE proc

program_sleep(q) ==
    /\ ReadsTty(q)
    /\ consoleread_sleep(q)
    /\ proc' = IF q \in killed THEN Goto(q, "exit") ELSE proc

program_read(q) ==
    /\ ReadsTty(q)
    /\ consoleread(q, NREAD)
    /\ proc' = IF Over(Wanted(q, NREAD)) THEN Resumes(q, Len(Filled(q, NREAD))) ELSE proc

program_fault(q, k) ==
    /\ ReadsTty(q)
    /\ Event
    /\ consoleread_fault(q, NREAD, k)
    /\ proc' = Resumes(q, Len(got[q]) + k - 1)
    /\ UNCHANGED keys

(* The end of a process that returned from main(), or was killed and is not*)
(* in the middle of a read.                                                *)
die(q) ==
    /\ q \in Live /\ ~ PcIs(q, "zombie")
    /\ PcIs(q, "exit") \/ (q \in killed /\ got[q] = << >>)
    /\ proc' = exit(proc, q)
    /\ killed' = killed \ {q}
    /\ UNCHANGED <<cons, asleep, got, ret>>

step(q) ==
    /\ Up
    /\ \/ /\ q \notin killed
          /\ runcmd(q) \/ list_wait(q) \/ pipe_right(q) \/ side(q) \/ pipe_wait(q) \/ program_exit(q)
          /\ UNCHANGED <<cons, calls>>
       \/ program_sleep(q) \/ program_read(q) \/ die(q)
    /\ UNCHANGED <<keys, events>>

shell ==
    /\ Up
    /\ gets_sleep \/ gets \/ (main_wait /\ UNCHANGED <<cons, calls>>)
    /\ UNCHANGED <<keys, events>>

user ==
    /\ Up
    /\ \/ key \/ \E k \in Edits : edit(k)
       \/ \E q \in Pid : kill(q) \/ \E k \in 1..NREAD : program_fault(q, k)

Next == user \/ main \/ restart \/ shell \/ \E q \in Pid : step(q)

(* The kernel schedules every process, a spinlock is not withheld for ever,*)
(* and a reader of the console gets its turn.  (main is enabled whenever   *)
(* the shell is there and lives, so that its fairness says that it does not*)
(* stay.)  Nobody has to type.                                             *)
Spec ==
    /\ Init /\ [][Next]_vars
    /\ SF_vars(shell) /\ []<>~ PcIs(sh, "main")
    /\ WF_vars(restart)
    /\ \A q \in Pid : SF_vars(step(q))

(***************************************************************************)
(* Properties                                                              *)
(***************************************************************************)
Between(x, y) == [k \in 1..Ahead(y, x) |-> At(x + k - 1)]

Char == (UNION {Range(l) : l \in Lines} \cup Edits \cup {"nl"}) \ {"cr", "^H", "^U"}

L == INSTANCE LineDiscipline WITH Key <- Char, CAPACITY <- INPUT_BUF, done <- Between(r, w),
                                  line <- Between(w, e)

(* The console implements LineDiscipline: editing never reaches a line that*)
(* was handed over; readers, also several at once, receive the characters  *)
(* of each line once and in order although the indices wrap; and a read    *)
(* that meets ^D late leaves it for the next, which returns nothing ("Save *)
(* ^D for next time", console.c:105).                                      *)
ImplementsLines == L!Spec

(* What the child of the shell runs is what the reference makes of the     *)
(* line: precedence of "|", "&" and ";", parentheses, redirections anywhere*)
(* among the words, and each string cut where its token ends.              *)
ParsedRight ==
    \A q \in Pid : PcIs(q, "runcmd") /\ proc[q].text # << >> =>
       proc[q].cmd = RefLine(Tokens(proc[q].text))

(* Pipes are plumbed: a process that runs a command or waits for one has   *)
(* its standard descriptors and no other, and never both ends of a pipe,   *)
(* so that a reader meets the end of file when the last writer is gone.    *)
Plumbed ==
    \A q \in Pid : LET fds == proc[q].fds IN
       proc[q].pc \in {"runcmd", "program", "list_wait", "pipe_wait", "main_wait"} =>
          /\ fds[4] = Closed /\ fds[5] = Closed
          /\ \A k \in 1..3 : fds[k] # Closed
          /\ fds[1][1] # "w" /\ fds[2][1] # "r"
          /\ \A k \in 1..NPIPE : ~ {<<"r", k>>, <<"w", k>>} \subseteq Range(fds)

(* The prompt comes back: the shell waits for ever only for a program that *)
(* reads from the console, also when processes are killed; and every line  *)
(* handed over is read.  (When init finds no room for a new shell, the     *)
(* machine stops.)                                                         *)
PromptReturns ==
    /\ PcIs(sh, "main_wait") ~> PcIs(sh, "gets") \/ ~ Up \/ \E q \in Pid : ReadsTty(q)
    /\ r # w ~> r = w \/ ~ Up
==============================================================================
