-------------------------------- MODULE Proc ---------------------------------
(***************************************************************************)
(* Processes, CPUs and the locks of kernel/proc.c: the scheduler, fork,    *)
(* exit, wait, kill, sleep and wakeup, with sleep() used by sys_sleep() and*)
(* wakeup() by the clock interrupt.                                        *)
(*                                                                         *)
(* Each CPU runs its scheduler or the kernel thread of a process, and an   *)
(* interrupt handler on top of it.  A spinlock belongs to a CPU.  What is  *)
(* done in one critical section of one lock is one step; a CPU that takes a*)
(* second lock, or releases the first of two, takes a step of its own.     *)
(* p->parent is read without p->lock where the code does.                  *)
(*                                                                         *)
(* A pid names a slot: kill() is given the pid of some slot, and that of an*)
(* unused slot is 0, or what a fork() that failed left there.              *)
(***************************************************************************)
EXTENDS Integers, FiniteSets

CONSTANTS NPROC,     \* slots of the process table
          NCPU,      \* CPUs
          TICKS,     \* the tick counter has values 0..TICKS - 1
          Calls      \* system calls user programs make

Proc == 1..NPROC

Cpu == 0..(NCPU - 1)

ASSUME SizeAssumption ==
    /\ NPROC \in Nat \ {0} /\ NCPU \in Nat \ {0} /\ TICKS \in Nat /\ TICKS > 1

initproc == 1

Nobody == 0                  \* no process

Idle == -1                   \* no CPU holds the lock

tickslock == 0

ticks_chan == NPROC + 1      \* &ticks as a sleep channel; p is that of wait()

Lock == Proc \cup {tickslock}

VARIABLES lock,              \* the CPU that holds each p->lock, and tickslock
          state, parent, chan, killed,
          pc,                \* where the kernel thread of each process is
          i,                 \* its loop variable
          np,                \* the child it creates; original_parent in exit()
          havekids,
          ret,               \* where it continues after sched()
          ticks, ticks0,
          cpu,               \* the process on each CPU (c->proc)
          intr,              \* where the clock interrupt of CPU 0 is
          j                  \* its loop variable in wakeup()

procs == <<state, parent, chan, killed>>

locals == <<i, np, havekids, ret, ticks0>>

clock == <<ticks, intr, j>>

vars == <<lock, procs, pc, locals, clock, cpu>>

(* userinit(): the other slots are unused.                                 *)
Init ==
    /\ lock = [l \in Lock |-> Idle]
    /\ state = [p \in Proc |-> IF p = initproc THEN "RUNNABLE" ELSE "UNUSED"]
    /\ parent = [p \in Proc |-> Nobody]
    /\ chan = [p \in Proc |-> Nobody]
    /\ killed = [p \in Proc |-> FALSE]
    /\ pc = [p \in Proc |-> "user"]
    /\ i = [p \in Proc |-> 1]
    /\ np = [p \in Proc |-> Nobody]
    /\ havekids = [p \in Proc |-> FALSE]
    /\ ret = [p \in Proc |-> "user"]
    /\ ticks = 0 /\ ticks0 = [p \in Proc |-> 0]
    /\ cpu = [c \in Cpu |-> Nobody]
    /\ intr = "off" /\ j = 1

Held(c) == {l \in Lock : lock[l] = c}

Free(l) == lock[l] = Idle

(* CPU c executes process p at label l.                                    *)
At(c, p, l) ==
    /\ cpu[c] = p
    /\ pc[p] = l
    /\ c = 0 => intr = "off"

Goto(p, l) == pc' = [pc EXCEPT ![p] = l]

Set(l, c) == lock' = [lock EXCEPT ![l] = c]

(***************************************************************************)
(* sched() and scheduler()                                                 *)
(***************************************************************************)
(* Mutant: p->lock is released before the switch.                          *)
sched_unlocked(c, p, l) ==
    /\ pc' = [pc EXCEPT ![p] = "swtch"]
    /\ ret' = [ret EXCEPT ![p] = l]
    /\ lock' = [lock EXCEPT ![p] = Idle]

(* sched(), called with p->lock held; the thread continues at l.  p->lock  *)
(* stays with the CPU.                                                     *)
sched(c, p, l) ==
    /\ pc' = [pc EXCEPT ![p] = "swtch"]
    /\ ret' = [ret EXCEPT ![p] = l]
    /\ lock' = [lock EXCEPT ![p] = c]

(* swtch() to the scheduler's context: c->proc = 0; release(&p->lock).     *)
swtch(c, p) ==
    /\ At(c, p, "swtch")
    /\ cpu' = [cpu EXCEPT ![c] = Nobody]
    /\ Goto(p, ret[p])
    /\ ret' = [ret EXCEPT ![p] = "user"]
    /\ Set(p, Idle)
    /\ UNCHANGED <<procs, i, np, havekids, ticks0, clock>>

(* scheduler(): a process that slept in wait() keeps the lock it slept     *)
(* with; the others release p->lock (yield, forkret, sleep).               *)
scheduler(c, p) ==
    /\ cpu[c] = Nobody
    /\ c = 0 => intr = "off"
    /\ Free(p)
    /\ state[p] = "RUNNABLE"
    /\ state' = [state EXCEPT ![p] = "RUNNING"]
    /\ chan' = [chan EXCEPT ![p] = Nobody]
    /\ cpu' = [cpu EXCEPT ![c] = p]
    /\ lock' = IF pc[p] = "wait_scan" THEN [lock EXCEPT ![p] = c] ELSE lock
    /\ UNCHANGED <<parent, killed, pc, locals, clock>>

yield(c, p) ==
    /\ Free(p)
    /\ state' = [state EXCEPT ![p] = "RUNNABLE"]
    /\ sched(c, p, pc[p])

(***************************************************************************)
(* The timer interrupt.  Interrupts are off while a CPU holds a lock.      *)
(***************************************************************************)
(* devintr() on another CPU than 0: usertrap() or kerneltrap() yields.     *)
timer(c, p) ==
    /\ c # 0
    /\ cpu[c] = p
    /\ pc[p] # "swtch"
    /\ Held(c) = {}
    /\ yield(c, p)
    /\ UNCHANGED <<parent, chan, killed, i, np, havekids, ticks0, clock, cpu>>

(* Mutant: the counter does not wrap.                                      *)
tick_wide == ticks + 1

(* ticks++, in unsigned arithmetic.                                        *)
tick == (ticks + 1) % TICKS

(* clockintr(), on CPU 0, whatever it was doing.                           *)
clockintr ==
    /\ intr = "off"
    /\ Held(0) = {}
    /\ cpu[0] # Nobody => pc[cpu[0]] # "swtch"
    /\ Free(tickslock)
    /\ Set(tickslock, 0)
    /\ ticks' = tick
    /\ intr' = "wakeup"
    /\ j' = 1
    /\ UNCHANGED <<procs, pc, locals, cpu>>

(* wakeup(&ticks), one process per step.                                   *)
wakeup ==
    /\ intr = "wakeup"
    /\ j <= NPROC
    /\ Free(j)
    /\ state' = IF state[j] = "SLEEPING" /\ chan[j] = ticks_chan
                THEN [state EXCEPT ![j] = "RUNNABLE"] ELSE state
    /\ j' = j + 1
    /\ UNCHANGED <<lock, parent, chan, killed, pc, locals, ticks, intr, cpu>>

clockintr_release ==
    /\ intr = "wakeup"
    /\ j > NPROC
    /\ Set(tickslock, Idle)
    /\ intr' = "return"
    /\ j' = 1
    /\ UNCHANGED <<procs, pc, locals, ticks, cpu>>

(* The end of the handler: the process on the CPU, if any, yields.         *)
clockintr_return ==
    LET p == cpu[0] IN
    /\ intr = "return"
    /\ intr' = "off"
    /\ IF p = Nobody
       THEN UNCHANGED <<lock, state, pc, ret>>
       ELSE yield(0, p)
    /\ UNCHANGED <<parent, chan, killed, i, np, havekids, ticks0, ticks, j, cpu>>

(***************************************************************************)
(* fork()                                                                  *)
(***************************************************************************)
(* allocproc() finds slot q and keeps its lock.  p->killed is not reset.   *)
fork(c, p, q) ==
    /\ At(c, p, "user")
    /\ ~ killed[p]
    /\ Free(q)
    /\ state[q] = "UNUSED"
    /\ Set(q, c)
    /\ np' = [np EXCEPT ![p] = q]
    /\ Goto(p, "fork")
    /\ UNCHANGED <<procs, i, havekids, ret, ticks0, clock, cpu>>

freeproc(q) ==
    /\ state' = [state EXCEPT ![q] = "UNUSED"]
    /\ parent' = [parent EXCEPT ![q] = Nobody]
    /\ chan' = [chan EXCEPT ![q] = Nobody]
    /\ killed' = [killed EXCEPT ![q] = FALSE]

(* The three ends: the child runs; no page for the trapframe; no page for  *)
(* the table or for uvmcopy().                                             *)
fork_return(c, p) ==
    LET q == np[p] IN
    /\ At(c, p, "fork")
    /\ \/ /\ parent' = [parent EXCEPT ![q] = p]
          /\ state' = [state EXCEPT ![q] = "RUNNABLE"]
          /\ pc' = [pc EXCEPT ![p] = "user", ![q] = "user"]
          /\ UNCHANGED <<chan, killed>>
       \/ Goto(p, "user") /\ UNCHANGED procs
       \/ Goto(p, "user") /\ freeproc(q)
    /\ Set(q, Idle)
    /\ np' = [np EXCEPT ![p] = Nobody]
    /\ UNCHANGED <<i, havekids, ret, ticks0, clock, cpu>>

(***************************************************************************)
(* exit()                                                                  *)
(***************************************************************************)
(* usertrap() exits on behalf of a killed process.                         *)
sys_exit(c, p) ==
    /\ At(c, p, "user")
    /\ p # initproc
    /\ Goto(p, "exit")
    /\ UNCHANGED <<lock, procs, locals, clock, cpu>>

(* The process states after wakeup1(p).                                    *)
wakeup1(p) == IF chan[p] = p /\ state[p] = "SLEEPING"
              THEN [state EXCEPT ![p] = "RUNNABLE"] ELSE state

(* Mutant: the process hands itself over to init.                          *)
exit_given(c, p) ==
    /\ At(c, p, "exit")
    /\ Free(initproc)
    /\ state' = wakeup1(initproc)
    /\ parent' = [parent EXCEPT ![p] = initproc]
    /\ Goto(p, "exit_parent")
    /\ UNCHANGED <<lock, chan, killed, locals, clock, cpu>>

(* wakeup1(initproc)                                                       *)
exit(c, p) ==
    /\ At(c, p, "exit")
    /\ Free(initproc)
    /\ state' = wakeup1(initproc)
    /\ Goto(p, "exit_parent")
    /\ UNCHANGED <<lock, parent, chan, killed, locals, clock, cpu>>

(* original_parent = p->parent                                             *)
exit_parent(c, p) ==
    /\ At(c, p, "exit_parent")
    /\ Free(p)
    /\ np' = [np EXCEPT ![p] = parent[p]]
    /\ Goto(p, "exit_lock_parent")
    /\ UNCHANGED <<lock, procs, i, havekids, ret, ticks0, clock, cpu>>

(* Mutant: the child's lock is taken before the parent's.                  *)
exit_lock_parent_last(c, p) ==
    /\ \/ At(c, p, "exit_lock_parent") /\ Free(p) /\ Set(p, c)
          /\ Goto(p, "exit_lock_last")
       \/ At(c, p, "exit_lock_last") /\ Free(np[p]) /\ Set(np[p], c)
          /\ Goto(p, "reparent")
    /\ i' = [i EXCEPT ![p] = 1]
    /\ UNCHANGED <<procs, np, havekids, ret, ticks0, clock, cpu>>

(* "the parent-then-child rule says we have to lock it first"              *)
exit_lock_parent(c, p) ==
    /\ At(c, p, "exit_lock_parent")
    /\ Free(np[p])
    /\ Set(np[p], c)
    /\ Goto(p, "exit_lock")
    /\ UNCHANGED <<procs, locals, clock, cpu>>

exit_lock(c, p) ==
    /\ At(c, p, "exit_lock")
    /\ Free(p)
    /\ Set(p, c)
    /\ i' = [i EXCEPT ![p] = 1]
    /\ Goto(p, "reparent")
    /\ UNCHANGED <<procs, np, havekids, ret, ticks0, clock, cpu>>

(* reparent(): pp->parent is looked at without pp->lock ...                *)
reparent(c, p) ==
    /\ At(c, p, "reparent")
    /\ IF i[p] > NPROC
       THEN i' = [i EXCEPT ![p] = 1] /\ Goto(p, "exit_zombie")
       ELSE IF parent[i[p]] = p
       THEN Goto(p, "reparent_lock") /\ UNCHANGED i
       ELSE i' = [i EXCEPT ![p] = @ + 1] /\ UNCHANGED pc
    /\ UNCHANGED <<lock, procs, np, havekids, ret, ticks0, clock, cpu>>

(* ... and changed with it.                                                *)
reparent_lock(c, p) ==
    /\ At(c, p, "reparent_lock")
    /\ Free(i[p])
    /\ parent' = [parent EXCEPT ![i[p]] = initproc]
    /\ i' = [i EXCEPT ![p] = @ + 1]
    /\ Goto(p, "reparent")
    /\ UNCHANGED <<lock, state, chan, killed, np, havekids, ret, ticks0, clock, cpu>>

(* wakeup1(original_parent), ZOMBIE, release(&original_parent->lock), and  *)
(* sched() with p->lock held.                                              *)
exit_zombie(c, p) ==
    /\ At(c, p, "exit_zombie")
    /\ state' = [wakeup1(np[p]) EXCEPT ![p] = "ZOMBIE"]
    /\ pc' = [pc EXCEPT ![p] = "swtch"]
    /\ ret' = [ret EXCEPT ![p] = "dead"]
    /\ lock' = [lock EXCEPT ![np[p]] = Idle]
    /\ np' = [np EXCEPT ![p] = Nobody]
    /\ UNCHANGED <<parent, chan, killed, i, havekids, ticks0, clock, cpu>>

(***************************************************************************)
(* wait()                                                                  *)
(***************************************************************************)
wait(c, p) ==
    /\ At(c, p, "user")
    /\ ~ killed[p]
    /\ Free(p)
    /\ Set(p, c)
    /\ i' = [i EXCEPT ![p] = 1]
    /\ havekids' = [havekids EXCEPT ![p] = FALSE]
    /\ Goto(p, "wait_scan")
    /\ UNCHANGED <<procs, np, ret, ticks0, clock, cpu>>

(* "No point waiting if we don't have any children", or when killed.       *)
no_point(p) == ~ havekids[p] \/ killed[p]

(* The scan looks at np->parent without np->lock.  After the last slot:    *)
(* return -1, or sleep(p, &p->lock).                                       *)
wait_scan(c, p) ==
    /\ At(c, p, "wait_scan")
    /\ IF i[p] > NPROC
       THEN /\ i' = [i EXCEPT ![p] = 1]
            /\ havekids' = [havekids EXCEPT ![p] = FALSE]
            /\ IF no_point(p)
               THEN Set(p, Idle) /\ Goto(p, "user") /\ UNCHANGED <<procs, ret>>
               ELSE /\ chan' = [chan EXCEPT ![p] = p]
                    /\ state' = [state EXCEPT ![p] = "SLEEPING"]
                    /\ sched(c, p, "wait_scan")
                    /\ UNCHANGED <<parent, killed>>
       ELSE /\ IF parent[i[p]] = p
               THEN Goto(p, "wait_lock") /\ UNCHANGED i
               ELSE i' = [i EXCEPT ![p] = @ + 1] /\ UNCHANGED pc
            /\ UNCHANGED <<lock, procs, havekids, ret>>
    /\ UNCHANGED <<np, ticks0, clock, cpu>>

(* A child: a zombie is freed, or left when copyout() of its status fails  *)
(* (init asks for no status).                                              *)
wait_lock(c, p) ==
    /\ At(c, p, "wait_lock")
    /\ Free(i[p])
    /\ IF state[i[p]] = "ZOMBIE"
       THEN /\ freeproc(i[p]) \/ (p # initproc /\ UNCHANGED procs)
            /\ Set(p, Idle)
            /\ i' = [i EXCEPT ![p] = 1]
            /\ havekids' = [havekids EXCEPT ![p] = FALSE]
            /\ Goto(p, "user")
       ELSE /\ havekids' = [havekids EXCEPT ![p] = TRUE]
            /\ i' = [i EXCEPT ![p] = @ + 1]
            /\ Goto(p, "wait_scan")
            /\ UNCHANGED <<lock, procs>>
    /\ UNCHANGED <<np, ret, ticks0, clock, cpu>>

(***************************************************************************)
(* sys_sleep(1) and sleep(&ticks, &tickslock)                              *)
(***************************************************************************)
sys_sleep(c, p) ==
    /\ At(c, p, "user")
    /\ ~ killed[p]
    /\ Free(tickslock)
    /\ Set(tickslock, c)
    /\ ticks0' = [ticks0 EXCEPT ![p] = ticks]
    /\ Goto(p, "sleep_test")
    /\ UNCHANGED <<procs, i, np, havekids, ret, clock, cpu>>

(* ticks - ticks0 < n, in unsigned arithmetic.                             *)
Elapsed(p) == (ticks - ticks0[p]) % TICKS >= 1

sleep_test(c, p) ==
    /\ At(c, p, "sleep_test")
    /\ IF Elapsed(p) \/ killed[p]
       THEN /\ Set(tickslock, Idle)
            /\ ticks0' = [ticks0 EXCEPT ![p] = 0]
            /\ Goto(p, "user")
       ELSE Goto(p, "sleep") /\ UNCHANGED <<lock, ticks0>>
    /\ UNCHANGED <<procs, i, np, havekids, ret, clock, cpu>>

(* Mutant: the caller's lock is released before p->lock is taken.          *)
sleep_unlocked(c, p) ==
    /\ \/ /\ At(c, p, "sleep")
          /\ Set(tickslock, Idle)
          /\ Goto(p, "sleep_lock")
          /\ UNCHANGED <<procs, ret>>
       \/ /\ At(c, p, "sleep_lock")
          /\ Free(p)
          /\ chan' = [chan EXCEPT ![p] = ticks_chan]
          /\ state' = [state EXCEPT ![p] = "SLEEPING"]
          /\ sched(c, p, "sleep_relock")
          /\ UNCHANGED <<parent, killed>>
    /\ UNCHANGED <<i, np, havekids, ticks0, clock, cpu>>

(* acquire(&p->lock), and only then release(lk).                           *)
sleep(c, p) ==
    /\ At(c, p, "sleep")
    /\ Free(p)
    /\ lock' = [lock EXCEPT ![p] = c, ![tickslock] = Idle]
    /\ Goto(p, "sleeping")
    /\ UNCHANGED <<procs, locals, clock, cpu>>

sleeping(c, p) ==
    /\ At(c, p, "sleeping")
    /\ chan' = [chan EXCEPT ![p] = ticks_chan]
    /\ state' = [state EXCEPT ![p] = "SLEEPING"]
    /\ sched(c, p, "sleep_relock")
    /\ UNCHANGED <<parent, killed, i, np, havekids, ticks0, clock, cpu>>

(* Awake: acquire(lk).                                                     *)
sleep_relock(c, p) ==
    /\ At(c, p, "sleep_relock")
    /\ Free(tickslock)
    /\ Set(tickslock, c)
    /\ Goto(p, "sleep_test")
    /\ UNCHANGED <<procs, locals, clock, cpu>>

(***************************************************************************)
(* kill(): the slots are visited one at a time; q is the one whose pid     *)
(* matches when it is visited.  No program kills init.                     *)
(***************************************************************************)
kill(c, p, q) ==
    /\ At(c, p, "user")
    /\ ~ killed[p]
    /\ q # initproc
    /\ Free(q)
    /\ killed' = [killed EXCEPT ![q] = TRUE]
    /\ state' = IF state[q] = "SLEEPING" THEN [state EXCEPT ![q] = "RUNNABLE"]
                                         ELSE state
    /\ UNCHANGED <<lock, parent, chan, pc, locals, clock, cpu>>

(* init only calls fork and wait (user/init.c).                            *)
syscall(c, p) ==
    \/ "exit" \in Calls /\ ~ killed[p] /\ sys_exit(c, p)
    \/ "fork" \in Calls /\ \E q \in Proc : fork(c, p, q)
    \/ "wait" \in Calls /\ wait(c, p)
    \/ "sleep" \in Calls /\ p # initproc /\ sys_sleep(c, p)
    \/ "kill" \in Calls /\ p # initproc /\ \E q \in Proc : kill(c, p, q)

(* What the kernel does for p once it is in it.                            *)
kernel(c, p) ==
    \/ killed[p] /\ sys_exit(c, p)
    \/ fork_return(c, p)
    \/ exit(c, p) \/ exit_parent(c, p) \/ exit_lock_parent(c, p) \/ exit_lock(c, p)
    \/ reparent(c, p) \/ reparent_lock(c, p) \/ exit_zombie(c, p)
    \/ wait_scan(c, p) \/ wait_lock(c, p)
    \/ sleep_test(c, p) \/ sleep(c, p) \/ sleeping(c, p) \/ sleep_relock(c, p)

handler == wakeup \/ clockintr_release \/ clockintr_return

Next ==
    \/ \E c \in Cpu, p \in Proc :
          \/ syscall(c, p) \/ kernel(c, p)
          \/ swtch(c, p) \/ scheduler(c, p) \/ timer(c, p)
    \/ clockintr \/ handler

Spec == Init /\ [][Next]_vars

(***************************************************************************)
(* Properties                                                              *)
(***************************************************************************)
(* The types of the variables; loop variables stay within the table.       *)
TypeOK ==
    /\ lock \in [Lock -> Cpu \cup {Idle}]
    /\ state \in [Proc -> {"UNUSED", "SLEEPING", "RUNNABLE", "RUNNING", "ZOMBIE"}]
    /\ parent \in [Proc -> Proc \cup {Nobody}]
    /\ chan \in [Proc -> Proc \cup {Nobody, ticks_chan}]
    /\ killed \in [Proc -> BOOLEAN] /\ havekids \in [Proc -> BOOLEAN]
    /\ i \in [Proc -> 1..(NPROC + 1)] /\ j \in 1..(NPROC + 1)
    /\ np \in [Proc -> Proc \cup {Nobody}]
    /\ ticks \in 0..(TICKS - 1) /\ ticks0 \in [Proc -> 0..(TICKS - 1)]
    /\ cpu \in [Cpu -> Proc \cup {Nobody}]
    /\ intr \in {"off", "wakeup", "return"}

(* The lock CPU c is about to acquire while it may hold others.            *)
Wants(c) ==
    LET p == cpu[c] IN
    IF c = 0 /\ intr # "off"
    THEN IF intr = "wakeup" /\ j <= NPROC THEN {j} ELSE {}
    ELSE IF p = Nobody THEN {}
    ELSE CASE pc[p] = "exit" -> {initproc}
           [] pc[p] = "exit_lock_parent" -> {np[p]}
           [] pc[p] \in {"exit_parent", "exit_lock", "sleep"} -> {p}
           [] pc[p] = "exit_lock_last" -> {np[p]}
           [] pc[p] \in {"reparent_lock", "wait_lock"} -> {i[p]}
           [] pc[p] = "sleep_relock" -> {tickslock}
           [] OTHER -> {}

(* "the parent-then-child rule" (proc.c:374) is enough: no group of CPUs   *)
(* waits for locks that the group itself holds, although exit() and wait() *)
(* hold two process locks, and sleep() and wakeup() one below tickslock.   *)
NoDeadlock ==
    \A S \in (SUBSET Cpu) \ {{}} :
       ~ \A c \in S : \E l \in Wants(c) : lock[l] \in S

(* "np->parent can't change between the check and the acquire()"           *)
(* (proc.c:316 and 416): p->parent is read without the lock in wait() and  *)
(* reparent(), and still holds when the lock is taken.  And everybody has a*)
(* parent that can still call wait(): exit() gives all children away before*)
(* it becomes a zombie, those born or exiting at the same time included.   *)
ParentStable ==
    /\ \A p \in Proc : pc[p] \in {"reparent_lock", "wait_lock"} => parent[i[p]] = p
    /\ \A q \in Proc \ {initproc} : state[q] # "UNUSED" =>
          parent[q] \in Proc /\ state[parent[q]] \notin {"UNUSED", "ZOMBIE"}

(* The hand-over of p->lock across swtch() keeps a process off a second CPU*)
(* while the first still runs on its kernel stack, exactly the RUNNING     *)
(* processes are on a CPU, and none of the panics of sched() is reached:   *)
(* "Must hold only p->lock and have changed proc->state" (proc.c:494).     *)
OneStack ==
    /\ \A c, d \in Cpu : cpu[c] = cpu[d] /\ cpu[c] # Nobody => c = d
    /\ \A p \in Proc : state[p] = "RUNNING" <=>
          \E c \in Cpu : cpu[c] = p /\ pc[p] # "swtch"
    /\ \A c \in Cpu : cpu[c] # Nobody =>
          (pc[cpu[c]] = "swtch" => Held(c) = {cpu[c]} /\ state[cpu[c]] # "RUNNING")

(* "we can be guaranteed that we won't miss any wakeup" (proc.c:563), for  *)
(* each kind of wakeup.  A process is asleep in sleep(&ticks) after a tick *)
(* only while it is still ahead of the clock interrupt's wakeup(), and     *)
(* never sleeps again then, also when ticks has wrapped.  "hold p->lock    *)
(* for the whole time to avoid lost wakeups from a child's exit()"         *)
(* (proc.c:404): a parent other than init never sleeps in wait() while a   *)
(* child of its own is a zombie.  A killed process is never asleep in      *)
(* wait(); in sys_sleep() it may be, until the next tick.                  *)
WakeupsSeen ==
    \A p \in Proc : state[p] = "SLEEPING" =>
       /\ chan[p] = ticks_chan /\ ticks # ticks0[p] => intr = "wakeup" /\ j <= p
       /\ p # initproc /\ chan[p] = p =>
             \A q \in Proc : parent[q] = p => state[q] # "ZOMBIE"
       /\ killed[p] => chan[p] = ticks_chan
==============================================================================
