-------------------------------- MODULE CowVM --------------------------------
(***************************************************************************)
(* User memory with copy-on-write fork: the page tables of kernel/vm.c, the*)
(* page-fault branch of usertrap() and copy_on_write() in kernel/trap.c,   *)
(* and what fork, exit, wait, sbrk and exec do to them.                    *)
(*                                                                         *)
(* Processes run concurrently.  Every loop over pages takes one step per   *)
(* page.  A call of the allocator is atomic: module Kalloc models the calls*)
(* step by step and shows that nothing else can be observed.               *)
(*                                                                         *)
(* Sizes and addresses are counted in pages.  The address NPAGE stands for *)
(* every address at or above MAXVA.  Pages that hold trapframes and        *)
(* page-table pages are counted, not named.  A table has the three levels  *)
(* of Sv39: its root, the two pages under it for the trampoline and the    *)
(* trapframe, and for user memory one page on level 1 and one on level 0   *)
(* for every LEAF addresses.                                               *)
(***************************************************************************)
EXTENDS Integers, FiniteSets, Functions

CONSTANTS Proc,       \* slots of the process table
          InitProc,   \* the first process
          NPAGE,      \* bound on the size of an address space
          LEAF,       \* entries of a page-table page (512)
          Page,       \* physical pages
          Val,        \* page contents a user program can produce
          Zero, Junk, \* after memset(0); after the junk fills
          None,       \* no page, no process
          Taken,      \* how many pages pipes may hold already
          UINT,       \* 2^32, the range of growproc's sz, in pages
          Addrs,      \* addresses user programs pass to the kernel
          Calls       \* system calls user programs make

VA == 0..(NPAGE - 1)

ASSUME ProcAssumption == InitProc \in Proc /\ None \notin Proc
ASSUME ValAssumption == Zero \in Val /\ Junk \notin Val /\ None \notin Val
ASSUME AddrsAssumption == NPAGE \in Nat \ {0} /\ Addrs \subseteq 0..NPAGE
ASSUME LeafAssumption == LEAF \in Nat \ {0}
ASSUME TakenAssumption == Taken \subseteq Nat
ASSUME UintAssumption == UINT \in Nat /\ UINT > 2 * NPAGE + 1

(* A process has its page table and, during exec(), the one being built.   *)
Table == Proc \X {"cur", "new"}

cur(p) == <<p, "cur">>
new(p) == <<p, "new">>

VARIABLES freelist,  \* free pages, those counted in kpages included
          pageref,   \* reference counts
          mem,       \* page contents
          pt,        \* leaf entries of each table
          kpages,    \* pages of each table, trapframe and of pipes
          tramp,     \* TRAMPOLINE and TRAPFRAME, where mapped in each table
          state,     \* process state
          sz,        \* p->sz
          parent,    \* p->parent
          th,        \* what each process is doing
          panic      \* the message of panic(), or None

vars == <<freelist, pageref, mem, pt, kpages, tramp, state, sz, parent, th, panic>>

tables == <<pt, kpages, tramp>>

alloc == <<freelist, pageref, mem>>

procs == <<state, sz, parent>>

(* The kernel code process p executes: pc, the table tb and the pages i..hi*)
(* of the loop it is in, where it goes on success and on failure, the pages*)
(* mapped so far (n), the value it stores and the child it works for.      *)
User == [pc |-> "user", tb |-> None, i |-> 0, lo |-> 0, hi |-> 0, n |-> 0,
         ok |-> "user", err |-> "user", x |-> Zero, c |-> None]

(* panic() stops the machine.                                              *)
At(p, l) == panic = None /\ state[p] = "run" /\ th[p].pc = l

Goto(p, l) == th' = [th EXCEPT ![p] = IF l = "user" THEN User
                                      ELSE [th[p] EXCEPT !.pc = l]]

(* A page-table entry: PTE2PA and the flags W, COW and U.                  *)
Pte(pa, w, cow, u) == [pa |-> pa, w |-> w, cow |-> cow, u |-> u]

Valid(tb, v) == v \in VA /\ pt[tb][v] # None

Panic(msg) ==
    /\ panic' = msg
    /\ UNCHANGED <<alloc, tables, procs, th>>

(* The page that heads the free list: they are all alike.                  *)
Pick(S) == CHOOSE pa \in S : TRUE

(* The number of pages kalloc can still hand out.                          *)
Avail ==
    Cardinality(freelist) - FoldFunction(LAMBDA s, n : Cardinality(s) + n, 0, kpages)

(* Mutant: the page of the last reference is not freed.                    *)
kfree_late(pa) ==
    LET n == pageref[pa] - 1 IN
    /\ pageref' = [pageref EXCEPT ![pa] = n]
    /\ freelist' = IF n < 0 THEN freelist \cup {pa} ELSE freelist
    /\ UNCHANGED mem

(* kfree(pa): count down; the last reference frees the page.               *)
kfree(pa) ==
    LET n == pageref[pa] - 1 IN
    /\ pageref' = [pageref EXCEPT ![pa] = n]
    /\ freelist' = IF n <= 0 THEN freelist \cup {pa} ELSE freelist
    /\ mem' = IF n <= 0 THEN [mem EXCEPT ![pa] = Junk] ELSE mem

(* kalloc() of page pa, which then holds x.                                *)
kalloc(pa, x) ==
    /\ freelist' = freelist \ {pa}
    /\ pageref' = [pageref EXCEPT ![pa] = 1]
    /\ mem' = [mem EXCEPT ![pa] = x]

NoPages == [v \in VA |-> None]

(* The first process's table, with its page of code.                       *)
uvminit(pa) == [NoPages EXCEPT ![0] = Pte(pa, TRUE, FALSE, TRUE)]

Root == -1

(* The page-table pages on the way from the root to the special pages and  *)
(* to user address v, level 1 first.                                       *)
HighPath == <<-3, -2>>
Path(v)  == <<-4, v \div LEAF>>

Special == {"TRAMPOLINE", "TRAPFRAME"}

(* userinit(): one process with one page of code.                          *)
Init ==
    LET pa == Pick(Page) IN
    /\ freelist = Page \ {pa}
    /\ pageref = [p \in Page |-> IF p = pa THEN 1 ELSE -1]
    /\ mem = [p \in Page |-> IF p = pa THEN Zero ELSE Junk]
    /\ pt = [tb \in Table |-> IF tb = cur(InitProc) THEN uvminit(pa) ELSE NoPages]
    /\ \E k \in Taken : kpages = [h \in Table \cup Proc \cup {None} |->
          CASE h = cur(InitProc) -> {Root} \cup Range(HighPath) \cup Range(Path(0))
            [] h = InitProc -> {0} [] h = None -> 1..k [] OTHER -> {}]
    /\ tramp = [tb \in Table |-> IF tb = cur(InitProc) THEN Special ELSE {}]
    /\ state = [p \in Proc |-> IF p = InitProc THEN "run" ELSE "unused"]
    /\ sz = [p \in Proc |-> IF p = InitProc THEN 1 ELSE 0]
    /\ parent = [p \in Proc |-> None]
    /\ th = [p \in Proc |-> User]
    /\ panic = None

(***************************************************************************)
(* Page faults.  A store instruction runs again until it succeeds.         *)
(***************************************************************************)
user_access(p, v, x) ==
    /\ At(p, "user")
    /\ th' = [th EXCEPT ![p].pc = "access", ![p].i = v, ![p].x = x]
    /\ UNCHANGED <<alloc, tables, procs, panic>>

CanStore(p, v) == Valid(cur(p), v) /\ pt[cur(p)][v].w /\ pt[cur(p)][v].u

user_store(p) ==
    /\ At(p, "access")
    /\ CanStore(p, th[p].i)
    /\ mem' = [mem EXCEPT ![pt[cur(p)][th[p].i].pa] = th[p].x]
    /\ Goto(p, "user")
    /\ UNCHANGED <<freelist, pageref, tables, procs, panic>>

page_fault(p) ==
    /\ At(p, "access")
    /\ ~ CanStore(p, th[p].i)
    /\ Goto(p, "usertrap")
    /\ UNCHANGED <<alloc, tables, procs, panic>>

(* Mutant: off by one, the last page of the process is left out.           *)
should_copyon_write_short(p, v) ==
    v + 1 < sz[p] /\ Valid(cur(p), v) /\ pt[cur(p)][v].cow

should_copyon_write(p, v) ==
    v < sz[p] /\ Valid(cur(p), v) /\ pt[cur(p)][v].cow

(* copy_on_write() fails only when it needs a page and there is none.      *)
cow_fails(p, v) == pageref[pt[cur(p)][v].pa] > 1 /\ Avail = 0

(* Mutant: PTE_U is given to every page.                                   *)
cow_pte_user(pa, pte) == Pte(pa, TRUE, FALSE, TRUE)

(* flags = (PTE_FLAGS( *pte) & ~PTE_COW) | PTE_W                            *)
cow_pte(pa, pte) == Pte(pa, TRUE, FALSE, pte.u)

(* Mutant: write permission without a copy.                                *)
copy_on_write_shared(p, v) ==
    /\ pt' = [pt EXCEPT ![cur(p)][v].w = TRUE, ![cur(p)][v].cow = FALSE]
    /\ UNCHANGED alloc

(* A page with one reference stays; otherwise its content moves to a new   *)
(* page and the old one is counted down.  PTE_U is kept.                   *)
copy_on_write(p, v) ==
    LET pte == pt[cur(p)][v]
        own == pageref[pte.pa] <= 1
        pa  == IF own THEN pte.pa ELSE Pick(freelist)
    IN
    /\ pt' = [pt EXCEPT ![cur(p)][v] = cow_pte(pa, pte)]
    /\ IF own
       THEN UNCHANGED alloc
       ELSE /\ freelist' = freelist \ {pa}
            /\ pageref' = [pageref EXCEPT ![pa] = 1, ![pte.pa] = @ - 1]
            /\ mem' = [mem EXCEPT ![pa] = mem[pte.pa]]

(* exit(): the children go to init, the process becomes a zombie.          *)
exit(p) ==
    IF p = InitProc
    THEN Panic("init exiting")
    ELSE /\ state' = [state EXCEPT ![p] = "zombie"]
         /\ parent' = [c \in Proc |-> IF parent[c] = p THEN InitProc ELSE parent[c]]
         /\ th' = [th EXCEPT ![p] = User]
         /\ UNCHANGED <<alloc, tables, sz, panic>>

(* scause 13 or 15: an address that is not copy-on-write is left alone and *)
(* the instruction runs again.                                             *)
usertrap(p) ==
    LET v == th[p].i IN
    /\ At(p, "usertrap")
    /\ IF v = NPAGE THEN Panic("walk")
       ELSE IF ~ should_copyon_write(p, v)
       THEN Goto(p, "access") /\ UNCHANGED <<alloc, tables, procs, panic>>
       ELSE IF cow_fails(p, v)
       THEN exit(p)
       ELSE /\ copy_on_write(p, v)
            /\ Goto(p, "access")
            /\ UNCHANGED <<kpages, tramp, procs, panic>>

sys_exit(p) ==
    /\ At(p, "user")
    /\ p # InitProc
    /\ exit(p)

(***************************************************************************)
(* The loops of vm.c.                                                      *)
(***************************************************************************)
NextPage(p) == th' = [th EXCEPT ![p].i = @ + 1]

(* uvmunmap(.., do_free = 1): one page per step.                           *)
uvmunmap(p) ==
    LET k == th[p] IN
    /\ At(p, "uvmunmap")
    /\ IF k.i = k.hi
       THEN Goto(p, k.ok) /\ UNCHANGED <<alloc, tables, procs, panic>>
       ELSE IF ~ Valid(k.tb, k.i)
       THEN Panic("uvmunmap: not mapped")
       ELSE /\ kfree(pt[k.tb][k.i].pa)
            /\ pt' = [pt EXCEPT ![k.tb][k.i] = None]
            /\ NextPage(p)
            /\ UNCHANGED <<kpages, tramp, procs, panic>>

(* An empty table takes one page.                                          *)
uvmcreate(tb) == [kpages EXCEPT ![tb] = {Root}]

Missing(tb, path) == Range(path) \ kpages[tb]

(* Do n pages suffice for walk(.., alloc = 1) along path?                  *)
Walkable(tb, path, n) == Cardinality(Missing(tb, path)) <= n

(* The pages of tb afterwards.  A walk that fails leaves what it added.    *)
walk(tb, path, n) ==
    [kpages EXCEPT ![tb] = @ \cup (IF Walkable(tb, path, n) THEN Range(path)
                                  ELSE IF n > 0 THEN {path[1]} ELSE {})]

mappages(tb, v, pte) == [pt EXCEPT ![tb][v] = pte]

(* The process in state k goes on with uvmdealloc(), then label l.         *)
uvmdealloc(k, hi, lo, l) ==
    [k EXCEPT !.pc = "uvmunmap", !.i = lo, !.lo = lo, !.hi = hi, !.ok = l]

(* Where the pages of a uvmalloc() that fails end.  Mutant: one too far.   *)
Undone_more(k) == k.i + 1

Undone(k) == k.i

(* uvmalloc(tb, lo, hi): on failure the pages of this call are unmapped.   *)
(* The new page is given back when there is none for the table.            *)
uvmalloc(p) ==
    LET k == th[p]
        new_pa == Pick(freelist)
    IN
    /\ At(p, "uvmalloc")
    /\ UNCHANGED <<tramp, procs>>
    /\ IF k.i = k.hi
       THEN Goto(p, k.ok) /\ UNCHANGED <<alloc, pt, kpages, panic>>
       ELSE IF Avail = 0
       THEN /\ th' = [th EXCEPT ![p] = uvmdealloc(k, Undone(k), k.lo, k.err)]
            /\ UNCHANGED <<alloc, pt, kpages, panic>>
       ELSE IF ~ Walkable(k.tb, Path(k.i), Avail - 1)
       THEN /\ kpages' = walk(k.tb, Path(k.i), Avail - 1)
            /\ pageref' = [pageref EXCEPT ![new_pa] = 0]
            /\ mem' = [mem EXCEPT ![new_pa] = Junk]
            /\ th' = [th EXCEPT ![p] = uvmdealloc(k, Undone(k), k.lo, k.err)]
            /\ UNCHANGED <<freelist, pt, panic>>
       ELSE IF Valid(k.tb, k.i)
       THEN panic' = "remap" /\ UNCHANGED <<alloc, pt, kpages, th>>
       ELSE /\ kalloc(new_pa, Zero)
            /\ pt' = mappages(k.tb, k.i, Pte(new_pa, TRUE, FALSE, TRUE))
            /\ kpages' = walk(k.tb, Path(k.i), Avail - 1)
            /\ NextPage(p)
            /\ UNCHANGED panic

(* freewalk(): every leaf must be gone; the page-table pages are freed.    *)
freewalk(p) ==
    LET k == th[p] IN
    /\ At(p, "freewalk")
    /\ IF tramp[k.tb] # {} \/ \E v \in VA : pt[k.tb][v] # None
       THEN Panic("freewalk: leaf")
       ELSE /\ kpages' = [kpages EXCEPT ![k.tb] = {}]
            /\ Goto(p, k.err)
            /\ UNCHANGED <<alloc, pt, tramp, procs, panic>>

(* The process in state k goes on with uvmfree(), then label l.            *)
uvmfree(k, tb, n, l) ==
    [k EXCEPT !.pc = "uvmunmap", !.tb = tb, !.i = 0, !.hi = n, !.ok = "freewalk", !.err = l]

(* proc_freepagetable(): the special pages are unmapped first and must be  *)
(* there.                                                                  *)
proc_freepagetable(p) ==
    LET k == th[p] IN
    /\ At(p, "proc_freepagetable")
    /\ IF tramp[k.tb] # Special
       THEN Panic("uvmunmap: not mapped")
       ELSE /\ tramp' = [tramp EXCEPT ![k.tb] = {}]
            /\ th' = [th EXCEPT ![p] = uvmfree(@, k.tb, k.hi, k.err)]
            /\ UNCHANGED <<alloc, pt, kpages, procs, panic>>

(* proc_freepagetable(tb, n), then label l.                                *)
FreeTable(p, tb, n, l) ==
    th' = [th EXCEPT ![p] = [@ EXCEPT !.pc = "proc_freepagetable", !.tb = tb,
                                      !.hi = n, !.err = l]]

(***************************************************************************)
(* proc_pagetable(), into the table th[p].tb; on failure nothing is left.  *)
(***************************************************************************)
proc_pagetable(p) ==
    LET k == th[p] IN
    /\ At(p, "proc_pagetable")
    /\ IF Avail = 0
       THEN Goto(p, k.err) /\ UNCHANGED kpages
       ELSE Goto(p, "TRAMPOLINE") /\ kpages' = uvmcreate(k.tb)
    /\ UNCHANGED <<alloc, pt, tramp, procs, panic>>

(* mappages() of the trampoline.                                           *)
map_trampoline(p) ==
    LET k == th[p] IN
    /\ At(p, "TRAMPOLINE")
    /\ kpages' = walk(k.tb, HighPath, Avail)
    /\ IF Walkable(k.tb, HighPath, Avail)
       THEN /\ tramp' = [tramp EXCEPT ![k.tb] = {"TRAMPOLINE"}]
            /\ Goto(p, "TRAPFRAME")
       ELSE /\ th' = [th EXCEPT ![p] = uvmfree(@, k.tb, 0, k.err)]
            /\ UNCHANGED tramp
    /\ UNCHANGED <<alloc, pt, procs, panic>>

(* mappages() of the trapframe, below the trampoline and in the same leaf  *)
(* of the table; were it to fail the trampoline is unmapped first.         *)
map_trapframe(p) ==
    LET k == th[p] IN
    /\ At(p, "TRAPFRAME")
    /\ kpages' = walk(k.tb, HighPath, Avail)
    /\ IF Walkable(k.tb, HighPath, Avail)
       THEN /\ tramp' = [tramp EXCEPT ![k.tb] = Special]
            /\ Goto(p, k.ok)
       ELSE /\ tramp' = [tramp EXCEPT ![k.tb] = {}]
            /\ th' = [th EXCEPT ![p] = uvmfree(@, k.tb, 0, k.err)]
    /\ UNCHANGED <<alloc, pt, procs, panic>>

(* A system call that starts loop l of table tb over the pages lo..hi-1.   *)
Loop(p, l, tb, lo, hi, ok, err, x) ==
    th' = [th EXCEPT ![p] = [User EXCEPT !.pc = l, !.tb = tb, !.i = lo, !.lo = lo,
                                !.hi = hi, !.ok = ok, !.err = err, !.x = x]]

(***************************************************************************)
(* sbrk()                                                                  *)
(***************************************************************************)
(* The new size is computed in a uint.  uvmalloc() and uvmdealloc() return *)
(* the old size, and nothing happens, when it wrapped around: a process    *)
(* that gives back more than it has keeps everything.                      *)
growproc(p, n) ==
    LET newsz == (sz[p] + n) % UINT IN
    /\ At(p, "user")
    /\ \/ /\ n > 0 /\ newsz > sz[p] /\ newsz <= NPAGE
          /\ Loop(p, "uvmalloc", cur(p), sz[p], newsz, "grow_done", "user", Zero)
       \/ /\ n < 0 /\ newsz < sz[p]
          /\ th' = [th EXCEPT ![p] =
                 uvmdealloc([User EXCEPT !.tb = cur(p)], sz[p], newsz, "shrink_done")]
       \/ /\ (n > 0 /\ newsz <= sz[p]) \/ (n < 0 /\ newsz >= sz[p]) \/ n = 0
          /\ UNCHANGED th
    /\ UNCHANGED <<alloc, tables, procs, panic>>

(* p->sz = sz, once the loop is over.                                      *)
growproc_done(p) ==
    /\ \/ At(p, "grow_done") /\ sz' = [sz EXCEPT ![p] = th[p].hi]
       \/ At(p, "shrink_done") /\ sz' = [sz EXCEPT ![p] = th[p].lo]
    /\ Goto(p, "user")
    /\ UNCHANGED <<alloc, tables, state, parent, panic>>

(***************************************************************************)
(* fork() and wait()                                                       *)
(***************************************************************************)
(* allocproc() takes the trapframe page; with none left fork() returns -1. *)
(* Without a table freeproc() undoes it.                                   *)
fork(p, c) ==
    /\ At(p, "user")
    /\ state[c] = "unused"
    /\ Avail > 0
    /\ kpages' = [kpages EXCEPT ![c] = {0}]
    /\ state' = [state EXCEPT ![c] = "new"]
    /\ th' = [th EXCEPT ![p] = [User EXCEPT !.pc = "proc_pagetable", !.tb = cur(c),
                                   !.ok = "uvmcopy", !.err = "freeproc", !.c = c]]
    /\ UNCHANGED <<alloc, pt, tramp, sz, parent, panic>>

(* One page of uvmcopy(): the parent's entry becomes copy-on-write even    *)
(* when mapping the child's fails.                                         *)
uvmcopy(p) ==
    LET k == th[p]
        child == cur(k.c)
        pte == pt[cur(p)][k.i]
        cow == Pte(pte.pa, FALSE, TRUE, pte.u)
    IN
    /\ At(p, "uvmcopy")
    /\ k.i < sz[p]
    /\ IF ~ Valid(cur(p), k.i)
       THEN Panic("uvmcopy: page not present")
       ELSE IF ~ Walkable(child, Path(k.i), Avail)
       THEN /\ pt' = [pt EXCEPT ![cur(p)][k.i] = cow]
            /\ kpages' = walk(child, Path(k.i), Avail)
            /\ th' = [th EXCEPT ![p] = [k EXCEPT !.pc = "uvmunmap", !.tb = child,
                            !.i = 0, !.hi = k.i, !.ok = "freeproc"]]
            /\ UNCHANGED <<alloc, tramp, procs, panic>>
       ELSE IF Valid(child, k.i)
       THEN Panic("remap")
       ELSE /\ pt' = [mappages(child, k.i, cow) EXCEPT ![cur(p)][k.i] = cow]
            /\ pageref' = [pageref EXCEPT ![pte.pa] = @ + 1]
            /\ kpages' = walk(child, Path(k.i), Avail)
            /\ NextPage(p)
            /\ UNCHANGED <<freelist, mem, tramp, procs, panic>>

fork_done(p) ==
    LET c == th[p].c IN
    /\ At(p, "uvmcopy")
    /\ th[p].i = sz[p]
    /\ sz' = [sz EXCEPT ![c] = sz[p]]
    /\ parent' = [parent EXCEPT ![c] = p]
    /\ state' = [state EXCEPT ![c] = "run"]
    /\ Goto(p, "user")
    /\ UNCHANGED <<alloc, tables, panic>>

(* Mutant: the trapframe page is forgotten.                                *)
freeproc_leak(p) ==
    LET c == th[p].c IN
    /\ At(p, "freeproc")
    /\ IF kpages[cur(c)] = {}
       THEN Goto(p, "freeproc_done")
       ELSE FreeTable(p, cur(c), sz[c], "freeproc_done")
    /\ UNCHANGED <<alloc, tables, procs, panic>>

(* freeproc(c): the trapframe, and if there is a table the user pages and  *)
(* the table ...                                                           *)
freeproc(p) ==
    LET c == th[p].c IN
    /\ At(p, "freeproc")
    /\ kpages' = [kpages EXCEPT ![c] = {}]
    /\ IF kpages[cur(c)] = {}
       THEN Goto(p, "freeproc_done")
       ELSE FreeTable(p, cur(c), sz[c], "freeproc_done")
    /\ UNCHANGED <<alloc, pt, tramp, procs, panic>>

(* ... and the fields.                                                     *)
freeproc_done(p) ==
    LET c == th[p].c IN
    /\ At(p, "freeproc_done")
    /\ sz' = [sz EXCEPT ![c] = 0]
    /\ parent' = [parent EXCEPT ![c] = None]
    /\ state' = [state EXCEPT ![c] = "unused"]
    /\ Goto(p, "user")
    /\ UNCHANGED <<alloc, tables, panic>>

(* wait() stores the exit status first, unless the address is 0 (None); it *)
(* returns -1 and leaves the zombie when it cannot.                        *)
wait(p, c, v, x) ==
    /\ At(p, "user")
    /\ parent[c] = p
    /\ state[c] = "zombie"
    /\ th' = [th EXCEPT ![p] =
                 IF v = None
                 THEN [User EXCEPT !.pc = "freeproc", !.c = c]
                 ELSE [User EXCEPT !.pc = "copyout", !.tb = cur(p), !.i = v,
                         !.hi = v + 1, !.ok = "freeproc", !.x = x, !.c = c]]
    /\ UNCHANGED <<alloc, tables, procs, panic>>

(***************************************************************************)
(* copyout(tb, va, x), for read(), pipe(), fstat(), wait() and exec().     *)
(***************************************************************************)
(* Between the end of user memory and MAXVA there are unmapped pages.      *)
sys_read(p, v, n, x) ==
    /\ At(p, "user")
    /\ v + n <= NPAGE \/ v = NPAGE
    /\ Loop(p, "copyout", cur(p), v, v + n, "user", "user", x)
    /\ UNCHANGED <<alloc, tables, procs, panic>>

(* The first half of an iteration looks at the table of the process, which *)
(* is not always tb, and ignores what copy_on_write() returns.             *)
copyout(p) ==
    LET v == th[p].i IN
    /\ At(p, "copyout")
    /\ IF v = NPAGE
       THEN Panic("walk")
       ELSE /\ IF should_copyon_write(p, v) /\ ~ cow_fails(p, v)
               THEN copy_on_write(p, v)
               ELSE UNCHANGED <<alloc, pt>>
            /\ Goto(p, "copyout_move")
            /\ UNCHANGED <<kpages, tramp, procs, panic>>

(* The second half writes wherever walkaddr() finds a user page.           *)
copyout_move(p) ==
    LET k == th[p] IN
    /\ At(p, "copyout_move")
    /\ IF Valid(k.tb, k.i) /\ pt[k.tb][k.i].u
       THEN /\ mem' = [mem EXCEPT ![pt[k.tb][k.i].pa] = k.x]
            /\ IF k.i + 1 = k.hi
               THEN Goto(p, k.ok)
               ELSE th' = [th EXCEPT ![p].i = @ + 1, ![p].pc = "copyout"]
       ELSE Goto(p, k.err) /\ UNCHANGED mem
    /\ UNCHANGED <<freelist, pageref, tables, procs, panic>>

(***************************************************************************)
(* exec() of a program of n pages, into a table of its own.                *)
(***************************************************************************)
exec(p, n) ==
    /\ At(p, "user")
    /\ th' = [th EXCEPT ![p] = [User EXCEPT !.pc = "proc_pagetable", !.tb = new(p),
                                   !.hi = n, !.ok = "exec_pages"]]
    /\ UNCHANGED <<alloc, tables, procs, panic>>

(* The pages of the program.                                               *)
exec_pages(p) ==
    /\ At(p, "exec_pages")
    /\ Loop(p, "uvmalloc", new(p), 0, th[p].hi, "exec_load", "exec_bad", Zero)
    /\ UNCHANGED <<alloc, tables, procs, panic>>

(* The memory once the n pages of the program hold x.                      *)
loadseg(tb, n, x) ==
    [pa \in Page |-> IF \E v \in 0..(n - 1) : pt[tb][v].pa = pa THEN x ELSE mem[pa]]

(* loadseg() fills the program's pages or fails; then the guard page and   *)
(* the stack are allocated.                                                *)
exec_load(p) ==
    LET k == th[p] IN
    /\ At(p, "exec_load")
    /\ \/ /\ \E x \in Val : mem' = loadseg(k.tb, k.hi, x)
          /\ th' = [th EXCEPT ![p] = [k EXCEPT !.pc = "uvmalloc", !.lo = k.hi,
                       !.i = k.hi, !.hi = k.hi + 2, !.n = k.hi, !.ok = "exec_stack"]]
       \/ /\ th' = [th EXCEPT ![p].pc = "exec_bad", ![p].n = k.hi]
          /\ UNCHANGED mem
    /\ UNCHANGED <<freelist, pageref, tables, procs, panic>>

uvmclear(tb, v) == [pt EXCEPT ![tb][v].u = FALSE]

(* uvmclear() of the guard page; copyout() of the arguments to the stack.  *)
(* Too many arguments, or too long ones, may be noticed before or after    *)
(* some of them have been copied.                                          *)
exec_stack(p) ==
    LET k == th[p] IN
    /\ At(p, "exec_stack")
    /\ pt' = uvmclear(k.tb, k.hi - 2)
    /\ \/ \E x \in Val, l \in {"exec_commit", "exec_bad"} :
             th' = [th EXCEPT ![p] = [k EXCEPT !.pc = "copyout", !.i = k.hi - 1,
                          !.n = k.hi, !.ok = l, !.err = "exec_bad", !.x = x]]
       \/ th' = [th EXCEPT ![p].pc = "exec_bad", ![p].n = k.hi]
    /\ UNCHANGED <<alloc, kpages, tramp, procs, panic>>

(* The new table becomes the process's own and the old one is freed.       *)
exec_commit(p) ==
    LET k == th[p] IN
    /\ At(p, "exec_commit")
    /\ pt' = [pt EXCEPT ![cur(p)] = pt[new(p)], ![new(p)] = pt[cur(p)]]
    /\ kpages' = [kpages EXCEPT ![cur(p)] = kpages[new(p)],
                                ![new(p)] = kpages[cur(p)]]
    /\ tramp' = [tramp EXCEPT ![cur(p)] = tramp[new(p)], ![new(p)] = tramp[cur(p)]]
    /\ sz' = [sz EXCEPT ![p] = k.n]
    /\ FreeTable(p, new(p), sz[p], "user")
    /\ UNCHANGED <<alloc, state, parent, panic>>

exec_bad(p) ==
    /\ At(p, "exec_bad")
    /\ FreeTable(p, new(p), th[p].n, "user")
    /\ UNCHANGED <<alloc, tables, procs, panic>>

syscall(p) ==
    \/ "exit" \in Calls /\ sys_exit(p)
    \/ "sbrk" \in Calls /\ \E n \in -(NPAGE + 1)..NPAGE : growproc(p, n)
    \/ "fork" \in Calls /\ \E c \in Proc : fork(p, c)
    \/ "wait" \in Calls /\ \E c \in Proc, v \in Addrs \cup {None}, x \in Val :
                              wait(p, c, v, x)
    \/ "read" \in Calls /\ \E v \in Addrs, n \in 1..NPAGE, x \in Val :
                              sys_read(p, v, n, x)
    \/ "exec" \in Calls /\ \E n \in 0..(NPAGE - 2) : exec(p, n)

step(p) ==
    \/ user_store(p) \/ page_fault(p) \/ usertrap(p)
    \/ uvmunmap(p) \/ uvmalloc(p) \/ freewalk(p) \/ growproc_done(p)
    \/ proc_pagetable(p) \/ map_trampoline(p) \/ map_trapframe(p)
    \/ proc_freepagetable(p) \/ uvmcopy(p) \/ fork_done(p)
    \/ freeproc(p) \/ freeproc_done(p)
    \/ copyout(p) \/ copyout_move(p)
    \/ exec_pages(p) \/ exec_load(p) \/ exec_stack(p) \/ exec_commit(p) \/ exec_bad(p)

Next ==
    \E p \in Proc :
       \/ syscall(p)
       \/ step(p)
       \/ \E v \in Addrs, x \in Val : user_access(p, v, x)

Spec == Init /\ [][Next]_vars

(* The scheduler runs every process and kernel code makes progress.        *)
FairSpec == Spec /\ \A p \in Proc : WF_vars(step(p))

(***************************************************************************)
(* Properties                                                              *)
(***************************************************************************)
PTE == [pa : Page, w : BOOLEAN, cow : BOOLEAN, u : BOOLEAN]

(* The types of the variables, and which panic() is reached: that of       *)
(* exit(), when the first process is killed, and that of walk(), when a    *)
(* user program stores to an address at or above MAXVA, or passes one to   *)
(* read() or wait(): should_copyon_write() does not look whether walk()    *)
(* may be called (vm.c:365, vm.c:74).  No other panic of vm.c is reached.  *)
TypeOK ==
    /\ freelist \subseteq Page
    /\ pageref \in [Page -> Int]
    /\ mem \in [Page -> Val \cup {Junk}]
    /\ \A tb \in Table : \A v \in VA : pt[tb][v] \in PTE \cup {None}
    /\ kpages \in [Table \cup Proc \cup {None} -> SUBSET Int]
    /\ tramp \in [Table -> SUBSET Special]
    /\ state \in [Proc -> {"unused", "new", "run", "zombie"}]
    /\ sz \in [Proc -> 0..NPAGE]
    /\ parent \in [Proc -> Proc \cup {None}]
    /\ panic \in {None, "init exiting", "walk"}
    /\ panic = "walk" =>
          \E p \in Proc : th[p].i = NPAGE /\ th[p].pc \in {"usertrap", "copyout"}

(* The entries that map page pa.                                           *)
Entries(pa) == {e \in Table \X VA : /\ pt[e[1]][e[2]] # None
                                    /\ pt[e[1]][e[2]].pa = pa}

(* "unmapping counts one down, mapping counts one up" (kalloc.c:14), in    *)
(* every state of every fork, sbrk, exec and exit, failed ones included: a *)
(* mapped page has as many references as entries, an unmapped one is free. *)
(* While an entry has PTE_W no other entry maps its page, and no entry has *)
(* both PTE_W and PTE_COW.                                                 *)
CountsMatchEntries ==
    /\ \A pa \in Page :
          IF pa \in freelist
          THEN Entries(pa) = {} /\ pageref[pa] <= 0
          ELSE Entries(pa) # {} /\ pageref[pa] = Cardinality(Entries(pa))
    /\ \A tb \in Table, v \in VA :
          pt[tb][v] # None /\ pt[tb][v].w =>
             ~ pt[tb][v].cow /\ Entries(pt[tb][v].pa) = {<<tb, v>>}

(* A call, also a failed one, leaves things as they should be: a free      *)
(* process slot holds no page, a process outside exec() has one table, and *)
(* the table agrees with p->sz whenever the process is in user mode or     *)
(* waits to be reaped (growproc, fork and exec set it at the right time).  *)
CallsSettled ==
    /\ Avail >= 0
    /\ \A p \in Proc :
          /\ state[p] = "unused" =>
                /\ kpages[p] = {} /\ kpages[cur(p)] = {} /\ sz[p] = 0
                /\ \A v \in VA : pt[cur(p)][v] = None
          /\ state[p] # "run" \/ th[p].pc \in {"user", "access"} =>
                /\ kpages[new(p)] = {}
                /\ \A v \in VA : pt[new(p)][v] = None
          /\ \/ state[p] = "run" /\ th[p].pc \in {"user", "access"}
             \/ state[p] = "zombie" /\ \A q \in Proc : th[q].c # p
             => \A v \in VA : pt[cur(p)][v] # None <=> v < sz[p]

(* The guard page exec() makes stays a guard page: copy-on-write and sbrk  *)
(* never give PTE_U back, and a forked child has the guard page too.       *)
GuardStays ==
    [][\A p \in Proc : \A v \in VA :
         /\ Valid(cur(p), v) /\ ~ pt[cur(p)][v].u /\ ~ At(p, "exec_commit")
               => pt'[cur(p)][v] = None \/ ~ pt'[cur(p)][v].u
         /\ state[p] = "new" /\ state'[p] = "run" /\ Valid(cur(parent'[p]), v)
               => pt[cur(p)][v].u = pt[cur(parent'[p])][v].u]_vars

(* A store to a copy-on-write page succeeds or the process is killed, and  *)
(* every system call returns.                                              *)
Progress ==
    \A p \in Proc :
       /\ (/\ At(p, "access")
           /\ Valid(cur(p), th[p].i)
           /\ pt[cur(p)][th[p].i].cow /\ pt[cur(p)][th[p].i].u)
             ~> state[p] # "run" \/ th[p].pc = "user" \/ panic # None
       /\ state[p] = "run" /\ th[p].pc \notin {"user", "access", "usertrap"}
             ~> th[p].pc = "user" \/ panic # None

(* What the process sees, as its own table maps it.                        *)
Private == INSTANCE PrivateMem WITH
    view <- [p \in Proc |-> [v \in VA |->
               IF state[p] \in {"run", "zombie"} /\ pt[cur(p)][v] # None
               THEN mem[pt[cur(p)][v].pa] ELSE None]],
    alive <- {p \in Proc : state[p] \in {"run", "zombie"}}

(* "Copies both the page table and the physical memory" (vm.c:304): with   *)
(* copy-on-write the processes still see memories of their own.            *)
ImplementsPrivateMem == Private!Spec
==============================================================================
