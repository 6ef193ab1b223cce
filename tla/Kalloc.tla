------------------------------- MODULE Kalloc --------------------------------
(***************************************************************************)
(* kernel/kalloc.c, one step per access to shared memory, together with the*)
(* way kernel/vm.c and kernel/trap.c use it on page-table entries.         *)
(*                                                                         *)
(* Kernel threads run kalloc, kfree, pageRef and cow_kalloc concurrently.  *)
(* pageref_lock is a variable: its critical sections take several steps.   *)
(* A critical section of kmem.lock only pops or pushes one page, so it is a*)
(* single step.  A read-modify-write of pageref is a load and a store, so  *)
(* that kalloc's store, which takes no lock, can fall between the two.     *)
(*                                                                         *)
(* A slot is a page-table entry (or a pointer such as p->trapframe).  The  *)
(* kernel lets one thread at a time work on a page table: the process it   *)
(* belongs to, its parent while it is being forked, or the one that reaps  *)
(* it.  That is the only thing assumed of the callers (see Busy).          *)
(*                                                                         *)
(* The free list is a set: nothing depends on which page kalloc pops.      *)
(***************************************************************************)
EXTENDS Integers, FiniteSets

CONSTANTS Page,      \* the pages between end and PHYSTOP
          Thread,    \* the kernel threads
          Slot,      \* the page-table entries
          Val,       \* contents a page can have
          Junk,      \* the fill pattern of kalloc and kfree
          NoPage,    \* the null pointer
          NoSlot,    \* an idle thread works on no slot
          NoThread   \* pageref_lock is free

ASSUME PageAssumption == NoPage \notin Page
ASSUME SlotAssumption == IsFiniteSet(Slot) /\ NoSlot \notin Slot
ASSUME ThreadAssumption == NoThread \notin Thread
ASSUME ValAssumption == Junk \in Val

VARIABLES freelist,      \* kmem.freelist
          pageref,       \* the reference counts
          pageref_lock,  \* the thread that holds it, or NoThread
          mem,           \* content of each page
          slot,          \* the page each slot refers to (PTE2PA), or NoPage
          wr,            \* PTE_W of each slot; a valid slot without it is PTE_COW
          pc,            \* where each thread is
          src, dst,      \* the slots the thread works on
          pa, new_pa,    \* its local variables of those names
          ref            \* the count it has loaded

vars == <<freelist, pageref, pageref_lock, mem, slot, wr, pc, src, dst, pa,
          new_pa, ref>>

locals == <<src, dst, pa, new_pa, ref>>

kmem == <<freelist, pageref, pageref_lock, mem>>

ptes == <<slot, wr>>

(* A thread is working on slot s.                                          *)
Busy(s) == \E t \in Thread : s \in {src[t], dst[t]}

(* freerange() has called kfree() once on every page, from a zeroed array: *)
(* every page is free and its count is -1.                                 *)
Init ==
    /\ freelist = Page
    /\ pageref = [p \in Page |-> -1]
    /\ pageref_lock = NoThread
    /\ mem = [p \in Page |-> Junk]
    /\ slot = [s \in Slot |-> NoPage]
    /\ wr = [s \in Slot |-> FALSE]
    /\ pc = [t \in Thread |-> "idle"]
    /\ src = [t \in Thread |-> NoSlot]
    /\ dst = src
    /\ pa = [t \in Thread |-> NoPage]
    /\ new_pa = pa
    /\ ref = [t \in Thread |-> 0]

Goto(t, l) == pc' = [pc EXCEPT ![t] = l]

(* The call returns and its local variables die.                           *)
Return(t) ==
    /\ Goto(t, "idle")
    /\ src' = [src EXCEPT ![t] = NoSlot]
    /\ dst' = [dst EXCEPT ![t] = NoSlot]
    /\ pa' = [pa EXCEPT ![t] = NoPage]
    /\ new_pa' = [new_pa EXCEPT ![t] = NoPage]
    /\ ref' = [ref EXCEPT ![t] = 0]

(* A thread starts an operation on slots s and d (d = s when it needs one).*)
Begin(t, s, d, l) ==
    /\ pc[t] = "idle"
    /\ ~ Busy(s)
    /\ ~ Busy(d)
    /\ src' = [src EXCEPT ![t] = s]
    /\ dst' = [dst EXCEPT ![t] = d]
    /\ pa' = [pa EXCEPT ![t] = slot[s]]
    /\ Goto(t, l)

(* Mutant: the lock does not exclude anybody.                              *)
acquire_no_wait(t) == pageref_lock' = t

acquire(t) ==
    /\ pageref_lock = NoThread
    /\ pageref_lock' = t

release(t) == pageref_lock' = NoThread

(* The two halves of a read-modify-write of PAGE2REF(pa).                  *)
load(t) ==
    /\ ref' = [ref EXCEPT ![t] = pageref[pa[t]]]
    /\ UNCHANGED <<kmem, ptes, src, dst, pa, new_pa>>

store(t, n) ==
    /\ pageref' = [pageref EXCEPT ![pa[t]] = n]
    /\ UNCHANGED <<freelist, pageref_lock, mem, ptes, locals>>

(***************************************************************************)
(* kalloc() for an empty slot, as uvmalloc() calls it.  With an empty free *)
(* list it returns 0 and changes nothing.                                  *)
(***************************************************************************)
pop(t) ==
    \E p \in freelist :
       /\ freelist' = freelist \ {p}
       /\ new_pa' = [new_pa EXCEPT ![t] = p]

(* memset(r, 5, PGSIZE); PAGE2REF(r) = 1: no lock is held.                 *)
init_page(t) ==
    /\ mem' = [mem EXCEPT ![new_pa[t]] = Junk]
    /\ pageref' = [pageref EXCEPT ![new_pa[t]] = 1]

kalloc_pop(t, s) ==
    /\ slot[s] = NoPage
    /\ Begin(t, s, s, "kalloc_init")
    /\ pop(t)
    /\ UNCHANGED <<pageref, pageref_lock, mem, ptes, ref>>

kalloc_init(t) ==
    /\ pc[t] = "kalloc_init"
    /\ init_page(t)
    /\ Goto(t, "kalloc_map")
    /\ UNCHANGED <<freelist, pageref_lock, ptes, locals>>

kalloc_map(t) ==
    /\ pc[t] = "kalloc_map"
    /\ slot' = [slot EXCEPT ![src[t]] = new_pa[t]]
    /\ wr' = [wr EXCEPT ![src[t]] = TRUE]
    /\ Return(t)
    /\ UNCHANGED <<kmem>>

(***************************************************************************)
(* kfree() as uvmunmap() calls it: the entry is cleared after the call.    *)
(***************************************************************************)
kfree_acquire(t, s) ==
    /\ slot[s] # NoPage
    /\ Begin(t, s, s, "kfree_load")
    /\ acquire(t)
    /\ UNCHANGED <<freelist, pageref, mem, ptes, new_pa, ref>>

kfree_load(t) ==
    /\ pc[t] = "kfree_load"
    /\ load(t)
    /\ Goto(t, "kfree_store")

(* Mutants: a shared page is freed; an unreferenced page is kept.          *)
kfree_store_early(t) ==
    /\ pc[t] = "kfree_store"
    /\ store(t, ref[t] - 1)
    /\ Goto(t, IF ref[t] - 1 <= 1 THEN "kfree_push" ELSE "kfree_release")

kfree_store_late(t) ==
    /\ pc[t] = "kfree_store"
    /\ store(t, ref[t] - 1)
    /\ Goto(t, IF ref[t] - 1 < 0 THEN "kfree_push" ELSE "kfree_release")

kfree_store(t) ==
    /\ pc[t] = "kfree_store"
    /\ store(t, ref[t] - 1)
    /\ Goto(t, IF ref[t] - 1 <= 0 THEN "kfree_push" ELSE "kfree_release")

(* Mutant: the wrong pointer is pushed.                                    *)
kfree_push_wrong(t) ==
    /\ pc[t] = "kfree_push"
    /\ freelist' = freelist \cup {new_pa[t]}
    /\ Goto(t, "kfree_release")
    /\ UNCHANGED <<pageref, pageref_lock, mem, ptes, locals>>

kfree_push(t) ==
    /\ pc[t] = "kfree_push"
    /\ mem' = [mem EXCEPT ![pa[t]] = Junk]
    /\ freelist' = freelist \cup {pa[t]}
    /\ Goto(t, "kfree_release")
    /\ UNCHANGED <<pageref, pageref_lock, ptes, locals>>

kfree_release(t) ==
    /\ pc[t] = "kfree_release"
    /\ release(t)
    /\ Goto(t, "unmap")
    /\ UNCHANGED <<freelist, pageref, mem, ptes, locals>>

(* *pte = 0                                                                *)
unmap(t) ==
    /\ pc[t] = "unmap"
    /\ slot' = [slot EXCEPT ![src[t]] = NoPage]
    /\ wr' = [wr EXCEPT ![src[t]] = FALSE]
    /\ Return(t)
    /\ UNCHANGED <<kmem>>

(***************************************************************************)
(* pageRef() as uvmcopy() calls it: the parent's entry s loses PTE_W, the  *)
(* child's entry d is mapped to the same page, then the page is counted.   *)
(***************************************************************************)
uvmcopy_map(t, s, d) ==
    /\ slot[s] # NoPage
    /\ slot[d] = NoPage
    /\ Begin(t, s, d, "ref_acquire")
    /\ slot' = [slot EXCEPT ![d] = slot[s]]
    /\ wr' = [wr EXCEPT ![s] = FALSE]
    /\ UNCHANGED <<kmem, new_pa, ref>>

ref_acquire(t) ==
    /\ pc[t] = "ref_acquire"
    /\ acquire(t)
    /\ Goto(t, "ref_load")
    /\ UNCHANGED <<freelist, pageref, mem, ptes, locals>>

ref_load(t) ==
    /\ pc[t] = "ref_load"
    /\ load(t)
    /\ Goto(t, "ref_store")

(* Mutant: the count is not raised.                                        *)
ref_store_same(t) ==
    /\ pc[t] = "ref_store"
    /\ store(t, ref[t])
    /\ Goto(t, "ref_release")

ref_store(t) ==
    /\ pc[t] = "ref_store"
    /\ store(t, ref[t] + 1)
    /\ Goto(t, "ref_release")

ref_release(t) ==
    /\ pc[t] = "ref_release"
    /\ release(t)
    /\ Return(t)
    /\ UNCHANGED <<freelist, pageref, mem, ptes>>

(***************************************************************************)
(* cow_kalloc() as copy_on_write() calls it.                               *)
(***************************************************************************)
cow_acquire(t, s) ==
    /\ slot[s] # NoPage
    /\ ~ wr[s]
    /\ Begin(t, s, s, "cow_test")
    /\ acquire(t)
    /\ UNCHANGED <<freelist, pageref, mem, ptes, new_pa, ref>>

(* Mutant: off by one, one of two sharers keeps the page.                  *)
cow_keep_shared(t) ==
    /\ pc[t] = "cow_test"
    /\ pageref[pa[t]] <= 2
    /\ release(t)
    /\ Goto(t, "set_w")
    /\ UNCHANGED <<freelist, pageref, mem, ptes, locals>>

(* The last reference keeps the page.                                      *)
cow_keep(t) ==
    /\ pc[t] = "cow_test"
    /\ pageref[pa[t]] <= 1
    /\ release(t)
    /\ Goto(t, "set_w")
    /\ UNCHANGED <<freelist, pageref, mem, ptes, locals>>

cow_pop(t) ==
    /\ pc[t] = "cow_test"
    /\ pageref[pa[t]] > 1
    /\ pop(t)
    /\ Goto(t, "cow_init")
    /\ UNCHANGED <<pageref, pageref_lock, mem, ptes, src, dst, pa, ref>>

(* kalloc() returns 0, so do cow_kalloc() and copy_on_write().             *)
cow_fail(t) ==
    /\ pc[t] = "cow_test"
    /\ pageref[pa[t]] > 1
    /\ freelist = {}
    /\ release(t)
    /\ Return(t)
    /\ UNCHANGED <<freelist, pageref, mem, ptes>>

cow_init(t) ==
    /\ pc[t] = "cow_init"
    /\ init_page(t)
    /\ Goto(t, "cow_copy")
    /\ UNCHANGED <<freelist, pageref_lock, ptes, locals>>

(* Mutant: the content is not copied.                                      *)
cow_copy_skip(t) ==
    /\ pc[t] = "cow_copy"
    /\ Goto(t, "cow_load")
    /\ UNCHANGED <<kmem, ptes, locals>>

cow_copy(t) ==
    /\ pc[t] = "cow_copy"
    /\ mem' = [mem EXCEPT ![new_pa[t]] = mem[pa[t]]]
    /\ Goto(t, "cow_load")
    /\ UNCHANGED <<freelist, pageref, pageref_lock, ptes, locals>>

cow_load(t) ==
    /\ pc[t] = "cow_load"
    /\ load(t)
    /\ Goto(t, "cow_store")

cow_store(t) ==
    /\ pc[t] = "cow_store"
    /\ store(t, ref[t] - 1)
    /\ Goto(t, "cow_release")

cow_release(t) ==
    /\ pc[t] = "cow_release"
    /\ release(t)
    /\ Goto(t, "remap")
    /\ UNCHANGED <<freelist, pageref, mem, ptes, locals>>

(* The rest of copy_on_write(): only the permission changes ...            *)
set_w(t) ==
    /\ pc[t] = "set_w"
    /\ wr' = [wr EXCEPT ![src[t]] = TRUE]
    /\ Return(t)
    /\ UNCHANGED <<kmem, slot>>

(* ... or uvmunmap(.., 0) and mappages().  mappages() cannot fail here: the*)
(* page-table pages on the way to the entry exist.                         *)
remap(t) ==
    /\ pc[t] = "remap"
    /\ slot' = [slot EXCEPT ![src[t]] = new_pa[t]]
    /\ wr' = [wr EXCEPT ![src[t]] = TRUE]
    /\ Return(t)
    /\ UNCHANGED <<kmem>>

(* A store instruction through a valid entry with PTE_W.                   *)
user_store(s, x) ==
    /\ ~ Busy(s)
    /\ wr[s]
    /\ mem' = [mem EXCEPT ![slot[s]] = x]
    /\ UNCHANGED <<freelist, pageref, pageref_lock, ptes, pc, locals>>

Next ==
    \/ \E t \in Thread :
          \/ \E s \in Slot : \/ kalloc_pop(t, s)
                             \/ kfree_acquire(t, s)
                             \/ cow_acquire(t, s)
                             \/ \E d \in Slot \ {s} : uvmcopy_map(t, s, d)
          \/ kalloc_init(t) \/ kalloc_map(t)
          \/ kfree_load(t) \/ kfree_store(t) \/ kfree_push(t)
          \/ kfree_release(t) \/ unmap(t)
          \/ ref_acquire(t) \/ ref_load(t) \/ ref_store(t) \/ ref_release(t)
          \/ cow_keep(t) \/ cow_pop(t) \/ cow_fail(t) \/ cow_init(t)
          \/ cow_copy(t) \/ cow_load(t) \/ cow_store(t) \/ cow_release(t)
          \/ set_w(t) \/ remap(t)
    \/ \E s \in Slot, x \in Val : user_store(s, x)

Spec == Init /\ [][Next]_vars

(***************************************************************************)
(* Properties                                                              *)
(***************************************************************************)
Label == {"idle", "kalloc_init", "kalloc_map", "kfree_load", "kfree_store",
          "kfree_push", "kfree_release", "unmap", "ref_acquire", "ref_load",
          "ref_store", "ref_release", "cow_test", "cow_init", "cow_copy",
          "cow_load", "cow_store", "cow_release", "set_w", "remap"}

(* The types of the allocator's variables and of the threads' locals.      *)
TypeOK ==
    /\ freelist \in SUBSET Page
    /\ pageref \in [Page -> Int]
    /\ pageref_lock \in Thread \cup {NoThread}
    /\ mem \in [Page -> Val]
    /\ slot \in [Slot -> Page \cup {NoPage}]
    /\ wr \in [Slot -> BOOLEAN]
    /\ pc \in [Thread -> Label]
    /\ src \in [Thread -> Slot \cup {NoSlot}]
    /\ dst \in [Thread -> Slot \cup {NoSlot}]
    /\ pa \in [Thread -> Page \cup {NoPage}]
    /\ new_pa \in [Thread -> Page \cup {NoPage}]
    /\ ref \in [Thread -> Int]

(* Slot s is mapped, but its reference is not counted yet (uvmcopy maps    *)
(* before it calls pageRef) or no longer (kfree and cow_kalloc count down  *)
(* before their callers change the entry).                                 *)
Uncounted(s) ==
    \E t \in Thread :
       \/ s = dst[t] /\ pc[t] \in {"ref_acquire", "ref_load", "ref_store"}
       \/ s = src[t] /\ pc[t] \in {"kfree_push", "kfree_release", "unmap",
                                   "cow_release", "remap"}

(* Slot s holds a counted reference to page p.                             *)
Refers(s, p) ==
    \/ slot[s] = p /\ ~ Uncounted(s)
    \/ \E t \in Thread : /\ s = src[t]
                         /\ pc[t] \in {"cow_release", "remap"}
                         /\ new_pa[t] = p

Refs(p) == {s \in Slot : Refers(s, p)}

(* Thread t has popped page p and has not handed it over yet.              *)
Reserved(t, p) ==
    /\ new_pa[t] = p
    /\ pc[t] \in {"kalloc_init", "kalloc_map", "cow_init", "cow_copy",
                  "cow_load", "cow_store"}

(* Thread t has counted page p down to zero and is about to push it.       *)
Pushing(t, p) == pa[t] = p /\ pc[t] = "kfree_push"

(* "all mappings gone, then the page can be released; unmapping counts one *)
(* down, mapping counts one up" (kalloc.c:12-14): the count of a page in   *)
(* use is the number of references to it, however the threads interleave.  *)
RefCountExact ==
    \A p \in Page :
       (\A t \in Thread : ~ Reserved(t, p)) =>
          IF Refs(p) = {} THEN pageref[p] <= 0
                          ELSE pageref[p] = Cardinality(Refs(p))

(* A page on the free list is referred to by no slot, is in no thread's    *)
(* hands and is not about to be freed a second time.                       *)
FreeIsUnused ==
    \A p \in freelist :
       /\ Refs(p) = {}
       /\ \A t \in Thread : ~ Reserved(t, p) /\ ~ Pushing(t, p)

(* kalloc never gives one page to two callers.                             *)
ReservedOnce ==
    \A t, u \in Thread : \A p \in Page :
       Reserved(t, p) =>
          /\ Refs(p) = {}
          /\ ~ Pushing(u, p)
          /\ t # u => ~ Reserved(u, p)

(* No page is ever lost: it is free, in use, or in some thread's hands.    *)
NoLeak ==
    \A p \in Page :
       \/ p \in freelist
       \/ Refs(p) # {}
       \/ \E t \in Thread : Reserved(t, p) \/ Pushing(t, p)

(* The copy-on-write rule: while a slot may be written, no other slot      *)
(* refers to its page.                                                     *)
WritableIsPrivate ==
    \A s, d \in Slot : \A p \in Page :
       wr[s] /\ Refers(s, p) /\ Refers(d, p) => s = d

(* The page whose count t's next step reads or writes.                     *)
Cell(t) ==
    CASE pc[t] \in {"kalloc_init", "cow_init"} -> new_pa[t]
      [] pc[t] \in {"kfree_load", "kfree_store", "ref_load", "ref_store",
                    "cow_test", "cow_load", "cow_store"} -> pa[t]
      [] OTHER -> NoPage

(* The question of kalloc.c:21-24, whether kalloc needs the lock: it does  *)
(* not, no thread is at the count of a page another thread is at.          *)
RaceFree ==
    \A t, u \in Thread : t # u /\ Cell(t) # NoPage => Cell(t) # Cell(u)

(***************************************************************************)
(* The inductive invariant: the shape of the calls in progress ...         *)
(***************************************************************************)
Alloc == {"kalloc_init", "kalloc_map"}
Free == {"kfree_load", "kfree_store", "kfree_push", "kfree_release", "unmap"}
Share == {"ref_acquire", "ref_load", "ref_store", "ref_release"}
CowNew == {"cow_init", "cow_copy", "cow_load", "cow_store", "cow_release", "remap"}
Cow == CowNew \cup {"cow_test", "set_w"}
Locked == (Free \cup Share \cup Cow) \ {"unmap", "ref_acquire", "set_w", "remap"}

LockInv == \A t \in Thread : pc[t] \in Locked <=> pageref_lock = t

SlotInv == \A s \in Slot : slot[s] = NoPage => ~ wr[s]

CallInv ==
    \A t \in Thread :
       /\ pc[t] = "idle" => src[t] = NoSlot
       /\ pc[t] # "idle" => src[t] \in Slot /\ dst[t] \in Slot
       /\ pc[t] \notin Share => dst[t] = src[t]
       /\ pc[t] \in Alloc => slot[src[t]] = NoPage
       /\ pc[t] \in Alloc \cup CowNew => new_pa[t] \in Page
       /\ pc[t] \in Free \cup Share \cup Cow => pa[t] \in Page /\ slot[src[t]] = pa[t]
       /\ pc[t] \in Share \cup Cow => ~ wr[src[t]]
       /\ pc[t] \in Share => /\ dst[t] # src[t]
                             /\ slot[dst[t]] = pa[t]
                             /\ ~ wr[dst[t]]

(* One thread at a time works on a slot.                                   *)
ExclusiveInv ==
    \A t, u \in Thread :
       t # u /\ pc[t] # "idle" =>
          src[t] \notin {src[u], dst[u]} /\ dst[t] \notin {src[u], dst[u]}

CallsInv == TypeOK /\ LockInv /\ SlotInv /\ CallInv /\ ExclusiveInv

(* ... and the counts they rely on.                                        *)
CountOK(t) ==
    /\ pc[t] \in {"kfree_store", "ref_store", "cow_store"}
          => ref[t] = pageref[pa[t]]
    /\ pc[t] \in {"cow_init", "cow_copy", "cow_load", "cow_store"}
          => pageref[pa[t]] > 1
    /\ pc[t] \in {"kalloc_map", "cow_copy", "cow_load", "cow_store"}
          => pageref[new_pa[t]] = 1
    /\ pc[t] \in {"cow_release", "remap"} => Refs(new_pa[t]) = {src[t]}
    /\ pc[t] = "set_w" => Refs(pa[t]) = {src[t]}
    /\ pc[t] = "kfree_push" => Refs(pa[t]) = {}

CountInv == \A t \in Thread : CountOK(t)

IInv ==
    /\ CallsInv
    /\ CountInv
    /\ RefCountExact
    /\ FreeIsUnused
    /\ ReservedOnce
    /\ NoLeak
    /\ WritableIsPrivate

(***************************************************************************)
(* The allocator implements PageStore.  kalloc takes effect when the page  *)
(* is mapped; kfree, pageRef and cow_kalloc when they store the count.     *)
(***************************************************************************)
page_of(s) ==
    IF \E p \in Page : Refers(s, p) THEN CHOOSE p \in Page : Refers(s, p)
                                    ELSE NoPage

Store == INSTANCE PageStore WITH
    slot <- [s \in Slot |-> page_of(s)],
    wr <- [s \in Slot |-> wr[s] /\ page_of(s) # NoPage],
    content <- [s \in Slot |->
                  IF page_of(s) = NoPage THEN NoPage ELSE mem[page_of(s)]]

(* Every step of every thread is one step of PageStore or none: no step of *)
(* one thread changes what is seen through the slots of another.           *)
ImplementsPageStore == Store!Spec
==============================================================================
