----------------------------- MODULE KallocProofs ----------------------------
(***************************************************************************)
(* What is proved about module Kalloc, for every finite set of slots and   *)
(* every set of pages and threads: IInv is inductive, and implies the      *)
(* properties.  A step touches at most two pages; KallocPages carries the  *)
(* others over, and with them what the other threads rely on.              *)
(***************************************************************************)
EXTENDS KallocSteps, FiniteSetTheorems

(* Slots are finite in number, so the references to a page can be counted. *)
LEMMA SlotCounts == CardFacts
<1> SUFFICES ASSUME NEW S \in SUBSET Slot
             PROVE  /\ Cardinality(S) \in Nat
                    /\ \A s \in S : /\ Cardinality(S \ {s}) = Cardinality(S) - 1
                                   /\ Cardinality(S \ {s}) \in Nat
                                   /\ Cardinality(S) = 1 <=> S \ {s} = {}
                    /\ \A s \in Slot \ S : Cardinality(S \cup {s}) = Cardinality(S) + 1
                    /\ \A s \in Slot : Cardinality({s}) = 1
  BY DEF CardFacts
<1>1. IsFiniteSet(S)
  BY SlotAssumption, FS_Subset
<1>2. Cardinality(S) \in Nat
  BY <1>1, FS_CardinalityType
<1>3. ASSUME NEW s \in S
      PROVE  /\ Cardinality(S \ {s}) = Cardinality(S) - 1
             /\ Cardinality(S \ {s}) \in Nat
             /\ Cardinality(S) = 1 <=> S \ {s} = {}
  <2>1. IsFiniteSet(S \ {s}) /\ Cardinality(S \ {s}) = Cardinality(S) - 1
    BY <1>1, FS_RemoveElement
  <2>2. Cardinality(S \ {s}) \in Nat
    BY <2>1, FS_CardinalityType
  <2>3. Cardinality(S \ {s}) = 0 <=> S \ {s} = {}
    BY <2>1, FS_EmptySet, Zenon
  <2> QED
    BY <1>2, <2>1, <2>2, <2>3
<1>4. \A s \in Slot \ S : Cardinality(S \cup {s}) = Cardinality(S) + 1
  BY <1>1, FS_AddElement
<1>5. \A s \in Slot : Cardinality({s}) = 1
  BY FS_Singleton, Zenon
<1> QED
  BY <1>2, <1>3, <1>4, <1>5

(***************************************************************************)
(* The invariant is inductive.                                             *)
(***************************************************************************)
LEMMA InitInv == Init => IInv
<1> SUFFICES ASSUME Init
             PROVE  IInv
  OBVIOUS
<1>1. CallsInv
  BY PageAssumption, SlotAssumption, ThreadAssumption, ValAssumption
  DEF Init, CallsInv, TypeOK, LockInv, SlotInv, CallInv, ExclusiveInv, Label, Alloc, Free,
      Share, CowNew, Cow, Locked
<1>2. \A p \in Page : Refs(p) = {}
  BY PageAssumption DEF Init, Refs, Refers
<1>3. \A p \in Page : PageOK(p)
  BY <1>2 DEF Init, PageOK, Reserved, Pushing
<1>4. CountInv /\ WritableIsPrivate
  BY DEF Init, CountInv, CountOK, WritableIsPrivate
<1> QED
  BY <1>1, <1>3, <1>4, PagesOK DEF IInv

LEMMA NextInv == IInv /\ [Next]_vars => IInv'
<1> SUFFICES ASSUME IInv, [Next]_vars
             PROVE  IInv'
  OBVIOUS
<1>1. CallsInv'
  BY CallsStep DEF IInv
<1>2. CASE UNCHANGED <<freelist, pageref, pageref_lock, ptes, pc, locals>>
  <2>1. \A s \in Slot, p \in Page : Refers(s, p)' <=> Refers(s, p)
    BY <1>2 DEF Refers, Uncounted, ptes, locals
  <2>2. \A p \in Page : Refs(p)' = Refs(p)
    BY <2>1 DEF Refs
  <2>3. \A p \in Page : SamePage(p)
    BY <1>2, <2>2 DEF SamePage, Reserved, Pushing, locals
  <2>4. RefCountExact' /\ FreeIsUnused' /\ ReservedOnce' /\ NoLeak'
    BY <1>1, <2>3, PagesOK, SamePageOK, PagesOKNext DEF IInv
  <2>5. CountInv'
    <3>1. CallInv /\ CountInv
      BY DEF IInv, CallsInv
    <3> QED
      BY <1>2, <2>2, <3>1
      DEF CountInv, CountOK, CallInv, Alloc, Free, Share, Cow, CowNew, locals
  <2>6. WritableIsPrivate'
    BY <1>2, <2>1 DEF IInv, WritableIsPrivate, ptes
  <2> QED
    BY <1>1, <2>4, <2>5, <2>6 DEF IInv
<1>3. CASE UNCHANGED vars
  BY <1>2, <1>3 DEF vars, ptes, locals
<1>4. CASE \E s \in Slot, x \in Val : user_store(s, x)
  BY <1>2, <1>4 DEF user_store
<1>5. ASSUME NEW t \in Thread,
             \/ \E s \in Slot : \/ kalloc_pop(t, s)
                                \/ kfree_acquire(t, s)
                                \/ cow_acquire(t, s)
                                \/ \E d \in Slot \ {s} : uvmcopy_map(t, s, d)
             \/ kalloc_init(t) \/ kalloc_map(t)
             \/ kfree_load(t) \/ kfree_store(t) \/ kfree_push(t)
             \/ kfree_release(t) \/ unmap(t)
             \/ ref_acquire(t) \/ ref_load(t) \/ ref_store(t) \/ ref_release(t)
             \/ cow_keep(t) \/ cow_pop(t) \/ cow_fail(t) \/ cow_init(t)
             \/ cow_copy(t) \/ cow_load(t) \/ cow_store(t) \/ cow_release(t)
             \/ set_w(t) \/ remap(t)
      PROVE  IInv'
  BY <1>1, <1>5, SlotCounts, QuietInv, PopInv, InitPageInv, PushInv, MapInv, KfreeStoreInv,
     RefStoreInv, CowStoreInv
  DEF QuietAction
<1> QED
  BY <1>3, <1>4, <1>5 DEF Next

LEMMA Inductive == Spec => []IInv
  BY InitInv, NextInv, PTL DEF Spec

(* The allocator's state stays well formed, for any number of pages,       *)
(* threads and slots.                                                      *)
THEOREM TypeCorrect == Spec => []TypeOK
<1>1. IInv => TypeOK
  BY DEF IInv, CallsInv
<1> QED
  BY <1>1, Inductive, PTL

(* The counting rule of kalloc.c:12-14: a page's count is the number of    *)
(* its mappings, however kfree, pageRef, cow_kalloc and the unlocked       *)
(* kalloc interleave.                                                      *)
THEOREM CountsExact == Spec => []RefCountExact
<1>1. IInv => RefCountExact
  BY DEF IInv
<1> QED
  BY <1>1, Inductive, PTL

(* kfree never puts a page on the free list that somebody still uses or    *)
(* that is on its way there already, and kalloc gives a page to one caller.*)
THEOREM NoDoubleUse == Spec => [](FreeIsUnused /\ ReservedOnce)
<1>1. IInv => FreeIsUnused /\ ReservedOnce
  BY DEF IInv
<1> QED
  BY <1>1, Inductive, PTL

(* kfree's test of the count loses no page.                                *)
THEOREM NothingLost == Spec => []NoLeak
<1>1. IInv => NoLeak
  BY DEF IInv
<1> QED
  BY <1>1, Inductive, PTL

(* copy_on_write sets PTE_W only on a page that nobody else maps, and      *)
(* uvmcopy shares a page only after taking PTE_W away.                     *)
THEOREM CowPrivate == Spec => []WritableIsPrivate
<1>1. IInv => WritableIsPrivate
  BY DEF IInv
<1> QED
  BY <1>1, Inductive, PTL

(* kalloc's store to the count without the lock (kalloc.c:109) never meets *)
(* an access of another thread to the same count.                          *)
THEOREM NoRace == Spec => []RaceFree
<1>1. ASSUME IInv
      PROVE  RaceFree
  <2> SUFFICES ASSUME NEW t \in Thread, NEW u \in Thread, t # u, Cell(t) # NoPage
               PROVE  Cell(t) # Cell(u)
    BY DEF RaceFree
  <2> DEFINE Init1(v) == pc[v] \in {"kalloc_init", "cow_init"}
             Use(v) == pc[v] \in {"kfree_load", "kfree_store", "ref_load", "ref_store",
                                  "cow_test", "cow_load", "cow_store"}
  <2>1. /\ \A v \in Thread : Init1(v) => Cell(v) = new_pa[v]
        /\ \A v \in Thread : Use(v) => Cell(v) = pa[v]
        /\ \A v \in Thread : ~ Init1(v) /\ ~ Use(v) => Cell(v) = NoPage
    BY DEF Cell
  <2>2. \A v \in Thread : Init1(v) => new_pa[v] \in Page /\ Reserved(v, new_pa[v])
    BY <1>1 DEF Reserved, IInv, CallsInv, CallInv, Alloc, CowNew
  <2>3. \A v \in Thread : Use(v) => pa[v] \in Page /\ Refs(pa[v]) # {}
    BY <1>1, HoldsRef DEF IInv, Share, Cow, CowNew
  <2>4. ~ (Use(t) /\ Use(u))
    BY <1>1 DEF IInv, CallsInv, LockInv, Locked, Free, Share, Cow, CowNew
  <2>5. \A v \in Thread : \A p \in Page :
           Reserved(v, p) => Refs(p) = {} /\ \A w \in Thread : v # w => ~ Reserved(w, p)
    BY <1>1 DEF IInv, ReservedOnce
  <2> HIDE DEF Init1, Use
  <2> QED
    BY <2>1, <2>2, <2>3, <2>4, <2>5, PageAssumption
<1> QED
  BY <1>1, Inductive, PTL
==============================================================================
