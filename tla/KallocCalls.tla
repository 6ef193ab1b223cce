----------------------------- MODULE KallocCalls -----------------------------
(***************************************************************************)
(* Proofs about module Kalloc, first part: CallsInv (types, who holds the  *)
(* lock, which slots a call works on) is inductive by itself, and what     *)
(* each step does to the references to a page and to the pages in the      *)
(* threads' hands.                                                         *)
(***************************************************************************)
EXTENDS Kalloc, TLAPS

(* The part of the invariant that does not speak of counts.                *)
LEMMA CallsStep == CallsInv /\ [Next]_vars => CallsInv'
<1> SUFFICES ASSUME CallsInv, [Next]_vars
             PROVE  CallsInv'
  OBVIOUS
<1> USE PageAssumption, SlotAssumption, ThreadAssumption, ValAssumption
<1> USE DEF CallsInv, TypeOK, LockInv, SlotInv, CallInv, ExclusiveInv, Label,
            Alloc, Free, Share, CowNew, Cow, Locked, kmem, ptes, locals
<1>1. ASSUME NEW t \in Thread, NEW s \in Slot, kalloc_pop(t, s)
      PROVE  CallsInv'
  BY <1>1 DEF kalloc_pop, Begin, Goto, Busy, pop
<1>2. ASSUME NEW t \in Thread, NEW s \in Slot, kfree_acquire(t, s)
      PROVE  CallsInv'
  BY <1>2 DEF kfree_acquire, Begin, Goto, Busy, acquire
<1>3. ASSUME NEW t \in Thread, NEW s \in Slot, cow_acquire(t, s)
      PROVE  CallsInv'
  BY <1>3 DEF cow_acquire, Begin, Goto, Busy, acquire
<1>4. ASSUME NEW t \in Thread, NEW s \in Slot, NEW d \in Slot \ {s}, uvmcopy_map(t, s, d)
      PROVE  CallsInv'
  BY <1>4 DEF uvmcopy_map, Begin, Goto, Busy
<1>5. ASSUME NEW t \in Thread, kalloc_init(t)
      PROVE  CallsInv'
  BY <1>5 DEF kalloc_init, init_page, Goto
<1>6. ASSUME NEW t \in Thread, kalloc_map(t)
      PROVE  CallsInv'
  BY <1>6 DEF kalloc_map, Return, Goto
<1>7. ASSUME NEW t \in Thread, kfree_load(t)
      PROVE  CallsInv'
  BY <1>7 DEF kfree_load, load, Goto
<1>8. ASSUME NEW t \in Thread, kfree_store(t)
      PROVE  CallsInv'
  BY <1>8 DEF kfree_store, store, Goto
<1>9. ASSUME NEW t \in Thread, kfree_push(t)
      PROVE  CallsInv'
  BY <1>9 DEF kfree_push, Goto
<1>10. ASSUME NEW t \in Thread, kfree_release(t)
      PROVE  CallsInv'
  BY <1>10 DEF kfree_release, release, Goto
<1>11. ASSUME NEW t \in Thread, unmap(t)
      PROVE  CallsInv'
  BY <1>11 DEF unmap, Return, Goto
<1>12. ASSUME NEW t \in Thread, ref_acquire(t)
      PROVE  CallsInv'
  BY <1>12 DEF ref_acquire, acquire, Goto
<1>13. ASSUME NEW t \in Thread, ref_load(t)
      PROVE  CallsInv'
  BY <1>13 DEF ref_load, load, Goto
<1>14. ASSUME NEW t \in Thread, ref_store(t)
      PROVE  CallsInv'
  BY <1>14 DEF ref_store, store, Goto
<1>15. ASSUME NEW t \in Thread, ref_release(t)
      PROVE  CallsInv'
  BY <1>15 DEF ref_release, release, Return, Goto
<1>16. ASSUME NEW t \in Thread, cow_keep(t)
      PROVE  CallsInv'
  BY <1>16 DEF cow_keep, release, Goto
<1>17. ASSUME NEW t \in Thread, cow_pop(t)
      PROVE  CallsInv'
  BY <1>17 DEF cow_pop, pop, Goto
<1>18. ASSUME NEW t \in Thread, cow_fail(t)
      PROVE  CallsInv'
  BY <1>18 DEF cow_fail, release, Return, Goto
<1>19. ASSUME NEW t \in Thread, cow_init(t)
      PROVE  CallsInv'
  BY <1>19 DEF cow_init, init_page, Goto
<1>20. ASSUME NEW t \in Thread, cow_copy(t)
      PROVE  CallsInv'
  BY <1>20 DEF cow_copy, Goto
<1>21. ASSUME NEW t \in Thread, cow_load(t)
      PROVE  CallsInv'
  BY <1>21 DEF cow_load, load, Goto
<1>22. ASSUME NEW t \in Thread, cow_store(t)
      PROVE  CallsInv'
  BY <1>22 DEF cow_store, store, Goto
<1>23. ASSUME NEW t \in Thread, cow_release(t)
      PROVE  CallsInv'
  BY <1>23 DEF cow_release, release, Goto
<1>24. ASSUME NEW t \in Thread, set_w(t)
      PROVE  CallsInv'
  BY <1>24 DEF set_w, Return, Goto
<1>25. ASSUME NEW t \in Thread, remap(t)
      PROVE  CallsInv'
  BY <1>25 DEF remap, Return, Goto
<1>26. ASSUME NEW s \in Slot, NEW x \in Val, user_store(s, x)
      PROVE  CallsInv'
  BY <1>26 DEF user_store
<1>27. CASE UNCHANGED vars
  BY <1>27 DEF vars
<1> QED
  BY <1>1, <1>2, <1>3, <1>4, <1>5, <1>6, <1>7, <1>8, <1>9, <1>10, <1>11,
     <1>12, <1>13, <1>14, <1>15, <1>16, <1>17, <1>18, <1>19, <1>20, <1>21,
     <1>22, <1>23, <1>24, <1>25, <1>26, <1>27, Zenon DEF Next

(***************************************************************************)
(* Steps that change no count and no counted reference.                    *)
(***************************************************************************)
Others(t) ==
    \A u \in Thread \ {t} :
       /\ pc'[u] = pc[u] /\ src'[u] = src[u] /\ pa'[u] = pa[u]
       /\ new_pa'[u] = new_pa[u] /\ ref'[u] = ref[u]

SameRefs == \A s \in Slot, p \in Page : Refers(s, p)' <=> Refers(s, p)

SameHands ==
    \A u \in Thread, p \in Page :
       /\ Reserved(u, p)' <=> Reserved(u, p)
       /\ Pushing(u, p)' <=> Pushing(u, p)

Quiet(t) ==
    /\ freelist' = freelist
    /\ pageref' = pageref
    /\ SameRefs
    /\ SameHands
    /\ Others(t)

QuietAction(t) ==
    \/ \E r \in Slot : \/ kfree_acquire(t, r)
                       \/ cow_acquire(t, r)
                       \/ \E d \in Slot \ {r} : uvmcopy_map(t, r, d)
    \/ kfree_load(t) \/ kfree_release(t) \/ unmap(t)
    \/ ref_acquire(t) \/ ref_load(t) \/ ref_release(t)
    \/ cow_keep(t) \/ cow_fail(t) \/ cow_copy(t) \/ cow_load(t)
    \/ cow_release(t) \/ set_w(t) \/ remap(t)

LEMMA QuietStep ==
  ASSUME CallsInv, NEW t \in Thread, QuietAction(t)
  PROVE  Quiet(t)
<1> USE PageAssumption, SlotAssumption
<1> USE DEF Quiet, SameRefs, SameHands, Others, Refers, Uncounted, Reserved, Pushing,
            CallsInv, TypeOK, SlotInv, CallInv, ExclusiveInv, Label,
            Alloc, Free, Share, CowNew, Cow, kmem, ptes, locals
<1>1. ASSUME NEW r \in Slot, kfree_acquire(t, r)
      PROVE  Quiet(t)
  BY <1>1 DEF kfree_acquire, Begin, Goto, Busy, acquire
<1>2. ASSUME NEW r \in Slot, cow_acquire(t, r)
      PROVE  Quiet(t)
  BY <1>2 DEF cow_acquire, Begin, Goto, Busy, acquire
<1>3. ASSUME NEW r \in Slot, NEW d \in Slot \ {r}, uvmcopy_map(t, r, d)
      PROVE  Quiet(t)
  BY <1>3 DEF uvmcopy_map, Begin, Goto, Busy
<1>4. CASE kfree_load(t)
  BY <1>4 DEF kfree_load, load, Goto
<1>5. CASE kfree_release(t)
  BY <1>5 DEF kfree_release, release, Goto
<1>6. CASE unmap(t)
  BY <1>6 DEF unmap, Return, Goto
<1>7. CASE ref_acquire(t)
  BY <1>7 DEF ref_acquire, acquire, Goto
<1>8. CASE ref_load(t)
  BY <1>8 DEF ref_load, load, Goto
<1>9. CASE ref_release(t)
  BY <1>9 DEF ref_release, release, Return, Goto
<1>10. CASE cow_keep(t)
  BY <1>10 DEF cow_keep, release, Goto
<1>11. CASE cow_fail(t)
  BY <1>11 DEF cow_fail, release, Return, Goto
<1>12. CASE cow_copy(t)
  BY <1>12 DEF cow_copy, Goto
<1>13. CASE cow_load(t)
  BY <1>13 DEF cow_load, load, Goto
<1>14. CASE cow_release(t)
  BY <1>14 DEF cow_release, release, Goto
<1>15. CASE set_w(t)
  BY <1>15 DEF set_w, Return, Goto
<1>16. CASE remap(t)
  BY <1>16 DEF remap, Return, Goto
<1> QED
  BY <1>1, <1>2, <1>3, <1>4, <1>5, <1>6, <1>7, <1>8, <1>9, <1>10, <1>11, <1>12,
     <1>13, <1>14, <1>15, <1>16, Zenon DEF QuietAction

(***************************************************************************)
(* The other steps: q is the page they are about, r the slot.              *)
(***************************************************************************)
PopEffect(t, q) ==
    /\ q \in freelist /\ freelist' = freelist \ {q}
    /\ pageref' = pageref /\ wr' = wr
    /\ \/ pc'[t] = "kalloc_init"
       \/ pc'[t] = "cow_init" /\ pageref[pa[t]] > 1 /\ pa' = pa
    /\ Others(t)
    /\ SameRefs
    /\ \A u \in Thread, p \in Page :
          /\ Reserved(u, p)' <=> Reserved(u, p) \/ (u = t /\ p = q)
          /\ Pushing(u, p)' <=> Pushing(u, p)

LEMMA PopStep ==
  ASSUME CallsInv, NEW t \in Thread,
         (\E s \in Slot : kalloc_pop(t, s)) \/ cow_pop(t)
  PROVE  \E q \in Page : PopEffect(t, q)
<1>1. PICK q \in freelist : freelist' = freelist \ {q} /\ new_pa' = [new_pa EXCEPT ![t] = q]
  BY DEF kalloc_pop, cow_pop, pop
<1> USE DEF CallsInv, TypeOK, PopEffect, Others, ptes
<1>2. /\ SameRefs
      /\ \A u \in Thread, p \in Page :
            /\ Reserved(u, p)' <=> Reserved(u, p) \/ (u = t /\ p = q)
            /\ Pushing(u, p)' <=> Pushing(u, p)
  BY <1>1, SlotAssumption
  DEF kalloc_pop, cow_pop, Begin, Busy, Goto, SameRefs, Refers, Uncounted, Reserved,
      Pushing, CallInv, Alloc, Free, Share, CowNew, Cow
<1>3. CASE \E s \in Slot : kalloc_pop(t, s)
  BY <1>1, <1>2, <1>3 DEF kalloc_pop, Begin, Goto
<1>4. CASE cow_pop(t)
  BY <1>1, <1>2, <1>4 DEF cow_pop, Goto
<1> QED
  BY <1>3, <1>4

InitPageEffect(t, q) ==
    /\ q = new_pa[t] /\ new_pa' = new_pa /\ pa' = pa /\ Reserved(t, q)
    /\ freelist' = freelist /\ wr' = wr
    /\ pageref'[q] = 1 /\ \A p \in Page \ {q} : pageref'[p] = pageref[p]
    /\ \/ pc'[t] = "kalloc_map"
       \/ pc'[t] = "cow_copy" /\ pc[t] = "cow_init"
    /\ Others(t)
    /\ SameRefs
    /\ SameHands

LEMMA InitPageStep ==
  ASSUME CallsInv, NEW t \in Thread, kalloc_init(t) \/ cow_init(t)
  PROVE  \E q \in Page : InitPageEffect(t, q)
<1>1. SameRefs /\ SameHands
  BY DEF kalloc_init, cow_init, init_page, Goto, SameRefs, SameHands, Refers, Uncounted,
         Reserved, Pushing, CallsInv, TypeOK, ptes, locals
<1> QED
  BY <1>1
  DEF kalloc_init, cow_init, init_page, Goto, CallsInv, TypeOK, CallInv, Alloc, CowNew,
      InitPageEffect, Others, Reserved, locals, ptes

PushEffect(t, q) ==
    /\ q = pa[t] /\ Pushing(t, q) /\ freelist' = freelist \cup {q}
    /\ pageref' = pageref /\ wr' = wr
    /\ pc'[t] = "kfree_release"
    /\ Others(t)
    /\ SameRefs
    /\ \A u \in Thread, p \in Page :
          /\ Reserved(u, p)' <=> Reserved(u, p)
          /\ Pushing(u, p)' <=> Pushing(u, p) /\ u # t

LEMMA PushStep ==
  ASSUME CallsInv, NEW t \in Thread, kfree_push(t)
  PROVE  \E q \in Page : PushEffect(t, q)
<1>1. /\ SameRefs
      /\ \A u \in Thread, p \in Page :
            /\ Reserved(u, p)' <=> Reserved(u, p)
            /\ Pushing(u, p)' <=> Pushing(u, p) /\ u # t
  BY DEF kfree_push, Goto, SameRefs, Refers, Uncounted, Reserved, Pushing, CallsInv,
         TypeOK, ptes, locals
<1> QED
  BY <1>1
  DEF kfree_push, Goto, CallsInv, TypeOK, CallInv, Free, PushEffect, Others, Pushing,
      locals, ptes

MapEffect(t, q, r) ==
    /\ q = new_pa[t] /\ Reserved(t, q)
    /\ freelist' = freelist /\ pageref' = pageref
    /\ \A s \in Slot \ {r} : wr'[s] = wr[s]
    /\ pc[t] = "kalloc_map" /\ pc'[t] = "idle"
    /\ Others(t)
    /\ \A s \in Slot, p \in Page :
          Refers(s, p)' <=> Refers(s, p) \/ (s = r /\ p = q)
    /\ \A p \in Page : ~ Refers(r, p)
    /\ \A u \in Thread, p \in Page :
          /\ Reserved(u, p)' <=> Reserved(u, p) /\ u # t
          /\ Pushing(u, p)' <=> Pushing(u, p)

LEMMA MapStep ==
  ASSUME CallsInv, NEW t \in Thread, kalloc_map(t)
  PROVE  \E q \in Page, r \in Slot : MapEffect(t, q, r)
<1>1. PICK q \in Page, r \in Slot : q = new_pa[t] /\ r = src[t]
  BY DEF kalloc_map, CallsInv, CallInv, Alloc
<1> USE DEF kalloc_map, Return, Goto, CallsInv, TypeOK, Reserved, kmem
<1>2. /\ \A s \in Slot, p \in Page :
            Refers(s, p)' <=> Refers(s, p) \/ (s = r /\ p = q)
      /\ \A p \in Page : ~ Refers(r, p)
  BY <1>1, PageAssumption, SlotAssumption
  DEF Refers, Uncounted, CallInv, ExclusiveInv, Label, Alloc, Free, Share, CowNew, Cow
<1>3. \A u \in Thread, p \in Page :
         /\ Reserved(u, p)' <=> Reserved(u, p) /\ u # t
         /\ Pushing(u, p)' <=> Pushing(u, p)
  BY DEF Pushing
<1> QED
  BY <1>1, <1>2, <1>3 DEF MapEffect, Others

KfreeStoreEffect(t, q, r) ==
    /\ q = pa[t] /\ r = src[t] /\ pa'[t] = q
    /\ freelist' = freelist /\ wr' = wr
    /\ pageref'[q] = ref[t] - 1
    /\ \A p \in Page \ {q} : pageref'[p] = pageref[p]
    /\ pc[t] = "kfree_store"
    /\ pc'[t] = IF ref[t] - 1 <= 0 THEN "kfree_push" ELSE "kfree_release"
    /\ Others(t)
    /\ \A s \in Slot, p \in Page : Refers(s, p)' <=> Refers(s, p) /\ s # r
    /\ \A p \in Page : Refers(r, p) => p = q
    /\ \A u \in Thread, p \in Page :
          /\ Reserved(u, p)' <=> Reserved(u, p)
          /\ u # t => (Pushing(u, p)' <=> Pushing(u, p))
    /\ \A p \in Page \ {q} : ~ Pushing(t, p)'
    /\ \A p \in Page : ~ Pushing(t, p)

LEMMA KfreeStoreStep ==
  ASSUME CallsInv, NEW t \in Thread, kfree_store(t)
  PROVE  \E q \in Page, r \in Slot : KfreeStoreEffect(t, q, r)
<1>1. PICK q \in Page, r \in Slot : q = pa[t] /\ r = src[t]
  BY DEF kfree_store, CallsInv, CallInv, Free
<1> USE DEF kfree_store, store, Goto, CallsInv, TypeOK, locals, ptes
<1>2. /\ \A s \in Slot, p \in Page : Refers(s, p)' <=> Refers(s, p) /\ s # r
      /\ \A p \in Page : Refers(r, p) => p = q
  BY <1>1, PageAssumption, SlotAssumption
  DEF Refers, Uncounted, CallInv, ExclusiveInv, Label, Alloc, Free, Share, CowNew, Cow
<1>3. /\ \A u \in Thread, p \in Page :
            /\ Reserved(u, p)' <=> Reserved(u, p)
            /\ u # t => (Pushing(u, p)' <=> Pushing(u, p))
      /\ \A p \in Page \ {q} : ~ Pushing(t, p)'
      /\ \A p \in Page : ~ Pushing(t, p)
  BY <1>1 DEF Reserved, Pushing
<1> QED
  BY <1>1, <1>2, <1>3 DEF KfreeStoreEffect, Others

RefStoreEffect(t, q, d) ==
    /\ q = pa[t] /\ ~ wr[src[t]] /\ ~ wr[d]
    /\ freelist' = freelist /\ wr' = wr
    /\ pageref'[q] = ref[t] + 1
    /\ \A p \in Page \ {q} : pageref'[p] = pageref[p]
    /\ pc[t] = "ref_store" /\ pc'[t] = "ref_release"
    /\ Others(t)
    /\ \A s \in Slot, p \in Page :
          Refers(s, p)' <=> Refers(s, p) \/ (s = d /\ p = q)
    /\ \A p \in Page : ~ Refers(d, p)
    /\ SameHands

LEMMA RefStoreStep ==
  ASSUME CallsInv, NEW t \in Thread, ref_store(t)
  PROVE  \E q \in Page, d \in Slot : RefStoreEffect(t, q, d)
<1>1. PICK q \in Page, d \in Slot : q = pa[t] /\ d = dst[t]
  BY DEF ref_store, CallsInv, CallInv, Share
<1> USE DEF ref_store, store, Goto, CallsInv, TypeOK, CallInv, Share, locals, ptes
<1>2. /\ \A s \in Slot, p \in Page :
            Refers(s, p)' <=> Refers(s, p) \/ (s = d /\ p = q)
      /\ \A p \in Page : ~ Refers(d, p)
  BY <1>1, PageAssumption, SlotAssumption
  DEF Refers, Uncounted, ExclusiveInv, Label, Alloc, Free, CowNew, Cow
<1>3. SameHands
  BY DEF SameHands, Reserved, Pushing
<1> QED
  BY <1>1, <1>2, <1>3 DEF RefStoreEffect, Others

CowStoreEffect(t, q, n, r) ==
    /\ q = pa[t] /\ n = new_pa[t] /\ r = src[t] /\ ~ wr[r]
    /\ Reserved(t, n) /\ new_pa'[t] = n /\ src'[t] = r
    /\ freelist' = freelist /\ wr' = wr
    /\ pageref'[q] = ref[t] - 1
    /\ \A p \in Page \ {q} : pageref'[p] = pageref[p]
    /\ pc[t] = "cow_store" /\ pc'[t] = "cow_release"
    /\ Others(t)
    /\ \A s \in Slot, p \in Page :
          Refers(s, p)' <=> (Refers(s, p) /\ s # r) \/ (s = r /\ p = n)
    /\ \A p \in Page : Refers(r, p) => p = q
    /\ \A u \in Thread, p \in Page :
          /\ Reserved(u, p)' <=> Reserved(u, p) /\ u # t
          /\ Pushing(u, p)' <=> Pushing(u, p)

LEMMA CowStoreStep ==
  ASSUME CallsInv, NEW t \in Thread, cow_store(t)
  PROVE  \E q \in Page, n \in Page, r \in Slot : CowStoreEffect(t, q, n, r)
<1>1. PICK q \in Page, n \in Page, r \in Slot : q = pa[t] /\ n = new_pa[t] /\ r = src[t]
  BY DEF cow_store, CallsInv, CallInv, Cow, CowNew
<1> USE DEF cow_store, store, Goto, CallsInv, TypeOK, CallInv, Cow, CowNew, locals, ptes
<1>2. /\ \A s \in Slot, p \in Page :
            Refers(s, p)' <=> (Refers(s, p) /\ s # r) \/ (s = r /\ p = n)
      /\ \A p \in Page : Refers(r, p) => p = q
  BY <1>1, PageAssumption, SlotAssumption
  DEF Refers, Uncounted, ExclusiveInv, Label, Alloc, Free, Share
<1>3. \A u \in Thread, p \in Page :
         /\ Reserved(u, p)' <=> Reserved(u, p) /\ u # t
         /\ Pushing(u, p)' <=> Pushing(u, p)
  BY DEF Reserved, Pushing
<1> QED
  BY <1>1, <1>2, <1>3 DEF CowStoreEffect, Others, Reserved

(* A thread that is about to use the count of a page holds a reference.    *)
LEMMA HoldsRef ==
  ASSUME CallsInv, NEW t \in Thread,
         pc[t] \in (Share \cup Cow \cup {"kfree_load", "kfree_store"})
                      \ {"cow_release", "remap"}
  PROVE  /\ pa[t] \in Page /\ src[t] \in Slot
         /\ Refers(src[t], pa[t])
         /\ src[t] \in Refs(pa[t])
  BY PageAssumption, SlotAssumption
  DEF Refs, Refers, Uncounted, CallsInv, TypeOK, CallInv, ExclusiveInv, Label,
      Alloc, Free, Share, CowNew, Cow
==============================================================================
