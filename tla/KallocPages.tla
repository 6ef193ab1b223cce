----------------------------- MODULE KallocPages -----------------------------
(***************************************************************************)
(* Proofs about module Kalloc, second part: the invariant page by page,    *)
(* what the other threads rely on, and the steps that change no count, or  *)
(* only that of a page in nobody else's hands.                             *)
(***************************************************************************)
EXTENDS KallocCalls

(* What IInv says of one page.                                             *)
PageOK(p) ==
    /\ (\A t \in Thread : ~ Reserved(t, p)) =>
          IF Refs(p) = {} THEN pageref[p] <= 0
                          ELSE pageref[p] = Cardinality(Refs(p))
    /\ p \in freelist =>
          /\ Refs(p) = {}
          /\ \A t \in Thread : ~ Reserved(t, p) /\ ~ Pushing(t, p)
    /\ \A t, u \in Thread :
          Reserved(t, p) =>
             Refs(p) = {} /\ ~ Pushing(u, p) /\ (t # u => ~ Reserved(u, p))
    /\ \/ p \in freelist
       \/ Refs(p) # {}
       \/ \E t \in Thread : Reserved(t, p) \/ Pushing(t, p)

SamePage(p) ==
    /\ Refs(p)' = Refs(p)
    /\ pageref'[p] = pageref[p]
    /\ p \in freelist' <=> p \in freelist
    /\ \A u \in Thread : /\ Reserved(u, p)' <=> Reserved(u, p)
                         /\ Pushing(u, p)' <=> Pushing(u, p)

(* The four page invariants, page by page, before and after a step.        *)
LEMMA PagesOK ==
  ASSUME CallsInv
  PROVE  (\A p \in Page : PageOK(p)) <=>
            RefCountExact /\ FreeIsUnused /\ ReservedOnce /\ NoLeak
  BY DEF CallsInv, TypeOK, PageOK, RefCountExact, FreeIsUnused, ReservedOnce, NoLeak

LEMMA PagesOKNext ==
  ASSUME CallsInv', \A p \in Page : PageOK(p)'
  PROVE  RefCountExact' /\ FreeIsUnused' /\ ReservedOnce' /\ NoLeak'
  BY DEF CallsInv, TypeOK, PageOK, RefCountExact, FreeIsUnused, ReservedOnce, NoLeak

(* A page that a step does not touch stays right.                          *)
LEMMA SamePageOK ==
  ASSUME NEW p \in Page, PageOK(p), SamePage(p)
  PROVE  PageOK(p)'
  BY DEF PageOK, SamePage

(* What the proofs use of the cardinality of sets of slots.                *)
CardFacts ==
    \A S \in SUBSET Slot :
       /\ Cardinality(S) \in Nat
       /\ \A s \in S : /\ Cardinality(S \ {s}) = Cardinality(S) - 1
                      /\ Cardinality(S \ {s}) \in Nat
                      /\ Cardinality(S) = 1 <=> S \ {s} = {}
       /\ \A s \in Slot \ S : Cardinality(S \cup {s}) = Cardinality(S) + 1
       /\ \A s \in Slot : Cardinality({s}) = 1

LEMMA RefsCount ==
  ASSUME CardFacts, NEW p \in Page
  PROVE  /\ Cardinality(Refs(p)) \in Nat
         /\ \A s \in Refs(p) :
               /\ Cardinality(Refs(p) \ {s}) = Cardinality(Refs(p)) - 1
               /\ Cardinality(Refs(p)) - 1 \in Nat
               /\ Cardinality(Refs(p)) = 1 <=> Refs(p) \ {s} = {}
         /\ \A s \in Slot \ Refs(p) :
               Cardinality(Refs(p) \cup {s}) = Cardinality(Refs(p)) + 1
<1>1. Refs(p) \in SUBSET Slot
  BY DEF Refs
<1> QED
  BY <1>1 DEF CardFacts

(* A page somebody refers to is counted.                                   *)
LEMMA HeldCount ==
  ASSUME NEW p \in Page, PageOK(p), Refs(p) # {}
  PROVE  pageref[p] = Cardinality(Refs(p))
  BY DEF PageOK

(* The count before and after one of the references to a page goes.        *)
LEMMA HeldLess ==
  ASSUME CardFacts, NEW p \in Page, PageOK(p), NEW s \in Refs(p)
  PROVE  /\ pageref[p] \in Nat /\ pageref[p] >= 1
         /\ pageref[p] - 1 = Cardinality(Refs(p) \ {s})
         /\ pageref[p] = 1 <=> Refs(p) \ {s} = {}
<1>1. pageref[p] = Cardinality(Refs(p))
  BY HeldCount
<1>2. /\ Cardinality(Refs(p)) \in Nat
      /\ Cardinality(Refs(p) \ {s}) = Cardinality(Refs(p)) - 1
      /\ Cardinality(Refs(p)) - 1 \in Nat
      /\ Cardinality(Refs(p)) = 1 <=> Refs(p) \ {s} = {}
  BY RefsCount
<1> QED
  BY <1>1, <1>2

LEMMA HeldMore ==
  ASSUME CardFacts, NEW p \in Page, PageOK(p), Refs(p) # {}, NEW s \in Slot \ Refs(p)
  PROVE  pageref[p] + 1 = Cardinality(Refs(p) \cup {s})
  BY HeldCount, RefsCount

(* The pages whose count or references CountOK(u) speaks of.               *)
Relies(u) ==
    {p \in Page :
       \/ p = pa[u] /\ pc[u] \in {"kfree_store", "kfree_push", "ref_store", "cow_init",
                                  "cow_copy", "cow_load", "cow_store", "set_w"}
       \/ p = new_pa[u] /\ pc[u] \in {"kalloc_map", "cow_copy", "cow_load", "cow_store",
                                      "cow_release", "remap"}}

(* The other threads keep what they rely on if the step leaves the counts  *)
(* and references of those pages alone.                                    *)
LEMMA OthersCount ==
  ASSUME CallsInv, NEW t \in Thread, Others(t), NEW u \in Thread \ {t}, CountOK(u),
         \A p \in Relies(u) : Refs(p)' = Refs(p) /\ pageref'[p] = pageref[p]
  PROVE  CountOK(u)'
<1>1. CallInv
  BY DEF CallsInv
<1> QED
  BY <1>1 DEF CountOK, Relies, Others, CallInv, Alloc, Free, Share, CowNew, Cow

(* No other thread relies on the page of a thread that holds the lock.     *)
LEMMA LockedAlone ==
  ASSUME IInv, NEW t \in Thread, NEW u \in Thread \ {t},
         pc[t] \in {"kfree_store", "ref_store", "cow_store"}
  PROVE  pa[t] \notin Relies(u)
<1>1. pc[u] \notin Locked
  BY DEF IInv, CallsInv, LockInv, Locked, Free, Share, Cow, CowNew
<1>2. src[t] \in Refs(pa[t])
  BY HoldsRef DEF IInv, Share, Cow, CowNew
<1>3. pc[u] \in {"set_w", "remap"} => src[u] # src[t]
  BY DEF IInv, CallsInv, ExclusiveInv
<1>4. pc[u] = "kalloc_map" => Refs(new_pa[u]) = {}
  BY DEF IInv, ReservedOnce, Reserved, CallsInv, CallInv, Alloc
<1>5. CountOK(u)
  BY DEF IInv, CountInv
<1> QED
  BY <1>1, <1>2, <1>3, <1>4, <1>5
  DEF Relies, CountOK, Locked, Free, Share, Cow, CowNew

(* No other thread relies on a page that a thread has just been given.     *)
LEMMA ReservedAlone ==
  ASSUME IInv, NEW t \in Thread, NEW u \in Thread \ {t}, NEW q \in Page, Reserved(t, q)
  PROVE  q \notin Relies(u)
<1>1. Refs(q) = {} /\ ~ Pushing(u, q) /\ ~ Reserved(u, q)
  BY DEF IInv, ReservedOnce
<1>2. pc[u] \in {"kfree_store", "ref_store", "cow_init", "cow_copy", "cow_load",
                 "cow_store", "set_w"} => src[u] \in Refs(pa[u])
  BY HoldsRef DEF IInv, Share, Cow, CowNew
<1>3. CountOK(u)
  BY DEF IInv, CountInv
<1> QED
  BY <1>1, <1>2, <1>3 DEF Relies, CountOK, Pushing, Reserved

(* A quiet step changes no page, and nothing another thread relies on.     *)
LEMMA QuietPages ==
  ASSUME IInv, CallsInv', NEW t \in Thread, Quiet(t)
  PROVE  /\ \A p \in Page : SamePage(p)
         /\ RefCountExact' /\ FreeIsUnused' /\ ReservedOnce' /\ NoLeak'
         /\ \A u \in Thread \ {t} : CountOK(u)'
<1>1. \A p \in Page : SamePage(p)
  BY DEF SamePage, Quiet, SameRefs, SameHands, Refs
<1>2. \A p \in Page : PageOK(p)'
  BY <1>1, PagesOK, SamePageOK DEF IInv
<1>3. RefCountExact' /\ FreeIsUnused' /\ ReservedOnce' /\ NoLeak'
  BY <1>2, PagesOKNext
<1>4. ASSUME NEW u \in Thread \ {t}
      PROVE  CountOK(u)'
  <2>1. \A p \in Relies(u) : p \in Page
    BY DEF Relies
  <2> QED
    BY <1>1, <2>1, OthersCount DEF IInv, CountInv, SamePage, Quiet
<1> QED
  BY <1>1, <1>3, <1>4

(* Permissions that are only taken away keep the copy-on-write rule.       *)
LEMMA WritableKept ==
  ASSUME WritableIsPrivate, SameRefs, \A s \in Slot : wr'[s] => wr[s]
  PROVE  WritableIsPrivate'
  BY DEF WritableIsPrivate, SameRefs

(* The test of cow_kalloc(): a count of one means that the caller's is the *)
(* only reference.                                                         *)
LEMMA LastRef ==
  ASSUME CardFacts, IInv, NEW t \in Thread, pc[t] = "cow_test", pageref[pa[t]] <= 1
  PROVE  Refs(pa[t]) = {src[t]}
<1>1. pa[t] \in Page /\ src[t] \in Refs(pa[t])
  BY HoldsRef DEF IInv, Cow
<1>2. PageOK(pa[t])
  BY <1>1, PagesOK DEF IInv
<1>3. /\ pageref[pa[t]] \in Nat /\ pageref[pa[t]] >= 1
      /\ pageref[pa[t]] = 1 <=> Refs(pa[t]) \ {src[t]} = {}
  BY <1>1, <1>2, HeldLess, Zenon
<1> QED
  BY <1>1, <1>3

(* The quiet steps.                                                        *)
LEMMA QuietInv ==
  ASSUME CardFacts, IInv, CallsInv', NEW t \in Thread, QuietAction(t)
  PROVE  IInv'
<1>1. Quiet(t)
  BY QuietStep DEF IInv
<1>2. /\ \A p \in Page : SamePage(p)
      /\ RefCountExact' /\ FreeIsUnused' /\ ReservedOnce' /\ NoLeak'
      /\ \A u \in Thread \ {t} : CountOK(u)'
  BY <1>1, QuietPages
<1>3. /\ CountOK(t) /\ CallsInv /\ CallInv /\ ExclusiveInv
      /\ pc \in [Thread -> Label] /\ ref \in [Thread -> Int]
      /\ wr \in [Slot -> BOOLEAN]
  BY DEF IInv, CountInv, CallsInv, TypeOK
<1>4. ASSUME CountOK(t)', WritableIsPrivate'
      PROVE  IInv'
  BY <1>2, <1>4 DEF IInv, CountInv
<1>5. ASSUME \A s \in Slot : wr'[s] => wr[s]
      PROVE  WritableIsPrivate'
  BY <1>1, <1>5, WritableKept DEF IInv, Quiet
<1>6. CASE \E r \in Slot : \/ kfree_acquire(t, r)
                           \/ cow_acquire(t, r)
                           \/ \E d \in Slot \ {r} : uvmcopy_map(t, r, d)
  BY <1>3, <1>4, <1>5, <1>6
  DEF kfree_acquire, cow_acquire, uvmcopy_map, Begin, Goto, CountOK, kmem, ptes
<1>7. CASE kfree_load(t) \/ ref_load(t)
  BY <1>3, <1>4, <1>5, <1>7 DEF kfree_load, ref_load, load, Goto, CountOK, kmem, ptes
<1>8. CASE kfree_release(t) \/ ref_acquire(t)
  BY <1>3, <1>4, <1>5, <1>8
  DEF kfree_release, ref_acquire, Goto, CountOK, ptes
<1>9. CASE unmap(t) \/ ref_release(t) \/ cow_fail(t)
  BY <1>3, <1>4, <1>5, <1>9
  DEF unmap, ref_release, cow_fail, Return, Goto, CountOK, ptes
<1>10. CASE cow_keep(t)
  <2>1. src[t] \in Refs(pa[t]) /\ pa[t] \in Page /\ pa'[t] = pa[t] /\ src'[t] = src[t]
    BY <1>3, <1>10, HoldsRef DEF cow_keep, Cow, locals
  <2>3. Refs(pa[t]) = {src[t]}
    BY <1>10, LastRef DEF cow_keep
  <2>4. Refs(pa[t])' = {src'[t]}
    BY <1>2, <2>1, <2>3 DEF SamePage
  <2> QED
    BY <1>3, <1>4, <1>5, <1>10, <2>1, <2>4 DEF cow_keep, Goto, CountOK, ptes
<1>11. CASE cow_copy(t) \/ cow_load(t)
  BY <1>3, <1>4, <1>5, <1>11
  DEF cow_copy, cow_load, load, Goto, CountOK, kmem, ptes, locals
<1>12. CASE cow_release(t)
  <2>1. new_pa'[t] = new_pa[t] /\ new_pa[t] \in Page /\ src'[t] = src[t]
    BY <1>3, <1>12 DEF cow_release, CallInv, Cow, CowNew, locals
  <2>2. Refs(new_pa[t])' = {src'[t]}
    BY <1>2, <1>3, <1>12, <2>1 DEF cow_release, CountOK, SamePage
  <2> QED
    BY <1>3, <1>4, <1>5, <1>12, <2>1, <2>2 DEF cow_release, Goto, CountOK, ptes
<1>13. CASE set_w(t) \/ remap(t)
  <2>1. CountOK(t)'
    BY <1>3, <1>13 DEF set_w, remap, Return, Goto, CountOK
  <2>2. \A s \in Slot : wr'[s] => s = src[t] \/ wr[s]
    BY <1>3, <1>13 DEF set_w, remap
  <2>3. \E q \in Page : Refs(q) = {src[t]}
    BY <1>3, <1>13 DEF set_w, remap, CountOK, CallInv, Cow, CowNew
  <2>4. \A p, q \in Page : Refers(src[t], p) /\ Refers(src[t], q) => p = q
    BY <1>3, <1>13, PageAssumption
    DEF Refers, Uncounted, ExclusiveInv, CallInv, Cow, CowNew, set_w, remap
  <2>5. ASSUME NEW p \in Page, NEW d \in Slot, Refers(src[t], p), Refers(d, p)
        PROVE  d = src[t]
    BY <2>3, <2>4, <2>5 DEF Refs
  <2>6. WritableIsPrivate'
    BY <1>1, <2>2, <2>5 DEF WritableIsPrivate, IInv, Quiet, SameRefs
  <2> QED
    BY <1>4, <2>1, <2>6
<1> QED
  BY <1>6, <1>7, <1>8, <1>9, <1>10, <1>11, <1>12, <1>13 DEF QuietAction

(* The parts of IInv, put together.                                        *)
LEMMA Assemble ==
  ASSUME CallsInv', \A p \in Page : PageOK(p)', NEW t \in Thread, CountOK(t)',
         \A u \in Thread \ {t} : CountOK(u)', WritableIsPrivate'
  PROVE  IInv'
<1>1. RefCountExact' /\ FreeIsUnused' /\ ReservedOnce' /\ NoLeak'
  BY PagesOKNext
<1> QED
  BY <1>1 DEF IInv, CountInv

(***************************************************************************)
(* kalloc takes a page off the free list and sets its count to one.        *)
(***************************************************************************)
LEMMA PopInv ==
  ASSUME IInv, CallsInv', NEW t \in Thread,
         (\E s \in Slot : kalloc_pop(t, s)) \/ cow_pop(t)
  PROVE  IInv'
<1>0. PICK q \in Page : PopEffect(t, q)
  BY PopStep DEF IInv
<1>1. /\ q \in freelist /\ freelist' = freelist \ {q}
      /\ pageref' = pageref /\ wr' = wr
      /\ \/ pc'[t] = "kalloc_init"
         \/ pc'[t] = "cow_init" /\ pageref[pa[t]] > 1 /\ pa' = pa
      /\ Others(t)
  BY <1>0 DEF PopEffect
<1>2. /\ SameRefs
      /\ \A u \in Thread, p \in Page :
            /\ Reserved(u, p)' <=> Reserved(u, p) \/ (u = t /\ p = q)
            /\ Pushing(u, p)' <=> Pushing(u, p)
  BY <1>0 DEF PopEffect
<1>3. \A p \in Page : Refs(p)' = Refs(p)
  BY <1>2 DEF SameRefs, Refs
<1>4. \A p \in Page : PageOK(p)
  BY PagesOK DEF IInv
<1>5. ASSUME NEW p \in Page PROVE PageOK(p)'
  <2>1. CASE p = q
    BY <1>1, <1>2, <1>3, <1>4, <2>1 DEF PageOK
  <2>2. CASE p # q
    BY <1>1, <1>2, <1>3, <1>4, <2>2, SamePageOK DEF SamePage
  <2> QED
    BY <2>1, <2>2
<1>6. \A u \in Thread \ {t} : CountOK(u)'
  <2>1. \A u \in Thread : \A p \in Relies(u) : p \in Page
    BY DEF Relies
  <2> QED
    BY <1>1, <1>3, <2>1, OthersCount DEF IInv, CountInv
<1>7. CountOK(t)'
  BY <1>1 DEF CountOK
<1>8. WritableIsPrivate'
  BY <1>1, <1>2, WritableKept DEF IInv
<1> QED
  BY <1>5, <1>6, <1>7, <1>8, Assemble

LEMMA InitPageInv ==
  ASSUME IInv, CallsInv', NEW t \in Thread, kalloc_init(t) \/ cow_init(t)
  PROVE  IInv'
<1>0. PICK q \in Page : InitPageEffect(t, q)
  BY InitPageStep DEF IInv
<1>1. /\ new_pa' = new_pa /\ new_pa[t] = q /\ pa' = pa /\ Reserved(t, q)
      /\ freelist' = freelist /\ wr' = wr
      /\ pageref'[q] = 1 /\ \A p \in Page \ {q} : pageref'[p] = pageref[p]
      /\ \/ pc'[t] = "kalloc_map"
         \/ pc'[t] = "cow_copy" /\ pc[t] = "cow_init"
      /\ Others(t)
  BY <1>0 DEF InitPageEffect
<1>2. SameRefs /\ SameHands
  BY <1>0 DEF InitPageEffect
<1>3. \A p \in Page : Refs(p)' = Refs(p)
  BY <1>2 DEF SameRefs, Refs
<1>4. \A p \in Page : PageOK(p)
  BY PagesOK DEF IInv
<1>5. ASSUME NEW p \in Page PROVE PageOK(p)'
  <2>1. CASE p = q
    BY <1>1, <1>2, <1>3, <1>4, <2>1 DEF PageOK, SameHands
  <2>2. CASE p # q
    BY <1>1, <1>2, <1>3, <1>4, <2>2, SamePageOK DEF SamePage, SameHands
  <2> QED
    BY <2>1, <2>2
<1>6. ASSUME NEW u \in Thread \ {t} PROVE CountOK(u)'
  <2>1. \A p \in Relies(u) : p \in Page \ {q}
    BY <1>1, ReservedAlone DEF Relies
  <2> QED
    BY <1>1, <1>3, <2>1, OthersCount DEF IInv, CountInv
<1>7. CountOK(t)'
  <2>1. pc[t] = "cow_init" => pa[t] \in Page /\ pageref[pa[t]] > 1 /\ pa[t] # q
    <3>1. pc[t] = "cow_init" => pa[t] \in Page /\ Refs(pa[t]) # {}
      BY HoldsRef DEF IInv, Cow, CowNew
    <3>2. Refs(q) = {}
      BY <1>1, <1>4 DEF PageOK
    <3> QED
      BY <3>1, <3>2 DEF IInv, CountInv, CountOK
  <2> QED
    BY <1>1, <2>1 DEF CountOK
<1>8. WritableIsPrivate'
  BY <1>1, <1>2, WritableKept DEF IInv
<1> QED
  BY <1>5, <1>6, <1>7, <1>8, Assemble

(***************************************************************************)
(* kfree puts a page back on the free list.                                *)
(***************************************************************************)
LEMMA PushInv ==
  ASSUME IInv, CallsInv', NEW t \in Thread, kfree_push(t)
  PROVE  IInv'
<1>0. PICK q \in Page : PushEffect(t, q)
  BY PushStep DEF IInv
<1>1. /\ q = pa[t] /\ Pushing(t, q) /\ freelist' = freelist \cup {q}
      /\ pageref' = pageref /\ wr' = wr
      /\ pc'[t] = "kfree_release"
      /\ Others(t)
  BY <1>0 DEF PushEffect
<1>2. /\ SameRefs
      /\ \A u \in Thread, p \in Page :
            /\ Reserved(u, p)' <=> Reserved(u, p)
            /\ Pushing(u, p)' <=> Pushing(u, p) /\ u # t
  BY <1>0 DEF PushEffect
<1>3. \A p \in Page : Refs(p)' = Refs(p)
  BY <1>2 DEF SameRefs, Refs
<1>4. \A p \in Page : PageOK(p)
  BY PagesOK DEF IInv
<1>5. \A u \in Thread \ {t}, p \in Page : ~ Pushing(u, p)
  BY <1>1 DEF IInv, CallsInv, LockInv, Pushing, Locked, Free
<1>6. Refs(q) = {} /\ \A u \in Thread : ~ Reserved(u, q)
  BY <1>1, <1>4 DEF PageOK, IInv, CountInv, CountOK, Pushing
<1>7. ASSUME NEW p \in Page PROVE PageOK(p)'
  <2>1. CASE p = q
    BY <1>1, <1>2, <1>3, <1>4, <1>5, <1>6, <2>1 DEF PageOK
  <2>2. CASE p # q
    BY <1>1, <1>2, <1>3, <1>4, <2>2, SamePageOK DEF SamePage, Pushing
  <2> QED
    BY <2>1, <2>2
<1>8. \A u \in Thread \ {t} : CountOK(u)'
  <2>1. \A u \in Thread : \A p \in Relies(u) : p \in Page
    BY DEF Relies
  <2> QED
    BY <1>1, <1>3, <2>1, OthersCount DEF IInv, CountInv
<1>9. CountOK(t)'
  BY <1>1 DEF CountOK
<1>10. WritableIsPrivate'
  BY <1>1, <1>2, WritableKept DEF IInv
<1> QED
  BY <1>7, <1>8, <1>9, <1>10, Assemble
==============================================================================
