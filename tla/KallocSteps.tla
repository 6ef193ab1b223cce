----------------------------- MODULE KallocSteps -----------------------------
(***************************************************************************)
(* Proofs about module Kalloc, third part: the four steps at which a       *)
(* reference to a page starts or stops to be counted.                      *)
(***************************************************************************)
EXTENDS KallocPages

LEMMA MapInv ==
  ASSUME CardFacts, IInv, CallsInv', NEW t \in Thread, kalloc_map(t)
  PROVE  IInv'
<1>0. PICK q \in Page, r \in Slot : MapEffect(t, q, r)
  BY MapStep DEF IInv
<1>1. /\ Reserved(t, q) /\ new_pa[t] = q /\ pc[t] = "kalloc_map"
      /\ freelist' = freelist /\ pageref' = pageref
      /\ \A s \in Slot \ {r} : wr'[s] = wr[s]
      /\ pc'[t] = "idle"
      /\ Others(t)
  BY <1>0 DEF MapEffect
<1>2. /\ \A s \in Slot, p \in Page :
            Refers(s, p)' <=> Refers(s, p) \/ (s = r /\ p = q)
      /\ \A p \in Page : ~ Refers(r, p)
      /\ \A u \in Thread, p \in Page :
            /\ Reserved(u, p)' <=> Reserved(u, p) /\ u # t
            /\ Pushing(u, p)' <=> Pushing(u, p)
  BY <1>0 DEF MapEffect
<1>3. \A p \in Page : PageOK(p)
  BY PagesOK DEF IInv
<1>4. /\ Refs(q) = {} /\ pageref[q] = 1
      /\ Refs(q)' = {r}
      /\ \A p \in Page \ {q} : Refs(p)' = Refs(p)
  <2>1. Refs(q) = {} /\ pageref[q] = 1
    BY <1>1, <1>3 DEF PageOK, IInv, CountInv, CountOK
  <2> QED
    BY <1>1, <1>2, <2>1 DEF Refs
<1>5. ASSUME NEW p \in Page PROVE PageOK(p)'
  <2>1. CASE p = q
    <3>1. Cardinality({r}) = 1
      BY DEF CardFacts
    <3>2. \A u \in Thread : ~ Reserved(u, q)' /\ ~ Pushing(u, q)'
      BY <1>1, <1>2, <1>3 DEF PageOK
    <3> QED
      BY <1>1, <1>3, <1>4, <2>1, <3>1, <3>2, Zenon DEF PageOK
  <2>2. CASE p # q
    BY <1>1, <1>2, <1>3, <1>4, <2>2, SamePageOK DEF SamePage, Reserved
  <2> QED
    BY <2>1, <2>2
<1>6. ASSUME NEW u \in Thread \ {t} PROVE CountOK(u)'
  <2>1. \A p \in Relies(u) : p \in Page \ {q}
    BY <1>1, ReservedAlone DEF Relies
  <2> QED
    BY <1>1, <1>4, <2>1, OthersCount DEF IInv, CountInv
<1>7. CountOK(t)'
  BY <1>1 DEF CountOK
<1>8. WritableIsPrivate'
  <2>1. \A s \in Slot : ~ Refers(s, q)
    BY <1>4 DEF Refs
  <2> QED
    BY <1>1, <1>2, <2>1 DEF IInv, WritableIsPrivate
<1> QED
  BY <1>5, <1>6, <1>7, <1>8, Assemble

LEMMA KfreeStoreInv ==
  ASSUME CardFacts, IInv, CallsInv', NEW t \in Thread, kfree_store(t)
  PROVE  IInv'
<1>0. PICK q \in Page, r \in Slot : KfreeStoreEffect(t, q, r)
  BY KfreeStoreStep DEF IInv
<1>1. /\ r \in Refs(q) /\ q = pa[t] /\ pa'[t] = q /\ pc[t] = "kfree_store"
      /\ freelist' = freelist /\ wr' = wr
      /\ pageref'[q] = pageref[q] - 1
      /\ \A p \in Page \ {q} : pageref'[p] = pageref[p]
      /\ pc'[t] = IF pageref[q] - 1 <= 0 THEN "kfree_push" ELSE "kfree_release"
      /\ Others(t)
  <2>1. q = pa[t] /\ r = src[t] /\ pc[t] = "kfree_store"
    BY <1>0 DEF KfreeStoreEffect
  <2>2. r \in Refs(q) /\ ref[t] = pageref[q]
    BY <2>1, HoldsRef DEF IInv, CountInv, CountOK
  <2> QED
    BY <1>0, <2>2 DEF KfreeStoreEffect
<1>2. /\ \A s \in Slot, p \in Page :
            Refers(s, p)' <=> Refers(s, p) /\ s # r
      /\ \A p \in Page : Refers(r, p) => p = q
      /\ \A u \in Thread, p \in Page :
            /\ Reserved(u, p)' <=> Reserved(u, p)
            /\ u # t => (Pushing(u, p)' <=> Pushing(u, p))
      /\ \A p \in Page \ {q} : ~ Pushing(t, p)'
      /\ \A p \in Page : ~ Pushing(t, p)
  BY <1>0 DEF KfreeStoreEffect
<1>3. \A p \in Page : PageOK(p)
  BY PagesOK DEF IInv
<1>4. /\ Refs(q)' = Refs(q) \ {r}
      /\ \A p \in Page \ {q} : Refs(p)' = Refs(p)
  BY <1>1, <1>2 DEF Refs
<1>5. /\ pageref[q] \in Nat /\ pageref[q] >= 1
      /\ pageref[q] - 1 = Cardinality(Refs(q) \ {r})
      /\ pageref[q] = 1 <=> Refs(q) \ {r} = {}
  BY <1>1, <1>3, HeldLess, Zenon
<1>6. ASSUME NEW p \in Page PROVE PageOK(p)'
  <2>1. CASE p = q
    <3>1. \A u \in Thread : ~ Reserved(u, q)'
      BY <1>1, <1>2, <1>3 DEF PageOK
    <3>2. q \notin freelist'
      BY <1>1, <1>3 DEF PageOK
    <3>3. Refs(q)' = {} => Pushing(t, q)'
      BY <1>1, <1>4, <1>5 DEF Pushing
    <3>4. IF Refs(q)' = {} THEN pageref'[q] <= 0
                           ELSE pageref'[q] = Cardinality(Refs(q)')
      BY <1>1, <1>4, <1>5
    <3> QED
      BY <2>1, <3>1, <3>2, <3>3, <3>4 DEF PageOK
  <2>2. CASE p # q
    BY <1>1, <1>2, <1>3, <1>4, <2>2, SamePageOK DEF SamePage
  <2> QED
    BY <2>1, <2>2
<1>7. ASSUME NEW u \in Thread \ {t} PROVE CountOK(u)'
  <2>1. \A p \in Relies(u) : p \in Page \ {q}
    BY <1>1, LockedAlone DEF Relies
  <2> QED
    BY <1>1, <1>4, <2>1, OthersCount DEF IInv, CountInv
<1>8. CountOK(t)'
  <2>1. pc'[t] = "kfree_push" => Refs(q)' = {}
    BY <1>1, <1>4, <1>5
  <2> QED
    BY <1>1, <2>1 DEF CountOK
<1>9. WritableIsPrivate'
  BY <1>1, <1>2 DEF IInv, WritableIsPrivate
<1> QED
  BY <1>6, <1>7, <1>8, <1>9, Assemble

LEMMA RefStoreInv ==
  ASSUME CardFacts, IInv, CallsInv', NEW t \in Thread, ref_store(t)
  PROVE  IInv'
<1>0. PICK q \in Page, d \in Slot : RefStoreEffect(t, q, d)
  BY RefStoreStep DEF IInv
<1>1. /\ q = pa[t] /\ pc[t] = "ref_store"
      /\ src[t] \in Slot /\ src[t] \in Refs(q) /\ Refers(src[t], q)
      /\ ~ wr[src[t]] /\ ~ wr[d]
      /\ freelist' = freelist /\ wr' = wr
      /\ pageref'[q] = pageref[q] + 1
      /\ \A p \in Page \ {q} : pageref'[p] = pageref[p]
      /\ pc'[t] = "ref_release"
      /\ Others(t)
  <2>1. q = pa[t] /\ pc[t] = "ref_store"
    BY <1>0 DEF RefStoreEffect
  <2>2. /\ src[t] \in Slot /\ src[t] \in Refs(q) /\ Refers(src[t], q)
        /\ ref[t] = pageref[q]
    BY <2>1, HoldsRef DEF IInv, CountInv, CountOK, Share
  <2> QED
    BY <1>0, <2>2 DEF RefStoreEffect
<1>2. /\ \A s \in Slot, p \in Page :
            Refers(s, p)' <=> Refers(s, p) \/ (s = d /\ p = q)
      /\ \A p \in Page : ~ Refers(d, p)
      /\ SameHands
  BY <1>0 DEF RefStoreEffect
<1>3. \A p \in Page : PageOK(p)
  BY PagesOK DEF IInv
<1>4. /\ Refs(q)' = Refs(q) \cup {d} /\ d \notin Refs(q)
      /\ \A p \in Page \ {q} : Refs(p)' = Refs(p)
  BY <1>1, <1>2 DEF Refs
<1>5. pageref[q] + 1 = Cardinality(Refs(q) \cup {d})
  BY <1>1, <1>3, <1>4, HeldMore
<1>6. ASSUME NEW p \in Page PROVE PageOK(p)'
  <2>1. CASE p = q
    BY <1>1, <1>2, <1>3, <1>4, <1>5, <2>1, Zenon DEF PageOK, SameHands
  <2>2. CASE p # q
    BY <1>1, <1>2, <1>3, <1>4, <2>2, SamePageOK DEF SamePage, SameHands
  <2> QED
    BY <2>1, <2>2
<1>7. ASSUME NEW u \in Thread \ {t} PROVE CountOK(u)'
  <2>1. \A p \in Relies(u) : p \in Page \ {q}
    BY <1>1, LockedAlone DEF Relies
  <2> QED
    BY <1>1, <1>4, <2>1, OthersCount DEF IInv, CountInv
<1>8. CountOK(t)'
  BY <1>1 DEF CountOK
<1>9. WritableIsPrivate'
  <2>1. \A s \in Slot : wr[s] => ~ Refers(s, q)
    BY <1>1 DEF IInv, WritableIsPrivate
  <2> QED
    BY <1>1, <1>2, <2>1 DEF IInv, WritableIsPrivate
<1> QED
  BY <1>6, <1>7, <1>8, <1>9, Assemble

LEMMA CowStoreInv ==
  ASSUME CardFacts, IInv, CallsInv', NEW t \in Thread, cow_store(t)
  PROVE  IInv'
<1>0. PICK q \in Page, n \in Page, r \in Slot : CowStoreEffect(t, q, n, r)
  BY CowStoreStep DEF IInv
<1>1. /\ q = pa[t] /\ n = new_pa[t] /\ pc[t] = "cow_store"
      /\ r \in Refs(q) /\ ~ wr[r]
      /\ Reserved(t, n) /\ new_pa'[t] = n /\ src'[t] = r
      /\ pageref[q] > 1 /\ pageref[n] = 1
      /\ freelist' = freelist /\ wr' = wr
      /\ pageref'[q] = pageref[q] - 1
      /\ \A p \in Page \ {q} : pageref'[p] = pageref[p]
      /\ pc'[t] = "cow_release"
      /\ Others(t)
  <2>1. q = pa[t] /\ n = new_pa[t] /\ r = src[t] /\ pc[t] = "cow_store"
    BY <1>0 DEF CowStoreEffect
  <2>2. r \in Refs(q) /\ ref[t] = pageref[q] /\ pageref[q] > 1 /\ pageref[n] = 1
    BY <2>1, HoldsRef DEF IInv, CountInv, CountOK, Cow, CowNew
  <2> QED
    BY <1>0, <2>1, <2>2 DEF CowStoreEffect
<1>2. /\ \A s \in Slot, p \in Page :
            Refers(s, p)' <=> (Refers(s, p) /\ s # r) \/ (s = r /\ p = n)
      /\ \A p \in Page : Refers(r, p) => p = q
      /\ \A u \in Thread, p \in Page :
            /\ Reserved(u, p)' <=> Reserved(u, p) /\ u # t
            /\ Pushing(u, p)' <=> Pushing(u, p)
  BY <1>0 DEF CowStoreEffect
<1>3. \A p \in Page : PageOK(p)
  BY PagesOK DEF IInv
<1>4. Refs(n) = {} /\ n # q
  BY <1>1, <1>3 DEF PageOK
<1>5. /\ Refs(q)' = Refs(q) \ {r}
      /\ Refs(n)' = {r}
      /\ \A p \in Page \ {q, n} : Refs(p)' = Refs(p)
  BY <1>1, <1>2, <1>4 DEF Refs
<1>6. /\ pageref[q] - 1 = Cardinality(Refs(q) \ {r})
      /\ Refs(q) \ {r} # {}
  BY <1>1, <1>3, HeldLess
<1>7. ASSUME NEW p \in Page PROVE PageOK(p)'
  <2>1. CASE p = q
    <3>1. \A u \in Thread : ~ Reserved(u, q)'
      BY <1>1, <1>2, <1>3 DEF PageOK
    <3> QED
      BY <1>1, <1>2, <1>3, <1>5, <1>6, <2>1, <3>1, Zenon DEF PageOK
  <2>2. CASE p = n
    <3>1. Cardinality({r}) = 1
      BY DEF CardFacts
    <3>2. \A u \in Thread : ~ Reserved(u, n)' /\ ~ Pushing(u, n)'
      BY <1>1, <1>2, <1>3 DEF PageOK
    <3> QED
      BY <1>1, <1>3, <1>4, <1>5, <2>2, <3>1, <3>2, Zenon DEF PageOK
  <2>3. CASE p # q /\ p # n
    BY <1>1, <1>2, <1>3, <1>5, <2>3, SamePageOK DEF SamePage, Reserved
  <2> QED
    BY <2>1, <2>2, <2>3
<1>8. ASSUME NEW u \in Thread \ {t} PROVE CountOK(u)'
  <2>1. \A p \in Relies(u) : p \in Page \ {q, n}
    BY <1>1, LockedAlone, ReservedAlone DEF Relies
  <2> QED
    BY <1>1, <1>5, <2>1, OthersCount DEF IInv, CountInv
<1>9. CountOK(t)'
  BY <1>1, <1>5 DEF CountOK
<1>10. WritableIsPrivate'
  <2>1. \A s \in Slot : ~ Refers(s, n)
    BY <1>4 DEF Refs
  <2> QED
    BY <1>1, <1>2, <2>1 DEF IInv, WritableIsPrivate
<1> QED
  BY <1>7, <1>8, <1>9, <1>10, Assemble
==============================================================================
