--------------------------------- MODULE Bio ---------------------------------
(***************************************************************************)
(* The buffer cache, kernel/bio.c, with the sleep locks of its buffers,    *)
(* kernel/sleeplock.c, on top of the disk driver of module Virtio.         *)
(*                                                                         *)
(* A step is one critical section of bcache.lock or of the spinlock of a   *)
(* sleep lock.  The callers are those of kernel/log.c: a process changes a *)
(* locked buffer and writes it, or puts it into the log, which pins it     *)
(* until a later bwrite() and bunpin().                                    *)
(***************************************************************************)
EXTENDS Virtio

CONSTANT NLOG                \* buffers the log pins at most

VARIABLES valid, refcnt,
          locked,            \* the process that has b->lock (lk->pid)
          lru,               \* the list from bcache.head.next on
          logged             \* the buffers in the log header

cache == <<valid, refcnt, locked, lru, logged>>

vars == <<blockno, bdata, driver, device, pc, chan, b, idx, cache>>

(* binit(): the buffers belong to no block of the device.                  *)
Init ==
    /\ VirtioInit
    /\ platter \in [Block -> Val]
    /\ blockno = [x \in Buf |-> None]
    /\ bdata = [x \in Buf |-> CHOOSE v \in Val : TRUE]
    /\ pc = [p \in Proc |-> "user"]
    /\ chan = [p \in Proc |-> Awake]
    /\ b = [p \in Proc |-> None]
    /\ valid = [x \in Buf |-> 0]
    /\ refcnt = [x \in Buf |-> 0]
    /\ locked = [x \in Buf |-> None]
    /\ lru \in {s \in [1..Cardinality(Buf) -> Buf] : {s[k] : k \in DOMAIN s} = Buf}
    /\ logged = {}

LockChan(x) == <<x, "lock">>

At(p, l) == pc[p] = l /\ chan[p] = Awake

(***************************************************************************)
(* bget()                                                                  *)
(***************************************************************************)
Cached(k) == {x \in Buf : blockno[x] = k}

Unused == {x \in Buf : refcnt[x] = 0}

(* The least recently used of the unused buffers; "bget: no buffers" stops *)
(* the machine when there is none.                                         *)
Victim == lru[Max({i \in DOMAIN lru : lru[i] \in Unused})]

(* Mutant: the old contents count as those of the new block.               *)
bget_recycle_valid(p, k) ==
    /\ Cached(k) = {} /\ Unused # {}
    /\ b' = [b EXCEPT ![p] = Victim]
    /\ blockno' = [blockno EXCEPT ![Victim] = k]
    /\ refcnt' = [refcnt EXCEPT ![Victim] = 1]
    /\ UNCHANGED valid

bget_recycle(p, k) ==
    /\ Cached(k) = {} /\ Unused # {}
    /\ b' = [b EXCEPT ![p] = Victim]
    /\ blockno' = [blockno EXCEPT ![Victim] = k]
    /\ valid' = [valid EXCEPT ![Victim] = 0]
    /\ refcnt' = [refcnt EXCEPT ![Victim] = 1]

bget_cached(p, k) ==
    \E x \in Cached(k) :
       /\ b' = [b EXCEPT ![p] = x]
       /\ refcnt' = [refcnt EXCEPT ![x] = @ + 1]
       /\ UNCHANGED <<blockno, valid>>

bget(p, k) ==
    /\ At(p, "user")
    /\ bget_cached(p, k) \/ bget_recycle(p, k)
    /\ Goto(p, "acquiresleep")
    /\ UNCHANGED <<bdata, driver, device, chan, idx, locked, lru, logged>>

(***************************************************************************)
(* Sleep locks                                                             *)
(***************************************************************************)
CanLock(x) == locked[x] = None

(* acquiresleep(), and bread()'s look at b->valid, which b->lock protects. *)
acquiresleep(p) ==
    LET x == b[p] IN
    /\ At(p, "acquiresleep")
    /\ IF CanLock(x)
       THEN /\ locked' = [locked EXCEPT ![x] = p]
            /\ Goto(p, IF valid[x] = 1 THEN "locked" ELSE "read")
            /\ UNCHANGED chan
       ELSE /\ chan' = [chan EXCEPT ![p] = LockChan(x)]
            /\ UNCHANGED <<locked, pc>>
    /\ UNCHANGED <<blockno, bdata, driver, device, b, idx, valid, refcnt, lru, logged>>

releasesleep(p) ==
    /\ At(p, "locked")
    /\ locked' = [locked EXCEPT ![b[p]] = None]
    /\ chan' = [q \in Proc |-> IF chan[q] = LockChan(b[p]) THEN Awake ELSE chan[q]]
    /\ Goto(p, "brelse")
    /\ UNCHANGED <<blockno, bdata, driver, device, b, idx, valid, refcnt, lru, logged>>

(***************************************************************************)
(* bread(), bwrite() and brelse()                                          *)
(***************************************************************************)
bread(p) ==
    /\ rw_done(p, "reading", "locked")
    /\ valid' = [valid EXCEPT ![b[p]] = 1]
    /\ UNCHANGED <<refcnt, locked, lru, logged>>

(* memmove() into the buffer and bwrite().                                 *)
bwrite(p, v) ==
    /\ At(p, "locked")
    /\ b[p] \notin logged
    /\ bdata' = [bdata EXCEPT ![b[p]] = v]
    /\ Goto(p, "write")
    /\ UNCHANGED <<blockno, driver, device, chan, b, idx, cache>>

(* The same with log_write(): bpin() instead of bwrite().                  *)
bpin(p, v) ==
    LET x == b[p] IN
    /\ At(p, "locked")
    /\ x \in logged \/ Cardinality(logged) < NLOG
    /\ bdata' = [bdata EXCEPT ![x] = v]
    /\ logged' = logged \cup {x}
    /\ refcnt' = IF x \in logged THEN refcnt ELSE [refcnt EXCEPT ![x] = @ + 1]
    /\ UNCHANGED <<blockno, driver, device, pc, chan, b, idx, valid, locked, lru>>

(* install_trans(): bwrite() of a buffer of the log.                       *)
install(p) ==
    /\ At(p, "locked")
    /\ b[p] \in logged
    /\ Goto(p, "write")
    /\ UNCHANGED <<blockno, bdata, driver, device, chan, b, idx, cache>>

bwrite_done(p) ==
    /\ rw_done(p, "writing", IF b[p] \in logged THEN "bunpin" ELSE "locked")
    /\ UNCHANGED cache

bunpin(p) ==
    /\ At(p, "bunpin")
    /\ logged' = logged \ {b[p]}
    /\ refcnt' = [refcnt EXCEPT ![b[p]] = @ - 1]
    /\ Goto(p, "locked")
    /\ UNCHANGED <<blockno, bdata, driver, device, chan, b, idx, valid, locked, lru>>

MoveToFront(x) == <<x>> \o SelectSeq(lru, LAMBDA y : y # x)

(* Mutant: the count is left alone.                                        *)
Dropped_not(x) == refcnt[x]

Dropped(x) == refcnt[x] - 1

brelse(p) ==
    LET x == b[p] IN
    /\ At(p, "brelse")
    /\ refcnt' = [refcnt EXCEPT ![x] = Dropped(x)]
    /\ lru' = IF Dropped(x) = 0 THEN MoveToFront(x) ELSE lru
    /\ b' = [b EXCEPT ![p] = None]
    /\ Goto(p, "user")
    /\ UNCHANGED <<blockno, bdata, driver, device, chan, idx, valid, locked, logged>>

(* kill() wakes a process up, whatever it sleeps on.                       *)
kill(p) ==
    /\ chan[p] # Awake
    /\ chan' = [chan EXCEPT ![p] = Awake]
    /\ UNCHANGED <<blockno, bdata, driver, device, pc, b, idx, cache>>

caller(p) ==
    \/ \E k \in Block : bget(p, k)
    \/ \E v \in Val : bwrite(p, v) \/ bpin(p, v)
    \/ install(p)

kernel(p) ==
    \/ acquiresleep(p) \/ releasesleep(p) \/ brelse(p) \/ bunpin(p)
    \/ bread(p) \/ bwrite_done(p)
    \/ virtio_disk_rw(p) /\ UNCHANGED cache

Next ==
    \/ \E p \in Proc : caller(p) \/ kernel(p) \/ kill(p)
    \/ virtio /\ UNCHANGED cache

Spec == Init /\ [][Next]_vars

(* Every process runs on and gets the lock in the end, the device completes*)
(* every request, and interrupts are delivered.                            *)
FairSpec ==
    /\ Spec
    /\ \A p \in Proc : SF_vars(kernel(p))
    /\ WF_vars(handler /\ UNCHANGED cache)
    /\ WF_vars(device_take /\ UNCHANGED cache)
    /\ \A i \in 0..(Max(NUMS) - 1) : WF_vars(device_done(i) /\ UNCHANGED cache)

(***************************************************************************)
(* Properties                                                              *)
(***************************************************************************)
(* A block is cached once, and b->refcnt counts the processes between      *)
(* bget() and brelse() and the pin of the log, so that a buffer somebody   *)
(* waits for, writes or has logged is never recycled.                      *)
RefsExact ==
    /\ \A x, y \in Buf : blockno[x] = blockno[y] /\ x # y => blockno[x] = None
    /\ \A x \in Buf :
          refcnt[x] = Cardinality({p \in Proc : b[p] = x}) + (IF x \in logged THEN 1 ELSE 0)

(* The entries of the used ring the handler has not looked at.             *)
Unseen == {used[(used_idx + k) % NUM] : k \in 0..(((used_id - used_idx) % NUM) - 1)}

(* The descriptors in use are those of the requests in flight, three each, *)
(* also after alloc3_desc() failed half way: none is lost, none is freed   *)
(* twice ("virtio_disk_intr 2").  A buffer that the device may still       *)
(* access, or whose completion is still in the used ring, is locked by the *)
(* process that waits for it, and info[] leads the handler to it, in       *)
(* whatever order requests complete.                                       *)
DescsExact ==
    /\ \A i \in Desc : free[i] = 0 <=> \E p \in Proc : i \in {idx[p][k] : k \in DOMAIN idx[p]}
    /\ \A p, q \in Proc : p # q =>
          {idx[p][k] : k \in DOMAIN idx[p]} \cap {idx[q][k] : k \in DOMAIN idx[q]} = {}
    /\ \A i \in taken \cup Unseen :
          \E p \in Proc :
             /\ idx[p] # << >> /\ idx[p][1] = i
             /\ info[i] = b[p]
             /\ bdisk[b[p]] = 1
             /\ locked[b[p]] = p

(* What processes see in locked buffers; the rest of a block is on disk.   *)
View(p) ==
    IF pc[p] \in {"locked", "write", "writing", "bunpin"} THEN <<blockno[b[p]], bdata[b[p]]>>
                                                        ELSE None

Content(k) ==
    IF \E x \in Cached(k) : valid[x] = 1 THEN bdata[CHOOSE x \in Cached(k) : valid[x] = 1]
                                         ELSE platter[k]

S == INSTANCE BlockStore WITH content <- [k \in Block |-> Content(k)],
                              view <- [p \in Proc |-> View(p)]

(* The cache, its locks and the disk implement BlockStore: recycling, the  *)
(* order of completions and concurrent readers never show anybody an old   *)
(* block, and a change is never lost.                                      *)
ImplementsBlockStore == S!Spec

(* "Wait for virtio_disk_intr() to say request has finished"               *)
(* (virtio_disk.c:240): it does say so for every request.                  *)
RequestsFinish ==
    \A p \in Proc : pc[p] \in {"reading", "writing"} ~> pc[p] \notin {"reading", "writing"}
==============================================================================
