------------------------------- MODULE Virtio --------------------------------
(***************************************************************************)
(* The virtio disk driver, kernel/virtio_disk.c, and the device behind it. *)
(*                                                                         *)
(* vdisk_lock is held from one sleep() to the next, so a process takes one *)
(* step from wake to sleep; the interrupt handler, which shares the used   *)
(* ring with the device, takes one step for every look at it.              *)
(*                                                                         *)
(* The device takes requests in the order of the avail ring, completes them*)
(* in any order, and never fails.  Ring entries are forgotten once read.   *)
(***************************************************************************)
EXTENDS Integers, Sequences, FiniteSets, FiniteSetsExt

CONSTANTS Proc, Buf, Block, Val,
          NUMS,              \* what NUM, the size of each ring, may be
          None

ASSUME NumAssumption == NUMS \subseteq Nat /\ \A n \in NUMS : n >= 3

VARIABLES blockno, bdata,    \* of every struct buf
          bdisk,             \* b->disk: the device has the buffer
          free, desc, info,
          avail, avail_idx,  \* the 16-bit indices count modulo NUM here
          used_idx,
          intr,              \* where virtio_disk_intr() is; it holds the lock
          taken,             \* device: heads of the chains it works on
          seen,              \* device: how far it has looked in avail
          used, used_id,     \* device: the used ring
          irq,               \* device: INTERRUPT_STATUS
          platter,           \* the blocks on the disk
          pc, chan,
          b,                 \* the buffer a process works on
          idx                \* its descriptors

(* The descriptors, and places of a ring: NUM is what Init chose it to be. *)
Desc == DOMAIN free

NUM == Cardinality(Desc)

driver == <<bdisk, free, desc, info, avail, avail_idx, used_idx, intr>>

device == <<taken, seen, used, used_id, irq, platter>>

VirtioInit ==
    /\ bdisk = [x \in Buf |-> 0]
    /\ \E n \in NUMS : free = [i \in 0..(n - 1) |-> 1]
    /\ desc = [i \in Desc |-> [addr |-> None, next |-> None]]
    /\ info = [i \in Desc |-> None]
    /\ avail = [i \in Desc |-> None] /\ avail_idx = 0
    /\ used_idx = 0
    /\ intr = "off"
    /\ taken = {} /\ seen = 0
    /\ used = [i \in Desc |-> None] /\ used_id = 0
    /\ irq = FALSE
    /\ idx = [p \in Proc |-> << >>]

Awake == <<None, "awake">>

FreeChan == <<None, "free">>

DiskChan(x) == <<x, "disk">>

Goto(p, l) == pc' = [pc EXCEPT ![p] = l]

(* The next place in a ring.                                               *)
Inc(k) == (k + 1) % NUM

(* The channels after p, on its way to sleep, has woken those in c.        *)
WakeThenSleep(p, C, c) ==
    chan' = [q \in Proc |-> IF q = p THEN c ELSE IF chan[q] \in C THEN Awake ELSE chan[q]]

FreeDescs == {i \in Desc : free[i] = 1}

(* The three descriptors alloc_desc() finds: the lowest ones.              *)
Lowest(S) ==
    LET i == Min(S)
        j == Min(S \ {i})
    IN <<i, j, Min(S \ {i, j})>>

(***************************************************************************)
(* virtio_disk_rw()                                                        *)
(***************************************************************************)
(* alloc3_desc() fails: what it took is freed again, which wakes everybody *)
(* waiting for descriptors, and p goes to sleep.                           *)
alloc3_desc_fail(p) ==
    /\ Cardinality(FreeDescs) < 3
    /\ desc' = [i \in Desc |-> IF free[i] = 1 THEN [desc[i] EXCEPT !.addr = None]
                                              ELSE desc[i]]
    /\ WakeThenSleep(p, IF FreeDescs = {} THEN {} ELSE {FreeChan}, FreeChan)
    /\ UNCHANGED free

rw_wait_desc(p) ==
    /\ pc[p] \in {"read", "write"} /\ chan[p] = Awake
    /\ intr = "off"
    /\ alloc3_desc_fail(p)
    /\ UNCHANGED <<blockno, bdata, bdisk, info, avail, avail_idx, used_idx, intr,
                   device, pc, b, idx>>

(* The request is formatted and handed to the device, and p sleeps on b.   *)
rw_submit(p) ==
    LET d == Lowest(FreeDescs)
        x == b[p]
    IN
    /\ pc[p] \in {"read", "write"} /\ chan[p] = Awake
    /\ intr = "off"
    /\ Cardinality(FreeDescs) >= 3
    /\ free' = [free EXCEPT ![d[1]] = 0, ![d[2]] = 0, ![d[3]] = 0]
    /\ desc' = [desc EXCEPT
          ![d[1]] = [addr |-> <<pc[p], blockno[x]>>, next |-> d[2]],
          ![d[2]] = [addr |-> x, next |-> d[3]],
          ![d[3]] = [addr |-> <<"status", d[1]>>, next |-> None]]
    /\ bdisk' = [bdisk EXCEPT ![x] = 1]
    /\ info' = [info EXCEPT ![d[1]] = x]
    /\ avail' = [avail EXCEPT ![avail_idx] = d[1]]
    /\ avail_idx' = Inc(avail_idx)
    /\ idx' = [idx EXCEPT ![p] = d]
    /\ chan' = [chan EXCEPT ![p] = DiskChan(x)]
    /\ Goto(p, IF pc[p] = "read" THEN "reading" ELSE "writing")
    /\ UNCHANGED <<blockno, bdata, used_idx, intr, device, b>>

(* The chain that free_chain() follows.                                    *)
Chain(i) ==
    LET j == desc[i].next IN
    IF j = None THEN {i}
    ELSE IF desc[j].next = None THEN {i, j} ELSE {i, j, desc[j].next}

Done(x) == bdisk[x] = 0

(* while(b->disk == 1), after a wakeup that was not for the request.       *)
rw_again(p) ==
    /\ pc[p] \in {"reading", "writing"} /\ chan[p] = Awake
    /\ intr = "off"
    /\ ~ Done(b[p])
    /\ chan' = [chan EXCEPT ![p] = DiskChan(b[p])]
    /\ UNCHANGED <<blockno, bdata, driver, device, pc, b, idx>>

(* The request at label l is done, and p continues at m.  The link of a    *)
(* free descriptor, which is set before it is followed again, is forgotten.*)
rw_done(p, l, m) ==
    LET c == Chain(idx[p][1]) IN
    /\ pc[p] = l /\ chan[p] = Awake
    /\ intr = "off"
    /\ Done(b[p])
    /\ info' = [info EXCEPT ![idx[p][1]] = None]
    /\ free' = [i \in Desc |-> IF i \in c THEN 1 ELSE free[i]]
    /\ desc' = [i \in Desc |-> IF i \in c THEN [addr |-> None, next |-> None] ELSE desc[i]]
    /\ idx' = [idx EXCEPT ![p] = << >>]
    /\ WakeThenSleep(p, {FreeChan}, Awake)
    /\ Goto(p, m)
    /\ UNCHANGED <<blockno, bdata, bdisk, avail, avail_idx, used_idx, intr, device, b>>

(***************************************************************************)
(* virtio_disk_intr()                                                      *)
(***************************************************************************)
virtio_disk_intr ==
    /\ intr = "off" /\ irq
    /\ intr' = "scan"
    /\ UNCHANGED <<blockno, bdata, bdisk, free, desc, info, avail, avail_idx, used_idx,
                   device, pc, chan, b, idx>>

(* The device is done with x.  Mutant: with everything it was asked for.   *)
Finished_all(x) == [y \in Buf |-> 0]

Finished(x) == [bdisk EXCEPT ![x] = 0]

(* One entry of the used ring.                                             *)
intr_scan ==
    LET x == info[used[used_idx]] IN
    /\ intr = "scan"
    /\ used_idx # used_id
    /\ bdisk' = Finished(x)
    /\ chan' = [q \in Proc |-> IF chan[q] = DiskChan(x) THEN Awake ELSE chan[q]]
    /\ used' = [used EXCEPT ![used_idx] = None]
    /\ used_idx' = Inc(used_idx)
    /\ UNCHANGED <<blockno, bdata, free, desc, info, avail, avail_idx, intr,
                   taken, seen, used_id, irq, platter, pc, b, idx>>

intr_end ==
    /\ intr = "scan"
    /\ used_idx = used_id
    /\ intr' = "ack"
    /\ UNCHANGED <<blockno, bdata, bdisk, free, desc, info, avail, avail_idx, used_idx,
                   device, pc, chan, b, idx>>

(* INTERRUPT_ACK clears what INTERRUPT_STATUS says at this moment.         *)
intr_ack ==
    /\ intr = "ack"
    /\ intr' = "off"
    /\ irq' = FALSE
    /\ UNCHANGED <<blockno, bdata, bdisk, free, desc, info, avail, avail_idx, used_idx,
                   taken, seen, used, used_id, platter, pc, chan, b, idx>>

(***************************************************************************)
(* The device                                                              *)
(***************************************************************************)
device_take ==
    /\ seen # avail_idx
    /\ taken' = taken \cup {avail[seen]}
    /\ avail' = [avail EXCEPT ![seen] = None]
    /\ seen' = Inc(seen)
    /\ UNCHANGED <<blockno, bdata, bdisk, free, desc, info, avail_idx, used_idx, intr,
                   used, used_id, irq, platter, pc, chan, b, idx>>

(* The transfer of the chain at i, its used entry and the interrupt.       *)
device_done(i) ==
    LET blk == desc[i].addr[2]
        x == desc[desc[i].next].addr
    IN
    /\ i \in taken
    /\ taken' = taken \ {i}
    /\ IF desc[i].addr[1] = "write"
       THEN platter' = [platter EXCEPT ![blk] = bdata[x]] /\ UNCHANGED bdata
       ELSE bdata' = [bdata EXCEPT ![x] = platter[blk]] /\ UNCHANGED platter
    /\ used' = [used EXCEPT ![used_id] = i]
    /\ used_id' = Inc(used_id)
    /\ irq' = TRUE
    /\ UNCHANGED <<blockno, driver, seen, pc, chan, b, idx>>

virtio_disk_rw(p) == rw_wait_desc(p) \/ rw_submit(p) \/ rw_again(p)

handler == virtio_disk_intr \/ intr_scan \/ intr_end \/ intr_ack

virtio == handler \/ device_take \/ \E i \in Desc : device_done(i)
==============================================================================
