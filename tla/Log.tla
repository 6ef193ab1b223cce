--------------------------------- MODULE Log ---------------------------------
(***************************************************************************)
(* kernel/log.c: concurrent system calls, group commit, a crash at any     *)
(* moment, and recovery, which may itself crash.                           *)
(*                                                                         *)
(* bwrite() waits for the disk, so every write of a block is one step and  *)
(* the disk writes happen in program order.  A block is written as a whole *)
(* (the header fits in one sector).  What is done under log.lock is one    *)
(* step; log_write() tests lh.n and outstanding before it takes the lock.  *)
(*                                                                         *)
(* The buffer cache (module Bio) appears as the content of every block as  *)
(* bread() returns it and the refcnt of its buffer, a uint that wraps.  A  *)
(* buffer with refcnt 0 may be recycled at any time, and the block is then *)
(* read from disk again.                                                   *)
(*                                                                         *)
(* install_trans() unpins every block it installs, but in recovery nobody  *)
(* has pinned them: until the next boot their refcnt is one too low, and 0 *)
(* when they are in the log.  Evicts says whether bget() runs short of     *)
(* buffers and takes those.  (It would take them also while a process has  *)
(* them locked, when refcnt is 0 as well; that is left out.)               *)
(***************************************************************************)
EXTENDS Integers, Sequences, FiniteSets, Functions

CONSTANTS Proc,         \* processes that make file-system calls
          Block,        \* home blocks
          Val,          \* block contents
          Builds,       \* what the sizes below may be
          UINT,         \* number of values of a uint
          Evicts,       \* are buffers of recovered blocks ever recycled?
          NoBlock

ASSUME BlockAssumption == NoBlock \notin Block
ASSUME CountAssumption == UINT \in Nat /\ UINT > 3 /\ Evicts \in BOOLEAN
ASSUME ProcAssumption == IsFiniteSet(Proc)

(* The sizes of a build: the blocks begin_op() reserves for one call, the  *)
(* capacity of struct logheader, the blocks of the log on disk (sb.nlog),  *)
(* and the different blocks a call really writes.  mkfs makes a log of     *)
(* LOGSIZE blocks, one of them the header, and log_write() looks for room  *)
(* before it looks whether the block is in the log already.  This is enough*)
(* for calls that leave one of the blocks they reserve.  (LOGSIZE is 30,   *)
(* MAXOPBLOCKS 10; a call logs 7 blocks at most, a write() of the size     *)
(* filewrite() cuts it to.)                                                *)
ASSUME SizeAssumption ==
    \A b \in Builds :
       /\ b \in [MAXOPBLOCKS : Nat, LOGSIZE : Nat, NLOG : Nat, OPBLOCKS : Nat \ {0}]
       /\ b.OPBLOCKS < b.MAXOPBLOCKS
       /\ b.MAXOPBLOCKS < b.LOGSIZE
       /\ b.LOGSIZE <= b.NLOG

VARIABLES home,         \* on disk: the blocks at their home locations
          slots,        \* on disk: the data blocks of the log
          head,         \* on disk: the header, as the sequence of block numbers
          lh,           \* log.lh, likewise
          outstanding, committing,
          cache,        \* in memory: content of each block
          refcnt,       \* in memory: refcnt of its buffer
          recovered,    \* blocks that recovery has installed since the boot
          pc,           \* where each process is
          blk,          \* the buffer each process has locked
          wrote,        \* the blocks the current system call has logged
          sys,          \* where recovery is; "up" when the system runs
          tail,         \* loop variable of write_log() and install_trans()
          panicked,
          build         \* the sizes, which never change

disk == <<home, slots, head>>

procs == <<pc, blk, wrote>>

bufs == <<cache, refcnt, recovered>>

vars == <<disk, lh, outstanding, committing, bufs, procs, sys, tail, panicked,
          build>>

MAXOPBLOCKS == build.MAXOPBLOCKS
LOGSIZE == build.LOGSIZE
NLOG == build.NLOG
OPBLOCKS == build.OPBLOCKS

Slot == 1..LOGSIZE

(* The state after a reboot: nothing in memory, recovery is about to start.*)
Reboot ==
    /\ lh' = <<>>
    /\ outstanding' = 0
    /\ committing' = FALSE
    /\ cache' = home
    /\ refcnt' = [b \in Block |-> 0]
    /\ recovered' = {}
    /\ pc' = [p \in Proc |-> "out"]
    /\ blk' = [p \in Proc |-> NoBlock]
    /\ wrote' = [p \in Proc |-> {}]
    /\ sys' = "read_head"
    /\ tail' = 0
    /\ panicked' = FALSE

(* mkfs: an empty log.                                                     *)
Init ==
    /\ build \in Builds
    /\ \E x \in Val : home = [b \in Block |-> x] /\ slots = [i \in Slot |-> x]
    /\ head = <<>>
    /\ lh = <<>>
    /\ outstanding = 0
    /\ committing = FALSE
    /\ cache = home
    /\ refcnt = [b \in Block |-> 0]
    /\ recovered = {}
    /\ pc = [p \in Proc |-> "out"]
    /\ blk = [p \in Proc |-> NoBlock]
    /\ wrote = [p \in Proc |-> {}]
    /\ sys = "read_head"
    /\ tail = 0
    /\ panicked = FALSE

Up == sys = "up" /\ ~ panicked

Goto(p, l) == pc' = [pc EXCEPT ![p] = l]

(* wakeup(&log) and a move of p at the same time.                          *)
Wakeup(p, l) ==
    pc' = [q \in Proc |-> IF q = p THEN l
                          ELSE IF pc[q] = "sleep" THEN "begin" ELSE pc[q]]

(***************************************************************************)
(* begin_op() and end_op()                                                 *)
(***************************************************************************)
(* Mutant: the caller itself is left out.                                  *)
HasRoom_others == Len(lh) + outstanding * MAXOPBLOCKS <= LOGSIZE

HasRoom == Len(lh) + (outstanding + 1) * MAXOPBLOCKS <= LOGSIZE

(* Mutant: the call is not counted.                                        *)
begin_op_uncounted(p) ==
    /\ Up
    /\ pc[p] = "out"
    /\ Goto(p, "in")
    /\ UNCHANGED <<disk, lh, outstanding, committing, bufs, blk, wrote,
                   sys, tail, panicked>>

begin_op(p) ==
    /\ Up
    /\ pc[p] \in {"out", "begin"}
    /\ IF ~ committing /\ HasRoom
       THEN outstanding' = outstanding + 1 /\ Goto(p, "in")
       ELSE Goto(p, "sleep") /\ UNCHANGED outstanding
    /\ UNCHANGED <<disk, lh, committing, bufs, blk, wrote, sys, tail,
                   panicked>>

(* The last call to end becomes the committer.                             *)
end_op(p) ==
    /\ Up
    /\ pc[p] = "in"
    /\ outstanding' = outstanding - 1
    /\ panicked' = committing
    /\ IF outstanding = 1
       THEN /\ committing' = TRUE
            /\ Goto(p, IF lh = <<>> THEN "end" ELSE "write_log")
            /\ tail' = 0
       ELSE /\ Wakeup(p, "out")
            /\ UNCHANGED <<committing, tail>>
    /\ wrote' = [wrote EXCEPT ![p] = {}]
    /\ UNCHANGED <<disk, lh, bufs, blk, sys>>

(***************************************************************************)
(* A system call changes a block: bread, modify, log_write, brelse.  The   *)
(* buffer is locked all the while.                                         *)
(***************************************************************************)
modify(p, b, x) ==
    /\ Up
    /\ pc[p] = "in"
    /\ b \in wrote[p] \/ Cardinality(wrote[p]) < OPBLOCKS
    /\ \A q \in Proc : blk[q] # b
    /\ cache' = [cache EXCEPT ![b] = x]
    /\ refcnt' = [refcnt EXCEPT ![b] = (@ + 1) % UINT]
    /\ blk' = [blk EXCEPT ![p] = b]
    /\ Goto(p, "log_write")
    /\ UNCHANGED <<disk, lh, outstanding, committing, recovered, wrote, sys, tail,
                   panicked>>

(* The tests before log.lock is taken.                                     *)
log_write_test(p) ==
    /\ Up
    /\ pc[p] = "log_write"
    /\ IF Len(lh) >= LOGSIZE \/ Len(lh) >= NLOG - 1 \/ outstanding < 1
       THEN panicked' = TRUE /\ UNCHANGED pc
       ELSE Goto(p, "log_append") /\ UNCHANGED panicked
    /\ UNCHANGED <<disk, lh, outstanding, committing, bufs, blk, wrote,
                   sys, tail>>

(* The rest: a block already in the log is absorbed, another is pinned;    *)
(* then the caller's brelse().                                             *)
logged(p, pin) ==
    /\ Up
    /\ pc[p] = "log_append"
    /\ IF blk[p] \in Range(lh)
       THEN refcnt' = [refcnt EXCEPT ![blk[p]] = (@ - 1) % UINT] /\ UNCHANGED lh
       ELSE /\ refcnt' = [refcnt EXCEPT ![blk[p]] = (@ + pin - 1) % UINT]
            /\ lh' = Append(lh, blk[p])
    /\ wrote' = [wrote EXCEPT ![p] = @ \cup {blk[p]}]
    /\ blk' = [blk EXCEPT ![p] = NoBlock]
    /\ Goto(p, "in")
    /\ UNCHANGED <<disk, outstanding, committing, cache, recovered, sys, tail,
                   panicked>>

(* Mutant: the buffer is not pinned.                                       *)
log_write_unpinned(p) == logged(p, 0)

log_write(p) == logged(p, 1)

(* bget() recycles an unused buffer; the next bread() reads the disk.      *)
recycle(b) ==
    /\ Up
    /\ refcnt[b] = 0
    /\ b \in recovered => Evicts /\ \A p \in Proc : blk[p] # b
    /\ cache' = [cache EXCEPT ![b] = home[b]]
    /\ UNCHANGED <<disk, lh, outstanding, committing, refcnt, recovered, procs, sys,
                   tail, panicked>>

(***************************************************************************)
(* commit()                                                                *)
(***************************************************************************)
Last == tail + 1 = Len(lh)

write_log(p) ==
    /\ Up
    /\ pc[p] = "write_log"
    /\ slots' = [slots EXCEPT ![tail + 1] = cache[lh[tail + 1]]]
    /\ tail' = IF Last THEN 0 ELSE tail + 1
    /\ IF Last THEN Goto(p, "write_head") ELSE UNCHANGED pc
    /\ UNCHANGED <<home, head, lh, outstanding, committing, bufs, blk,
                   wrote, sys, panicked>>

(* "This is the true point at which the current transaction commits."      *)
write_head(p) ==
    /\ Up
    /\ pc[p] = "write_head"
    /\ head' = lh
    /\ Goto(p, "install")
    /\ UNCHANGED <<home, slots, lh, outstanding, committing, bufs, blk,
                   wrote, sys, tail, panicked>>

(* One block of install_trans(): bread() and brelse() of the block at home *)
(* cancel out, and bunpin() is called in any case.                         *)
install_block ==
    LET b == lh[tail + 1] IN
    /\ home' = [home EXCEPT ![b] = slots[tail + 1]]
    /\ cache' = [cache EXCEPT ![b] = slots[tail + 1]]
    /\ refcnt' = [refcnt EXCEPT ![b] = (@ - 1) % UINT]
    /\ tail' = IF Last THEN 0 ELSE tail + 1

install_trans(p) ==
    /\ Up
    /\ pc[p] = "install"
    /\ install_block
    /\ IF Last THEN Goto(p, "clear") ELSE UNCHANGED pc
    /\ UNCHANGED <<slots, head, lh, outstanding, committing, recovered, blk, wrote,
                   sys, panicked>>

(* log.lh.n = 0; write_head()                                              *)
clear(p) ==
    /\ Up
    /\ pc[p] = "clear"
    /\ lh' = <<>>
    /\ head' = <<>>
    /\ Goto(p, "end")
    /\ UNCHANGED <<home, slots, outstanding, committing, bufs, blk,
                   wrote, sys, tail, panicked>>

(* Mutant: no wakeup(&log) after a commit.                                 *)
end_commit_silent(p) ==
    /\ Up
    /\ pc[p] = "end"
    /\ committing' = FALSE
    /\ Goto(p, "out")
    /\ UNCHANGED <<disk, lh, outstanding, bufs, blk, wrote, sys, tail,
                   panicked>>

(* The end of end_op().                                                    *)
end_commit(p) ==
    /\ Up
    /\ pc[p] = "end"
    /\ committing' = FALSE
    /\ Wakeup(p, "out")
    /\ UNCHANGED <<disk, lh, outstanding, bufs, blk, wrote, sys, tail,
                   panicked>>

(***************************************************************************)
(* Crash and recover_from_log()                                            *)
(***************************************************************************)
crash == Reboot /\ UNCHANGED disk

(* Mutant: recovery clears a committed log.                                *)
read_head_skip ==
    /\ sys = "read_head"
    /\ lh' = head
    /\ sys' = "clear"
    /\ UNCHANGED <<disk, outstanding, committing, bufs, procs, tail,
                   panicked>>

read_head ==
    /\ sys = "read_head"
    /\ lh' = head
    /\ sys' = IF head = <<>> THEN "clear" ELSE "install"
    /\ UNCHANGED <<disk, outstanding, committing, bufs, procs, tail,
                   panicked>>

recover_install ==
    /\ sys = "install"
    /\ install_block
    /\ recovered' = recovered \cup {lh[tail + 1]}
    /\ sys' = IF Last THEN "clear" ELSE sys
    /\ UNCHANGED <<slots, head, lh, outstanding, committing, procs, panicked>>

recover_clear ==
    /\ sys = "clear"
    /\ lh' = <<>>
    /\ head' = <<>>
    /\ sys' = "up"
    /\ UNCHANGED <<home, slots, outstanding, committing, bufs, procs,
                   tail, panicked>>

step(p) ==
    \/ begin_op(p) \/ end_op(p)
    \/ log_write_test(p) \/ log_write(p)
    \/ write_log(p) \/ write_head(p) \/ install_trans(p) \/ clear(p)
    \/ end_commit(p)

Next ==
    /\ \/ \E p \in Proc : \/ step(p)
                          \/ \E b \in Block, x \in Val : modify(p, b, x)
       \/ \E b \in Block : recycle(b)
       \/ read_head \/ recover_install \/ recover_clear
       \/ crash
    /\ UNCHANGED build

Spec == Init /\ [][Next]_vars

(***************************************************************************)
(* Properties                                                              *)
(***************************************************************************)
(* The types of the variables.                                             *)
TypeOK ==
    /\ home \in [Block -> Val] /\ cache \in [Block -> Val]
    /\ slots \in [Slot -> Val]
    /\ head \in Seq(Block) /\ lh \in Seq(Block)
    /\ outstanding \in Nat /\ committing \in BOOLEAN
    /\ refcnt \in [Block -> 0..(UINT - 1)]
    /\ recovered \subseteq Block
    /\ pc \in [Proc -> {"out", "begin", "sleep", "in", "log_write", "log_append",
                        "write_log", "write_head", "install", "clear", "end"}]
    /\ blk \in [Proc -> Block \cup {NoBlock}]
    /\ wrote \in [Proc -> SUBSET Block]
    /\ sys \in {"read_head", "install", "clear", "up"}
    /\ tail \in 0..LOGSIZE
    /\ panicked \in BOOLEAN

Active == {p \in Proc : pc[p] \in {"in", "log_write", "log_append"}}

(* What recovery would make of the disk.                                   *)
Recovered ==
    [b \in Block |-> IF b \in Range(head)
                     THEN slots[CHOOSE i \in DOMAIN head : head[i] = b]
                     ELSE home[b]]

Atomic == INSTANCE AtomicDisk WITH
    disk <- Recovered,
    view <- IF sys = "up" THEN cache ELSE Recovered,
    active <- Active,
    hand <- blk

(* "there is never any reasoning required about whether a commit might     *)
(* write an uncommitted system call's updates to disk" (log.c:14-16): at   *)
(* every moment a crash leaves the disk as some group of completed calls   *)
(* left it, recovery and crashes during recovery included.                 *)
ImplementsAtomicDisk == Atomic!Spec

(* Cache and disk agree where they must: a buffer that bget() may recycle  *)
(* (refcnt 0) has the content of the disk, so that bpin() keeps what the   *)
(* log still needs, and when the last end_op() has returned everything     *)
(* written is at home on disk, nothing is left in the log, and every pin   *)
(* is undone.  Blocks that recovery installed are excepted: their counts   *)
(* stay one too low (log.c:78).                                            *)
CacheAgrees ==
    /\ Up => \A b \in Block \ recovered : refcnt[b] = 0 => cache[b] = home[b]
    /\ Up /\ outstanding = 0 /\ ~ committing =>
          /\ head = <<>> /\ home = cache
          /\ \A b \in Block : refcnt[b] = IF b \in recovered THEN UINT - 1 ELSE 0

(* What the calls in progress have reserved and not used: the e[2]-th      *)
(* block of call e[1].                                                     *)
Reserved == {e \in Active \X (1..MAXOPBLOCKS) : e[2] > Cardinality(wrote[e[1]])}

(* The space begin_op() reserved is there: the calls in progress can each  *)
(* write as many blocks as they are still entitled to, so that log_write() *)
(* never panics and the log never grows past the blocks it has on disk.    *)
ReservationHolds ==
    /\ Up => Len(lh) + Cardinality(Reserved) <= LOGSIZE
    /\ ~ panicked /\ Len(lh) < NLOG

(* Whoever sleeps in begin_op() will be woken: a call is in progress or a  *)
(* commit is, and each of them ends with wakeup(&log).                     *)
SleeperHasWaker ==
    (\E p \in Proc : pc[p] = "sleep") => committing \/ Active # {}
==============================================================================
