---------------------------------- MODULE Fs ---------------------------------
(***************************************************************************)
(* Inodes, directories and path names: kernel/fs.c, and the calls of       *)
(* kernel/sysfile.c that use them.  Every call runs inside begin_op() and  *)
(* end_op() (module Log) and reads and writes blocks through the buffer    *)
(* cache (module Bio).                                                     *)
(*                                                                         *)
(* What is done under one inode lock is one step, with at most one visit to*)
(* the inode cache or the inode blocks in it; iput() and ialloc(), which   *)
(* other processes may interrupt, have steps of their own.                 *)
(*                                                                         *)
(* A directory is a function from names to inode numbers.  A file has at   *)
(* most one data block, and so has a directory.  iget() finds the entry of *)
(* an inode or takes a free one, in one critical section, so that an inode *)
(* has at most one entry; a pointer to it is here the inode's number.      *)
(***************************************************************************)
EXTENDS Integers, Sequences, FiniteSets, FiniteSetsExt

CONSTANTS Proc,
          Name,
          Paths,             \* the path names programs use
          Calls,             \* the calls they make
          NINODES,           \* inodes on the disk
          NINODE,            \* entries of the inode cache
          NBLOCK,            \* data blocks
          MAXLINK,           \* bound on link counts
          MAXCALL,           \* bound on the calls that take a path
          None

ASSUME FsAssumption ==
    /\ NINODES \in Nat \ {0} /\ NINODE \in Nat \ {0} /\ NBLOCK \in Nat \ {0} /\ MAXLINK \in Nat /\ MAXCALL \in Nat
    /\ \A pa \in Paths : pa \in Seq(Name) /\ pa # << >>

Inum == 1..NINODES

DataBlock == 1..NBLOCK

ROOTINO == 1

Nil == 0                     \* a null pointer, an empty entry, no block

VARIABLES di,                \* struct dinode: type, nlink and addrs
          ents,              \* the contents of directories
          bitmap,            \* the data blocks in use
          lost,              \* history: names of each inode that went with a directory
          leaked,            \* history: inodes that iput() left allocated
          ic,                \* the inode cache
          ilk,               \* the process that holds each ip->lock
          th,                \* the locals of each process
          ofile,             \* its open file, if any
          cwd,
          ncall              \* the calls made so far

hist == <<lost, leaked>>

disk == <<di, ents, bitmap, hist>>

vars == <<disk, ic, ilk, th, ofile, cwd, ncall>>

NoEnts == [nm \in Name |-> Nil]

FreeInode == [type |-> "none", nlink |-> 0, addrs |-> Nil]

Empty == [ref |-> 0, valid |-> FALSE, node |-> FreeInode]

Idle == [pc |-> "user", op |-> "none", path |-> << >>, path2 |-> << >>, rel |-> FALSE, cur |-> Nil,
         ip |-> Nil, dp |-> Nil, puts |-> << >>, ret |-> "user"]

(* The disk as an earlier boot left it: the root directory that mkfs made, *)
(* and at most one file or directory in it.  Every process starts in the   *)
(* root.                                                                   *)
Init ==
    /\ \E nm \in Name, first \in {FreeInode, [type |-> "file", nlink |-> 1, addrs |-> Nil],
                                    [type |-> "dir", nlink |-> 1, addrs |-> 2]} :
          /\ di = [i \in Inum |->
                     CASE i = ROOTINO -> [type |-> "dir", addrs |-> 1,
                                          nlink |-> IF first.type = "dir" THEN 2 ELSE 1]
                       [] i = 2 -> first
                       [] OTHER -> FreeInode]
          /\ ents = [i \in Inum |-> IF i = ROOTINO /\ first # FreeInode
                                     THEN [NoEnts EXCEPT ![nm] = 2] ELSE NoEnts]
          /\ bitmap = {1, first.addrs} \ {Nil}
    /\ lost = [i \in Inum |-> 0] /\ leaked = {}
    /\ ic = [i \in Inum |-> IF i = ROOTINO
                            THEN [Empty EXCEPT !.ref = Cardinality(Proc)] ELSE Empty]
    /\ ilk = [i \in Inum |-> None]
    /\ th = [p \in Proc |-> Idle]
    /\ ofile = [p \in Proc |-> Nil]
    /\ cwd = [p \in Proc |-> ROOTINO]
    /\ ncall = 0

At(p, l) == th[p].pc = l

(***************************************************************************)
(* The inode cache                                                         *)
(***************************************************************************)
(* "iget: no inodes" stops the machine otherwise.                          *)
CanGet(i) == ic[i].ref > 0 \/ Cardinality({j \in Inum : ic[j].ref > 0}) < NINODE


(* The cache c after iget(i).                                              *)
iget(c, i) == [c EXCEPT ![i] = IF @.ref > 0 THEN [@ EXCEPT !.ref = @ + 1]
                               ELSE [Empty EXCEPT !.ref = 1]]

CanLock(p, s) == ilk[s] \in {None, p}

(* The inode ilock(s) finds: the cached one, or that on disk.              *)
Node(s) == IF ic[s].valid THEN ic[s].node ELSE di[s]

(* The cache after ilock(s), with node nd in memory.                       *)
Load(s, nd) == [ic EXCEPT ![s].valid = TRUE, ![s].node = nd]

(* The inodes on disk after iupdate().                                     *)
iupdate(d, i, nd) == [d EXCEPT ![i] = nd]

(* ip->ref--.  Nothing reads the other fields of an entry without references.*)
Drop(c, s) == [c EXCEPT ![s] = IF @.ref = 1 THEN Empty ELSE [@ EXCEPT !.ref = @ - 1]]

(***************************************************************************)
(* iput() of the entries in th[p].puts; the process continues at th[p].ret.*)
(***************************************************************************)
Finish(p) ==
    th' = [th EXCEPT ![p] =
       IF Len(@.puts) > 1 THEN [@ EXCEPT !.puts = Tail(@), !.pc = "iput"]
       ELSE IF @.ret = "user" THEN Idle
       ELSE [@ EXCEPT !.puts = << >>, !.pc = th[p].ret, !.ret = "user"]]

Unused(s) == ic[s].valid /\ ic[s].node.nlink = 0

LastUnlinked(s) == ic[s].ref = 1 /\ Unused(s)

(* No links and no other references: the inode is locked, to be freed.     *)
iput(p) ==
    LET s == Head(th[p].puts) IN
    /\ At(p, "iput")
    /\ IF LastUnlinked(s)
       THEN /\ ilk[s] = None
            /\ ilk' = [ilk EXCEPT ![s] = p]
            /\ th' = [th EXCEPT ![p].pc = "itrunc"]
            /\ UNCHANGED ic
       ELSE /\ ic' = Drop(ic, s)
            /\ Finish(p)
            /\ UNCHANGED ilk
    /\ UNCHANGED <<disk, ofile, cwd>>

bfree(b) == bitmap \ {b}

(* The disk after itrunc() of the inode in entry s, whose content is nd.   *)
itrunc(s, nd) ==
    /\ bitmap' = bfree(nd.addrs)
    /\ di' = iupdate(di, s, [nd EXCEPT !.addrs = Nil])
    /\ ents' = [ents EXCEPT ![s] = NoEnts]
    /\ lost' = [i \in Inum |-> lost[i] + Cardinality({nm \in Name : ents[s][nm] = i})]
    /\ UNCHANGED leaked

iput_trunc(p) ==
    LET s == Head(th[p].puts) IN
    /\ At(p, "itrunc")
    /\ itrunc(s, ic[s].node)
    /\ ic' = [ic EXCEPT ![s].node.addrs = Nil]
    /\ th' = [th EXCEPT ![p].pc = "ifree"]
    /\ UNCHANGED <<ilk, ofile, cwd>>

(* Mutant: the entry stays valid.                                          *)
Invalid_not == TRUE

Invalid == FALSE

(* ip->type = 0; iupdate(ip); ip->valid = 0; releasesleep(&ip->lock)       *)
iput_free(p) ==
    LET s == Head(th[p].puts)
        nd == [ic[s].node EXCEPT !.type = "none"]
    IN
    /\ At(p, "ifree")
    /\ di' = iupdate(di, s, nd)
    /\ ic' = [ic EXCEPT ![s].valid = Invalid, ![s].node = nd]
    /\ ilk' = [ilk EXCEPT ![s] = None]
    /\ th' = [th EXCEPT ![p].pc = "idrop"]
    /\ UNCHANGED <<ents, bitmap, hist, ofile, cwd>>

(* ip->ref--, whatever has become of the inode since it was freed: when it *)
(* was allocated again and unlinked in the meantime, nobody frees it.      *)
iput_drop(p) ==
    LET s == Head(th[p].puts) IN
    /\ At(p, "idrop")
    /\ ic' = Drop(ic, s)
    /\ leaked' = IF LastUnlinked(s) THEN leaked \cup {s} ELSE leaked
    /\ Finish(p)
    /\ UNCHANGED <<di, ents, bitmap, lost, ilk, ofile, cwd>>

(* p puts the entries ss and continues at l; of its locals it keeps ip only. *)
Put(p, ss, ip, l) ==
    th' = [th EXCEPT ![p] = [Idle EXCEPT !.pc = "iput", !.puts = ss, !.ret = l, !.ip = ip,
                                         !.op = IF l = "user" THEN "none" ELSE th[p].op]]

(***************************************************************************)
(* namei() and nameiparent()                                               *)
(***************************************************************************)
(* The calls that want the parent; "link2" is the second half of sys_link. *)
Parent(p) == th[p].op \in {"create", "mkdir", "mknod", "unlink", "link2"}

(* Where a call goes on when its path leads nowhere.                       *)
Failed(p) == IF th[p].op = "link2" THEN "link_bad" ELSE "user"

CanWalk(rel) == rel \/ CanGet(ROOTINO)

(* A walk begins at the current directory or at the root: the entry, and   *)
(* the cache c with a reference to it.                                     *)
From(p, rel) == IF rel THEN cwd[p] ELSE ROOTINO

Walk(p, c, rel) == IF rel THEN [c EXCEPT ![cwd[p]].ref = @ + 1] ELSE iget(c, ROOTINO)

(* From the root, a relative path is an absolute one.                      *)
call(p, op, pa, pb, rel) ==
    /\ At(p, "user")
    /\ op \in Calls \cap {"open", "create", "mkdir", "mknod", "link", "unlink", "chdir"}
    /\ pb # pa <=> op = "link"
    /\ ncall < MAXCALL
    /\ ncall' = ncall + 1
    /\ rel => cwd[p] # ROOTINO
    /\ CanWalk(rel)
    /\ ic' = Walk(p, ic, rel)
    /\ th' = [th EXCEPT ![p] = [@ EXCEPT !.pc = "namex", !.op = op, !.path = pa, !.rel = rel,
                                        !.path2 = IF op = "link" THEN pb ELSE << >>,
                                        !.cur = From(p, rel)]]
    /\ UNCHANGED <<disk, ilk, ofile, cwd>>

(* nameiparent() stops one level early.                                    *)
namex_parent(p) ==
    LET s == th[p].cur IN
    /\ At(p, "namex") /\ Parent(p) /\ Len(th[p].path) = 1
    /\ CanLock(p, s)
    /\ ic' = Load(s, Node(s))
    /\ IF Node(s).type = "dir"
       THEN th' = [th EXCEPT ![p].pc = th[p].op, ![p].dp = s, ![p].cur = Nil]
       ELSE Put(p, <<s>>, th[p].ip, Failed(p))
    /\ UNCHANGED <<disk, ilk, ofile, cwd>>

skipelem(path) == [name |-> Head(path), rest |-> Tail(path)]

(* The inode that directory d has under name nm, if any ...                *)
dirlookup(d, nm) == ents[d][nm]

(* ... and the directories with i under the name nm of d.                  *)
dirlink(d, nm, i) == [ents EXCEPT ![d][nm] = i]

(* One element: ilock, dirlookup with its iget, iunlock, and an iput to    *)
(* come.  After the last one the call goes on with the inode it led to.    *)
namex(p) ==
    LET s == th[p].cur
        nd == Node(s)
        e == skipelem(th[p].path)
        i == dirlookup(s, e.name)
        last == e.rest = << >>
    IN
    /\ At(p, "namex")
    /\ ~(Parent(p) /\ last)
    /\ CanLock(p, s)
    /\ IF nd.type # "dir" \/ i = Nil
       THEN /\ ic' = Load(s, nd)
            /\ Put(p, <<s>>, th[p].ip, Failed(p))
       ELSE /\ CanGet(i)
            /\ ic' = iget(Load(s, nd), i)
            /\ th' = [th EXCEPT ![p] = [@ EXCEPT !.pc = "iput", !.puts = <<s>>, !.path = e.rest,
                         !.ret = IF last THEN th[p].op ELSE "namex",
                         !.ip = IF last THEN i ELSE @, !.cur = IF last THEN Nil ELSE i]]
    /\ UNCHANGED <<disk, ilk, ofile, cwd>>

(***************************************************************************)
(* create(), for sys_open with O_CREATE, sys_mkdir and sys_mknod           *)
(***************************************************************************)
(* The name exists: sys_mkdir and sys_mknod fail, sys_open goes on with it.*)
(* Otherwise the directory stays locked while an inode is allocated.       *)
create(p) ==
    LET s == th[p].dp
        i == dirlookup(s, skipelem(th[p].path).name)
    IN
    /\ th[p].pc \in {"create", "mkdir", "mknod"}
    /\ CanLock(p, s)
    /\ IF i # Nil
       THEN /\ CanGet(i)
            /\ ic' = iget(Load(s, Node(s)), i)
            /\ Put(p, <<s>>, i, IF th[p].op = "create" THEN "open" ELSE "mkdir_end")
            /\ UNCHANGED ilk
       ELSE /\ ic' = Load(s, Node(s))
            /\ ilk' = [ilk EXCEPT ![s] = p]
            /\ th' = [th EXCEPT ![p].pc = "ialloc"]
    /\ UNCHANGED <<disk, ofile, cwd>>

(* sys_mkdir and sys_mknod put the inode, found or new (and then locked).  *)
sys_mkdir(p) ==
    LET s == th[p].ip IN
    /\ At(p, "mkdir_end")
    /\ CanLock(p, s)
    /\ ic' = Load(s, Node(s))
    /\ ilk' = [ilk EXCEPT ![s] = None]
    /\ Put(p, <<s>>, Nil, "user")
    /\ UNCHANGED <<disk, ofile, cwd>>

FreeInums == {i \in Inum : di[i].type = "none"}

TypeFor(op) == [create |-> "file", mkdir |-> "dir", mknod |-> "dev"][op]

(* "ialloc: no inodes" stops the machine when there is none.               *)
ialloc(p) ==
    LET i == Min(FreeInums) IN
    /\ At(p, "ialloc")
    /\ FreeInums # {} /\ CanGet(i)
    /\ di' = [di EXCEPT ![i] = [FreeInode EXCEPT !.type = TypeFor(th[p].op)]]
    /\ ic' = iget(ic, i)
    /\ th' = [th EXCEPT ![p].pc = "create_link", ![p].ip = i]
    /\ UNCHANGED <<ents, bitmap, hist, ilk, ofile, cwd>>

(* Mutant: b <= sb.size.                                                   *)
FreeBlocks_past == 1..(NBLOCK + 1) \ bitmap

(* "balloc: out of blocks" stops the machine when there is none.           *)
FreeBlocks == DataBlock \ bitmap

(* The inode after bmap() gave it its block.                               *)
Mapped(nd) == IF nd.addrs # Nil THEN nd ELSE [nd EXCEPT !.addrs = Min(FreeBlocks)]

(* The new inode gets its link, a directory its "." and ".." and its parent*)
(* a link, and the entry is written; the parent is put and the inode stays *)
(* locked.                                                                 *)
create_link(p) ==
    LET s == th[p].ip
        d == th[p].dp
        isdir == th[p].op = "mkdir"
        new == [Node(s) EXCEPT !.nlink = 1]
        nd == IF isdir THEN Mapped(new) ELSE new
        pd == [ic[d].node EXCEPT !.nlink = IF isdir THEN @ + 1 ELSE @]
    IN
    /\ At(p, "create_link")
    /\ CanLock(p, s)
    /\ isdir => FreeBlocks # {}
    /\ di' = iupdate(iupdate(di, s, nd), d, pd)
    /\ ents' = dirlink(d, skipelem(th[p].path).name, s)
    /\ bitmap' = bitmap \cup ({nd.addrs} \ {Nil})
    /\ ic' = [Load(s, nd) EXCEPT ![d].node = pd]
    /\ ilk' = [ilk EXCEPT ![d] = None, ![s] = p]
    /\ Put(p, <<d>>, s, IF th[p].op = "create" THEN "open" ELSE "mkdir_end")
    /\ UNCHANGED <<hist, ofile, cwd>>

(***************************************************************************)
(* The rest of sys_open, and reads, writes and closes of the open file     *)
(***************************************************************************)
(* A directory opens read-only, and not through create(); filealloc() and  *)
(* fdalloc() may fail at any time (ok is FALSE).                           *)
sys_open(p, trunc, ok) ==
    LET s == th[p].ip
        nd == Node(s)
        bad == \/ nd.type = "dir" /\ (trunc \/ th[p].op = "create")
               \/ ~ok
    IN
    /\ At(p, "open")
    /\ CanLock(p, s)
    /\ ofile[p] # Nil => ~ok
    /\ ilk' = [ilk EXCEPT ![s] = None]
    /\ IF bad
       THEN /\ ic' = Load(s, nd)
            /\ Put(p, <<s>>, Nil, "user")
            /\ UNCHANGED <<disk, ofile>>
       ELSE /\ IF trunc /\ nd.type = "file"
               THEN /\ itrunc(s, nd)
                    /\ ic' = Load(s, [nd EXCEPT !.addrs = Nil])
               ELSE ic' = Load(s, nd) /\ UNCHANGED disk
            /\ ofile' = [ofile EXCEPT ![p] = s]
            /\ th' = [th EXCEPT ![p] = Idle]
    /\ UNCHANGED cwd

(* A write to inode s, locked, that gives it a block if it has none.       *)
writei(s) ==
    LET nd == Mapped(Node(s)) IN
    /\ Node(s).addrs = Nil => FreeBlocks # {}
    /\ ic' = Load(s, nd)
    /\ di' = iupdate(di, s, nd)
    /\ bitmap' = bitmap \cup {nd.addrs}

(* A device's write routine leaves the inode alone.                        *)
filewrite(p) ==
    LET s == ofile[p] IN
    /\ At(p, "user") /\ s # Nil /\ "write" \in Calls
    /\ Node(s).type = "file"
    /\ CanLock(p, s)
    /\ writei(s)
    /\ UNCHANGED <<ents, hist, ilk, th, ofile, cwd>>

fileclose(p) ==
    /\ At(p, "user") /\ ofile[p] # Nil
    /\ Put(p, <<ofile[p]>>, Nil, "user")
    /\ ofile' = [ofile EXCEPT ![p] = Nil]
    /\ UNCHANGED <<disk, ic, ilk, cwd>>

(***************************************************************************)
(* sys_link                                                                *)
(***************************************************************************)
(* The inode's link count is raised first, then the new name is resolved.  *)
sys_link(p) ==
    LET s == th[p].ip
        nd == [Node(s) EXCEPT !.nlink = @ + 1]
    IN
    /\ At(p, "link")
    /\ CanLock(p, s)
    /\ IF nd.type = "dir"
       THEN /\ ic' = Load(s, Node(s))
            /\ Put(p, <<s>>, Nil, "user")
            /\ UNCHANGED di
       ELSE /\ nd.nlink <= MAXLINK
            /\ CanWalk(th[p].rel)
            /\ di' = iupdate(di, s, nd)
            /\ ic' = Walk(p, Load(s, nd), th[p].rel)
            /\ th' = [th EXCEPT ![p].pc = "namex", ![p].op = "link2", ![p].path2 = << >>,
                                ![p].path = th[p].path2, ![p].cur = From(p, th[p].rel)]
    /\ UNCHANGED <<ents, bitmap, hist, ilk, ofile, cwd>>

(* dirlink(): fails when the name exists.                                  *)
link_entry(p) ==
    LET s == th[p].ip
        d == th[p].dp
        i == dirlookup(d, skipelem(th[p].path).name)
    IN
    /\ At(p, "link2")
    /\ CanLock(p, d)
    /\ ic' = Load(d, Node(d))
    /\ IF i # Nil
       THEN /\ CanGet(i)
            /\ Put(p, <<d>>, s, "link_bad")
            /\ UNCHANGED ents
       ELSE /\ ents' = dirlink(d, skipelem(th[p].path).name, s)
            /\ Put(p, <<d, s>>, Nil, "user")
    /\ UNCHANGED <<di, bitmap, hist, ilk, ofile, cwd>>

(* Mutant: the link count stays.                                           *)
link_bad_keep(p) ==
    /\ At(p, "link_bad")
    /\ Put(p, <<th[p].ip>>, Nil, "user")
    /\ UNCHANGED <<disk, ic, ilk, ofile, cwd>>

(* bad: the link count is lowered again.                                   *)
link_bad(p) ==
    LET s == th[p].ip
        nd == [Node(s) EXCEPT !.nlink = @ - 1]
    IN
    /\ At(p, "link_bad")
    /\ CanLock(p, s)
    /\ di' = iupdate(di, s, nd)
    /\ ic' = Load(s, nd)
    /\ Put(p, <<s>>, Nil, "user")
    /\ UNCHANGED <<ents, bitmap, hist, ilk, ofile, cwd>>

(***************************************************************************)
(* sys_unlink and sys_chdir                                                *)
(***************************************************************************)
(* Mutant: the name is not there, and the directory stays locked.          *)
sys_unlink_held(p) ==
    LET d == th[p].dp
        i == dirlookup(d, skipelem(th[p].path).name)
    IN
    /\ At(p, "unlink")
    /\ CanLock(p, d)
    /\ ilk' = [ilk EXCEPT ![d] = p]
    /\ IF i = Nil
       THEN /\ ic' = Load(d, Node(d))
            /\ Put(p, <<d>>, Nil, "user")
       ELSE /\ CanGet(i)
            /\ ic' = iget(Load(d, Node(d)), i)
            /\ th' = [th EXCEPT ![p].pc = "unlink_entry", ![p].ip = i]
    /\ UNCHANGED <<disk, ofile, cwd>>

(* The directory stays locked while the inode is locked.                   *)
sys_unlink(p) ==
    LET d == th[p].dp
        i == dirlookup(d, skipelem(th[p].path).name)
    IN
    /\ At(p, "unlink")
    /\ CanLock(p, d)
    /\ IF i = Nil
       THEN /\ ic' = Load(d, Node(d))
            /\ Put(p, <<d>>, Nil, "user")
            /\ UNCHANGED ilk
       ELSE /\ CanGet(i)
            /\ ic' = iget(Load(d, Node(d)), i)
            /\ ilk' = [ilk EXCEPT ![d] = p]
            /\ th' = [th EXCEPT ![p].pc = "unlink_entry", ![p].ip = i]
    /\ UNCHANGED <<disk, ofile, cwd>>

isdirempty(i) == ents[i] = NoEnts

(* A directory that is not empty stays (it has a link, so that its iput()  *)
(* only drops the reference).  Otherwise the entry is erased and *)
(* the directory put, the inode still locked.                              *)
unlink_entry(p) ==
    LET s == th[p].ip
        d == th[p].dp
        nd == Node(s)
        pd == [ic[d].node EXCEPT !.nlink = IF nd.type = "dir" THEN @ - 1 ELSE @]
    IN
    /\ At(p, "unlink_entry")
    /\ CanLock(p, s)
    /\ IF nd.type = "dir" /\ ~isdirempty(s)
       THEN /\ ic' = Drop(Load(s, nd), s)
            /\ ilk' = [ilk EXCEPT ![d] = None]
            /\ Put(p, <<d>>, Nil, "user")
            /\ UNCHANGED <<di, ents>>
       ELSE /\ ents' = [ents EXCEPT ![d][skipelem(th[p].path).name] = Nil]
            /\ di' = iupdate(di, d, pd)
            /\ ic' = [Load(s, nd) EXCEPT ![d].node = pd]
            /\ ilk' = [ilk EXCEPT ![d] = None, ![s] = p]
            /\ Put(p, <<d>>, s, "unlink_end")
    /\ UNCHANGED <<bitmap, hist, ofile, cwd>>

(* ip->nlink--; iupdate(ip); iunlockput(ip)                                *)
unlink_end(p) ==
    LET s == th[p].ip
        nd == [ic[s].node EXCEPT !.nlink = @ - 1]
    IN
    /\ At(p, "unlink_end")
    /\ di' = iupdate(di, s, nd)
    /\ ic' = Load(s, nd)
    /\ ilk' = [ilk EXCEPT ![s] = None]
    /\ Put(p, <<s>>, Nil, "user")
    /\ UNCHANGED <<ents, bitmap, hist, ofile, cwd>>

(* Only p reads p->cwd, so it is set when the old one is put.              *)
sys_chdir(p) ==
    LET s == th[p].ip IN
    /\ At(p, "chdir")
    /\ CanLock(p, s)
    /\ ic' = Load(s, Node(s))
    /\ IF Node(s).type = "dir"
       THEN /\ Put(p, <<cwd[p]>>, Nil, "user")
            /\ cwd' = [cwd EXCEPT ![p] = s]
       ELSE /\ Put(p, <<s>>, Nil, "user")
            /\ UNCHANGED cwd
    /\ UNCHANGED <<disk, ilk, ofile>>

step(p) ==
    /\ \/ namex_parent(p) \/ namex(p)
       \/ iput(p) \/ iput_trunc(p) \/ iput_free(p) \/ iput_drop(p)
       \/ create(p) \/ ialloc(p) \/ create_link(p) \/ sys_mkdir(p)
       \/ \E trunc, ok \in BOOLEAN : sys_open(p, trunc, ok)
       \/ filewrite(p) \/ fileclose(p)
       \/ sys_link(p) \/ link_entry(p) \/ link_bad(p)
       \/ sys_unlink(p) \/ unlink_entry(p) \/ unlink_end(p)
       \/ sys_chdir(p)
    /\ UNCHANGED ncall

Next ==
    \E p \in Proc :
       \/ \E op \in Calls, pa, pb \in Paths, rel \in BOOLEAN : call(p, op, pa, pb, rel)
       \/ step(p)

Spec == Init /\ [][Next]_vars

(***************************************************************************)
(* Properties                                                              *)
(***************************************************************************)
Inodes == [type : {"none", "file", "dir", "dev"}, nlink : Nat, addrs : DataBlock \cup {Nil}]

(* The variables have the types of the declarations; in particular no link *)
(* count and no reference count goes below zero.                           *)
TypeOK ==
    /\ di \in [Inum -> Inodes]
    /\ ents \in [Inum -> [Name -> Inum \cup {Nil}]]
    /\ bitmap \subseteq DataBlock
    /\ lost \in [Inum -> Nat] /\ leaked \subseteq Inum
    /\ ic \in [Inum -> [ref : Nat, valid : BOOLEAN, node : Inodes]]
    /\ ilk \in [Inum -> Proc \cup {None}]
    /\ ofile \in [Proc -> Inum \cup {Nil}]
    /\ cwd \in [Proc -> Inum]

(* The pointers p holds.                                                   *)
Pointers(p) == <<cwd[p], ofile[p], th[p].cur, th[p].ip, th[p].dp>> \o th[p].puts

(* The entries p may use again: all but the one it is putting.             *)
InUse(p) == {Pointers(p)[k] : k \in DOMAIN Pointers(p) \ {6}} \ {Nil}


(* "the information (type, size, &c) in an inode cache entry is only       *)
(* correct when ip->valid is 1" (fs.c:137): an entry that is valid and not *)
(* locked agrees with the disk.  Each change is followed by an iupdate()   *)
(* before the unlock, and the entry of a freed inode is read again by its  *)
(* next user.                                                              *)
CacheCurrent ==
    \A s \in Inum :
       ic[s].ref > 0 /\ ic[s].valid /\ ilk[s] = None => ic[s].node = di[s]

(* The entries of all directories that name i ...                          *)
Named(i) == Cardinality({<<d, nm>> \in Inum \X Name : ents[d][nm] = i})

(* ... and the subdirectories of i, whose ".." name it.                    *)
Subdirs(i) == Cardinality({nm \in Name : ents[i][nm] # Nil /\ di[ents[i][nm]].type = "dir"})

(* p is between the two halves of a link or unlink of i.                   *)
Between(p, i) ==
    /\ th[p].ip # Nil /\ th[p].ip = i
    /\ th[p].op = "link2" \/ (th[p].op = "unlink" /\ th[p].pc # "unlink_entry")

(* The disk's counts are exact.  The link count of an inode is the number  *)
(* of its names, give or take the calls that are in the middle of changing *)
(* it, so that no entry names a free inode - unless a directory took the   *)
(* name along: create() and dirlink() do not notice that their directory   *)
(* was removed before they locked it (lost counts those names).  An inode  *)
(* without links is free once nobody refers to it - unless it was allocated*)
(* and unlinked again while an iput() that had freed it before still had   *)
(* its reference (leaked).  A data block is marked in the bitmap exactly if*)
(* one inode has it.                                                       *)
CountsOnDisk ==
    /\ \A i \in Inum \ {ROOTINO} :
          di[i].nlink = Named(i) + Subdirs(i) + lost[i] + Cardinality({p \in Proc : Between(p, i)})
    /\ \A i \in Inum : di[i].nlink = 0 /\ ic[i].ref = 0 => di[i].type = "none" \/ i \in leaked
    /\ bitmap = {di[i].addrs : i \in Inum} \ {Nil}
    /\ \A i, j \in Inum : i # j /\ di[i].addrs # Nil => di[i].addrs # di[j].addrs

(* The inode p needs the lock of for its next step.                        *)
Wants(p) ==
    CASE At(p, "namex") -> th[p].cur
      [] th[p].pc \in {"create", "mkdir", "mknod", "link2", "unlink"} -> th[p].dp
      [] th[p].pc \in {"create_link", "mkdir_end", "open", "link", "link_bad",
                       "unlink_entry", "chdir"} -> th[p].ip
      [] OTHER -> Nil

WaitsFor(p, q) == p # q /\ Wants(p) # Nil /\ ilk[Wants(p)] = q

(* Inode locks do not deadlock: calls that lock a directory and then an    *)
(* inode in it (create, sys_unlink) never wait for each other, no call     *)
(* returns with a lock, and "ip->ref == 1 means no other process can have  *)
(* ip locked, so this acquiresleep() won't block (or deadlock)" (fs.c:340),*)
(* where iput() would sleep with icache.lock held.                         *)
LocksFree ==
    /\ \A p, q \in Proc : ~(WaitsFor(p, q) /\ WaitsFor(q, p))
    /\ \A i \in Inum : ilk[i] # None => ~At(ilk[i], "user")
    /\ \A p \in Proc : LET i == Head(th[p].puts) IN
          At(p, "iput") /\ LastUnlinked(i) => ilk[i] = None
==============================================================================
