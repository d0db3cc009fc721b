------------------------------ MODULE FileData ------------------------------
(***************************************************************************)
(* The data of one file: pfs_file_read, pfs_file_write, pfs_file_truncate   *)
(* and pfs_file_allocate of pfs_file.cc over the in-memory inode of         *)
(* pfs_inode.cc, by threads of one mount.  A file block has BS units; its   *)
(* block hole is the unwritten part from hoff to the end of the block.      *)
(*                                                                         *)
(* The inode lock is held from a call's pfs_inode_sync to its next I/O or   *)
(* its transaction, and the metadata write lock from there to the end of    *)
(* the transaction.  What runs under one uninterrupted hold of the inode    *)
(* lock is one step.                                                        *)
(*                                                                         *)
(* A unit of the device is "g" (left by an earlier owner of the block, also *)
(* what any unit of a block that is not the file's counts as), "t"          *)
(* (cut off by a truncate), "z" (zeroed by the file layer) or "w" (written  *)
(* by a caller).                                                            *)
(***************************************************************************)
EXTENDS Integers, FiniteSets, FiniteSetsExt, TLC

CONSTANTS
    Threads,     \* threads that call into the file layer
    NBlk,        \* bound: file blocks 0..NBlk-1
    BS,          \* units in a block
    Devs,        \* device blocks, positive numbers (0 is "not mapped")
    NoThread,    \* no owner
    FFaults,     \* subset of {"io", "tx", "crash"}
    MaxLen       \* bound: units of one write

VARIABLES
    fphy,        \* [size, map]: the inode and its block tags in the metadata
    fin,         \* the in-memory inode
    fdat,        \* [Devs -> [0..BS-1 -> unit]]: the device
    fmeta,       \* the thread in a write transaction, NoThread if none
    fthr,        \* [Threads -> a call in progress]
    facked       \* history: the units a completed write left in the file

fvars == <<fphy, fin, fdat, fmeta, fthr, facked>>

Blkids == 0..(NBlk - 1)
Unmapped == [d |-> 0, hoff |-> 0]
NoWm == [th |-> NoThread, blks |-> {}, inc |-> 0]
FIdle == [pc |-> "idle", next |-> "idle", off |-> 0, len |-> 0, done |-> 0, fsize |-> 0,
          d |-> 0, tx |-> <<>>, err |-> FALSE, cut |-> FALSE, bad |-> FALSE]
Capacity == NBlk * BS                    \* bound: no call reaches beyond it

\* an inode just loaded from the metadata
pfs_inode_load(p) ==
    [size |-> p.size, size2 |-> p.size, map |-> p.map, nip |-> 0, nmod |-> 0,
     stale |-> FALSE, wm |-> NoWm]

\* pfs_inode_sync lets thread t pass; a stale inode is reloaded under it
Synced(t) ==
    /\ fin.nip = 0 /\ fin.nmod = 0 /\ fin.size = fin.size2
    /\ fin.wm.th \in {NoThread, t}
    /\ fin.stale => fmeta = NoThread          \* the reload takes the metadata lock
Inode == IF fin.stale THEN pfs_inode_load(fphy) ELSE fin

fblkid(off) == off \div BS
fblkoff(off) == off % BS
\* the call of t goes on as r; a truncate (len = -1) is told to the calls under way
Go(t, r) ==
    fthr' = [x \in Threads |->
                IF x = t THEN r
                ELSE [fthr[x] EXCEPT !.cut = @ \/ (r.len = -1 /\ fthr[x].pc # "idle")]]
Mapped(m) == {m[k].d : k \in DOMAIN m} \ {0}

(***************************************************************************)
(* Transactions: the body holds both locks, then only the metadata lock.    *)
(***************************************************************************)
\* the body of a transaction that leaves the inode i and the metadata p
Body(t, i, p, r) ==
    /\ fmeta = NoThread
    /\ fin' = i
    /\ fmeta' = t
    /\ Go(t, [r EXCEPT !.tx = p, !.next = r.pc, !.pc = "tx"])

\* a transaction without operations ends at once
NoTx(t, i, r) ==
    /\ fin' = i
    /\ Go(t, r)
    /\ UNCHANGED fmeta

\* the blocks of [off, off + len) that are missing from the map m
Missing(m, off, len) == {k \in fblkid(off)..fblkid(off + len - 1) : m[k].d = 0}

pfs_inode_add(m, ks, ds, hoff) ==
    [k \in Blkids |-> IF k \in ks THEN [d |-> ds[k], hoff |-> hoff] ELSE m[k]]

\* pfs_file_allocate with the mode "keep" (FALLOC_FL_KEEP_SIZE), "grow" or "stale"
\* (FALLOC_FL_NO_HIDE_STALE: the caller takes the block as it is, and answers for
\* its contents); r is the call afterwards
pfs_file_allocate(t, off, len, mode, r) ==
    LET i == Inode
        ks == Missing(i.map, off, len)
        free == Devs \ Mapped(fphy.map)
        size == IF mode = "keep" THEN i.size ELSE Max({i.size, off + len})
        hoff == IF mode = "stale" THEN BS ELSE 0
    IN  \/ /\ ks = {} /\ size = i.size
           /\ NoTx(t, i, r)
           /\ UNCHANGED fdat
        \/ /\ Cardinality(free) < Cardinality(ks)                   \* ENOSPC
           /\ Body(t, i, fphy, [r EXCEPT !.err = TRUE])
           /\ UNCHANGED fdat
        \/ /\ ks # {} \/ size # i.size
           /\ \E ds \in [ks -> free] :
                /\ \A a, b \in ks : a # b => ds[a] # ds[b]
                /\ LET m == pfs_inode_add(i.map, ks, ds, hoff)
                   IN  Body(t, [i EXCEPT !.map = m, !.nip = Cardinality(ks), !.size2 = size,
                                         !.nmod = IF hoff = BS THEN Cardinality(ks) ELSE 0],
                            [size |-> size, map |-> m], r)
                /\ fdat' = [d \in Devs |-> IF hoff = BS /\ \E k \in ks : ds[k] = d
                                          THEN [u \in 0..(BS - 1) |-> "w"] ELSE fdat[d]]

\* the hole of the last block that stays slides left over what is cut off
Kept_NoHole(bk, k, len, fsize) == bk
Kept(bk, k, len, fsize) ==
    IF /\ len > 0 /\ k = fblkid(len - 1) /\ len < fsize /\ bk.d # 0
       /\ fblkoff(len) > 0 /\ fblkoff(len) < bk.hoff
    THEN [bk EXCEPT !.hoff = fblkoff(len)] ELSE bk

pfs_file_truncate(t, len, r) ==
    LET i == Inode
        gone == {k \in Blkids : i.map[k].d # 0 /\ k * BS >= len}
        m == [k \in Blkids |-> IF k \in gone THEN Unmapped ELSE Kept(i.map[k], k, len, i.size)]
        holes == Cardinality({k \in Blkids \ gone : m[k] # i.map[k]})
    IN  IF gone = {} /\ len = i.size THEN NoTx(t, i, FIdle)
        ELSE Body(t, [i EXCEPT !.map = m, !.nip = Cardinality(gone), !.nmod = holes,
                               !.size2 = len],
                  [size |-> len, map |-> m], r)

\* what a committed truncate to len does to the contents of the device
Cut(len) ==
    [d \in Devs |-> [u \in 0..(BS - 1) |->
        IF d \notin Mapped(fphy.map) THEN fdat[d][u]
        ELSE LET k == CHOOSE b \in Blkids : fphy.map[b].d = d
             IN  IF k * BS >= len THEN "g"
                 ELSE IF k * BS + u >= len /\ len < fphy.size THEN "t" ELSE fdat[d][u]]]

\* a transaction ends: it is in the log, or undone and the inode is stale
pfs_tx_end(t) ==
    LET r == fthr[t]
        cuts == r.len = -1
    IN  /\ r.pc = "tx"
        /\ fmeta' = NoThread
        /\ UNCHANGED facked
        /\ \/ /\ ~r.err
              /\ fphy' = r.tx
              /\ fdat' = IF cuts THEN Cut(r.tx.size) ELSE fdat
              /\ Go(t, [r EXCEPT !.pc = "callback", !.tx = <<>>])
              /\ UNCHANGED fin
           \/ /\ r.err \/ "tx" \in FFaults
              /\ fin' = [fin EXCEPT !.stale = TRUE]
              /\ Go(t, [r EXCEPT !.pc = "callback", !.tx = <<>>, !.err = TRUE])
              /\ UNCHANGED <<fphy, fdat>>

\* the units of the call r, when it wrote them and no truncate came in between
Written(r) == IF r.err \/ r.cut \/ r.len <= 0 THEN {} ELSE r.off..(r.off + r.len - 1)

\* the callbacks of the transaction lift the barriers of pfs_inode_sync
Callbacks_KeepModify(t) == [fin EXCEPT !.nip = 0, !.size = fin.size2]
Callbacks(t) == [fin EXCEPT !.nip = 0, !.nmod = 0, !.size = fin.size2]
pfs_tx_do_callback(t) ==
    LET r == fthr[t]
        back == r.err \/ r.next = "idle"
    IN  /\ r.pc = "callback"
        /\ fin' = Callbacks(t)
        /\ Go(t, IF back THEN FIdle ELSE [r EXCEPT !.pc = r.next, !.next = "idle"])
        /\ facked' = IF back THEN facked \union Written(r) ELSE facked
        /\ UNCHANGED <<fphy, fdat, fmeta>>

(***************************************************************************)
(* The calls.                                                              *)
(***************************************************************************)
\* pfs_pwrite: the blocks first, then the data
pfs_pwrite(t) ==
    /\ fthr[t].pc = "idle" /\ Synced(t)
    /\ \E off \in 0..(Capacity - 1), len \in 1..MaxLen :
          /\ off + len <= Capacity
          /\ pfs_file_allocate(t, off, len, "keep",
                               [FIdle EXCEPT !.pc = "write", !.off = off, !.len = len])
    /\ UNCHANGED <<fphy, facked>>

pfs_fallocate(t) ==
    /\ fthr[t].pc = "idle" /\ Synced(t)
    /\ \E off \in 0..(Capacity - 1), mode \in {"keep", "grow", "stale"} :
          pfs_file_allocate(t, off, 1, mode, FIdle)
    /\ UNCHANGED <<fphy, facked>>

\* pfs_ftruncate; len = -1 in the call's record tells a truncate from a write
pfs_ftruncate(t) ==
    /\ fthr[t].pc = "idle" /\ Synced(t)
    /\ \E len \in 0..Capacity :
          /\ pfs_file_truncate(t, len, [FIdle EXCEPT !.len = -1])
          /\ facked' = facked \cap 0..(len - 1)
    /\ UNCHANGED <<fphy, fdat>>

\* units [from, to) of block d get the value v
Put(dat, d, from, to, v) ==
    [dat EXCEPT ![d] = [u \in 0..(BS - 1) |-> IF from <= u /\ u < to THEN v ELSE @[u]]]

Wm(i, t, blks, inc) == [th |-> t, blks |-> i.wm.blks \union blks, inc |-> Max({inc, i.wm.inc})]

\* the write reaches past the offset where the block's hole begins
EntersHole_Always(bk, blkoff, wlen) == bk.hoff < BS
EntersHole(bk, blkoff, wlen) == bk.hoff < BS /\ blkoff + wlen > bk.hoff

\* the whole hole is filled, with the data and with zeros around it
FillHole(d, hoff, blkoff, wlen) ==
    Put(Put(Put(fdat, d, hoff, blkoff, "z"), d, blkoff, blkoff + wlen, "w"),
        d, blkoff + wlen, BS, "z")

\* One block of pfs_file_write, from pfs_inode_sync to the release of the inode lock.
\* An inode that was reloaded in the middle of a call ends it with EAGAIN.
pfs_file_write(t) ==
    LET r == fthr[t]
        first == r.pc = "write"
        i == Inode
        fsize == IF first THEN i.size ELSE r.fsize
        off == r.off + r.done
        bk == IF off < Capacity THEN i.map[fblkid(off)] ELSE Unmapped
        wlen == Min({BS - fblkoff(off), r.len - r.done})
        ends == r.done = r.len \/ (~first /\ fin.stale) \/ bk.d = 0
        inc == Max({0, off + wlen - fsize})
        wm == IF inc > 0 THEN Wm(i, t, {}, inc) ELSE i.wm
    IN  /\ r.pc \in {"write", "wnext"} /\ Synced(t)
        /\ UNCHANGED <<fphy, fmeta, facked>>
        /\ \/ /\ ends
              /\ fin' = i
              /\ Go(t, [r EXCEPT !.pc = "wcommit", !.err = r.done # r.len \/ fin.stale])
              /\ UNCHANGED fdat
           \/ /\ ~ends /\ EntersHole(bk, fblkoff(off), wlen)
              /\ \/ /\ fdat' = FillHole(bk.d, bk.hoff, fblkoff(off), wlen)
                    /\ fin' = [i EXCEPT !.map[fblkid(off)].hoff = BS,
                                       !.wm = Wm(i, t, {fblkid(off)}, inc)]
                    /\ Go(t, [r EXCEPT !.pc = "wnext", !.done = @ + wlen, !.fsize = fsize])
                 \/ /\ "io" \in FFaults
                    /\ fin' = [i EXCEPT !.map[fblkid(off)].hoff = BS,
                                       !.wm = Wm(i, t, {fblkid(off)}, 0)]
                    /\ Go(t, [r EXCEPT !.pc = "wcommit", !.err = TRUE])
                    /\ UNCHANGED fdat
           \/ /\ ~ends /\ ~EntersHole(bk, fblkoff(off), wlen)
              /\ fin' = [i EXCEPT !.wm = wm]
              /\ Go(t, [r EXCEPT !.pc = "wio", !.d = bk.d, !.fsize = fsize])
              /\ UNCHANGED fdat

\* pfs_blkio_write of the plain path, without the inode lock
WriteIO(t) ==
    LET r == fthr[t]
        off == r.off + r.done
        wlen == Min({BS - fblkoff(off), r.len - r.done})
    IN  /\ r.pc = "wio"
        /\ \/ /\ fdat' = IF r.d \in Mapped(fphy.map)
                          THEN Put(fdat, r.d, fblkoff(off), fblkoff(off) + wlen, "w") ELSE fdat
              /\ Go(t, [r EXCEPT !.pc = "wnext", !.d = 0, !.done = @ + wlen])
           \/ /\ "io" \in FFaults
              /\ Go(t, [r EXCEPT !.pc = "wcommit", !.d = 0, !.err = TRUE])
              /\ UNCHANGED fdat
        /\ UNCHANGED <<fphy, fin, fmeta, facked>>

\* pfs_inode_writemodify_commit in a transaction of its own; after an error the
\* transaction is begun all the same, and its rollback makes the inode stale
Commit(t, i) ==
    [size |-> fphy.size + i.wm.inc,
     map |-> [k \in Blkids |-> IF k \in i.wm.blks THEN [fphy.map[k] EXCEPT !.hoff = BS]
                               ELSE fphy.map[k]]]
pfs_inode_writemodify_commit(t) ==
    LET r == fthr[t]
    IN  /\ r.pc = "wcommit"
        /\ \/ /\ fin.wm.th = t
              /\ Body(t, [fin EXCEPT !.wm = NoWm, !.size2 = fin.size + fin.wm.inc,
                                     !.nmod = Cardinality(fin.wm.blks)],
                      Commit(t, fin), [r EXCEPT !.pc = "idle"])
              /\ UNCHANGED facked
           \/ /\ fin.wm.th # t
              /\ NoTx(t, fin, FIdle)
              /\ facked' = facked \union Written(r)
        /\ UNCHANGED <<fphy, fdat>>

\* pfs_file_read of units of one block: the mapping, then the I/O without the lock
pfs_file_read(t) ==
    LET i == Inode
    IN  /\ fthr[t].pc = "idle" /\ Synced(t)
        /\ \E off \in 0..(Min({i.size, Capacity}) - 1) :
              LET bk == i.map[fblkid(off)]
              IN  /\ fin' = i
                  /\ Go(t, IF bk.hoff <= fblkoff(off) THEN FIdle              \* zeros
                           ELSE [FIdle EXCEPT !.pc = "rio", !.off = off, !.d = bk.d])
        /\ UNCHANGED <<fphy, fdat, fmeta, facked>>

ReadIO(t) ==
    LET r == fthr[t]
    IN  /\ r.pc = "rio"
        /\ Go(t, [FIdle EXCEPT !.bad = ~r.cut /\ fdat[r.d][fblkoff(r.off)] \in {"g", "t"}])
        /\ UNCHANGED <<fphy, fin, fdat, fmeta, facked>>

\* the process dies and the file system is mounted again
FCrash ==
    /\ "crash" \in FFaults
    /\ fin' = pfs_inode_load(fphy)
    /\ fmeta' = NoThread
    /\ fthr' = [t \in Threads |-> FIdle]
    /\ UNCHANGED <<fphy, fdat, facked>>

FInit ==
    /\ fphy = [size |-> 0, map |-> [k \in Blkids |-> Unmapped]]
    /\ fin = pfs_inode_load(fphy)
    /\ fdat = [d \in Devs |-> [u \in 0..(BS - 1) |-> "g"]]
    /\ fmeta = NoThread
    /\ fthr = [t \in Threads |-> FIdle]
    /\ facked = {}

FNext ==
    \/ \E t \in Threads :
          \/ pfs_pwrite(t) \/ pfs_fallocate(t) \/ pfs_ftruncate(t) \/ pfs_file_read(t)
          \/ pfs_tx_end(t) \/ pfs_tx_do_callback(t)
          \/ pfs_file_write(t) \/ WriteIO(t) \/ pfs_inode_writemodify_commit(t) \/ ReadIO(t)
    \/ FCrash

FSpec == FInit /\ [][FNext]_fvars

(***************************************************************************)
(* Properties.                                                             *)
(***************************************************************************)
\* "data read from holes are expected zeroed" (pfs_file.cc): neither the metadata,
\* which is what a mount after a crash reads, nor the in-memory inode of a thread
\* that passes pfs_inode_sync puts a unit outside the hole that holds what an
\* earlier owner left in the block or what a truncate cut off.
Exposed(m) == {fdat[m[k].d][u] : <<k, u>> \in
                   {x \in Blkids \X (0..(BS - 1)) : m[x[1]].d # 0 /\ x[2] < m[x[1]].hoff}}
HolesHideStale ==
    /\ Exposed(fphy.map) \cap {"g", "t"} = {}
    /\ (\E t \in Threads : Synced(t) /\ fin.wm.th # t) => Exposed(Inode.map) \cap {"g", "t"} = {}
    /\ \A t \in Threads : ~fthr[t].bad

\* What a completed write put into the file stays there, through concurrent writes
\* that fill holes of the same block, failed transactions and crashes, until a
\* truncate cuts it off.
AckedWritesStay ==
    \A x \in facked :
        LET bk == fphy.map[fblkid(x)]
        IN  x < fphy.size /\ bk.d # 0 /\ fblkoff(x) < bk.hoff /\ fdat[bk.d][fblkoff(x)] = "w"

\* The barriers of pfs_inode_sync (blocks in progress, holes being modified, a size
\* being changed, a writemodify) do not outlive the calls that raised them, and then
\* the inode in memory is what the metadata says.
BarriersLifted ==
    (\A t \in Threads : fthr[t].pc \in {"idle", "rio"}) =>
        /\ fmeta = NoThread
        /\ fin.stale \/ fin = pfs_inode_load(fphy)
        /\ fin.nip = 0 /\ fin.nmod = 0 /\ fin.size = fin.size2 /\ fin.wm = NoWm

\* The file is never longer than the furthest byte any call asked for: "We should
\* re-check fsize after we re-lock inode" (pfs_file.cc, on the read path).
SizeAsAsked == fphy.size <= Capacity
=============================================================================
