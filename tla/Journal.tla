------------------------------ MODULE Journal ------------------------------
(***************************************************************************)
(* The metadata journal of pfs_core/pfs_log.cc and pfs_tx.cc: a circular    *)
(* redo log with its anchor in the leader record, the trim groups that      *)
(* checkpoint it, and the mounts that load it and follow it.                *)
(*                                                                          *)
(* A log thread handles one request at a time, so a host is at one place    *)
(* of one handler.  Hosts share the device: the leader record (one atomic   *)
(* sector), the log file and the metadata sectors.  A metadata object       *)
(* stands for its sector, its value for the transaction that wrote it.      *)
(* The RW lease is the module RWLease; here `holder' is who has it.         *)
(***************************************************************************)
EXTENDS Integers, Sequences, FiniteSets, SequencesExt

CONSTANTS NumHosts,
          Objs,        \* metadata objects
          LogSize,     \* log_size, in log entries
          TrimTx,      \* trimgroup_ntx_threshold
          MaxTx,       \* bound on the number of transactions tried
          Writers,     \* hosts that may mount read-write
          Readers,     \* hosts that may mount read-only
          Followers,   \* hosts mounted read-only since mkfs
          Promotion,   \* whether mounts are remounted
          WriteFaults, \* whether a device write may fail
          LostReplies  \* whether a leader write may land and still fail

Hosts == 1..NumHosts

ASSUME JournalAssumption ==
    /\ NumHosts \in Nat \ {0}
    /\ IsFiniteSet(Objs) /\ Objs # {}
    /\ LogSize \in Nat /\ Cardinality(Objs) < LogSize
    /\ TrimTx \in Nat \ {0}
    /\ MaxTx \in Nat
    /\ Writers \subseteq Hosts /\ Readers \subseteq Hosts /\ Followers \subseteq Hosts
    /\ {Promotion, WriteFaults, LostReplies} \subseteq BOOLEAN

VARIABLES leader,  \* the leader record on disk
          logf,    \* the log file
          super,   \* the metadata sectors on disk
          holder,  \* the host with the RW lease, or 0
          mnt,     \* the mounts
          hist,    \* the metadata after each transaction the leader ever covered
          stamp    \* transactions tried so far

vars == <<leader, logf, super, holder, mnt, hist, stamp>>

Vals == 0..MaxTx
Offsets == 0..(LogSize - 1)
Blank == [o \in Objs |-> 0]
Metas == [Objs -> Vals]

\* Mutant: the offset does not wrap around.
Add_NoWrap(off, n) == off + n

\* OFF_MODULAR_ADD
Add(off, n) == (off + n) % LogSize

\* pfs_leader_record_t: transactions (tail, head] are in the log.
Leaders == [tail : Nat, head : Nat, toff : Offsets, hoff : Offsets, lsn : Nat]
Mkfs == [tail |-> 0, head |-> 0, toff |-> 0, hoff |-> 0, lsn |-> 0]

\* pfs_logentry_phy_t
Entries == [txid : Nat, lsn : Nat, obj : Objs, val : Vals, more : BOOLEAN]
NoEntry == [txid |-> 0, lsn |-> 0]

\* pfs_log_usedspace and pfs_log_space.
Used(lr) == (lr.hoff - lr.toff) % LogSize
Space(lr) == LogSize - Used(lr)

\* pfs_trimgroup_t: the dirty sectors of transactions (l, r], each with the
\* last transaction that wrote it, or 0; `snap' is their s_buf.
Groups == [l : Nat, r : Nat, off : Offsets, sects : [Objs -> Nat], snap : Metas]
Group(txid, off) == [l |-> txid, r |-> txid, off |-> off, sects |-> Blank, snap |-> Blank]
Dirty(g) == {o \in Objs : g.sects[o] # 0}

Txs == [ops : Seq(Objs), val : Vals]
NoTx == [ops |-> <<>>, val |-> 0]

PCs == {"none", "chunks", "leader", "lease", "load", "scan", "replay", "serve",
        "sync", "write", "flush", "demoted"}

\* A host that has not mounted the device.
Unmounted == [mode |-> "none", pc |-> "none", lr |-> Mkfs, latest |-> Mkfs,
              meta |-> Blank, work |-> Group(0, 0), wait |-> Group(0, 0),
              todo |-> {}, loading |-> FALSE, buf |-> <<>>, tx |-> NoTx, n |-> 0]

Mounts == [mode : {"none", "ro", "rw"},
           pc : PCs,
           lr : Leaders,         \* log_leader
           latest : Leaders,     \* a leader record just read
           meta : Metas,         \* the metadata in memory
           work : Groups, wait : Groups,
           todo : SUBSET Objs,   \* sectors still to load or to flush
           loading : BOOLEAN,    \* LOGST_NOTLOADED
           buf : Seq(Entries),   \* log entries scanned
           tx : Txs, n : Nat]    \* transaction being written, entries written

TypeOK == /\ leader \in Leaders
          /\ logf \in [Offsets -> Entries \cup {NoEntry}]
          /\ super \in Metas
          /\ holder \in {0} \cup Hosts
          /\ mnt \in [Hosts -> Mounts]
          /\ hist \in Seq(Metas)
          /\ stamp \in Vals

Init == /\ leader = Mkfs
        /\ logf = [i \in Offsets |-> NoEntry]
        /\ super = Blank
        /\ holder = 0
        /\ mnt = [h \in Hosts |-> IF h \in Followers
                                  THEN [Unmounted EXCEPT !.mode = "ro", !.pc = "serve"]
                                  ELSE Unmounted]
        /\ hist = <<>>
        /\ stamp = 0

----------------------------------------------------------------------------
(* Helpers *)

Become(h, m) == mnt' = [mnt EXCEPT ![h] = m]

\* The mount goes away: unmount, crash, exit or a failed assertion.
Leave(h) == /\ Become(h, Unmounted)
            /\ holder' = IF holder = h THEN 0 ELSE holder

ApplyEntry(meta, e) == [meta EXCEPT ![e.obj] = e.val]
ApplyTx(meta, tx) ==
    [o \in Objs |-> IF \E i \in DOMAIN tx.ops : tx.ops[i] = o THEN tx.val ELSE meta[o]]

MetaAt(txid) == IF txid = 0 THEN Blank ELSE hist[txid]

\* pfs_trimgroup_delete
DeleteUpto(g, txid) ==
    IF txid <= g.l THEN g
    ELSE LET gone(o) == g.sects[o] <= txid
         IN  [g EXCEPT !.l = IF txid < g.r THEN txid ELSE g.r,
                       !.sects = [o \in Objs |-> IF gone(o) THEN 0 ELSE @[o]],
                       !.snap = [o \in Objs |-> IF gone(o) THEN 0 ELSE @[o]]]

\* pfs_log_del_trimentry
DelTrimEntry(m, txid) == [m EXCEPT !.wait = DeleteUpto(@, txid),
                                   !.work = DeleteUpto(@, txid)]

\* pfs_log_tryswap_trimgroup: a group of full size, or any when forced, moves
\* to the empty wait group, with its sectors copied from memory.
TrySwap(m, force) ==
    IF \/ m.mode # "rw"
       \/ m.wait.r > m.wait.l
       \/ ~ force /\ m.work.r - m.work.l < TrimTx
    THEN m
    ELSE [m EXCEPT !.work = Group(m.work.r, m.work.off),
                   !.wait = [m.work EXCEPT !.snap =
                              [o \in Objs |-> IF o \in Dirty(m.work) THEN m.meta[o] ELSE 0]]]

\* pfs_trimgroup_insert of one log entry; the group covers the transaction
\* once its last entry is in.
InsertEntry(m, e) ==
    LET m1 == [m EXCEPT !.work.sects[e.obj] = e.txid,
                        !.work.off = Add(@, 1),
                        !.work.r = IF e.more THEN @ ELSE e.txid]
    IN  IF e.more THEN m1 ELSE TrySwap(m1, FALSE)

\* pfs_tx_log: the log entries of a transaction.
EntryOf(lr, tx, i) == [txid |-> lr.head + 1, lsn |-> lr.lsn + i, obj |-> tx.ops[i],
                       val |-> tx.val, more |-> i < Len(tx.ops)]

----------------------------------------------------------------------------
(* pfs_mount *)

\* pfs_log_preload: the anchor first, then (pfs_meta_load_all_chunks) the
\* metadata it is a checkpoint of.
Preload(h, mode) ==
    /\ mnt[h].pc = "none"
    /\ h \in IF mode = "rw" THEN Writers ELSE Readers
    /\ Become(h, [Unmounted EXCEPT !.mode = mode, !.pc = "chunks", !.lr = leader,
                    !.work = Group(leader.tail, leader.toff), !.todo = Objs,
                    !.loading = TRUE])
    /\ UNCHANGED <<leader, logf, super, holder, hist, stamp>>

\* One sector of pfs_meta_load_all_chunks.
LoadSector(h, o) ==
    /\ mnt[h].pc = "chunks"
    /\ o \in mnt[h].todo
    /\ Become(h, [mnt[h] EXCEPT !.meta[o] = super[o], !.todo = @ \ {o},
                    !.pc = IF mnt[h].todo = {o} THEN "leader" ELSE "chunks"])
    /\ UNCHANGED <<leader, logf, super, holder, hist, stamp>>

\* pfs_leader_load: the leader record is read first and becomes log_leader at
\* the end, after the lease is acquired when the mount is read-write.
LeaderLoad(h) ==
    /\ mnt[h].pc = "leader"
    /\ Become(h, IF mnt[h].mode = "rw"
                 THEN [mnt[h] EXCEPT !.pc = "lease", !.latest = leader]
                 ELSE [mnt[h] EXCEPT !.pc = "load", !.lr = leader])
    /\ UNCHANGED <<leader, logf, super, holder, hist, stamp>>

\* Mutant: the mount does not care who holds the lease.
MountLease_IgnoresHolder(h) ==
    /\ mnt[h].pc = "lease" /\ mnt[h].mode = "rw"
    /\ holder' = h
    /\ Become(h, [mnt[h] EXCEPT !.pc = "load", !.lr = mnt[h].latest, !.latest = Mkfs])
    /\ UNCHANGED <<leader, logf, super, hist, stamp>>

\* The end of pfs_leader_load in pfs_mount.
MountLease(h) ==
    /\ mnt[h].pc = "lease" /\ mnt[h].mode = "rw"
    /\ \/ /\ holder = 0
          /\ holder' = h
          /\ Become(h, [mnt[h] EXCEPT !.pc = "load", !.lr = mnt[h].latest, !.latest = Mkfs])
       \/ /\ holder # 0
          /\ Leave(h)
    /\ UNCHANGED <<leader, logf, super, hist, stamp>>

\* pfs_log_handle_load up to its scan.  -EAGAIN fails the mount.
LogLoad(h) ==
    LET m == mnt[h]
    IN  /\ m.pc = "load"
        /\ IF \/ m.lr.tail > leader.tail \/ m.lr.head > leader.head
              \/ m.lr.head < leader.tail
           THEN Leave(h)
           ELSE /\ Become(h, IF m.lr.tail = leader.head
                             THEN [m EXCEPT !.pc = "serve", !.lr = leader, !.loading = FALSE]
                             ELSE [m EXCEPT !.pc = "scan", !.latest = leader])
                /\ UNCHANGED holder
        /\ UNCHANGED <<leader, logf, super, hist, stamp>>

----------------------------------------------------------------------------
(* pfs_log_scan and the replay *)

\* pfs_log_scan's assertions on the entry e that follows those in buf.
ScanAccepts(m, start, e) ==
    /\ e.txid - (IF m.buf = <<>> THEN start ELSE Last(m.buf).txid) \in {0, 1}
    /\ m.buf # <<>> => e.lsn = Last(m.buf).lsn + 1
    /\ e.txid > start
    /\ e.txid <= m.latest.head

\* One entry of pfs_log_scan; a failed assertion ends the process.  After the
\* last one log_leader moves: all of it in pfs_log_load, its head in
\* pfs_log_poll.
ScanEntry(h) ==
    LET m == mnt[h]
        start == IF m.loading THEN m.lr.tail ELSE m.lr.head
        off == IF m.loading THEN m.lr.toff ELSE m.lr.hoff
        e == logf[Add(off, Len(m.buf))]
        m1 == [m EXCEPT !.buf = Append(@, e)]
        scanned == IF m.loading THEN m.latest
                   ELSE [m.latest EXCEPT !.tail = m.lr.tail, !.toff = m.lr.toff]
    IN  /\ m.pc = "scan"
        /\ IF ScanAccepts(m, start, e)
           THEN /\ Become(h, IF e.txid = m.latest.head /\ ~ e.more
                             THEN [m1 EXCEPT !.pc = "replay", !.lr = scanned, !.latest = Mkfs]
                             ELSE m1)
                /\ UNCHANGED holder
           ELSE Leave(h)
        /\ UNCHANGED <<leader, logf, super, hist, stamp>>

\* Mutant: the scanned transactions are queued, and replayed, last first.
Replay_LastFirst(h) ==
    LET m == mnt[h]
        m1 == [m EXCEPT !.meta = FoldLeft(ApplyEntry, @, Reverse(m.buf))]
        m2 == FoldLeft(InsertEntry, m1, m.buf)
        m3 == IF m.loading THEN DelTrimEntry(m2, m.lr.tail) ELSE m2
    IN  /\ m.pc = "replay"
        /\ Become(h, [m3 EXCEPT !.pc = "serve", !.loading = FALSE, !.buf = <<>>])
        /\ UNCHANGED <<leader, logf, super, holder, hist, stamp>>

\* pfs_txlist_replay by the requester, then pfs_log_handle_replaydone.
Replay(h) ==
    LET m == mnt[h]
        m1 == [m EXCEPT !.meta = FoldLeft(ApplyEntry, @, m.buf)]
        m2 == FoldLeft(InsertEntry, m1, m.buf)
        m3 == IF m.loading THEN DelTrimEntry(m2, m.lr.tail) ELSE m2
        asserts == /\ Head(m.buf).txid = m.work.r + 1
                   /\ m3.work.r = m.lr.head
                   /\ m3.work.off = m.lr.hoff
    IN  /\ m.pc = "replay"
        /\ IF asserts
           THEN /\ Become(h, [m3 EXCEPT !.pc = "serve", !.loading = FALSE, !.buf = <<>>])
                /\ UNCHANGED holder
           ELSE Leave(h)
        /\ UNCHANGED <<leader, logf, super, hist, stamp>>

\* Mutant: news is looked for at the tail.
Poll_ComparesTails(h) ==
    LET m == mnt[h]
    IN  /\ m.pc \in {"serve", "sync"}
        /\ IF m.lr.head < leader.tail
           THEN Leave(h)
           ELSE /\ Become(h, IF m.lr.tail = leader.tail
                             THEN [m EXCEPT !.pc = "serve"]
                             ELSE [m EXCEPT !.pc = "scan", !.latest = leader])
                /\ UNCHANGED holder
        /\ UNCHANGED <<leader, logf, super, hist, stamp>>

\* pfs_log_handle_poll up to its scan.  A mount that missed trimmed entries
\* exits.
Poll(h) ==
    LET m == mnt[h]
        m1 == IF m.lr.tail < leader.tail
              THEN [DelTrimEntry(m, leader.tail) EXCEPT !.lr.tail = leader.tail,
                                                        !.lr.toff = leader.toff]
              ELSE m
    IN  /\ m.pc \in {"serve", "sync"}
        /\ IF m.lr.head < leader.tail
           THEN Leave(h)
           ELSE /\ Become(h, IF m.lr.head = leader.head
                             THEN [m1 EXCEPT !.pc = "serve"]
                             ELSE [m1 EXCEPT !.pc = "scan", !.latest = leader])
                /\ UNCHANGED holder
        /\ UNCHANGED <<leader, logf, super, hist, stamp>>

----------------------------------------------------------------------------
(* pfs_log_handle_write *)

\* The log thread takes a LOG_WRITE request with the operations of a
\* transaction.
BeginWrite(h, ops) ==
    /\ mnt[h].pc = "serve" /\ mnt[h].mode = "rw"
    /\ stamp < MaxTx
    /\ stamp' = stamp + 1
    /\ Become(h, [mnt[h] EXCEPT !.pc = "write", !.n = 0,
                    !.tx = [ops |-> SetToSeq(ops), val |-> stamp + 1]])
    /\ UNCHANGED <<leader, logf, super, holder, hist>>

\* Mutant: a transaction may fill the log.
NoRoom_Full(m) == Len(m.tx.ops) > Space(m.lr)

\* txspace >= pfs_log_space(log)
NoRoom(m) == Len(m.tx.ops) >= Space(m.lr)

\* The request is answered, with success or with an error that rolls the
\* transaction back.
Reply(m) == [m EXCEPT !.pc = "serve", !.tx = NoTx, !.n = 0]

\* pfs_tx_log: one entry of the transaction.
WriteEntry(h) ==
    LET m == mnt[h]
    IN  /\ m.pc = "write"
        /\ ~ NoRoom(m)
        /\ m.n < Len(m.tx.ops)
        /\ logf' = [logf EXCEPT ![Add(m.lr.hoff, m.n)] = EntryOf(m.lr, m.tx, m.n + 1)]
        /\ Become(h, [m EXCEPT !.n = @ + 1])
        /\ UNCHANGED <<leader, super, holder, hist, stamp>>

\* The anchor of pfs_log_commit.
CommitLeader(m) ==
    LET k == Len(m.tx.ops)
    IN  [m.lr EXCEPT !.head = @ + 1, !.lsn = @ + k, !.hoff = Add(@, k)]

\* pfs_tx_apply and pfs_log_add_trimentry.
Committed(m) ==
    LET entries == [i \in 1..Len(m.tx.ops) |-> EntryOf(m.lr, m.tx, i)]
        m1 == [m EXCEPT !.lr = CommitLeader(m), !.meta = ApplyTx(@, m.tx)]
    IN  Reply(FoldLeft(InsertEntry, m1, entries))

\* The leader record on disk covers a new transaction.
CommitLands(m) ==
    /\ leader' = CommitLeader(m)
    /\ hist' = Append(SubSeq(hist, 1, m.lr.head), ApplyTx(MetaAt(m.lr.head), m.tx))

\* pfs_log_commit's leader write: it succeeds, the transaction is applied and
\* enters the trim group; or it fails and log_leader is restored.
Commit(h) ==
    LET m == mnt[h]
    IN  /\ m.pc = "write"
        /\ m.n = Len(m.tx.ops)
        /\ \/ /\ CommitLands(m)
              /\ IF m.work.r = m.lr.head
                 THEN Become(h, Committed(m)) /\ UNCHANGED holder
                 ELSE Leave(h)
           \/ /\ LostReplies
              /\ CommitLands(m)
              /\ Become(h, Reply(m))
              /\ UNCHANGED holder
        /\ UNCHANGED <<logf, super, stamp>>

\* A write of pfs_tx_log or of the leader record fails.
WriteFails(h) ==
    /\ WriteFaults
    /\ mnt[h].pc = "write" /\ ~ NoRoom(mnt[h])
    /\ Become(h, Reply(mnt[h]))
    /\ UNCHANGED <<leader, logf, super, holder, hist, stamp>>

----------------------------------------------------------------------------
(* pfs_log_handle_trim *)

\* pfs_log_trim's assertion.
TrimAsserts(m) == m.lr.tail = m.wait.l /\ m.wait.r = m.work.l

\* A forced trim of LOG_FLUSH, and the one a write without room asks for.
Trim(h) ==
    LET m == TrySwap(mnt[h], TRUE)
    IN  /\ m.mode = "rw"
        /\ \/ m.pc = "serve" /\ m.lr.tail # m.lr.head
           \/ m.pc = "write" /\ NoRoom(m)
        /\ m.wait.l # m.wait.r
        /\ IF TrimAsserts(m)
           THEN /\ Become(h, [m EXCEPT !.pc = "flush", !.todo = Dirty(m.wait)])
                /\ UNCHANGED holder
           ELSE Leave(h)
        /\ UNCHANGED <<leader, logf, super, hist, stamp>>

\* One sector of pfs_trimgroup_flush.
FlushSector(h, o) ==
    LET m == mnt[h]
    IN  /\ m.pc = "flush"
        /\ o \in m.todo
        /\ super' = [super EXCEPT ![o] = m.wait.snap[o]]
        /\ Become(h, [m EXCEPT !.todo = @ \ {o}])
        /\ UNCHANGED <<leader, logf, holder, hist, stamp>>

\* Back to the write that waits for room, if there is one.
EndTrim(m) == [m EXCEPT !.pc = IF m.tx = NoTx THEN "serve" ELSE "write", !.todo = {}]

\* The anchor of pfs_log_trim.
TrimLeader(m) == [m.lr EXCEPT !.tail = m.wait.r, !.toff = m.wait.off]

\* The leader record on disk gets a new tail, and the head of its writer.
TrimLands(m) ==
    /\ leader' = TrimLeader(m)
    /\ hist' = SubSeq(hist, 1, m.lr.head)

\* Mutant: the sectors leave the trim group whatever the leader write returns.
TrimDone_DropsGroup(h) ==
    LET m == mnt[h]
    IN  /\ m.pc = "flush"
        /\ m.todo = {}
        /\ \/ /\ TrimLands(m)
              /\ Become(h, EndTrim(DelTrimEntry([m EXCEPT !.lr = TrimLeader(m)], m.wait.r)))
           \/ /\ LostReplies
              /\ TrimLands(m)
              /\ Become(h, EndTrim(DelTrimEntry(m, m.wait.r)))
        /\ UNCHANGED <<logf, super, holder, stamp>>

\* The leader write of pfs_log_trim, once every sector is on disk.
TrimDone(h) ==
    LET m == mnt[h]
    IN  /\ m.pc = "flush"
        /\ m.todo = {}
        /\ \/ /\ TrimLands(m)
              /\ Become(h, EndTrim(DelTrimEntry([m EXCEPT !.lr = TrimLeader(m)], m.wait.r)))
           \/ /\ LostReplies
              /\ TrimLands(m)
              /\ Become(h, EndTrim(m))
        /\ UNCHANGED <<logf, super, holder, stamp>>

\* Mutant: the sectors leave the trim group although the trim failed.
TrimFails_DropsGroup(h) ==
    /\ WriteFaults
    /\ mnt[h].pc = "flush"
    /\ Become(h, EndTrim(DelTrimEntry(mnt[h], mnt[h].wait.r)))
    /\ UNCHANGED <<leader, logf, super, holder, hist, stamp>>

\* A sector or leader write of pfs_log_trim fails.
TrimFails(h) ==
    /\ WriteFaults
    /\ mnt[h].pc = "flush"
    /\ Become(h, EndTrim(mnt[h]))
    /\ UNCHANGED <<leader, logf, super, holder, hist, stamp>>

----------------------------------------------------------------------------
(* Remounts and the end of a mount *)

\* pfs_remount_rw: the log thread is suspended and pfs_leader_load reads the
\* leader record.
RemountRW(h) ==
    /\ Promotion
    /\ mnt[h].pc = "serve" /\ mnt[h].mode = "ro"
    /\ Become(h, [mnt[h] EXCEPT !.pc = "lease", !.latest = leader])
    /\ UNCHANGED <<leader, logf, super, holder, hist, stamp>>

\* Mutant: clients run before the promoted mount has polled.
RemountLease_NoSync(h) ==
    /\ mnt[h].pc = "lease" /\ mnt[h].mode = "ro"
    /\ holder = 0
    /\ holder' = h
    /\ Become(h, [mnt[h] EXCEPT !.mode = "rw", !.pc = "serve", !.lr = mnt[h].latest,
                                !.latest = Mkfs])
    /\ UNCHANGED <<leader, logf, super, hist, stamp>>

\* The end of pfs_leader_load in pfs_remount_rw: log_leader is the record read
\* at its start.  Then the log thread resumes, which may swap the trim groups,
\* and pfs_mount_sync polls before clients run.
RemountLease(h) ==
    LET m == [mnt[h] EXCEPT !.mode = "rw", !.pc = "sync", !.lr = mnt[h].latest,
                            !.latest = Mkfs]
    IN  /\ mnt[h].pc = "lease" /\ mnt[h].mode = "ro"
        /\ holder = 0
        /\ holder' = h
        /\ \E resumed \in {m, TrySwap(m, TRUE)} : Become(h, resumed)
        /\ UNCHANGED <<leader, logf, super, hist, stamp>>

\* pfs_remount_rw without the lease: pfs_leader_load again, and the mount is
\* read-only as before.
RemountRestore(h) ==
    /\ mnt[h].pc = "lease" /\ mnt[h].mode = "ro"
    /\ holder # 0
    /\ Become(h, [mnt[h] EXCEPT !.pc = "serve", !.lr = leader, !.latest = Mkfs])
    /\ UNCHANGED <<leader, logf, super, holder, hist, stamp>>

\* pfs_remount_ro: the lease is given back by pfs_leader_unload ...
RemountRO(h) ==
    /\ Promotion
    /\ mnt[h].pc = "serve" /\ mnt[h].mode = "rw"
    /\ holder' = 0
    /\ Become(h, [mnt[h] EXCEPT !.mode = "ro", !.pc = "demoted"])
    /\ UNCHANGED <<leader, logf, super, hist, stamp>>

\* ... and pfs_leader_load reads the leader record.
RemountROLoad(h) ==
    /\ mnt[h].pc = "demoted"
    /\ Become(h, [mnt[h] EXCEPT !.pc = "serve", !.lr = leader])
    /\ UNCHANGED <<leader, logf, super, holder, hist, stamp>>

\* The process crashes, or the mount is unmounted, at any point.
Crash(h) ==
    /\ mnt[h].mode # "none"
    /\ Leave(h)
    /\ UNCHANGED <<leader, logf, super, hist, stamp>>

----------------------------------------------------------------------------
Mounting(h) == \/ \E mode \in {"ro", "rw"} : Preload(h, mode)
               \/ \E o \in Objs : LoadSector(h, o)
               \/ LeaderLoad(h)
               \/ MountLease(h)
               \/ LogLoad(h)

Following(h) == Poll(h) \/ ScanEntry(h) \/ Replay(h)

Writing(h) == \/ \E ops \in SUBSET Objs \ {{}} : BeginWrite(h, ops)
              \/ WriteEntry(h)
              \/ Commit(h)
              \/ WriteFails(h)

Trimming(h) == \/ Trim(h)
               \/ \E o \in Objs : FlushSector(h, o)
               \/ TrimDone(h)
               \/ TrimFails(h)

Remounting(h) == \/ RemountRW(h) \/ RemountLease(h) \/ RemountRestore(h)
                 \/ RemountRO(h) \/ RemountROLoad(h)

Next == \E h \in Hosts : Mounting(h) \/ Following(h) \/ Writing(h) \/ Trimming(h)
                         \/ Remounting(h) \/ Crash(h)

Spec == Init /\ [][Next]_vars

\* The poll thread asks for a sync every poll interval, and a log thread or a
\* requester that has begun goes on.
Fairness == \A h \in Hosts : /\ WF_vars(Poll(h))
                             /\ WF_vars(ScanEntry(h))
                             /\ WF_vars(Replay(h))
FairSpec == Spec /\ Fairness

----------------------------------------------------------------------------
(* Properties *)

\* The log entries the leader record covers.
LiveLog == [i \in 1..Used(leader) |-> logf[Add(leader.toff, i - 1)]]

\* Crash recovery: at every point of every handler, the entries the leader
\* record covers are whole transactions tail+1 .. head in order, and replaying
\* them over the metadata sectors (pfs_load_log after
\* pfs_meta_load_all_chunks), flushed wholly, partly or not at all, gives the
\* metadata after the head transaction.
Recoverable ==
    LET log == LiveLog
    IN  /\ \A i \in DOMAIN log :
             log[i].txid = IF i = 1 THEN leader.tail + 1
                           ELSE IF log[i-1].more THEN log[i-1].txid ELSE log[i-1].txid + 1
        /\ log # <<>> => Last(log).txid = leader.head /\ ~ Last(log).more
        /\ log = <<>> => leader.tail = leader.head
        /\ FoldLeft(ApplyEntry, super, log) = MetaAt(leader.head)

\* Mounts that have loaded the log and are not replaying.
Serving(h) == ~ mnt[h].loading /\ mnt[h].pc \in {"serve", "scan", "write", "flush"}

\* A mount that serves has in memory the metadata of the transaction its
\* log_leader says it has reached (pfs_log_poll and pfs_log_load move
\* log_leader, pfs_txlist_replay and pfs_tx_apply the metadata).
Synced == \A h \in Hosts : Serving(h) => /\ mnt[h].lr.head <= Len(hist)
                                         /\ mnt[h].meta = MetaAt(mnt[h].lr.head)

\* The trim groups of a mount cover exactly the transactions its log_leader
\* has in the log, without a gap (pfs_log_trim's, pfs_log_need_trim's and
\* pfs_log_handle_write's assertions), and every sector not in a group is on
\* disk with its value in memory.
GroupsCover ==
    \A h \in Hosts : Serving(h) =>
        LET m == mnt[h]
        IN  /\ m.work.r = m.lr.head /\ m.work.off = m.lr.hoff
            /\ IF m.wait.l < m.wait.r
               THEN m.wait.l = m.lr.tail /\ m.wait.r = m.work.l
               ELSE m.work.l = m.lr.tail
            /\ m.mode = "rw" =>
                 \A o \in Objs \ (Dirty(m.work) \cup Dirty(m.wait)) : super[o] = m.meta[o]

\* A read-only mount that polls reaches every transaction committed while it
\* is mounted, unless the journal is trimmed past it and it exits, or the
\* writer, told that the leader write failed, takes the transaction back.
CatchesUp ==
    \A h \in Readers \cup Followers, k \in 1..MaxTx :
        (mnt[h].mode = "ro" /\ ~ mnt[h].loading /\ leader.head >= k)
            ~> (mnt[h].mode # "ro" \/ mnt[h].lr.head >= k \/ leader.head < k)

\* The log_leader of a read-write mount is what is on disk, whoever wrote it
\* last: the anchor it writes next builds on every committed transaction
\* (pfs_log_paxos_try_acquire reads nothing: "we wrote it, we know it").
AnchorKnown ==
    \A h \in Hosts : (mnt[h].mode = "rw" /\ mnt[h].pc \in {"serve", "write", "flush"})
        => mnt[h].lr = leader

=============================================================================
