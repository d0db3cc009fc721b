------------------------------ MODULE Metadata ------------------------------
(***************************************************************************)
(* Write transactions over the metadata objects (pfs_tx.cc, pfs_meta.cc),   *)
(* the allocation nodes that count free objects (pfs_alloc.cc) and the      *)
(* thread that discards free blocks (pfs_bd_* of pfs_mount.cc), on a host   *)
(* that writes and hosts that follow its journal.                           *)
(*                                                                         *)
(* A write transaction holds the metadata write lock of its mount from its  *)
(* first object to its end, and until it commits it changes only memory of  *)
(* its own mount.  It is therefore one step here: the operations on its     *)
(* objects, then the submission and what it does to every mount.            *)
(*                                                                         *)
(* The journal itself is Journal.tla; here it is what LOG_WRITE and         *)
(* LOG_POLL do with whole transactions.  The writer is the one mount with   *)
(* the RW lease (RWLease.tla) and commits at the head it knows.  If the     *)
(* write of the anchor lands but is reported failed, that head is one short *)
(* of the disk's: the next commit takes the same place in the journal, and  *)
(* a trim writes the shorter head back.  A follower that has replayed the   *)
(* failed transaction by then has strayed from the metadata on disk, and no *)
(* later poll brings it back.  If that next commit writes its entries and   *)
(* not its anchor, the anchor on disk covers entries of two transactions:   *)
(* the journal is torn, and no step is modelled after that.                 *)
(***************************************************************************)
EXTENDS Integers, Sequences, FiniteSets, FiniteSetsExt, TLC

CONSTANTS
    MHosts,        \* hosts that mount the device
    Blocks,        \* block tags, positive numbers (0 is "no object")
    Inodes,        \* inodes, positive numbers that are not in Blocks
    ChunkOf,       \* [Blocks \cup Inodes -> chunk number]
    NInp,          \* discard_ninp: blocks one round of the discard thread takes
    MaxPend,       \* bound: transactions a mount may lag behind
    Faults,        \* subset of {"io", "lost", "trim", "crash"}
    PeriodCovers   \* TRUE: the sleep of a discard conflict outlasts the
                   \* trims a crashed host had under way

VARIABLES
    hs,            \* [MHosts -> a mount: cache, allocation nodes, discard]
    dsk,           \* [MObjs -> value]: the metadata that disk and journal make
    pend,          \* [MHosts -> Seq(transaction)]: in the journal, not yet replayed
    back,          \* the metadata before the commit that landed and was reported
                   \* failed, while its writer does not know of it; NoBack, Torn
    stray,         \* [MHosts -> {"no", "ahead", "yes"}]: has replayed a transaction
                   \* that is no longer in the journal; "ahead": its head counts it
    inflight       \* blocks whose trim a host had under way when it crashed

mvars == <<hs, dsk, pend, back, stray, inflight>>

MObjs == Blocks \cup Inodes
NONE == "NONE"
READY == "READY"
INP == "INP"
NoBack == <<>>
Torn == <<"torn">>

FreeTag == [used |-> 0, prev |-> 0, next |-> 0, ino |-> 0, dstatus |-> NONE,
            discarded |-> FALSE]
FreeInode == [used |-> 0, head |-> 0, tail |-> 0, nblock |-> 0, nlink |-> 0]

(***************************************************************************)
(* Allocation nodes: a leaf per chunk and type, under one root per type.    *)
(***************************************************************************)
Kind(o) == IF o \in Blocks THEN "blktag" ELSE "inode"
Leaf == [o \in MObjs |-> <<Kind(o), ChunkOf[o]>>]
Root(k) == <<k, -1>>
Leaves == [k \in {"blktag", "inode"} |-> {Leaf[o] : o \in {p \in MObjs : Kind(p) = k}}]
Anodes == UNION {Leaves[k] \cup {Root(k)} : k \in DOMAIN Leaves}
\* the objects under an allocation node, and the first one of a leaf
Under == [a \in Anodes |-> {o \in MObjs : Leaf[o] = a \/ a = Root(Kind(o))}]
First == [a \in Anodes |-> Min(Under[a])]
Must(s, cond) == [s EXCEPT !.bad = @ \/ ~cond]

\* what a transaction sees of an object, and the private copy it writes
Mo(s, o) == IF o \in DOMAIN s.tx THEN s.tx[o] ELSE s.mo[o]
Set(s, o, v) == [s EXCEPT !.tx = (o :> v) @@ @]

\* delta +1 for the objects of inc and -1 for those of dec, on their leaves
\* and roots; a leaf flips the bit of an object whose delta is odd
pfs_anode_nfree_inc(s, inc, dec) ==
    [s EXCEPT !.nfree = [a \in Anodes |-> @[a] + Cardinality(Under[a] \cap inc)
                                              - Cardinality(Under[a] \cap dec)],
              !.free = SymDiff(@, inc \cup dec)]

pfs_metaset_alloc_AnyStatus(s, o) == Mo(s, o).used = 0
pfs_metaset_alloc(s, o) ==
    /\ Mo(s, o).used = 0
    /\ o \in Blocks => Mo(s, o).dstatus # INP

\* how far o is from an_next going round the leaf l
Ahead(s, l, o) == (o - s.next[l]) % Cardinality(Under[l])
LeafFinds(s, l) == {o \in Under[l] \cap s.free : pfs_metaset_alloc(s, o)}

\* the child with most free objects is tried first, then its successors
Order(s, k) ==
    LET big == Max({s.nfree[l] : l \in Leaves[k]})
        first == Min({l[2] : l \in {m \in Leaves[k] : s.nfree[m] = big}})
    IN  [l \in Leaves[k] |-> (l[2] - first) % Cardinality(Leaves[k])]

\* the object pfs_anode_alloc returns, 0 for ENOSPC
pfs_anode_pick(s, k) ==
    LET ls == {l \in Leaves[k] : s.nfree[l] > 0 /\ LeafFinds(s, l) # {}}
    IN  IF ls = {} THEN 0
        ELSE LET l == CHOOSE m \in ls :
                          \A n \in ls : Order(s, k)[m] <= Order(s, k)[n]
             IN  CHOOSE o \in LeafFinds(s, l) :
                     \A p \in LeafFinds(s, l) : Ahead(s, l, o) <= Ahead(s, l, p)

pfs_anode_alloc(s, o) ==
    LET l == Leaf[o]
    IN  [pfs_anode_nfree_inc(s, {}, {o})
            EXCEPT !.next[l] = IF o + 1 \in Under[l] THEN o + 1 ELSE First[l]]

pfs_anode_free(s, o) ==
    [pfs_anode_nfree_inc(s, {o}, {}) EXCEPT !.next[Leaf[o]] = Min({@, o})]

(***************************************************************************)
(* Block tags, their discard trees, and the list of an inode's blocks.      *)
(***************************************************************************)
\* bd_get returns whatever block is at the root of the search tree
pfs_metaobj_alloc_blktag(s) ==
    LET picked == pfs_anode_pick(s, "blktag")
        Fresh(t, b) == Set(Must(t, Mo(t, b).prev = 0 /\ Mo(t, b).next = 0),
                           b, [Mo(t, b) EXCEPT !.used = 1, !.dstatus = NONE,
                                               !.discarded = FALSE])
    IN  CASE s.ready # {} ->
               {[s |-> Fresh(Must(pfs_anode_nfree_inc([s EXCEPT !.ready = @ \ {b}], {}, {b}),
                                    Mo(s, b).used = 0 /\ Mo(s, b).dstatus = READY), b),
                 o |-> b] : b \in s.ready}
          [] s.ready = {} /\ picked # 0 ->
               {[s |-> Fresh(Must(pfs_anode_alloc(s, picked), Mo(s, picked).dstatus # INP),
                             picked), o |-> picked]}
          [] OTHER -> {[s |-> s, o |-> 0]}

\* bt_ino of a free tag is never read: it is cleared here
pfs_metaobj_free_blktag(s, b) ==
    LET bt == Mo(s, b)
        t == Must(s, /\ bt.used = 1 /\ bt.prev = 0 /\ bt.next = 0
                       /\ ~bt.discarded /\ bt.dstatus = NONE)
    IN  pfs_anode_free(Set([t EXCEPT !.ready = @ \cup {b}], b,
                           [bt EXCEPT !.used = 0, !.dstatus = READY, !.ino = 0]), b)

pfs_meta_list_insert(s, i, b) ==
    LET in == Mo(s, i)
    IN  IF in.head = 0
        THEN Set(s, i, [in EXCEPT !.head = b, !.tail = b])
        ELSE LET t == Set(s, b, [Mo(s, b) EXCEPT !.prev = in.tail])
                 u == Set(t, in.tail, [Mo(t, in.tail) EXCEPT !.next = b])
             IN  Set(u, i, [in EXCEPT !.tail = b])

pfs_meta_list_delete_KeepTail(s, i, b) ==
    LET bt == Mo(s, b)
        t == IF bt.prev # 0 THEN Set(s, bt.prev, [Mo(s, bt.prev) EXCEPT !.next = bt.next])
             ELSE Set(s, i, [Mo(s, i) EXCEPT !.head = bt.next])
        u == IF bt.next # 0 THEN Set(t, bt.next, [Mo(t, bt.next) EXCEPT !.prev = bt.prev])
             ELSE t
    IN  Set(u, b, [bt EXCEPT !.prev = 0, !.next = 0])
pfs_meta_list_delete(s, i, b) ==
    LET bt == Mo(s, b)
        t == IF bt.prev # 0 THEN Set(s, bt.prev, [Mo(s, bt.prev) EXCEPT !.next = bt.next])
             ELSE Set(s, i, [Mo(s, i) EXCEPT !.head = bt.next])
        u == IF bt.next # 0 THEN Set(t, bt.next, [Mo(t, bt.next) EXCEPT !.prev = bt.prev])
             ELSE Set(t, i, [Mo(t, i) EXCEPT !.tail = bt.prev])
    IN  Set(u, b, [bt EXCEPT !.prev = 0, !.next = 0])

\* the trees follow the status that a redo or an undo of bs left in the cache
pfs_meta_bd_change_index(s, bs) ==
    LET with(st) == {b \in bs : s.mo[b].dstatus = st}
    IN  [s EXCEPT !.ready = (@ \ bs) \cup with(READY), !.inp = (@ \ bs) \cup with(INP)]

(***************************************************************************)
(* The bodies of the write transactions.  Each gives the outcomes [s, err]. *)
(***************************************************************************)
Outcome(s, err) == [s |-> s, err |-> err]

\* the blocks of inode i in the metadata m, in list order
Chain(m, i) ==
    LET chain[n \in 0..Cardinality(Blocks)] ==
            IF n = 0 THEN <<>>
            ELSE LET c == chain[n - 1]
                     b == IF c = <<>> THEN m[i].head ELSE m[c[Len(c)]].next
                 IN  IF b = 0 \/ Len(c) < n - 1 THEN c ELSE Append(c, b)
    IN  chain[Cardinality(Blocks)]

\* pfs_meta_alloc_inode and pfs_inodephy_init for a new directory entry
CreateFile(s) ==
    LET i == pfs_anode_pick(s, "inode")
    IN  IF i = 0 THEN {Outcome(s, TRUE)}
        ELSE {Outcome(Set(pfs_anode_alloc(s, i), i,
                          [FreeInode EXCEPT !.used = 1, !.nlink = 1]), FALSE)}

\* the last link goes, the inode stays until it is released
Unlink(s, i) == {Outcome(Set(s, i, [Mo(s, i) EXCEPT !.nlink = 0]), FALSE)}

pfs_inode_add(s, i) ==
    {IF r.o = 0 THEN Outcome(s, TRUE)
     ELSE LET t == Set(r.s, r.o, [Mo(r.s, r.o) EXCEPT !.ino = i])
              u == pfs_meta_list_insert(t, i, r.o)
          IN  Outcome(Set(u, i, [Mo(u, i) EXCEPT !.nblock = @ + 1]), FALSE) :
        r \in pfs_metaobj_alloc_blktag(s)}

\* pfs_file_allocate adds its blocks in one transaction
Allocate(s, i, n) ==
    IF n = 1 THEN pfs_inode_add(s, i)
    ELSE UNION {IF r.err THEN {r} ELSE pfs_inode_add(r.s, i) : r \in pfs_inode_add(s, i)}

pfs_inode_del(s, i, b) ==
    LET t == pfs_metaobj_free_blktag(pfs_meta_list_delete(s, i, b), b)
    IN  Set(t, i, [Mo(t, i) EXCEPT !.nblock = @ - 1])

\* pfs_inode_del_from: every block after the first n
Truncate(s, i, n) ==
    LET c == Chain(s.mo, i)
        del[k \in n..Len(c)] == IF k = n THEN s ELSE pfs_inode_del(del[k - 1], i, c[k])
    IN  {Outcome(del[Len(c)], FALSE)}

pfs_inodephy_release(s, i) ==
    LET c == Chain(s.mo, i)
        del[k \in 0..Len(c)] ==
            IF k = 0 THEN s
            ELSE pfs_metaobj_free_blktag(pfs_meta_list_delete(del[k - 1], i, c[k]), c[k])
        t == del[Len(c)]
    IN  pfs_anode_free(Set(Must(t, Mo(t, i).head = 0), i,
                           [FreeInode EXCEPT !.tail = Mo(t, i).tail]), i)

Orphans(m) == {i \in Inodes : m[i].used = 1 /\ m[i].nlink = 0}

\* one transaction releases every orphan of the mount
pfs_orphans_reclaim(s) ==
    {Outcome(FoldSet(LAMBDA i, t : pfs_inodephy_release(t, i), s, Orphans(s.mo)), FALSE)}

\* a mount of the fstrim command, of the blocks that wait or of all free ones
Tool(s) == s.kind \in {"trim", "all"}

MayMark_Blind(s) == {b \in s.bdroot : s.mo[b].dstatus # NONE}
\* blocks whose status changed since they were selected are not marked and
\* leave bdroot (fstrim keeps them); the transaction writes them all
MayMark(s) == {b \in s.bdroot : \/ s.mo[b].dstatus = READY /\ b \notin s.ready
                                \/ s.mo[b].dstatus = INP /\ b \notin s.inp}
pfs_bd_mark_inp(s) ==
    LET ok == MayMark(s)
        t == Must(s, \A b \in ok : s.mo[b].discarded <=> s.mo[b].dstatus = INP)
        rest == IF Tool(s) THEN s.bdroot ELSE ok
    IN  {Outcome([t EXCEPT !.bdroot = rest,
                    !.tx = [b \in s.bdroot |->
                               IF b \in ok
                               THEN [s.mo[b] EXCEPT !.dstatus = INP, !.discarded = TRUE]
                               ELSE s.mo[b]]],
                 rest = {})}                                      \* ENODATA

Discarded(s) == {b \in s.bdroot : s.mo[b].dstatus = INP /\ b \notin s.inp}
pfs_bd_mark_done(s) ==
    LET ok == Discarded(s)
        t == Must(s, \A b \in ok : s.mo[b].discarded)
        rest == IF Tool(s) THEN s.bdroot ELSE ok
    IN  {Outcome([t EXCEPT !.bdroot = rest,
                    !.tx = [b \in s.bdroot |->
                               IF b \in ok THEN [s.mo[b] EXCEPT !.dstatus = NONE]
                               ELSE s.mo[b]]],
                 rest = {})}

(***************************************************************************)
(* The end of a transaction.                                                *)
(***************************************************************************)
Rewound(next, os) == [l \in DOMAIN next |-> IF Under[l] \cap os = {} THEN next[l]
                                            ELSE First[l]]

\* the cache never changed: undo the counts and put the trees back
pfs_tx_rollback_KeepTrees(s) ==
    LET os == DOMAIN s.tx
        t == pfs_anode_nfree_inc(s, {o \in os : s.tx[o].used > s.mo[o].used},
                                    {o \in os : s.tx[o].used < s.mo[o].used})
    IN  [t EXCEPT !.next = Rewound(@, os), !.tx = <<>>]
pfs_tx_rollback_KeepCounts(s) ==
    [pfs_meta_bd_change_index(s, Blocks \cap DOMAIN s.tx)
        EXCEPT !.next = Rewound(@, DOMAIN s.tx), !.tx = <<>>]
pfs_tx_rollback(s) ==
    LET os == DOMAIN s.tx
        t == pfs_anode_nfree_inc(s, {o \in os : s.tx[o].used > s.mo[o].used},
                                    {o \in os : s.tx[o].used < s.mo[o].used})
    IN  [pfs_meta_bd_change_index(t, Blocks \cap os)
            EXCEPT !.next = Rewound(@, os), !.tx = <<>>]

pfs_tx_replay_TagsOnly(s, w) ==
    LET os == DOMAIN w \cap Blocks
        t == pfs_anode_nfree_inc(s, {o \in os : s.mo[o].used > w[o].used},
                                    {o \in os : s.mo[o].used < w[o].used})
    IN  pfs_meta_bd_change_index([t EXCEPT !.next = Rewound(@, os),
                                           !.mo = [o \in os |-> w[o]] @@ @], os)
pfs_tx_replay(s, w) ==
    LET os == DOMAIN w
        t == pfs_anode_nfree_inc(s, {o \in os : s.mo[o].used > w[o].used},
                                    {o \in os : s.mo[o].used < w[o].used})
    IN  pfs_meta_bd_change_index([t EXCEPT !.next = Rewound(@, os), !.mo = w @@ @],
                                 Blocks \cap os)
pfs_txlist_replay(s, ws) ==
    LET done[k \in 0..Len(ws)] == IF k = 0 THEN s ELSE pfs_tx_replay(done[k - 1], ws[k])
    IN  done[Len(ws)]

pfs_tx_apply(s) == [s EXCEPT !.mo = s.tx @@ @, !.tx = <<>>]

Up(h) == hs[h].up
App(h) == Up(h) /\ hs[h].kind = "rw"
Following == {x \in MHosts : Up(x) /\ hs[x].kind = "ro"}

\* fstrim stops at the first error
pfs_bd_reset(s, ok) ==
    [s EXCEPT !.bdroot = {}, !.todo = {}, !.stage = "idle", !.backoff = FALSE,
              !.chunk = CASE ~Tool(s) -> 0 [] Tool(s) /\ ok -> @ [] OTHER -> -1]
Marked(s, ok) ==
    IF ok THEN [s EXCEPT !.stage = "trim", !.todo = @ \cup s.bdroot, !.backoff = FALSE]
    ELSE pfs_bd_reset(s, FALSE)

\* The anchor of a commit of h lands: w is in the journal, in the place of a commit that
\* landed and was reported failed, if there is one.  A follower whose head counts that
\* one never looks at w.  own is what h has still to replay.
pfs_log_commit(h, w, own) ==
    LET again == back # NoBack
        Skips(x) == stray[x] = "ahead" \/ (again /\ pend[x] = <<>>)
    IN  /\ again \/ \A x \in Following : Len(pend[x]) < MaxPend
        /\ dsk' = w @@ (IF again THEN back ELSE dsk)
        /\ pend' = [x \in MHosts |->
                      CASE x = h -> own
                        [] x \in Following /\ ~Skips(x) ->
                             IF again THEN [pend[x] EXCEPT ![Len(pend[x])] = w]
                             ELSE Append(pend[x], w)
                        [] OTHER -> pend[x]]
        /\ stray' = [x \in MHosts |-> IF x \in Following /\ Skips(x) THEN "yes" ELSE stray[x]]
        /\ UNCHANGED inflight

\* pfs_tx_submit for outcome r of host h, and what the caller does next: an API call
\* is over, a discard goes on to its trims or is over.  A transaction fails with
\* EAGAIN while a poll has found entries to replay; an error of the device comes before
\* the entries are in the journal, after them, or after the anchor.
pfs_tx_submit(h, r, caller) ==
    LET undone == pfs_tx_rollback(r.s)
        After(s, ok) == CASE caller = "api" -> s
                          [] caller = "mark" -> Marked(s, ok)
                          [] caller = "done" -> pfs_bd_reset(s, ok)
    IN  \/ /\ r.err \/ pend[h] # <<>> \/ "io" \in Faults
           /\ hs' = [hs EXCEPT ![h] = After(undone, FALSE)]
           /\ UNCHANGED <<dsk, pend, back, stray, inflight>>
        \/ /\ ~r.err /\ "io" \in Faults /\ back # NoBack
           /\ hs' = [hs EXCEPT ![h] = After(undone, FALSE)]
           /\ back' = Torn
           /\ UNCHANGED <<dsk, pend, stray, inflight>>
        \/ /\ ~r.err
           /\ pfs_log_commit(h, r.s.tx, <<>>)
           /\ hs' = [hs EXCEPT ![h] = After(pfs_tx_apply(r.s), TRUE)]
           /\ back' = NoBack
        \/ /\ ~r.err /\ "lost" \in Faults
           /\ pfs_log_commit(h, r.s.tx, <<r.s.tx>>)
           /\ hs' = [hs EXCEPT ![h] = After(undone, FALSE)]
           /\ back' = IF back = NoBack THEN dsk ELSE back

(***************************************************************************)
(* Mounting, and the steps of a mount.                                      *)
(***************************************************************************)
Down == [up |-> FALSE]

\* pfs_metaset_init_anode, pfs_init_anode and pfs_meta_bd_build_index
Loaded(kind) ==
    LET unused(l) == {o \in Under[l] : dsk[o].used = 0}
        tagged(st) == {b \in Blocks : dsk[b].used = 0 /\ dsk[b].dstatus = st}
    IN  [up |-> TRUE, kind |-> kind, mo |-> dsk, tx |-> <<>>,
         free |-> {o \in MObjs : dsk[o].used = 0},
         nfree |-> [a \in Anodes |->
                       Cardinality(unused(a))],
         next |-> [l \in UNION {Leaves[k] : k \in DOMAIN Leaves} |->
                      IF unused(l) = {} THEN First[l] ELSE Min(unused(l))],
         ready |-> tagged(READY), inp |-> tagged(INP),
         bdroot |-> {}, stage |-> "idle", backoff |-> FALSE, todo |-> {},
         failed |-> FALSE, chunk |-> 0, bad |-> FALSE]

\* The RW lease has one holder.  fstrim asks to be the only writer of the device: it is
\* run when nothing of an earlier one is under way.
Mount(h, kind) ==
    /\ ~Up(h)
    /\ kind # "ro" => \A x \in MHosts : Up(x) => x \in Following
    /\ kind \in {"trim", "all"} => inflight = {}
    /\ hs' = [hs EXCEPT ![h] = Loaded(kind)]
    /\ UNCHANGED <<dsk, pend, back, stray, inflight>>

\* pfs_umount joins the discard thread first; a crash does not wait for it, and the trim
\* it had under way may still reach the device; fstrim counts as running until its own has,
\* so that nobody else writes before
Stop(h) ==
    LET late == IF hs[h].kind = "rw" /\ hs[h].todo # {} THEN {Min(hs[h].todo)} ELSE {}
    IN  /\ Up(h)
        /\ hs[h].stage = "idle" \/ "crash" \in Faults
        /\ inflight' \in {inflight, inflight \cup late}
        /\ \/ back' = IF h \in Following THEN back ELSE NoBack
           \/ h \notin Following /\ back # NoBack /\ "crash" \in Faults /\ back' = Torn
        /\ hs' = [hs EXCEPT ![h] = Down]
        /\ pend' = [pend EXCEPT ![h] = <<>>]
        /\ stray' = [stray EXCEPT ![h] = "no"]
        /\ UNCHANGED dsk

TrimArrives(b) ==
    /\ inflight' = inflight \ {b}
    /\ UNCHANGED <<hs, dsk, pend, back, stray>>

\* a poll finds what the journal has beyond the head of the mount and replays it: what the
\* writer committed, and at the writer what landed and was reported failed
pfs_poll(h) ==
    /\ Up(h) /\ pend[h] # <<>>
    /\ hs' = [hs EXCEPT ![h] = pfs_txlist_replay(@, pend[h])]
    /\ pend' = [pend EXCEPT ![h] = <<>>]
    /\ back' = IF h \in Following THEN back ELSE NoBack
    /\ UNCHANGED <<dsk, stray, inflight>>

\* the anchor of a trim has the head that the writer knows
pfs_log_trim(h) ==
    /\ Up(h) /\ h \notin Following /\ back # NoBack
    /\ dsk' = back /\ back' = NoBack
    /\ pend' = [x \in MHosts |-> IF pend[x] = <<>> THEN <<>>
                                 ELSE SubSeq(pend[x], 1, Len(pend[x]) - 1)]
    /\ stray' = [x \in MHosts |-> IF x \in Following /\ pend[x] = <<>> THEN "ahead" ELSE stray[x]]
    /\ UNCHANGED <<hs, inflight>>

Linked(h) == {i \in Inodes : hs[h].mo[i].used = 1 /\ hs[h].mo[i].nlink = 1}

pfs_file_creat(h) ==
    /\ App(h)
    /\ \E r \in CreateFile(hs[h]) : pfs_tx_submit(h, r, "api")
pfs_file_unlink(h) ==
    /\ App(h)
    /\ \E i \in Linked(h) : \E r \in Unlink(hs[h], i) : pfs_tx_submit(h, r, "api")
pfs_file_allocate(h) ==
    /\ App(h)
    /\ \E i \in Linked(h), n \in {1, 2} :
          \E r \in Allocate(hs[h], i, n) : pfs_tx_submit(h, r, "api")
pfs_file_truncate(h) ==
    /\ App(h)
    /\ \E i \in Linked(h), n \in {0, 1} :
          /\ Len(Chain(hs[h].mo, i)) > n
          /\ \E r \in Truncate(hs[h], i, n) : pfs_tx_submit(h, r, "api")
\* at mount, and when the last user closes an unlinked file
ReleaseOrphans(h) ==
    /\ App(h) /\ Orphans(hs[h].mo) # {}
    /\ \E r \in pfs_orphans_reclaim(hs[h]) : pfs_tx_submit(h, r, "api")

\* blocks found in progress come first, after a pause
pfs_bd_select(h) ==
    /\ App(h) /\ hs[h].stage = "idle"
    /\ \/ /\ hs[h].inp # {}
          /\ hs' = [hs EXCEPT ![h].bdroot = hs[h].inp, ![h].inp = {},
                              ![h].stage = "selected", ![h].backoff = TRUE]
       \/ /\ hs[h].inp = {}
          /\ \E bs \in SUBSET hs[h].ready :
                /\ Cardinality(bs) = Min({NInp, Cardinality(hs[h].ready)}) /\ bs # {}
                /\ hs' = [hs EXCEPT ![h].bdroot = bs, ![h].ready = @ \ bs,
                                    ![h].stage = "selected", ![h].backoff = FALSE]
    /\ UNCHANGED <<dsk, pend, back, stray, inflight>>

\* chunk by chunk, the trees are left alone
pfs_mount_fstrim(h) ==
    LET bs == {b \in Blocks : /\ ChunkOf[b] = hs[h].chunk /\ hs[h].mo[b].used = 0
                              /\ hs[h].kind = "all" \/ hs[h].mo[b].dstatus # NONE}
    IN  /\ Up(h) /\ Tool(hs[h]) /\ hs[h].stage = "idle"
        /\ hs[h].chunk \in {ChunkOf[b] : b \in Blocks}
        /\ hs' = [hs EXCEPT ![h].bdroot = bs, ![h].chunk = @ + 1,
                            ![h].stage = IF bs = {} THEN "idle" ELSE "selected"]
        /\ UNCHANGED <<dsk, pend, back, stray, inflight>>

MarkInp(h) ==
    /\ Up(h) /\ hs[h].stage = "selected"
    /\ PeriodCovers /\ hs[h].backoff => inflight \cap hs[h].bdroot = {}
    /\ \E r \in pfs_bd_mark_inp(hs[h]) : pfs_tx_submit(h, r, "mark")

pfs_bd_execute(h) ==
    /\ Up(h) /\ hs[h].stage = "trim" /\ hs[h].todo # {}
    /\ \/ hs' = [hs EXCEPT ![h].todo = @ \ {Min(@)}]
       \/ /\ "trim" \in Faults
          /\ hs' = [hs EXCEPT ![h] = [pfs_bd_reset(@, FALSE) EXCEPT !.failed = TRUE]]
    /\ UNCHANGED <<dsk, pend, back, stray, inflight>>

MarkDone(h) ==
    /\ Up(h) /\ hs[h].stage = "trim" /\ hs[h].todo = {}
    /\ \E r \in pfs_bd_mark_done(hs[h]) : pfs_tx_submit(h, r, "done")

MInit ==
    /\ hs = [h \in MHosts |-> Down]
    /\ dsk = [o \in MObjs |-> IF o \in Blocks THEN FreeTag ELSE FreeInode]
    /\ pend = [h \in MHosts |-> <<>>]
    /\ back = NoBack
    /\ stray = [h \in MHosts |-> "no"]
    /\ inflight = {}

MNext ==
    /\ back # Torn
    /\ \/ \E b \in inflight : TrimArrives(b)
       \/ \E h \in MHosts :
           \/ \E kind \in {"ro", "rw", "trim", "all"} : Mount(h, kind)
           \/ Stop(h) \/ pfs_poll(h) \/ pfs_log_trim(h)
           \/ pfs_file_creat(h) \/ pfs_file_unlink(h) \/ pfs_file_allocate(h)
           \/ pfs_file_truncate(h) \/ ReleaseOrphans(h)
           \/ pfs_bd_select(h) \/ pfs_mount_fstrim(h)
           \/ MarkInp(h) \/ pfs_bd_execute(h) \/ MarkDone(h)

MSpec == MInit /\ [][MNext]_mvars

(***************************************************************************)
(* Properties.                                                              *)
(***************************************************************************)
\* No assertion of the allocator, the lists or the discard marks fails
\* (PFS_ASSERT in pfs_metaobj_init/fini, alloc_blktag, free_blktag, mark_inp).
MAssertsHold == \A h \in MHosts : Up(h) => ~hs[h].bad

\* After every commit, rollback and replay the counts of the allocation nodes
\* and the bitmap agree with the cached objects (what pfs_anode_check asserts).
CountsMatch ==
    \A h \in MHosts : Up(h) =>
        /\ \A o \in MObjs : o \in hs[h].free <=> hs[h].mo[o].used = 0
        /\ \A k \in DOMAIN Leaves :
              /\ \A l \in Leaves[k] :
                    hs[h].nfree[l] = Cardinality({o \in Under[l] : hs[h].mo[o].used = 0})
              /\ hs[h].nfree[Root(k)] =
                    Cardinality({o \in MObjs : Kind(o) = k /\ hs[h].mo[o].used = 0})

\* Every used block is in the list of exactly the inode it names, lists are
\* doubly linked from head to tail, and in_nblock is their length.
ListsWellFormed ==
    \A i \in Inodes :
        LET c == Chain(dsk, i)
        IN  /\ {c[k] : k \in 1..Len(c)} = {b \in Blocks : dsk[b].used = 1 /\ dsk[b].ino = i}
            /\ dsk[i].nblock = Len(c)
            /\ dsk[i].tail = IF c = <<>> THEN 0 ELSE c[Len(c)]
            /\ \A k \in 1..Len(c) : dsk[c[k]].prev = IF k = 1 THEN 0 ELSE c[k - 1]

\* A mount that replays what it lags behind has the metadata that a new mount
\* would load: a follower whatever commits failed meanwhile, the writer also
\* after a commit that landed and was rolled back in its cache. The exception
\* are followers that replayed a transaction the writer then wrote over or took
\* back, and the writer itself is never one of them.
CachesConverge ==
    /\ \A h \in MHosts : stray[h] # "no" => h \in Following
    /\ \A h \in MHosts : Up(h) /\ stray[h] = "no" =>
        LET done[k \in 0..Len(pend[h])] ==
                IF k = 0 THEN hs[h].mo ELSE pend[h][k] @@ done[k - 1]
        IN  done[Len(pend[h])] = dsk

\* No block is trimmed that a file owns, neither by a mount nor late, by the
\* command of a host that crashed: the device loses its data.
TrimsUnused ==
    \A b \in inflight \cup UNION {hs[h].todo : h \in {x \in MHosts : Up(x)}} : dsk[b].used = 0

\* The discard trees hold free blocks of their status, and no free block that
\* waits for a discard is forgotten while the mount lives; only a failed trim
\* leaves blocks in progress that nothing retries before the next mount.
NoneForgotten ==
    \A h \in MHosts : Up(h) =>
        LET s == hs[h]
            tagged(st) == {b \in Blocks : s.mo[b].used = 0 /\ s.mo[b].dstatus = st}
        IN  /\ s.ready \subseteq tagged(READY) /\ tagged(READY) \subseteq s.ready \cup s.bdroot
            /\ s.inp \subseteq tagged(INP)
            /\ s.failed \/ tagged(INP) \subseteq s.inp \cup s.bdroot
=============================================================================
