----------------------------- MODULE InodeCache -----------------------------
(***************************************************************************)
(* The inode cache of one mount (pfs_core/pfs_mount.cc, pfs_inode.cc) and  *)
(* the request handlers of pfsd that use it (pfsd/pfsd_worker.cc,          *)
(* pfsd_api.cc).                                                           *)
(*                                                                         *)
(* An inode object in memory is an address; `node' is the heap, `tree' the *)
(* AVL tree from inode numbers to addresses, `lru' one list for each       *)
(* shard.  A directory's index holds a counted reference (e_in) to every   *)
(* subdirectory, so getting, putting, loading and destroying inodes call   *)
(* one another: a thread is a call stack, its first frame the function     *)
(* that runs.  Each action is one section under the tree lock or one step  *)
(* that touches only objects of the thread.                                *)
(***************************************************************************)
EXTENDS Integers, FiniteSets, Sequences, SequencesExt

CONSTANTS Threads,      \* worker threads of pfsd
          Inos,         \* inode numbers; Root is one of them
          Root,
          Subdirs,      \* ino -> the subdirectories its directory holds
          Shards,       \* number of lists (mnt_num_shards)
          LruSize,      \* inodetree_lru_size
          MaxObjs       \* bound: inode objects that exist at a time

VARIABLES node,    \* address -> the object's fields; ref = -99 when free
          tree,    \* ino -> address, 0 when the inode is not cached
          lru,     \* shard -> sequence of addresses
          wr,      \* thread that holds the tree lock as writer, or "none"
          up,      \* is the mount's entry initialised?
          mref,    \* read locks on the mount entry
          overput, \* history: an object a failed open has put twice, or 0
          stack    \* thread -> sequence of frames

cvars == <<node, tree, lru, wr, up, mref, overput, stack>>

Addrs == 1..MaxObjs
Freed == [ino |-> Root, ref |-> -99, idx |-> {}, stale |-> TRUE, lock |-> "none"]
Shard(i) == i % Shards
Live(a) == node[a] # Freed
Cached == {i \in Inos : tree[i] # 0}

(***************************************************************************)
(* The handlers.  `get' is how the handler comes by its inode, `rounds'    *)
(* the number of sections under the inode lock that it runs in order, and  *)
(* `loop' whether a section is repeated with the inode still held: on      *)
(* EAGAIN, or while a truncation has not reached its length.  The other    *)
(* handlers answer EAGAIN by starting over.                                *)
(***************************************************************************)
Shape(g, n, l) == [get |-> g, rounds |-> n, loop |-> l]

\* the sections of the functions of pfsd_api.cc that lock the inode
pfsd_file_open_impl == 1
pfsd_file_xftruncate == 1
pread_section == 1
pfsd_file_xfallocate == 1
pfsd_file_xpwrite == 2            \* the write, then pfs_inode_writemodify_commit
pwrite_sections == pfsd_file_xfallocate + pfsd_file_xpwrite
pfsd_file_xstat == 1
pfsd_file_xlseek == 1
pfsd_file_fsync == 0
chdir_section == 1
pfsd_dir_open == 1

\* O_TRUNC goes on with a truncation to 0
open_sections(trunc) == pfsd_file_open_impl + (IF trunc THEN pfsd_file_xftruncate ELSE 0)
stat_sections == pfsd_file_open_impl + pfsd_file_xstat

pfsd_pread_svr == Shape("load", pread_section, TRUE)
pfsd_pwrite_svr == Shape("load", pwrite_sections, TRUE)
pfsd_ftruncate_svr == Shape("load", pfsd_file_xftruncate, TRUE)
pfsd_fstat_svr == Shape("load", pfsd_file_xstat, TRUE)
pfsd_fallocate_svr == Shape("load", pfsd_file_xfallocate, TRUE)
pfsd_lseek_end_svr == Shape("load", pfsd_file_xlseek, TRUE)
pfsd_fsync_svr == Shape("load", pfsd_file_fsync, FALSE)
pfsd_open_svr(trunc) == Shape("open", open_sections(trunc), trunc)
pfsd_creat_svr == pfsd_open_svr(FALSE)
pfsd_truncate_svr == Shape("open", pfsd_file_open_impl + pfsd_file_xftruncate, TRUE)
pfsd_stat_svr == Shape("open", stat_sections, FALSE)
pfsd_chdir_svr == Shape("path", chdir_section, FALSE)
pfsd_opendir_svr == Shape("path", pfsd_dir_open, FALSE)
pfsd_readdir_svr == Shape("mount", 0, FALSE)

pfsd_worker_handle_read == {pfsd_pread_svr}
pfsd_worker_handle_write == {pfsd_pwrite_svr}
pfsd_worker_handle_ftruncate == {pfsd_ftruncate_svr}
pfsd_worker_handle_fstat == {pfsd_fstat_svr}
pfsd_worker_handle_fallocate == {pfsd_fallocate_svr}
pfsd_worker_handle_lseek == {pfsd_lseek_end_svr}
pfsd_worker_handle_fsync == {pfsd_fsync_svr}
pfsd_worker_handle_open == {pfsd_open_svr(TRUE), pfsd_open_svr(FALSE), pfsd_creat_svr}
pfsd_worker_handle_truncate == {pfsd_truncate_svr}
pfsd_worker_handle_stat == {pfsd_stat_svr}
pfsd_worker_handle_chdir == {pfsd_chdir_svr}
pfsd_worker_handle_opendir == {pfsd_opendir_svr}
pfsd_worker_handle_readdir == {pfsd_readdir_svr}
pfs_inode_invalidate == {Shape("cached", 0, FALSE)}    \* from a rollback or a redo

Handlers == UNION {pfsd_worker_handle_read, pfsd_worker_handle_write,
             pfsd_worker_handle_ftruncate, pfsd_worker_handle_fstat,
             pfsd_worker_handle_fallocate, pfsd_worker_handle_lseek,
             pfsd_worker_handle_fsync, pfsd_worker_handle_open,
             pfsd_worker_handle_truncate, pfsd_worker_handle_stat,
             pfsd_worker_handle_chdir, pfsd_worker_handle_opendir,
             pfsd_worker_handle_readdir, pfs_inode_invalidate}

-----------------------------------------------------------------------------
(* Frames and the stack. *)
(* a is the object the function works on, r what its last callee returned. *)
Frame(fn, pc, i, a) == [fn |-> fn, pc |-> pc, ino |-> i, a |-> a, r |-> 0,
                        left |-> 0, load |-> FALSE, open |-> FALSE,
                        loop |-> FALSE]
Top(t) == Head(stack[t])
At(t, fn, pc) == stack[t] # <<>> /\ Top(t).fn = fn /\ Top(t).pc = pc
Goto(t, f) == stack' = [stack EXCEPT ![t] = <<f>> \o Tail(@)]
Call(t, f, callee) == stack' = [stack EXCEPT ![t] = <<callee, f>> \o Tail(@)]
Pop(t) == stack' = [stack EXCEPT ![t] = Tail(@)]
\* return the address a to the caller
PopWith(t, a) ==
    stack' = [stack EXCEPT ![t] =
      <<IF @[2].fn = "call" THEN [@[2] EXCEPT !.a = a] ELSE [@[2] EXCEPT !.r = a]>> \o Tail(Tail(@))]
Get(i, load) == [Frame("get", "find", i, 0) EXCEPT !.load = load]
Put(a) == Frame("put", "dec", Root, a)

(* The shard lists. *)
ToTail(l, a) == Append(Remove(l, a), a)
ToHead(l, a) == <<a>> \o Remove(l, a)
NoWriter == wr = "none"

PutRef_NoMove(a) ==
    /\ node' = [node EXCEPT ![a].ref = @ - 1]
    /\ lru' = lru
PutRef_Twice(a) ==
    /\ node' = [node EXCEPT ![a].ref = @ - 1]
    /\ lru' = [lru EXCEPT ![Shard(node[a].ino)] =
                 IF node[a].ref = 1 THEN <<a>> \o @ ELSE @]
GetRef_First(a) ==
    /\ node' = [node EXCEPT ![a].ref = IF @ = 0 THEN 1 ELSE @]
    /\ lru' = [lru EXCEPT ![Shard(node[a].ino)] =
                 IF node[a].ref = 0 THEN ToTail(@, a) ELSE @]

\* ++in_refcnt; an inode used again moves to the tail
GetRef(a) ==
    /\ node' = [node EXCEPT ![a].ref = @ + 1]
    /\ lru' = [lru EXCEPT ![Shard(node[a].ino)] =
                 IF node[a].ref = 0 THEN ToTail(@, a) ELSE @]

\* --in_refcnt; an inode no longer used moves to the head
PutRef(a) ==
    /\ node' = [node EXCEPT ![a].ref = @ - 1]
    /\ lru' = [lru EXCEPT ![Shard(node[a].ino)] =
                 IF node[a].ref = 1 THEN ToHead(@, a) ELSE @]

-----------------------------------------------------------------------------
(* pfs_inode_get_flags: find the inode, or create, load and add it and     *)
(* look again.                                                             *)
Created(i) == [Freed EXCEPT !.ino = i, !.ref = 0]

GetFound(t) ==
    LET f == Top(t) IN
    /\ At(t, "get", "find") /\ NoWriter /\ tree[f.ino] # 0
    /\ GetRef(tree[f.ino])
    /\ PopWith(t, tree[f.ino])
    /\ UNCHANGED <<tree, wr, up, mref, overput>>

GetCreate(t) ==
    LET f == Top(t) IN
    /\ At(t, "get", "find") /\ NoWriter /\ tree[f.ino] = 0
    /\ \E a \in Addrs :
         /\ ~Live(a) /\ \A b \in 1..(a - 1) : Live(b)
         /\ node' = [node EXCEPT ![a] = Created(f.ino)]
         /\ LET g == [f EXCEPT !.pc = "add", !.a = a] IN
            IF f.load THEN Call(t, g, Frame("load", "kids", f.ino, a))
                      ELSE Goto(t, g)
    /\ UNCHANGED <<tree, lru, wr, up, mref, overput>>

AddLost_Leak(t, f) ==
    /\ Goto(t, [f EXCEPT !.pc = "find", !.a = 0])
    /\ UNCHANGED <<tree, lru>>

\* another thread added the inode first: ours is destroyed
AddLost(t, f) ==
    /\ Call(t, [f EXCEPT !.pc = "find", !.a = 0], Frame("destroy", "kids", f.ino, f.a))
    /\ UNCHANGED <<tree, lru>>

pfs_add_inode(t) ==
    LET f == Top(t) IN
    /\ At(t, "get", "add") /\ NoWriter
    /\ IF tree[f.ino] = 0
         THEN /\ tree' = [tree EXCEPT ![f.ino] = f.a]
              /\ lru' = [lru EXCEPT ![Shard(f.ino)] = Append(@, f.a)]
              /\ Goto(t, [f EXCEPT !.pc = "find", !.a = 0])
         ELSE AddLost(t, f)
    /\ UNCHANGED <<node, wr, up, mref, overput>>

(* pfs_inode_load: build the index, with a reference to each subdirectory. *)
IndexedInos(a) == {node[b].ino : b \in node[a].idx}

pfs_inode_load(t) ==
    LET f == Top(t)
        kids == Subdirs[f.ino] \ IndexedInos(f.a) IN
    /\ At(t, "load", "kids")
    /\ IF kids # {}
         THEN /\ Call(t, [f EXCEPT !.pc = "add"],
                      Get(CHOOSE k \in kids : \A j \in kids : k <= j, FALSE))
              /\ node' = node
         ELSE /\ node' = [node EXCEPT ![f.a].stale = FALSE]
              /\ Pop(t)
    /\ UNCHANGED <<tree, lru, wr, up, mref, overput>>

\* pfs_inode_dx_add: the index entry keeps the reference the get returned
pfs_inode_dx_add(t) ==
    LET f == Top(t) IN
    /\ At(t, "load", "add")
    /\ node' = [node EXCEPT ![f.a].idx = @ \cup {f.r}]
    /\ Goto(t, [f EXCEPT !.pc = "kids", !.r = 0])
    /\ UNCHANGED <<tree, lru, wr, up, mref, overput>>

(* pfs_inode_destroy_index: put every subdirectory, then what follows.     *)
IndexEmpty(t, f) ==
    IF f.fn = "reload"
      THEN /\ Goto(t, Frame("load", "kids", f.ino, f.a))
           /\ node' = node
      ELSE /\ node' = [node EXCEPT ![f.a] = Freed]
           /\ Pop(t)

pfs_inode_destroy_index(t) ==
    LET f == Top(t) IN
    /\ At(t, "destroy", "kids") \/ At(t, "reload", "kids")
    /\ IF node[f.a].idx = {}
         THEN IndexEmpty(t, f)
         ELSE LET c == CHOOSE x \in node[f.a].idx : TRUE IN
              /\ node' = [node EXCEPT ![f.a].idx = @ \ {c}]
              /\ Call(t, f, Put(c))
    /\ UNCHANGED <<tree, lru, wr, up, mref, overput>>

-----------------------------------------------------------------------------
(* pfs_put_inode. *)
OverLimit == Cardinality(Cached) > LruSize

PutDec(t) ==
    LET f == Top(t) IN
    /\ At(t, "put", "dec") /\ NoWriter
    /\ PutRef(f.a)
    /\ IF OverLimit THEN Goto(t, [f EXCEPT !.pc = "lock"]) ELSE Pop(t)
    /\ overput' = IF f.open THEN f.a ELSE overput
    /\ UNCHANGED <<tree, wr, up, mref>>

\* the number of nodes is not read again under the write lock
EvictLock(t) ==
    /\ At(t, "put", "lock") /\ NoWriter
    /\ wr' = t
    /\ Goto(t, [Top(t) EXCEPT !.pc = "evict"])
    /\ UNCHANGED <<node, tree, lru, up, mref, overput>>

Candidate_Any(s) == IF lru[s] = <<>> THEN 0 ELSE Head(lru[s])

\* the first of the shard's list, if nobody uses it
Candidate(s) ==
    IF lru[s] # <<>> /\ node[Head(lru[s])].ref = 0 THEN Head(lru[s]) ELSE 0

EvictShard(t) ==
    LET f == Top(t)
        a == Candidate(f.left)
        g == [f EXCEPT !.left = @ + 1] IN
    /\ At(t, "put", "evict") /\ f.left < Shards
    /\ IF a = 0
         THEN Goto(t, g) /\ UNCHANGED <<tree, lru>>
         ELSE /\ tree' = [tree EXCEPT ![node[a].ino] = 0]
              /\ lru' = [lru EXCEPT ![f.left] = Tail(@)]
              /\ Call(t, g, Frame("destroy", "kids", node[a].ino, a))
    /\ UNCHANGED <<node, wr, up, mref, overput>>

EvictUnlock(t) ==
    /\ At(t, "put", "evict") /\ Top(t).left = Shards
    /\ wr' = "none"
    /\ Pop(t)
    /\ UNCHANGED <<node, tree, lru, up, mref, overput>>

-----------------------------------------------------------------------------
(* The request handlers. *)
\* PFSD_GET_MOUNT (a handler that finds no mount answers ENODEV), then
\* pfs_inode_get_and_load for the handlers that name an inode and
\* pfs_inode_get for those that walked a path
Entered(h, i) ==
    LET f == [Frame("call", "lock", i, 0) EXCEPT !.left = h.rounds, !.loop = h.loop,
                                            !.open = h.get = "open"] IN
    CASE h.get = "mount" -> <<Frame("call", "unmount", Root, 0)>>
      [] h.get = "cached" -> <<[f EXCEPT !.pc = "peek"]>>
      [] OTHER -> <<Get(i, h.get = "load"), f>>

Handle(t) ==
    /\ stack[t] = <<>> /\ up
    /\ mref' = mref + 1
    /\ \E h \in Handlers, i \in Inos : stack' = [stack EXCEPT ![t] = Entered(h, i)]
    /\ UNCHANGED <<node, tree, lru, wr, up, overput>>

\* a section under the inode lock begins with pfs_inode_sync_first, which
\* reloads a stale inode
Section(t) ==
    LET f == Top(t) IN
    /\ At(t, "call", "lock") /\ f.left > 0
    /\ node[f.a].lock = "none"
    /\ node' = [node EXCEPT ![f.a].lock = t]
    /\ IF node[f.a].stale
         THEN Call(t, [f EXCEPT !.pc = "body"], Frame("reload", "kids", f.ino, f.a))
         ELSE Goto(t, [f EXCEPT !.pc = "body"])
    /\ UNCHANGED <<tree, lru, wr, up, mref, overput>>

\* the section is repeated, the call fails, or it goes on; a failed sync in
\* pfsd_file_open_impl leaves `open' set
Outcomes(f) ==
    {[f EXCEPT !.pc = "lock", !.left = 0, !.loop = FALSE],
     [f EXCEPT !.pc = "lock", !.left = @ - 1, !.open = FALSE, !.loop = @ /\ f.left > 1]}
    \cup (IF f.loop /\ ~f.open THEN {[f EXCEPT !.pc = "lock"]} ELSE {})

Body(t) ==
    LET f == Top(t) IN
    /\ At(t, "call", "body")
    /\ node' = [node EXCEPT ![f.a].lock = "none"]
    /\ \E g \in Outcomes(f) : Goto(t, g)
    /\ UNCHANGED <<tree, lru, wr, up, mref, overput>>

\* pfsd_file_open_impl puts the inode when its sync fails and still returns
\* it, and the caller puts it again
Puts(f) == IF f.open THEN <<Put(f.a), [Put(f.a) EXCEPT !.open = TRUE]>> ELSE <<Put(f.a)>>

PutInode(t) ==
    LET f == Top(t) IN
    /\ At(t, "call", "lock") /\ f.left = 0
    /\ stack' = [stack EXCEPT ![t] =
         Puts(f) \o <<Frame("call", "unmount", Root, 0)>>]
    /\ UNCHANGED <<node, tree, lru, wr, up, mref, overput>>

\* pfs_inode_invalidate: only an inode in the cache is marked
Invalidate(t) ==
    LET f == Top(t) a == tree[f.ino] IN
    /\ At(t, "call", "peek") /\ NoWriter
    /\ IF a = 0
         THEN Goto(t, Frame("call", "unmount", Root, 0)) /\ UNCHANGED <<node, lru>>
         ELSE GetRef(a) /\ Goto(t, [f EXCEPT !.pc = "mark", !.a = a])
    /\ UNCHANGED <<tree, wr, up, mref, overput>>

MarkStale(t) ==
    LET f == Top(t) IN
    /\ At(t, "call", "mark")
    /\ node' = [node EXCEPT ![f.a].stale = TRUE]
    /\ Goto(t, [f EXCEPT !.pc = "lock"])
    /\ UNCHANGED <<tree, lru, wr, up, mref, overput>>

PutMount(t) ==
    /\ At(t, "call", "unmount")
    /\ mref' = mref - 1
    /\ Pop(t)
    /\ UNCHANGED <<node, tree, lru, wr, up, overput>>

-----------------------------------------------------------------------------
(* Mounting takes the root directory's inode (pfs_memdir_load); unmounting *)
(* waits for the read locks on the entry and destroys what is cached.      *)
RootAddr == 1
RootNode == [Created(Root) EXCEPT !.ref = 1]

Mount ==
    /\ ~up
    /\ up' = TRUE
    /\ node' = [node EXCEPT ![RootAddr] = RootNode]
    /\ tree' = [tree EXCEPT ![Root] = RootAddr]
    /\ lru' = [lru EXCEPT ![Shard(Root)] = <<RootAddr>>]
    /\ UNCHANGED <<wr, mref, overput, stack>>

\* pfs_inode_destroy_self does not follow the references of an index
DestroyAll == node' = [a \in Addrs |-> IF Live(a) /\ tree[node[a].ino] = a
                                         THEN Freed ELSE node[a]]

Umount ==
    /\ up /\ mref = 0
    /\ up' = FALSE
    /\ DestroyAll
    /\ tree' = [i \in Inos |-> 0]
    /\ lru' = [s \in 0..(Shards - 1) |-> <<>>]
    /\ UNCHANGED <<wr, mref, overput, stack>>

Init ==
    /\ node = [a \in Addrs |-> IF a = RootAddr THEN RootNode ELSE Freed]
    /\ tree = [i \in Inos |-> IF i = Root THEN RootAddr ELSE 0]
    /\ lru = [s \in 0..(Shards - 1) |-> IF s = Shard(Root) THEN <<RootAddr>> ELSE <<>>]
    /\ wr = "none" /\ up = TRUE /\ mref = 0 /\ overput = 0
    /\ stack = [t \in Threads |-> <<>>]

Step(t) ==
    \/ GetFound(t) \/ GetCreate(t) \/ pfs_add_inode(t)
    \/ pfs_inode_load(t) \/ pfs_inode_dx_add(t) \/ pfs_inode_destroy_index(t)
    \/ PutDec(t) \/ EvictLock(t) \/ EvictShard(t) \/ EvictUnlock(t)
    \/ Section(t) \/ Body(t)
    \/ PutInode(t) \/ Invalidate(t) \/ MarkStale(t) \/ PutMount(t)

Next == (\E t \in Threads : Handle(t) \/ Step(t)) \/ Mount \/ Umount

Spec == Init /\ [][Next]_cvars

-----------------------------------------------------------------------------
(* Properties. *)
Frames(t) == {stack[t][k] : k \in 1..Len(stack[t])}

(* Every field has its type and an address is in at most one list.         *)
TypeOK ==
    /\ tree \in [Inos -> 0..MaxObjs]
    /\ wr \in Threads \cup {"none"} /\ up \in BOOLEAN /\ mref \in 0..Cardinality(Threads)
    /\ \A s \in 0..(Shards - 1) : lru[s] \in Seq(Addrs) /\ IsInjective(lru[s])

\* references to a that some frame or some index owns
Owners(a) ==
    Cardinality({<<t, k>> \in Threads \X (1..8) :
                   k <= Len(stack[t]) /\
                   LET f == stack[t][k] IN
                   \/ f.fn = "call" /\ f.a = a
                   \/ f.r = a
                   \/ f.fn = "put" /\ f.pc = "dec" /\ f.a = a /\ ~f.open})
    + Cardinality({b \in Addrs : Live(b) /\ a \in node[b].idx})
    + (IF up /\ a = RootAddr THEN 1 ELSE 0)

(* An inode's in_refcnt is exactly the number of its users: the handlers   *)
(* and transactions that hold it, the directory indexes that point to it   *)
(* and, for the root, the mount.                                           *)
RefsAreOwners == \A a \in Addrs \ {overput} : Live(a) => node[a].ref = Owners(a)

(* While anybody owns a reference to an object, the object is the one the  *)
(* tree has for its inode number: it was neither evicted nor doubled, so   *)
(* two requests for one inode share its lock.                              *)
UsedIsCached ==
    \A a \in Addrs : (Owners(a) > 0) => Live(a) /\ tree[node[a].ino] = a

\* inodes some get has added and not yet taken its reference on
Landing == {Top(t).ino : t \in {u \in Threads : At(u, "get", "find")}}

(* Eviction looks only at the first inode of a shard's list.  That is      *)
(* enough: if any inode of the shard is unused, other than one that was    *)
(* just added, the first one is.                                           *)
UnusedComeFirst ==
    \A s \in 0..(Shards - 1) : \A k \in 1..Len(lru[s]) :
       LET a == lru[s][k] IN
       (node[a].ref = 0 /\ node[a].ino \notin Landing)
         => node[Head(lru[s])].ref = 0

(* pfs_inode_reload asserts in_refcnt != 0: an inode that is being loaded  *)
(* again has a user.                                                       *)
ReloadedHasUser ==
    \A t \in Threads : \A f \in Frames(t) : f.fn = "reload" => node[f.a].ref # 0

(* t waits for a thread of S: for an inode's lock or for the tree lock.     *)
Blocked(t, S) ==
    \/ At(t, "call", "lock") /\ Top(t).left > 0 /\ node[Top(t).a].lock \in S
    \/ /\ \/ At(t, "get", "find") \/ At(t, "get", "add") \/ At(t, "put", "dec")
          \/ At(t, "put", "lock") \/ At(t, "call", "peek")
       /\ wr \in S

(* Requests stop each other in one way only: an eviction that puts the     *)
(* subdirectories of the directory it destroys waits for the tree lock it  *)
(* holds itself.                                                           *)
OnlyEvictionWedges ==
    \A S \in SUBSET Threads \ {{}} : (\A t \in S : Blocked(t, S)) =>
        wr \in S /\ At(wr, "put", "dec") /\ stack[wr][2].fn = "destroy"

(* When no request is running, nothing but the cache itself is left: every *)
(* object is in the tree, and its references come from indexes.            *)
NothingLost ==
    (\A t \in Threads : stack[t] = <<>>) =>
       /\ mref = 0 /\ wr = "none"
       /\ \A a \in Addrs : Live(a) => (tree[node[a].ino] = a /\ node[a].lock = "none")
=============================================================================
