----------------------------- MODULE MCMounts -----------------------------
(***************************************************************************)
(* Mounts and who uses them: the journal through mounts, promotions and     *)
(* demotions of two hosts (Journal), the log thread of a mount (LogThread), *)
(* the mount table of a process (MountTable), the sessions of client        *)
(* processes with the daemon (MountSession), and three structures of a      *)
(* mount: its name cache (NameCache), the allocation nodes of two chunks    *)
(* (Metadata) and its trees (Avl). TLC explores one of them at a time:      *)
(* "part" says which; the variables of the others are Off, or stay as they  *)
(* are in an initial state.                                                 *)
(***************************************************************************)
EXTENDS Journal, MountTable, TLC

CONSTANTS ManyEpoch,                                                       \* MountTable
          Clients, Plans, LogRoom, MaxLag, Faults,                         \* LogThread
          MoreProcs, MaxMounts, MaxCtl,                                    \* MountSession
          Items, MaxBuckets, NcMax, MaxBucketLen,                          \* NameCache
          MHosts, Blocks, Inodes, NInp, MaxPend, MetaFaults, PeriodCovers, \* Metadata
          Keys                                                             \* Avl

VARIABLES part, lt, reqhead, work, thr, meta, inside, plan, lmnt, used, lag, nlag,
          cl, flk, inbox, ctx, table, mt, mkfs,
          nch, expand_info, nc_lru, nc_max, nc_mounted, hs, dsk, pend, back, stray, inflight,
          avl, members

Log == INSTANCE LogThread WITH mnt <- lmnt
\* two processes; and three that make no later requests
Session == INSTANCE MountSession WITH Procs <- Clients
Sessions == INSTANCE MountSession WITH Procs <- MoreProcs, MaxCtl <- 0
\* Item 4 belongs to another mount; in a table of two buckets the items of odd and of
\* even number collide, under either hash.
ItemMount == [e \in Items |-> IF e = 4 THEN "m2" ELSE "m1"]
ItemName == [e \in Items |-> e]
ItemDeno == [e \in Items |-> (e * 3) % 4]
Cache == INSTANCE NameCache WITH MountOf <- ItemMount, NameHash <- ItemName, DenoHash <- ItemDeno
\* Block 3 lies in the second chunk.
TwoChunks == [o \in Blocks \union Inodes |-> IF o = 3 THEN 1 ELSE 0]
Meta == INSTANCE Metadata WITH ChunkOf <- TwoChunks, Faults <- MetaFaults
Tree == INSTANCE Avl

logvars == <<lt, reqhead, work, thr, meta, inside, plan, lmnt, used, lag, nlag>>
sessionvars == <<cl, flk, inbox, ctx, table, mt, mkfs>>
cachevars == <<nch, expand_info, nc_lru, nc_max, nc_mounted>>
metavars == <<hs, dsk, pend, back, stray, inflight>>
treevars == <<avl, members>>

Off == "off"
NoJournal == /\ leader = Off /\ logf = Off /\ super = Off /\ holder = Off /\ mnt = Off
             /\ hist = Off /\ stamp = Off
NoTable == MtInit /\ ~mount_mutex
NoLog == /\ lt = Off /\ reqhead = Off /\ work = Off /\ thr = Off /\ meta = Off /\ inside = Off
         /\ plan = Off /\ lmnt = Off /\ used = Off /\ lag = Off /\ nlag = Off
NoSession == /\ cl = Off /\ flk = Off /\ inbox = Off /\ ctx = Off /\ table = Off /\ mt = Off
             /\ mkfs = Off
NoCache == nch = Off /\ expand_info = Off /\ nc_lru = Off /\ nc_max = Off /\ nc_mounted = Off
NoMeta == /\ hs = Off /\ dsk = Off /\ pend = Off
          /\ back = Off /\ stray = Off /\ inflight = Off
NoTree == avl = Off /\ members = Off

MountsInit ==
    /\ part \in {"journal", "table", "log", "session", "sessions", "cache", "chunks", "tree"}
    /\ IF part = "journal" THEN Init ELSE NoJournal
    /\ IF part = "table" THEN MtInit ELSE NoTable
    /\ IF part = "log" THEN Log!Init ELSE NoLog
    /\ CASE part = "session" -> Session!Init [] part = "sessions" -> Sessions!Init
         [] OTHER -> NoSession
    /\ IF part = "cache" THEN Cache!NcInit ELSE NoCache
    /\ IF part = "chunks" THEN Meta!MInit ELSE NoMeta
    /\ IF part = "tree" THEN Tree!AInit ELSE NoTree

\* MountTable: an entry is mounted again only where there is one device.
OneDevice == /\ \A a \in Addrs : mobj'[a].name \in {"", "p"}
             /\ \A t \in Callers : mthr'[t].name \in {"", "p"}
FewMounts == OneDevice \/ \A i \in Entry : mount_entry'[i].epoch < ManyEpoch

\* nobody need mount or call again: the sessions and the metadata may rest
MountsNext ==
    \/ part = "journal" /\ Next
       /\ UNCHANGED <<part, mtvars, logvars, sessionvars, cachevars, metavars, treevars>>
    \/ part = "table" /\ MtNext /\ FewMounts
       /\ UNCHANGED <<part, vars, logvars, sessionvars, cachevars, metavars, treevars>>
    \/ part = "log" /\ Log!Next
       /\ UNCHANGED <<part, vars, mtvars, sessionvars, cachevars, metavars, treevars>>
    \/ part = "session" /\ (Session!Next \/ UNCHANGED sessionvars)
       /\ UNCHANGED <<part, vars, mtvars, logvars, cachevars, metavars, treevars>>
    \/ part = "sessions" /\ (Sessions!Next \/ UNCHANGED sessionvars)
       /\ UNCHANGED <<part, vars, mtvars, logvars, cachevars, metavars, treevars>>
    \/ part = "cache" /\ Cache!NcNext
       /\ UNCHANGED <<part, vars, mtvars, logvars, sessionvars, metavars, treevars>>
    \/ part = "chunks" /\ (Meta!MNext \/ UNCHANGED metavars)
       /\ UNCHANGED <<part, vars, mtvars, logvars, sessionvars, cachevars, treevars>>
    \/ part = "tree" /\ Tree!ANext
       /\ UNCHANGED <<part, vars, mtvars, logvars, sessionvars, cachevars, metavars>>
MountsSpec ==
    /\ MountsInit
    /\ [][MountsNext]_<<part, vars, mtvars, logvars, sessionvars, cachevars, metavars, treevars>>

Symmetry == Permutations(Clients)

\* Journal: the journal can be replayed to the last committed transaction, and the anchor
\* a writer builds on is the one on the disk.
RemountSound == part = "journal" => Recoverable /\ AnchorKnown

\* LogThread: its inductive invariant holds, at most one write transaction is with the log
\* thread, the assertions of its handlers hold, and nothing is queued when it stops.
LogSound ==
    part = "log" => Log!LogInv /\ Log!OneWriter /\ Log!HandlerAsserts /\ Log!StopClean

\* MountSession: the reference counts of a mount are the sessions that hold them, the mount
\* is as they ask, it uses the host id of a live session, a session that is up was accepted
\* by the daemon, and a client uses a buffer only while the daemon has it.
SessionsSound ==
    /\ part = "session" =>
          /\ Session!RefsMatchSessions /\ Session!MountFollowsRefs /\ Session!HostIsLive
          /\ Session!MountAccepted /\ Session!BufferAsTold
    /\ part = "sessions" =>
          /\ Sessions!RefsMatchSessions /\ Sessions!MountFollowsRefs /\ Sessions!HostIsLive
          /\ Sessions!MountAccepted /\ Sessions!BufferAsTold

\* NameCache: what was entered is found through either hash while the tables grow, and what
\* was cleared with its mount is gone.
NameCacheSound == part = "cache" => Cache!EveryEntryFound /\ Cache!ClearedIsGone

\* Metadata where pfs_anode_alloc chooses between chunks: no MNT_ASSERT fails, the counts of
\* free objects match the objects in every chunk and above, the block lists are well
\* formed, and no freed block is forgotten.
ChunksAgree == part = "chunks" => Meta!MAssertsHold /\ Meta!CountsMatch /\ Meta!ListsWellFormed
                                  /\ Meta!NoneForgotten

\* Avl: the tree is balanced, parents and children agree, and it holds the keys added and
\* not removed, in order.
TreesSound == part = "tree" => Tree!Balanced /\ Tree!LinksAgree /\ Tree!IsTheSet
=============================================================================
