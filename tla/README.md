# A TLA+ verification of PolarFS

PolarFS is a shared-disk file system in user space. Several hosts mount one
block device; one of them may write. There is no server between them: hosts
find out about each other by reading and writing sectors of the device. On a
host, a daemon (`pfsd`) owns the mount and client processes reach it through
shared memory.

This directory holds TLA+ models of the parts where that is hard, the TLC
configurations that check them on small instances, and proofs, checked by
TLAPS, of what matters most. `PROJECT.json` maps every definition to the lines
it models; paths below are relative to `src/src/`.

## The system and its parts

| Part | Source | What is modelled | Module |
|---|---|---|---|
| RW lease | `pfs_core/pfs_paxos.cc` | acquire (check, wait, prepare, verify, write, conflict scan), renew, give back, take over after expiry, watch of unreadable sectors, kill timer | `RWLease` |
| Journal | `pfs_core/pfs_log.cc`, `pfs_paxos.cc`, `pfs_mount.cc` | commit, trim groups, trim, load, poll, replay, promotion, demotion | `Journal` |
| Log thread | `pfs_core/pfs_log.cc`, `pfs_mount.cc`, `pfs_meta.cc`, `pfs_tx.cc` | ten request types and their handlers, the API, poll, discard and admin threads that send them | `LogThread` |
| Grouped header check | `pfs_core/pfs_work_groups.h`, `pfs_log.h`, `pfs_mount.cc` | what a read on a read-only mount begins with | `ReadSync` |
| Mount table | `pfs_core/pfs_mount.cc`, `pfs_dir.cc` | mount, unmount, calls that borrow a mount, directory streams | `MountTable` |
| Sessions, mount references | `ipc/client.h`, `ipc/server.h`, `pfs_core/pfs_mount.cc`, `pfs_sdk/pfsd_sdk_mount.cc` | handshake, remount, acknowledgements and time-outs, reference counts of host ids, hand-off of the lease, death of a client, mkfs | `MountSession` |
| Transactions, metadata, allocator, discard | `pfs_core/pfs_tx.cc`, `pfs_meta.cc`, `pfs_alloc.cc`, `pfs_mount.cc` | private copies, commit, rollback, replay, tree of free counts, block lists, two-transaction discard | `Metadata` |
| File data | `pfs_core/pfs_inode.cc`, `pfs_file.cc` | size, block map and holes through write, allocate, truncate and read | `FileData` |
| Inode cache | `pfs_core/pfs_inode.cc`, `pfs_mount.cc`, `pfsd/pfsd_api.cc` | references, shards, eviction, stale inodes | `InodeCache` |
| Directories, path lookup | `pfs_core/pfs_dir.cc`, `pfs_namei.cc` | lookup without locks, checks under the lock, create, remove, rename, directory indexes | `Namespace` |
| Name cache | `pfs_core/pfs_namecache.cc` | enter, look up, delete, evict, grow | `NameCache` |
| Balanced tree | `pfs_core/pfs_avl.cc` | insert, remove, rotate, walk | `Avl` |
| File API | `pfs_core/pfs_api.cc`, `pfs_file.cc`, `pfs_tls.cc` | descriptors, open files, their locks, the shape of every call | `FileApi` |
| Device I/O | `pfs_core/pfs_blkio.cc`, `pfs_devio.cc`, `devio_disk.cc` | fragments, read-modify-write, a thread's queue, errors, completion in any order | `DevIo` |
| Reader-writer lock | `pfs_core/lib/dclcrwlock.cc` | lock, try, unlock, upgrade, downgrade | `DCLCRWLock`, `RWLock` |
| Request queues | `ipc/mpmc.h`, `ipc/eventcount.h`, `ipc/client.h`, `pfsd/pfsd_main.cc` | emplace, pop, try_pop, await, notify, handle | `RequestQueue` |
| Shared memory pools | `ipc/SharedIndexedMemPool.h`, `ipc/shm.h` | free lists with tagged heads; choice of a pool, wait for a buffer | `IndexPool`, `ShmPools` |
| Event loop, sockets | `ipc/pfs_event_loop.cc`, `ipc/pfs_unix_socket.cc`, `ipc/client.h` | queued functions, wake-ups, partial writes, termination | `EventLoop` |
| SDK | `pfs_sdk/pfsd_sdk.cc`, `pfsd_sdk_file.cc` | file table, locks of a call, its request and buffer | `SdkApi` |
| Chunks, FUSE, tools, administration, options, statistics | rest | not modelled: data layout, forwarding, printing | |

How they interact. A call of a client process goes through the **SDK**, which
takes a buffer from a **pool** and puts a request into a **queue**; a worker of
`pfsd` takes it and calls the **file API** on a mount it borrows from the
**mount table**. The API finds the inode through the **name cache**, the
**directories** and the **inode cache**, changes metadata in a **transaction**
under the metadata lock and sends it to the **log thread**, which appends it to
the **journal** and moves the leader record on the device. Only the holder of
the **lease** may do so; the log thread renews the lease, and a kill timer ends
the process when it cannot. Read-only mounts check the leader record, poll and
replay what is new. The inode tree and the daemon's buffer table are under the
**reader-writer lock**. Mounting itself runs over the **event loop** of a
**session**.

What makes it hard, and where it is listed line by line: `hazards` in
`PROJECT.json`. In short: clocks of hosts differ and records are rounded to
seconds; a write may reach the disk and still be reported failed; a host dies
between any two sector writes; sectors are read one after the other while they
change; the log wraps; handlers of the log thread run in a fixed order and
change the state the next ones were admitted for, while senders hold locks;
names are looked up without locks; locks, queues and pools are built from
single atomic operations; a client process dies in the middle of an operation
on shared memory.

## The modules

### RWLease

`sector[h]` is host h's sector: empty, a PREPARE or RW record with timestamp,
generation and ballots, or corrupt bytes. `mnt[h]` is the host's mount with the
locals of the lease code: where it is (`pc`), which sector its scan has reached
(`pos`), the clock it read for that scan, the watch of bad sectors, when its
last write was issued, and the kill deadline. `now` is real time in ticks.

One action per device access or clock reading of `pfs_leader_load` and what it
calls: `ScanBadSector`, `WatchBadSectors`, `RoundBadSector` (the watch that
decides a corrupt sector's writer is dead), `CheckSector`, `WaitRead`
(`WaitPoll` waits for a live holder to go), `ReadOwn`, `StampWrite`,
`PrepareWrite`, `VerifySector`, `AcquireWrite`, `PrepareExpiry`,
`ConflictSector`, `RWExpiry`, `WatchdogOpen`; then `RenewWrite`, `LeaderUnload`,
`HostRecordClear`. `Kill` is the kill timer, which fires at its deadline at the
latest: `Tick` does not pass it. `Crash`, `CorruptSector` and failing reads and
writes are the environment.

A reading of CLOCK_REALTIME is real time plus anything up to the skew bound,
chosen at each reading. That is weaker than any drift model within
`paxos_clock_skew_max`, and the code claims nothing beyond that bound.

### Journal

`leader` is the leader record on disk, `logf` the circular log file, `super`
the metadata sectors, `holder` who has the lease, `mnt[h]` a mount with its
`log_leader` (`lr`), its metadata in memory, its two trim groups and the place
in the handler it runs. `hist` records the metadata after each transaction the
leader record ever covered; it is only read by properties. A log thread handles
one request at a time, so a handler is a sequence of actions, one per device
access: `WriteEntry`* `Commit`; `Trim` `FlushSector`* `TrimDone`; `Poll`
`ScanEntry`* `Replay`; at mount `Preload` `LoadSector`* `LeaderLoad`
`MountLease` `LogLoad` `ScanEntry`* `Replay`. With `WriteFaults` each write may
fail; with `LostReplies` a leader write may land and fail.

### LogThread and ReadSync

`lt` is the log thread (place in a pass, state, mask, `replay_wait`),
`reqhead` and `work` its queues, `thr` the threads that send requests and what
they do with the answer, `meta` and `inside` the locks they hold, `plan` what
the admin thread still has to do for a mount, release, promotion, demotion or
unmount under the mount entry's write lock. Of the journal only how full it is
(`used`) and how much is on disk that this mount has not seen (`lag`) is kept.
`reqhead` is kept by type: the code has one list, which the log thread takes whole
and sorts, so the order across types does not matter. `Gather` takes the requests
and computes the mask; one action per handler follows in
the order of `log_req_handlers`; `EndPass` ends the pass. `Restart` is the join
of an ended log thread followed by the next mount.

`ReadSync` is `pfs_mount_sync`: a thread joins a work group, leads its read of
the leader record or waits for it, compares the result with the last one seen,
and polls and replays if it is new.

### MountTable and MountSession

`MountTable` has the entries of `pfs_mount.cc` with their reader-writer locks
and epochs, the objects at the addresses they point to (an address is used
again after it was freed), and one call per thread, step by step through the
search of the table. `mount_mutex` says whether the process serialises mounts,
as `pfsd` does. A directory stream keeps the address and epoch of its mount.

`MountSession` has the client processes (`cl`), the regions of the local lock
file (`flk`), the messages the daemon has not handled (`inbox`), the daemon's
contexts and buffer table, and the mount with its reference counts (`mt`). The
daemon handles one message at a time; a client may time out, die, mount again
before the daemon has seen the end of its last connection, or run mkfs.

### Metadata and FileData

`Metadata` takes a write transaction as one step, because it holds the metadata
lock of its mount from its first object to its end: the operations on block
tags and inodes, then the commit, and what it does to the objects, the
allocation nodes and the lists. There is one writer; the other mounts follow,
and `pend` is what each has still to replay. A commit fails before or after its
entries are in the journal, or lands and is reported failed. In that case `back`
is the metadata without it: until a poll of the writer finds the transaction,
the next commit takes its place in the journal and a trim puts the shorter head
back (`pfs_log_commit`, `pfs_log_trim`). `stray` says which followers have
replayed a transaction that is then gone; if the next commit stops between its
entries and its anchor, the journal is `Torn` and the model ends there. A
discard is two transactions with the device command between them; `inflight` are
the commands a crashed host leaves on their way to the device. One of the
`fstrim` command counts as the command still running: its usage text asks for it
to be the only writer.

`FileData` is one file: physical inode and block map (`fphy`), the in-memory
inode with its size, holes and modification state (`fin`), the units of the
device (`fdat`), and threads that run `pfs_file_read`, `pfs_file_write`,
`pfs_file_truncate` and `pfs_file_allocate`, giving the inode lock up for every
I/O and transaction as the code does. A unit is what it is worth to a reader:
left by a former owner, cut off, zeroed or written.

### Namespace, NameCache, InodeCache, Avl

`Namespace` has the inodes with their directory entries, the in-memory indexes
of directories, the name cache as a set, and threads that walk a path one
component per step without locks and then operate in a transaction that checks
the path again. `NameCache` is the cache itself, its two hash tables, and the
thread that grows them bucket by bucket; a step is one hold of `nch_lock`.
`InodeCache` has the heap of inode objects, the tree, the lists of its shards
and, for each worker of the daemon, the stack of functions that get, load, put,
evict and destroy inodes; `overput` records the inode that a failed open has put
once too often. `Avl` is `pfs_avl.cc` pointer by pointer, checked
against the set of keys and, after every step, against order and balance.

### FileApi and SdkApi

Both have a descriptor table with its free list and files that are allocated
and freed, and abstract each of the public calls to a shape: how it gets its
file, which lock it takes, what its body does, how it may return. The program
is one that may close a descriptor another thread uses (`racing`), or is
careful. `misclosed` records that `pfs_file_release` has closed a file a second
time; `pathfits` says whether some pool has buffers of the length of a path.

### DevIo, DCLCRWLock, RequestQueue, IndexPool, ShmPools, EventLoop

`DevIo` cuts a transfer into fragments, turns unaligned ones into
read-modify-write, queues them on the thread's queue of the device and collects
completions, which the kernel delivers in any order, with errors. While `broken`
holds, `io_submit` fails and I/Os stay in the queue.

`DCLCRWLock` takes every atomic operation as a step; `pc`, `op` and `at` say
where a thread is in which operation and which counter a writer looks at.
`RWLock` is the abstract lock: sets of readers and writers, operations in one
step. The refinement mapping calls a thread a reader or writer from the return
of the call that made it one to the call that ends it; an upgrade or downgrade
in progress keeps what it had. The reports of misuse (unlocking what is not
locked) are unreachable for callers that hold the lock, which `HeldCounted`
states. The model is sequentially consistent; the code uses seq_cst for every
access on which the exclusion rests.

`RequestQueue` has, per queue, `head`, `tail`, and per slot `turn`, `storage`
and the two event counts; per client the semaphore of its request. Producers
and consumers share the waiting (`AwaitTurn`, `PrepareWait`, `Condition`,
`Wait`, `Woken`, `SubWaiter`) and the hand-over (`HandOn`, `Notify`, `Wake`).
`Call`, `Construct` and `SemWait` are `executeRequest`; `TryLoad` ..
`TryReload`, `Pop`, `Take`, `Handle` are `queue_worker` with `try_pop` and
`pop`. The futex is external: it sleeps if the epoch is the expected one and
wakes all sleepers or, spuriously, one. `Crash` kills a client anywhere. Acquire
and release accesses are taken in program order; each pair that matters meets
in a read-modify-write of the same event count, which orders them on every
machine.

`IndexPool` takes every compare-and-swap on a tagged head as a step; the tag is
kept as the set of threads whose reading of a head is still current.
`ShmPools` is the choice of a pool by size and the timed wait when all are
taken. `EventLoop` is the loop's thread, the socket with partial writes, and
the session that starts, uses and stops it.

## What the runs show

TLC explores one component at a time. Where components share no state, one MC
module holds several of them: its variable `part` says which is explored, the
others stay where they are, and a property says of which part it speaks. The
number of distinct states of a run is the sum over its parts.

| Run | Parts | Properties |
|---|---|---|
| `lease` | lease; one thread in a file of two blocks, all failures and crashes | `MutualExclusion`, `HolderVisible`, `LeaseInv`; `WideFileSound` |
| `journal_crash` | writer and follower, crashes and failing writes; two threads on a device | `Recoverable`, `Synced`, `GroupsCover`; `IoSound` |
| `request_queue` | two clients, killed at any point, two workers, one slot; two threads in the directories in three scopes (`moves`, `files`, `reuse`) | `QueueInv`, `SlotExclusive`, `HandledOnce`, `NoLostWakeup`; `TreeSound` |
| `calls` | two threads in the file API, in the SDK, in the inode cache, in the index pool | `DescriptorsSound`, `SdkSound`, `CacheSound`, `PoolSound` |
| `storage` | two hosts on the metadata; two threads in one block of a file | `MetadataSound`, `TrimsSound`; `HolesHideStale`, `AckedWritesStay` |
| `mounts` | journal through promotion and demotion; mount table; log thread with all senders and failing I/O; sessions of two and of three processes; name cache; metadata in two chunks; tree of ten keys | `RemountSound`, `TableSound`, `LogSound`, `SessionsSound`, `NameCacheSound`, `ChunksAgree`, `TreesSound` |
| `log_thread_live` | one client; release, demotion, promotion, unmount; commits that land and fail; fair | `OnceEach`, `Answered` |
| `inode_lock` | three threads on two counters, every operation, fair; two queues with a client and two workers, fair | `Exclusion`, `LockInv`, `Implements`, `WriterGetsIn`; `Served` |
| `progress` | follower; grouped header check with and without groups; pools; event loop; device transfer; all fair | `CatchesUp`, `ReadsServed`, `BuffersServed`, `LoopServes`, `TransferEnds` |

The properties named `...Sound` are conjunctions of invariants of one module,
each stated and commented there (`TypeOK` among them); the MC module says in a
sentence what they amount to.

For every property of every run `PROJECT.json` names a mutant: an operator next
to the one it replaces, with a plausible mistake in it (a skew forgotten, a
compare-and-swap that is a store, a group dropped before its header is written),
under which the same run fails. So each property depends on the code it is
about.

Runs that show a disagreement between the code and what it says of itself:

| Run | Property | What happens |
|---|---|---|
| `journal_promote` | `Synced` | `pfs_leader_load` ends with `log_leader` set to the record on disk. In a promotion or demotion (or a promotion that fails because the lease is taken) the mount has followed the journal only to its own head; the entries between are never replayed, and the mount serves metadata older than the transaction it says it has reached. |
| `log_thread_release` | `Answered` | During a replay `pfs_log_handle_try_reset_lock` answers `LOG_IO_STOP`, which ends the pass before `pfs_log_handle_write` can tell a queued write to give up the metadata lock. The replayer waits for that lock, the writer for the log thread, the releaser for the replay to end. |
| `log_thread_stop` | `StopClean` | A trim request postponed by a replay stays queued across a demotion, where the mask never admits it, and the log thread asserts at its end that every queue is empty. |

### Behaviour that properties except

These paths are in the models and the runs reach them. The properties say that
they are the only ones: each holds up to the moment named, or of everything
else. Exploration stops there (`Explored` in `MCCalls` and `MCStorage`), because
what follows is arbitrary.

- `FileApi` (`DescriptorsSound`): `pfs_file_release` starts again after EAGAIN
  with the pointer to the file it has closed. If the file cannot be opened this
  time, it closes it again, which meets the assertion at
  `pfs_core/pfs_file.cc:341` or closes somebody else's file.
- `SdkApi` (`SdkSound`): where no pool can hold a path, `pfsd_open` keeps a slot
  of the table for a file it has freed (`pfs_sdk/pfsd_sdk.cc:578`) and
  `pfsd_chdir` keeps its mutex (1430). A close takes the file's mutex and then
  the table's lock, a call that finds the file takes them the other way round
  (`pfs_sdk/pfsd_sdk_file.cc:188`, 230): the two may wait for each other, and
  nothing else does.
- `InodeCache` (`CacheSound`): an open whose sync fails puts its inode and still
  hands it to its caller, which puts it again (`pfsd/pfsd_api.cc:158`). An
  eviction that destroys a directory puts its subdirectories, which asks for the
  tree lock it holds (`pfs_core/pfs_mount.cc:1077`); no other circle exists.
- `Metadata` (`MetadataSound`): a follower that replays a transaction which
  landed and was reported failed, before its writer commits or trims again,
  parts from the metadata on disk for good; and a commit that then writes its
  entries and not its anchor leaves a torn journal. With exploration going on after that
  (without `Explored`, `MaxPend` 1) TLC finds no error either: 1.3 million
  states, nine minutes.
- `DevIo` (`TransferEnds`): while `io_submit` fails with an error, its I/Os stay
  queued and the thread that waits for them goes round; no caller is told. A
  transfer ends if `io_submit` does not fail for ever.
- `ShmPools`: where a larger pool was added before a smaller one, as in
  `progress`, `poolSizeIndices_` does not name "the index of the smallest pool
  that can serve" a size (`ipc/shm.h:189`) but the first; the buffer is large
  enough all the same (`BufferFits`, a part of `BuffersServed`).

### Behaviour the models have and the runs leave out

Each of these can be seen by changing the constant named; the runs exclude it so
that they can say something about the rest.

- A read-only mount that reads the chunks, and then the leader record again
  after the writer has trimmed, misses the trimmed transactions (`Journal`:
  `Readers` the second host, `Followers` nobody, check `Synced`). After a leader
  write that landed and failed for the writer, the next transaction is written
  over log entries the header on disk covers (`LostReplies`, check
  `Recoverable`).
- `Metadata`, `PeriodCovers = FALSE`: a block whose discard a crashed host has
  under way is used before that trim ends (`TrimsUnused`); the code relies on
  the length of a sleep (`pfs_core/pfs_mount.cc:1716`).
- `MountSession`, `MaxMounts = 2`: an acknowledgement that comes after a time-out
  is taken for the next mount's.
- `ReadSync` with a group: a read that joins a check under way is served what
  was committed before that check began, so `SyncedReads` holds only without
  groups; with them `SyncedUnlessExcused` does.
- `EventLoop`, `MaxStarts = 2`: flags and queued functions survive an unmount
  and are seen by the next mount.
- Several mounts of one device in a process without a mutex around them
  (`mount_mutex = FALSE`) take two entries; `TableSound` states what holds
  regardless.

## Bounds and why they are enough

- `RWLease`: with a lease of 1 s and a skew of 1 s a record is dead after 3 s,
  so time to 3 (`MaxTime`) sees an acquisition, renewals, the kill, an expiry
  and a take-over; one generation (`MaxGen`) lets each host acquire once.
  Corruption is bounded by `MaxCorrupt` and, in `MCRWLease`, by `EarlyCorruption`:
  one sector, early enough for a watch of it to end, and no record stamped ahead of
  time beside it (clocks that read records may still be ahead). Reads do not fail in
  this instance (they triple its size). The theorems hold for every number of hosts, duration,
  skew, resolution and bound, and with failing reads.
- `Journal`: 4 transactions of up to 2 entries in a log of 3 go around it twice;
  a trim group of 2 transactions makes unforced trims happen, and one host can
  fill the log, so that a write waits for a trim. Two objects are the least that
  can be flushed in part. The other runs use one object: `mounts` 2 transactions in a log of
  2, which the second finds full or wraps around, `progress` 3.
- `LogThread`: `LogRoom` 1 makes every second write find the log full; `MaxLag`
  is how far a follower may be behind. Two clients are needed for two writers to
  compete (`mounts`); the discard thread is a third. `Undisturbed`, in
  `log_thread_live`, keeps a replay from meeting the release of a host id: that
  meeting is `log_thread_release`.
- `DCLCRWLock`: two counters, one of them shared by two threads, so that a
  writer scans past one reader while another comes, and a counter does not tell
  two threads apart; the thread alone in its counter only locks and unlocks. The proofs cover any number of threads, counters, and calls.
- `RequestQueue`: one slot makes every position meet at it, over several laps;
  two workers compete for a position. `MaxEvents` bounds requests and deaths of
  clients together. The proofs cover any number of clients, workers, queues,
  slots and requests. Positions and epochs do not wrap in the code within any
  real run (64 bits; the 32-bit epoch may, see `eventcount.h`).
- `MountTable`: two entries and two addresses, so that both are used again;
  `MaxEpoch` (`ManyEpoch` for two names) bounds the mounts of an entry.
- `MountSession`: two processes that remount (`MaxCtl`), or three that do not;
  the third is what the hand-off of a lease needs to have two to choose from.
- `Metadata`: two blocks and one inode in one chunk with two hosts; three blocks
  in two chunks with one. `MaxPend` is how far a mount lags: with 2 a follower
  has one transaction to replay before the one that is written over.
- `FileData`: one block of three units with two threads, two blocks of two units
  with one. A write is of one or two units, so that it begins or ends inside a
  hole or a block.
- `Namespace`: three inodes, paths of one and two components and `..`. The three
  scopes each leave operations out; together they have all.
- `NameCache`: a table of two buckets that grows to four, four entries that
  collide, one of them of another mount. `Avl`: ten keys, all orders of adding
  and removing; a removal then rebalances at two levels.
- `FileApi`, `SdkApi`: two threads, two descriptors, two addresses of files, so
  that a closed file's address and descriptor are both used again; `MaxTries` 2
  lets `pfs_file_release` start again.
- `InodeCache`: a root, and a directory that holds another and may be evicted;
  lists that hold one unused inode, three objects.
- `IndexPool`: two lists, `Limit` 1, so that every second release overflows into
  the global list. `ShmPools`: two pools of one element.
- `EventLoop`: three messages and room for one and a half of them in the socket.
- `DevIo`: transfers that cross fragments and begin and end inside a sector, a
  queue of two. The threads share no sector: the code leaves that to its callers.

Deadlock is checked except where the system may stop: clients of a queue and
callers of the lock stop after their last request (`request_queue`,
`inode_lock`), `progress` ends when its bounds are used up, `calls` reaches the
two circles named above (`NobodyStuck`, `OnlyCloseWedges` and
`OnlyEvictionWedges` say who waits for whom), and in `storage` a
host that has crashed or a thread whose transaction failed makes no further
call.

## Fairness

- `Journal`: weak fairness of `Poll`, `ScanEntry` and `Replay`. The poll thread
  asks for a sync every interval and the log thread answers. Nothing is assumed
  of the writer.
- `LogThread`: weak fairness of the log thread and of every step a thread can
  take alone. Strong fairness of taking the metadata lock and the mount entry
  lock (`LockMeta`, `ReadMeta`, `AdminThreads`): glibc's locks do not starve a
  waiter for ever in practice, though POSIX does not promise it. Strong fairness
  of `TrimOk`: the device does not fail every trim for ever. `Answered` does not
  hold with polls that fail for ever, so it is checked without `Faults`.
- `DCLCRWLock`: weak fairness of a thread inside an operation, strong fairness
  of the unlock by one that has the lock. Nothing of the compare-and-swap a
  writer must win: `WriterGetsIn` begins after it.
- `RequestQueue`, `ShmPools`, `EventLoop`, `DevIo`: weak fairness of each thread
  and of what the kernel and a live daemon do. Nothing is assumed of `io_submit`;
  that it does not fail for ever is a premise of `TransferEnds`.
- `ReadSync`: weak fairness of each thread, strong fairness of the poll it asks
  the log thread for, which other threads' replays hold up.

## What is proved

| Module | Theorem | States |
|---|---|---|
| `RWLeaseProofs` | `InvariantHolds` | `Spec => []LeaseInv` |
| | `TypeCorrect` | `Spec => []TypeOK` |
| | `SingleWriter` | `Spec => []MutualExclusion`: at most one live holder |
| | `HolderSeen` | `Spec => []HolderVisible`: no scan takes a holder's sector for free |
| `DCLCRWLockProofs` | `LockInvariant` | `Spec => []LockInv` |
| | `Excludes` | `Spec => []Exclusion`: a writer is alone |
| | `HoldersCounted` | `Spec => []HeldCounted` |
| | `ImplementsLock` | `Spec => Implements`: the lock implements `RWLock` |
| `RequestQueueProofs` | `QueueInvariant` | `Spec => []QueueInv` |
| | `SlotsExclusive` | `Spec => []SlotExclusive`: a slot has one user, and a consumer finds a request in it |
| | `RequestsHandledOnce` | `Spec => []HandledOnce`: a request is with one worker and is answered once |
| | `NoWakeupLost` | `Spec => []NoLostWakeup`: nobody sleeps through its turn |
| | `SlotsInOrder` | `Spec => [][SlotStep]_vars`: turns go up by one, and no request is overwritten before it was taken |
| `LogThreadProofs` | `LogInvariant` | `Spec => []LogInv` |
| | `OneWriterAlways` | `Spec => []OneWriter`: at most one write transaction is with the log thread |
| | `OnceEachAlways` | `Spec => []OnceEach`: one replay and one trim at a time |
| | `HandlerAssertsAlways` | `Spec => []HandlerAsserts`: a handler finds the state it asserts |
| `MountTableProofs` | `MountTableInvariant` | `MtSpec => []MtInv` |
| | `TableSoundAlways` | `MtSpec => []TableSound`: entries taken once, borrowed mounts live, streams with their mount |

They hold for every value of the constants that satisfies `ConstantsAssumption`
(at least two hosts, naturals elsewhere), `DCLCAssumption` (a finite set of
threads, at least one counter, any hash), `QueueAssumption` (at least one
queue and one slot, a worker for each queue, clients and workers that are not
the same; no bound on their number), `LogThreadAssumption` (clients that are not
the mount's own threads, any of the plans, room for one entry in the log) and
`MountTableAssumption` (at least one entry, address 0 and the name of nobody kept
apart), and for any number of kills and crashes.

**The lease.** That two hosts never hold the lease says nothing about the hosts
on the way to it. `LeaseInv` adds: a reading of the clock is at most the skew
ahead (`ClocksOK`); the sector of a host that has prepared holds its record, not
older than its last write, unless corrupted (`SectorOK`); corrupt bytes seen once
do not come back (`RawOK`); the last write into a watched sector came before the
watch (`WatchOK`); a writer judged dead is out of time (`DeadOK`). The heart is
`BallotOK`: of two hosts in time, the one whose verify scan got past the other
while that other's conflict scan got past it has the lower ballot. Two holders
would have done this to each other, and each ballot would be below the other.
"In time" is what the expiry checks after the writes and the kill timer enforce.
The proof has one lemma per action that can disturb a conjunct.

**The lock.** `LockInv` says that a counter is the number of threads between
their increment and decrement there, that the threads past the compare-and-swap
are one, and that no reader is behind the counter a writer's scan has reached
(`ScanOK`). The last needs the place of an upgrade that has not yet given its
count back, and the bookkeeping of operations (`OpOK`) to know what a thread at
a place has done. Cardinalities change by one thread at a time, which two lemmas
state. `ImplementsLock` maps each step to one of `RWLock` or to a stutter.

**The queue** (`RequestQueueTurns` has the lemmas on layers 1 to 4,
`RequestQueueProofs` those on layer 5 and the theorems). The four properties speak of threads at a slot, of
requests and of sleepers; none is inductive. `QueueInv` has five layers, each
resting on those before it:

1. `Roles`: where a client and where a worker can be.
2. `Positions`: a thread that owns a position took it from `head` or `tail`
   (`OwnedBelow`), and no two of a side own the same one (`OwnedApart`); a worker
   in `try_pop` has read a tail that only grows (`ScansBelow`).
3. `Turns`: a thread is at a slot only in its turn (`InTurn`); if `try_pop`'s
   compare-and-swap is about to succeed, it is its turn (`CasInTurn`, which needs
   that the turn cannot pass a position nobody has taken); a published slot holds
   its publisher's request (`Stored`, `Filled`). Two threads at one slot would
   have the same turn, so the same side and lap, so the same position:
   `SlotExclusive`.
4. `Requests`: the request in a slot or in a worker's hands is that of the client
   that published it at this position and has no answer yet (`InStorage`,
   `InHand`), which gives `HandledOnce`.
5. `Waits`: an event count counts at least its waiters (`Counted`: they can be
   numbered apart below the count, which avoids cardinalities of sets not known
   to be finite); the key a waiter holds is no newer than the epoch (`Keys`); a
   waiter whose turn has come, and whose key is still the epoch's, has a notifier
   on its way, and one asleep through a new epoch a waker (`Alerted`). Since
   waiters are counted before they test the turn, a notifier that sees no waiter
   leaves none behind: `NoLostWakeup`. Only this last part supposes that no
   client was killed.

`SlotsInOrder` is an action property proved from the same invariant.

**The log thread** (lemmas on the steps of clients, poll, discard and admin
threads in `LogThreadCallers`, on the handlers in `LogThreadHandlers`, on the
passes in `LogThreadProofs`). What the handlers assert depends on threads the log
thread never sees. `LogInv` ties them together: only senders that wait are queued,
once, under the type they sent (`QueuesOK`); each type has its senders
(`SendersOK`); a plan of the admin thread excludes clients, loads before anything
else and reloads only after the discard thread was stopped (`PlanOK`); a write that
is with the log thread has the metadata lock (`WriterOK`), which gives `OneWriter`;
`replay_wait` is set exactly while one thread replays (`ReplayOwner`); in a pass,
the handlers still to come were admitted for the state the log is still in
(`PassOK`: only the handlers of LOAD, SUSPEND, RESUME and STOP change it, and the
order of `log_req_handlers` puts each where it cannot surprise a later one); the
trim request is queued at most once and is gone once TRIM has run, unless a replay
postponed it (`TrimOK`), so that the write handlers may queue it again; what is in
the log and what is to come fit into it (`RoomOK`).

**The mount table.** `MtInv`: an entry's lock is held exactly by the calls at the
steps that need it (`LocksHeld`); what a call found is true while it has the entry
locked (`FoundHolds`), which is where the check made again after the change from
read to write lock is needed; mounts in the table are live, each in one entry, with
the entry's epoch (`MountsLive`); the epoch of an entry grows with every mount and
umount, so an entry that still has a stream's epoch has the stream's mount
(`StreamsFresh`); under the daemon's mutex one call changes the table, and the
entries a search went past still lack the name (`OneChange`). The last is what
makes a device mounted once; without the mutex it is not claimed.

## What is only model-checked

Liveness (`CatchesUp`, `Answered`, `WriterGetsIn`, `Served`, `ReadsServed`,
`BuffersServed`, `LoopServes`, `TransferEnds`) is out of the prover's reach.
`Namespace`, `NameCache` and `Avl` are built on recursive operators, which the
prover cannot use; `Journal`'s and `Metadata`'s folds over log entries and
objects would need induction on data. Of the log thread, `StopClean` and
`Answered` are false of some plans, as two runs show, and are checked without them. The
other modules (`MountSession`, `FileData`, `InodeCache`, `FileApi`, `SdkApi`,
`DevIo`, `IndexPool`, `ShmPools`, `ReadSync`, `EventLoop`) have no proofs so far.

## What is not modelled

- Of the modelled parts: checksums (a corrupt sector is a state of its own), the
  lazy fill of sector buffers in trim groups, mkfs beyond the initial states,
  `try_emplace`, which nothing calls, and weak memory.
- Extended attributes, growfs, the hash of the directory index, readdir's cursor,
  fork handlers of the SDK, timers of the event loop (nothing sets one), trim and
  flush requests of the device, the limits on the blocks of one discard pass, the
  wrap of the 24-bit tag of a pool's head.
- Chunk headers, FUSE, tools, administration, options, statistics and tracing,
  which are data layout, forward calls, or print.
