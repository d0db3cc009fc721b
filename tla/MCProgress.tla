----------------------------- MODULE MCProgress -----------------------------
(***************************************************************************)
(* What must eventually happen: a host follows the journal of another       *)
(* (Journal), readers poll its leader record (ReadSync, with a work group   *)
(* and without), threads wait for shared memory (ShmPools), a client and    *)
(* its event loop (EventLoop), and a transfer to the disk (DevIo). TLC      *)
(* explores one of them at a time: "part" says which; the others stay in    *)
(* their initial states, and only the part explored is fair.                *)
(***************************************************************************)
EXTENDS Journal, TLC

CONSTANTS t1, t2, t3, MaxCommits,                                     \* ReadSync
          PoolSize,                                                   \* ShmPools
          Users, Mounter, SockBuf, MaxMsgs, MaxStarts, DaemonFails,   \* EventLoop
          NCells, SectSize, FragSize, disk_iodepth, DISK_NR_EVENTS,   \* DevIo
          disk_batch_submit_thold, IoFaults, MaxEpochs

VARIABLES part, head_lsn, log_lsn, replay_wait, last_head_lsn, applied, group, rthr,
          poolSizeIndices, elems, empty_, shthr,
          lt, stop_, pending_, wakeup, flags, socket_, wire, usr, starts, posted, recvd,
          disk, dacked, devs_epoch, ioq, dth, broken

Sync == INSTANCE ReadSync WITH Threads <- {t1, t2}, Groups <- {1}
SyncBare == INSTANCE ReadSync WITH Threads <- {t1, t2, t3}, Groups <- {}
Shm == INSTANCE ShmPools WITH Threads <- {t1, t2}, PoolPower <- <<1, 0>>
Loop == INSTANCE EventLoop
\* One thread writes across fragments, or within one sector.
Dev == INSTANCE DevIo WITH Threads <- {t1}, Transfers <- (t1 :> {<<1, 9>>, <<2, 2>>})

syncvars == <<head_lsn, log_lsn, replay_wait, last_head_lsn, applied, group, rthr>>
shmvars == <<poolSizeIndices, elems, empty_, shthr>>
loopvars == <<lt, stop_, pending_, wakeup, flags, socket_, wire, usr, starts, posted, recvd>>
devvars == <<disk, dacked, devs_epoch, ioq, dth, broken>>

ProgressInit ==
    /\ part \in {"follow", "sync", "nocheck", "shm", "loop", "dev"}
    /\ Init /\ Shm!ShInit /\ Loop!EInit /\ Dev!DInit
    /\ IF part = "nocheck" THEN SyncBare!RsInit ELSE Sync!RsInit
    \* std::sort may leave the pools in several orders, which only "shm" tells apart
    /\ part # "shm" => poolSizeIndices = CHOOSE f \in [0..Shm!maxPower -> Shm!PoolIds] :
                                            Shm!populateSizeIndices(f)

LogIdle == UNCHANGED <<part, syncvars, shmvars, loopvars, devvars>>
SyncIdle == UNCHANGED <<part, vars, shmvars, loopvars, devvars>>
ShmIdle == UNCHANGED <<part, vars, syncvars, loopvars, devvars>>
LoopIdle == UNCHANGED <<part, vars, syncvars, shmvars, devvars>>
DevIdle == UNCHANGED <<part, vars, syncvars, shmvars, loopvars>>
ProgressNext ==
    \/ part = "follow" /\ Next /\ LogIdle
    \/ part = "sync" /\ Sync!RsNext /\ SyncIdle
    \/ part = "nocheck" /\ SyncBare!RsNext /\ SyncIdle
    \/ part = "shm" /\ Shm!ShNext /\ ShmIdle
    \/ part = "loop" /\ Loop!ENext /\ LoopIdle
    \/ part = "dev" /\ Dev!DNext /\ DevIdle

\* The fairness of each module, for the part explored.
ProgressSpec ==
    /\ ProgressInit /\ [][ProgressNext]_<<part, vars, syncvars, shmvars, loopvars, devvars>>
    /\ \A h \in Followers : /\ WF_vars(part = "follow" /\ Poll(h))
                            /\ WF_vars(part = "follow" /\ ScanEntry(h))
                            /\ WF_vars(part = "follow" /\ Replay(h))
    /\ \A t \in {t1, t2} : /\ WF_syncvars(part = "sync" /\ Sync!SyncStep(t))
                           /\ SF_syncvars(part = "sync" /\ Sync!pfs_log_poll(t))
                           /\ WF_shmvars(part = "shm" /\ Shm!ShStep(t))
    /\ WF_loopvars(part = "loop" /\ Loop!LoopStep)
    /\ \A u \in Users : WF_loopvars(part = "loop" /\ Loop!UserStep(u))
    /\ WF_loopvars(part = "loop" /\ Loop!Alive /\ Loop!Drain)
    /\ WF_devvars(part = "dev" /\ Dev!DStep(t1))

\* ReadSync: one thread of a group reads the leader record, a read that missed a commit
\* was told of a failure or joined a read under way (without work groups no read misses a
\* commit), and every call returns.
ReadsServed ==
    /\ [](part = "sync" => Sync!OneReaderPerGroup /\ Sync!SyncedUnlessExcused)
    /\ [](part = "nocheck" => SyncBare!SyncedReads)
    /\ Sync!SyncReturns

\* ShmPools: a buffer is as large as was asked for, and nobody sleeps for ever beside a
\* free element.
BuffersServed == []Shm!BufferFits /\ Shm!NoSleepBesideFree

\* EventLoop: messages arrive whole and in order, no wake-up is lost, no callback runs on a
\* dead object, who waits for the loop returns, who shuts it down returns, and what was
\* queued for a slow peer is sent.
LoopServes ==
    /\ [](Loop!MessagesWhole /\ Loop!WakeupKept /\ Loop!NoDeadCallback)
    /\ Loop!CallerReturns /\ Loop!ShutdownReturns /\ Loop!WritesFlushed

\* DevIo: a transfer that has begun ends, unless io_submit fails for ever.
TransferEnds == Dev!TransferEnds
=============================================================================
