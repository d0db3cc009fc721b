------------------------------ MODULE MCCalls ------------------------------
(***************************************************************************)
(* The layers a file call passes through: the library's API (FileApi), the  *)
(* client SDK (SdkApi) with its pool of shared memory (IndexPool), and the  *)
(* daemon's inode cache (InodeCache). They share no state, so TLC explores  *)
(* one of them at a time: "part" says which, and the variables of the       *)
(* others are Off.                                                          *)
(***************************************************************************)
EXTENDS IndexPool, TLC

CONSTANTS Threads, MaxNfd, MaxFiles, MaxTries,                 \* FileApi
          MaxReqs, MaxBufs,                                    \* SdkApi
          Inos, Root, Subdirs, Shards, LruSize, MaxObjs \* InodeCache

VARIABLES part,
          fdtbl, fdtbl_nopen, fdtbl_free_last, file, mntref, mtx, owned, racing, aborted, misclosed, fth,
          sdktbl, fdtbl_lock, sfile, reqs, bufs, chdir_mtx, mounted, pathfits, careful, sowned, sth,
          node, tree, lru, wr, up, mref, overput, stack

Api == INSTANCE FileApi
Sdk == INSTANCE SdkApi
Cache == INSTANCE InodeCache

apivars == <<fdtbl, fdtbl_nopen, fdtbl_free_last, file, mntref, mtx, owned, racing, aborted, misclosed, fth>>
sdkvars == <<sdktbl, fdtbl_lock, sfile, reqs, bufs, chdir_mtx, mounted, pathfits, careful, sowned, sth>>
cachevars == <<node, tree, lru, wr, up, mref, overput, stack>>

Off == "off"
NoApi == /\ fdtbl = Off /\ fdtbl_nopen = Off /\ fdtbl_free_last = Off /\ file = Off
         /\ mntref = Off /\ mtx = Off /\ owned = Off /\ racing = Off /\ aborted = Off /\ misclosed = Off /\ fth = Off
NoSdk == /\ sdktbl = Off /\ fdtbl_lock = Off /\ sfile = Off /\ reqs = Off /\ bufs = Off
         /\ chdir_mtx = Off /\ mounted = Off /\ careful = Off /\ pathfits = Off /\ sowned = Off /\ sth = Off
NoPool == /\ size = Off /\ local = Off /\ global = Off /\ localNext = Off /\ globalNext = Off
          /\ current = Off /\ gcurrent = Off /\ held = Off /\ pc = Off /\ op = Off /\ list = Off
          /\ h = Off /\ g = Off /\ next = Off /\ idx = Off /\ alone = Off
NoCache == /\ node = Off /\ tree = Off /\ lru = Off /\ wr = Off /\ up = Off /\ mref = Off /\ overput = Off
           /\ stack = Off

CallsInit ==
    /\ part \in {"api", "sdk", "cache", "pool"}
    /\ IF part = "api" THEN Api!Init ELSE NoApi
    /\ IF part = "sdk" THEN Sdk!Init ELSE NoSdk
    /\ IF part = "cache" THEN Cache!Init ELSE NoCache
    /\ IF part = "pool" THEN Init ELSE NoPool
CallsNext ==
    \/ part = "api" /\ Api!Next /\ UNCHANGED <<part, sdkvars, cachevars, vars>>
    \/ part = "sdk" /\ Sdk!Next /\ UNCHANGED <<part, apivars, cachevars, vars>>
    \/ part = "cache" /\ Cache!Next /\ UNCHANGED <<part, apivars, sdkvars, vars>>
    \/ part = "pool" /\ Next /\ UNCHANGED <<part, apivars, sdkvars, cachevars>>
CallsSpec == CallsInit /\ [][CallsNext]_<<part, apivars, sdkvars, cachevars, vars>>

\* Directory 2, which may be evicted, holds directory 1.
OneSubdir == [i \in Inos |-> IF i = 2 THEN {1} ELSE {}]
Symmetry == Permutations(Threads)
\* Nothing is said, or explored, of what follows a second close of a file or a second put
\* of an inode.
Explored == (part = "api" => ~misclosed) /\ (part = "cache" => overput = 0)

\* FileApi: the free list of descriptors of pfs_file.cc is well formed, a file in use by
\* a call is open, a call that returns holds no lock, reference or descriptor it should
\* not, calls do not wait for each other, and no PFS_ASSERT fails, all up to the moment
\* when pfs_file_release, started again after EAGAIN, closes a file a second time.
DescriptorsSound ==
    part = "api" => /\ Api!NoAssertionFails
                    /\ misclosed \/ /\ Api!TypeOK /\ Api!FdListWellFormed /\ Api!HeldFileIsOpen
                                     /\ Api!NothingLeaks /\ Api!NobodyStuck

\* SdkApi: every slot of the client's file table is free or open, a call gives back its
\* request and its buffer, and only a close of a descriptor in use can leave threads
\* waiting for each other. Where some pool can hold a path, a file outlives the calls
\* that use it and no descriptor or mutex is kept; where none can, pfsd_open keeps a slot
\* for the file it frees and pfsd_chdir keeps its mutex.
SdkSound ==
    part = "sdk" => /\ Sdk!TypeOK /\ Sdk!SlotsAccounted /\ Sdk!PoolsBalanced
                    /\ pathfits => /\ Sdk!FileOutlivesCalls /\ Sdk!CallsGiveBack
                                   /\ Sdk!OnlyCloseWedges

\* InodeCache: the count of an inode is the references that exist, an inode in use is the
\* one in the tree, unused inodes come first in their list, no object is lost, and only the
\* eviction of a directory with a subdirectory stops other requests; up to the moment
\* when an open whose sync failed puts its inode a second time.
CacheSound ==
    part = "cache" => /\ Cache!TypeOK /\ Cache!RefsAreOwners /\ Cache!OnlyEvictionWedges
                      /\ overput = 0 => /\ Cache!UsedIsCached /\ Cache!UnusedComeFirst
                                        /\ Cache!NothingLost /\ Cache!ReloadedHasUser

\* IndexPool: an index has one owner, the size of a list is its length, and allocation
\* fails only when the pool is used up.
PoolSound == part = "pool" => TypeOK /\ OneOwner /\ SizeIsLength /\ FailsOnlyFull
=============================================================================
