----------------------------- MODULE MCStorage -----------------------------
(***************************************************************************)
(* What lies on the disk: the metadata and its transactions (Metadata) and  *)
(* the blocks of a file (FileData). TLC explores one of them at a time:     *)
(* "part" says which, and the variables of the other are Off.               *)
(***************************************************************************)
EXTENDS Metadata

CONSTANTS Threads, NoThread, FFaults    \* FileData

VARIABLES part, fphy, fin, fdat, fmeta, fthr, facked

\* All objects are in one chunk.
Chunks == [o \in MObjs |-> 0]

\* two threads in one block of three units
Data == INSTANCE FileData WITH NBlk <- 1, BS <- 3, Devs <- {1}, MaxLen <- 2

datavars == <<fphy, fin, fdat, fmeta, fthr, facked>>

Off == "off"
NoData == fphy = Off /\ fin = Off /\ fdat = Off /\ fmeta = Off /\ fthr = Off /\ facked = Off
NoMeta == /\ hs = Off /\ dsk = Off /\ pend = Off
          /\ back = Off /\ stray = Off /\ inflight = Off

StorageInit ==
    /\ part \in {"meta", "data"}
    /\ IF part = "meta" THEN MInit ELSE NoMeta
    /\ IF part = "data" THEN Data!FInit ELSE NoData
StorageNext ==
    \/ part = "meta" /\ MNext /\ UNCHANGED <<part, datavars>>
    \/ part = "data" /\ Data!FNext /\ UNCHANGED <<part, mvars>>
StorageSpec == StorageInit /\ [][StorageNext]_<<part, mvars, datavars>>

\* the hosts of Metadata and the threads of FileData are the same model values
Symmetry == Permutations(Threads)

\* What a follower does after it has strayed is not explored.
Explored == part = "meta" => \A h \in MHosts : stray[h] # "yes"

\* Metadata: no MNT_ASSERT of the transaction code fails, the counts of free objects of
\* every allocation node match the objects, the block lists of files and of the discard
\* trees are well formed, and what a mount has and has still to replay is the metadata a
\* new mount would load: at the writer always, at a follower unless it replayed a
\* transaction that was reported failed and then written over or trimmed away.
MetadataSound ==
    part = "meta" => MAssertsHold /\ CountsMatch /\ ListsWellFormed /\ CachesConverge

\* Metadata, pfs_bd_discard: a block is trimmed on the device only while no file has it,
\* and a freed block is not forgotten: it is queued for a discard or marked on the disk.
TrimsSound == part = "meta" => TrimsUnused /\ NoneForgotten

\* FileData: no read sees what a block held before it was allocated.
HolesHideStale == part = "data" => Data!HolesHideStale

\* FileData: what a write acknowledged stays in the file, whatever other threads write,
\* truncate or allocate, and a barrier on a hole or a size that a call raised is lifted.
AckedWritesStay == part = "data" => Data!AckedWritesStay /\ Data!BarriersLifted
=============================================================================
