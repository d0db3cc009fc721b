\* Mounts in both modes, promotions and demotions of two hosts; the log thread under all
\* plans of the admin thread, with failing I/O; two threads on a mount table; two or three
\* processes that mount.
SPECIFICATION MountsSpec
CONSTANTS
    NumHosts = 2
    Objs = {o1}
    LogSize = 2
    TrimTx = 1
    MaxTx = 2
    Writers = {1, 2}
    Readers = {1}
    Followers = {2}
    Promotion = TRUE
    WriteFaults = FALSE
    LostReplies = FALSE
    Callers = {c1, c2}
    Nobody = nobody
    PbdNames = {"p", "q"}
    PFS_MAX_NMOUNT = 2
    Addrs = {1, 2}
    MaxEpoch = 5
    ManyEpoch = 4
    Clients = {c1, c2}
    Plans = {"release", "demote", "promote", "umount"}
    LogRoom = 1
    MaxLag = 1
    Faults = TRUE
    MoreProcs = {c1, c2, c3}
    MaxMounts = 1
    MaxCtl = 2
    Items = {1, 2, 3, 4}
    MaxBuckets = 4
    NcMax = {1, 2, 3}
    MaxBucketLen = 2
    MHosts = {"h"}
    Blocks = {1, 2, 3}
    Inodes = {11}
    NInp = 1
    MaxPend = 1
    MetaFaults = {"io"}
    PeriodCovers = TRUE
    Keys = {1, 2, 3, 4, 5, 6, 7, 8, 9, 10}
SYMMETRY Symmetry
INVARIANTS
    RemountSound TableSound LogSound SessionsSound NameCacheSound ChunksAgree TreesSound
