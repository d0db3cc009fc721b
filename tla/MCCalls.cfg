\* Two threads in the library, in the SDK, in its pool and in the daemon's
\* inode cache.
SPECIFICATION CallsSpec
CONSTANTS
    Threads = {t1, t2}
    MaxNfd = 2
    MaxFiles = 2
    MaxTries = 2
    MaxReqs = 2
    MaxBufs = 1
    Inos = {0, 1, 2}
    Root = 0
    Subdirs <- OneSubdir
    Shards = 1
    LruSize = 1
    MaxObjs = 3
    Users = {t1, t2}
    Lists = {t1, t2}
    Limit = 1
    Capacity = 2
CHECK_DEADLOCK FALSE
CONSTRAINT Explored
SYMMETRY Symmetry
INVARIANTS DescriptorsSound SdkSound CacheSound PoolSound
