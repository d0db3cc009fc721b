\* Two hosts on the metadata, with failures and crashes; two threads in a file.
SPECIFICATION StorageSpec
CONSTANTS
    MHosts = {t1, t2}
    Blocks = {1, 2}
    ChunkOf <- Chunks
    Inodes = {11}
    NInp = 1
    MaxPend = 2
    Faults = {"io", "lost", "trim", "crash"}
    PeriodCovers = TRUE
    Threads = {t1, t2}
    NoThread = no
    FFaults = {"tx"}
CONSTRAINT Explored
SYMMETRY Symmetry
INVARIANTS
    MetadataSound TrimsSound
    HolesHideStale AckedWritesStay
CHECK_DEADLOCK FALSE
