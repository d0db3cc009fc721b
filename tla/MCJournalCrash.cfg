\* A writer commits, trims and crashes; a read-only mount follows it. Two
\* threads on a device.
SPECIFICATION JournalSpec
CONSTANTS
    NumHosts = 2
    o1 = o1
    o2 = o2
    Objs <- TwoObjs
    LogSize = 3
    TrimTx = 2
    MaxTx = 4
    Writers <- Host1
    Readers <- Nobody
    Followers <- Host2
    Promotion = FALSE
    WriteFaults = TRUE
    LostReplies = FALSE
    NCells = 8
    SectSize = 2
    FragSize = 2
    disk_iodepth = 2
    DISK_NR_EVENTS = 2
    disk_batch_submit_thold = 2
    IoFaults = {"io", "prep", "submit"}
    MaxEpochs = 2
    Parts = {"journal", "dev"}
INVARIANTS Recoverable Synced GroupsCover IoSound
