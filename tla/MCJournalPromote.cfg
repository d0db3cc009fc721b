\* A follower is promoted, or fails to be, while the writer commits.
SPECIFICATION JournalSpec
CONSTANTS
    NumHosts = 2
    o1 = o1
    o2 = o2
    Objs <- OneObj
    LogSize = 3
    TrimTx = 1
    MaxTx = 2
    Writers <- Host1
    Readers <- Nobody
    Followers <- Host2
    Promotion = TRUE
    WriteFaults = FALSE
    LostReplies = FALSE
    NCells = 8
    SectSize = 2
    FragSize = 2
    disk_iodepth = 2
    DISK_NR_EVENTS = 2
    disk_batch_submit_thold = 2
    IoFaults = {"io", "prep", "submit"}
    MaxEpochs = 2
    Parts = {"journal"}
INVARIANT Synced
