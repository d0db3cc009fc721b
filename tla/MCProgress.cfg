\* The parts that must make progress, each under the fairness of its threads.
SPECIFICATION ProgressSpec
CONSTANTS
    t1 = t1
    t2 = t2
    t3 = t3
    NumHosts = 2
    Objs = {o1}
    LogSize = 2
    TrimTx = 1
    MaxTx = 3
    Writers = {1}
    Readers = {}
    Followers = {2}
    Promotion = FALSE
    WriteFaults = FALSE
    LostReplies = TRUE
    MaxCommits = 1
    PoolSize = 1
    Users = {"u1", "u2"}
    Mounter = "u1"
    SockBuf = 3
    MaxMsgs = 3
    MaxStarts = 1
    DaemonFails = TRUE
    NCells = 12
    SectSize = 2
    FragSize = 4
    disk_iodepth = 2
    DISK_NR_EVENTS = 2
    disk_batch_submit_thold = 2
    IoFaults = {"io", "prep", "submit"}
    MaxEpochs = 2
PROPERTIES CatchesUp ReadsServed BuffersServed LoopServes TransferEnds
CHECK_DEADLOCK FALSE
