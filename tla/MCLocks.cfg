\* Three threads on the lock, two of them in one counter that call every operation; a client
\* and two workers on two queues of one slot.
SPECIFICATION LocksSpec
CONSTANTS
    t1 = t1
    t2 = t2
    t3 = t3
    Threads = {t1, t2, t3}
    NumCores = 2
    IdxOf <- Hash
    Ops = {"lock_shared", "try_lock_shared", "lock", "try_lock", "upgrade", "downgrade"}
    c1 = c1
    w1 = w1
    w2 = w2
    None = None
    Capacity = 1
    MaxCalls = 2
INVARIANTS Exclusion LockInv
PROPERTIES Implements WriterGetsIn Served
CHECK_DEADLOCK FALSE
