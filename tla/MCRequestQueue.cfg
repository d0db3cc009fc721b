\* Two clients, killed at any point, and two workers on a queue of one slot; two threads
\* in the directory tree.
SPECIFICATION QueueSpec
CONSTANTS
  c1 = c1  c2 = c2  w1 = w1  w2 = w2
  Clients = {c1, c2}  Workers = {w1, w2}  None = None
  NumQueues = 1  OwnQueue <- RoundRobin  Capacity = 1
  MaxCalls = 2  CanCrash = TRUE
  NThreads = {c1, c2}  NoThread = no
  Inos = {0, 1, 2}
  Ops = {"open", "creat", "unlink", "mkdir", "rename", "rmdir", "evict"}
  Paths <- ShortPaths
  MaxGen = 2  TxFails = TRUE
INVARIANTS
  QueueInv SlotExclusive HandledOnce NoLostWakeup
  TreeSound
SYMMETRY Symmetry
CHECK_DEADLOCK FALSE
