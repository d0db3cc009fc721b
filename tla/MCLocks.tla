------------------------------ MODULE MCLocks ------------------------------
(***************************************************************************)
(* Threads that wait for one another: the lock of the inodes (DCLCRWLock)   *)
(* and the request queues of the daemon (RequestQueue), where nobody is     *)
(* killed and every request must be answered. TLC explores one of them at a *)
(* time: "part" says which; the other stays in its initial state, and only  *)
(* the part explored is fair.                                               *)
(***************************************************************************)
EXTENDS DCLCRWLock, TLC

CONSTANTS t1, t2, t3,
          c1, w1, w2, None, Capacity, MaxCalls                        \* RequestQueue

VARIABLES part, head, tail, turn, storage, full, empty, sem, calls, qpc, q, ticket, key, rp,
          via, idx, count

\* Two threads hash to the same counter, the third to the other.
Hash == (t1 :> 1) @@ (t2 :> 2) @@ (t3 :> 2)

\* Two queues whose workers help each other.
Queue == INSTANCE RequestQueue WITH Clients <- {c1}, Workers <- {w1, w2}, NumQueues <- 2,
            OwnQueue <- (w1 :> 1) @@ (w2 :> 2), CanCrash <- FALSE, pc <- qpc

queuevars == <<head, tail, turn, storage, full, empty, sem, calls, qpc, q, ticket, key, rp,
               via, idx, count>>

LocksInit == part \in {"lock", "queue"} /\ Init /\ Queue!Init
QueueIdle == UNCHANGED <<part, queuevars>>
LockIdle == UNCHANGED <<part, vars>>
\* The thread alone in its counter only locks and unlocks.
InScope == op'[t1] \notin {"try_lock_shared", "try_lock", "upgrade", "downgrade"}
LocksNext == \/ part = "lock" /\ Next /\ InScope /\ QueueIdle
             \/ part = "queue" /\ Queue!Next /\ LockIdle

\* The fairness of FairSpec in each module; the initial state of the lock asks for none.
LocksSpec ==
    /\ LocksInit /\ [][LocksNext]_<<part, vars, queuevars>>
    /\ \A t \in Threads : WF_vars(Step(t)) /\ SF_vars(UnlockShared(t) \/ Unlock(t))
    /\ \A t \in Queue!Actors : WF_queuevars(part = "queue" /\ Queue!Step(t))

\* Property of RequestQueue: every request is answered.
Served == Queue!Served
=============================================================================
