----------------------------- MODULE DCLCRWLock -----------------------------
(***************************************************************************)
(* The reader-writer lock of the inode tree (pfs_core/lib/dclcrwlock.cc).   *)
(* Readers count themselves in one of several counters, chosen by a hash    *)
(* of the thread, and then look for a writer; a writer sets writersMutex    *)
(* and then waits for one counter after the other to be zero.  Every atomic *)
(* operation is a step.                                                     *)
(***************************************************************************)
EXTENDS Integers, FiniteSets

CONSTANTS Threads,
          NumCores,   \* counters
          IdxOf,      \* thread2idx: which counter a thread hashes to
          Ops         \* the operations the threads call

AllOps == {"lock_shared", "try_lock_shared", "lock", "try_lock", "upgrade", "downgrade"}

ASSUME DCLCAssumption ==
    /\ IsFiniteSet(Threads)
    /\ NumCores \in Nat \ {0}
    /\ IdxOf \in [Threads -> 1..NumCores]
    /\ Ops \subseteq AllOps

VARIABLES writersMutex,     \* 0 unlocked, 1 locked
          readersCounters,
          pc,               \* where a thread is
          op,               \* in which operation
          at                \* the counter a writer looks at

vars == <<writersMutex, readersCounters, pc, op, at>>

Places == {"idle", "rd", "wr", "inc", "chk", "dec", "spin", "cas", "drop", "scan",
           "readd", "back", "store"}

TypeOK == /\ writersMutex \in {0, 1}
          /\ readersCounters \in [1..NumCores -> Int]
          /\ pc \in [Threads -> Places]
          /\ op \in [Threads -> AllOps]
          /\ at \in [Threads -> 1..NumCores]

Init == /\ writersMutex = 0
        /\ readersCounters = [i \in 1..NumCores |-> 0]
        /\ pc = [t \in Threads |-> "idle"]
        /\ op \in [Threads -> {"lock"}]
        /\ at = [t \in Threads |-> 1]

Go(t, p) == pc' = [pc EXCEPT ![t] = p]
Count(t, n) == readersCounters' = [readersCounters EXCEPT ![IdxOf[t]] = @ + n]

\* A thread calls an operation; upgrade and downgrade are for holders.
Begin(t) ==
    /\ \E o \in Ops :
         /\ pc[t] = CASE o = "upgrade" -> "rd" [] o = "downgrade" -> "wr" [] OTHER -> "idle"
         /\ op' = [op EXCEPT ![t] = o]
         /\ Go(t, IF o \in {"lock", "try_lock", "upgrade"} THEN "cas" ELSE "inc")
    /\ UNCHANGED <<writersMutex, readersCounters, at>>

\* Of unlock_shared, unlock and downgrade_lock, the report of a lock that is
\* not held leaves the same state; of try_upgrade_lock (Drop) it does not.
UnlockShared(t) ==
    /\ pc[t] = "rd"
    /\ Count(t, -1)
    /\ Go(t, "idle")
    /\ UNCHANGED <<writersMutex, op, at>>

Unlock(t) ==
    /\ pc[t] = "wr"
    /\ writersMutex' = 0
    /\ Go(t, "idle")
    /\ UNCHANGED <<readersCounters, op, at>>

----------------------------------------------------------------------------
(* Readers, and the first half of downgrade_lock *)

Inc(t) ==
    /\ pc[t] = "inc"
    /\ Count(t, 1)
    /\ Go(t, IF op[t] = "downgrade" THEN "store" ELSE "chk")
    /\ UNCHANGED <<writersMutex, op, at>>

\* Mutant: the reader does not look for a writer again.
Chk_Blind(t) ==
    /\ pc[t] = "chk"
    /\ Go(t, "rd")
    /\ UNCHANGED <<writersMutex, readersCounters, op, at>>

Chk(t) ==
    /\ pc[t] = "chk"
    /\ Go(t, IF writersMutex = 0 THEN "rd" ELSE "dec")
    /\ UNCHANGED <<writersMutex, readersCounters, op, at>>

\* Mutant: the reader waits without giving its count back.
Dec_Keeps(t) ==
    /\ pc[t] = "dec"
    /\ Go(t, IF op[t] = "lock_shared" THEN "spin" ELSE "idle")
    /\ UNCHANGED <<writersMutex, readersCounters, op, at>>

Dec(t) ==
    /\ pc[t] = "dec"
    /\ Count(t, -1)
    /\ Go(t, IF op[t] = "lock_shared" THEN "spin" ELSE "idle")
    /\ UNCHANGED <<writersMutex, op, at>>

Spin(t) ==
    /\ pc[t] = "spin" /\ writersMutex = 0
    /\ Go(t, "inc")
    /\ UNCHANGED <<writersMutex, readersCounters, op, at>>

\* The end of downgrade_lock.
Store(t) ==
    /\ pc[t] = "store"
    /\ writersMutex' = 0
    /\ Go(t, "rd")
    /\ UNCHANGED <<readersCounters, op, at>>

----------------------------------------------------------------------------
(* Writers and try_upgrade_lock *)

\* compare_exchange_strong; only lock() tries again.
Cas(t) ==
    /\ pc[t] = "cas"
    /\ \/ /\ writersMutex = 0
          /\ writersMutex' = 1
          /\ Go(t, IF op[t] = "upgrade" THEN "drop" ELSE "scan")
          /\ at' = [at EXCEPT ![t] = 1]
       \/ /\ writersMutex = 1 /\ op[t] # "lock"
          /\ Go(t, IF op[t] = "upgrade" THEN "rd" ELSE "idle")
          /\ UNCHANGED <<writersMutex, at>>
    /\ UNCHANGED <<readersCounters, op>>

Drop(t) ==
    /\ pc[t] = "drop"
    /\ Count(t, -1)
    /\ Go(t, IF readersCounters[IdxOf[t]] <= 0 THEN "back" ELSE "scan")
    /\ UNCHANGED <<writersMutex, op, at>>

\* Mutant: the last counter is not looked at.
Scan_Short(t) ==
    /\ pc[t] = "scan"
    /\ \/ /\ readersCounters[at[t]] <= 0 /\ at[t] < NumCores - 1
          /\ at' = [at EXCEPT ![t] = @ + 1]
          /\ UNCHANGED pc
       \/ /\ readersCounters[at[t]] <= 0 /\ at[t] >= NumCores - 1
          /\ Go(t, "wr")
          /\ UNCHANGED at
       \/ /\ readersCounters[at[t]] > 0 /\ op[t] # "lock"
          /\ Go(t, IF op[t] = "upgrade" THEN "readd" ELSE "back")
          /\ UNCHANGED at
    /\ UNCHANGED <<writersMutex, readersCounters, op>>

\* Mutant: the scan runs past the last counter.
Scan_Past(t) ==
    /\ pc[t] = "scan"
    /\ at[t] <= NumCores /\ readersCounters[at[t]] <= 0
    /\ at' = [at EXCEPT ![t] = @ + 1]
    /\ Go(t, IF at[t] = NumCores THEN "wr" ELSE "scan")
    /\ UNCHANGED <<writersMutex, readersCounters, op>>

Scan(t) ==
    /\ pc[t] = "scan"
    /\ \/ /\ readersCounters[at[t]] <= 0 /\ at[t] < NumCores
          /\ at' = [at EXCEPT ![t] = @ + 1]
          /\ UNCHANGED pc
       \/ /\ readersCounters[at[t]] <= 0 /\ at[t] = NumCores
          /\ Go(t, "wr")
          /\ UNCHANGED at
       \/ /\ readersCounters[at[t]] > 0 /\ op[t] # "lock"
          /\ Go(t, IF op[t] = "upgrade" THEN "readd" ELSE "back")
          /\ UNCHANGED at
    /\ UNCHANGED <<writersMutex, readersCounters, op>>

\* Mutant: try_upgrade_lock does not count its reader again.
Readd_Forgets(t) ==
    /\ pc[t] = "readd"
    /\ Go(t, "back")
    /\ UNCHANGED <<writersMutex, readersCounters, op, at>>

Readd(t) ==
    /\ pc[t] = "readd"
    /\ Count(t, 1)
    /\ Go(t, "back")
    /\ UNCHANGED <<writersMutex, op, at>>

Back(t) ==
    /\ pc[t] = "back"
    /\ writersMutex' = 0
    /\ Go(t, IF op[t] = "upgrade" THEN "rd" ELSE "idle")
    /\ UNCHANGED <<readersCounters, op, at>>

Step(t) == \/ Inc(t) \/ Chk(t) \/ Dec(t) \/ Spin(t) \/ Store(t)
           \/ Cas(t) \/ Drop(t) \/ Scan(t) \/ Readd(t) \/ Back(t)

Next == \E t \in Threads : Begin(t) \/ UnlockShared(t) \/ Unlock(t) \/ Step(t)

Spec == Init /\ [][Next]_vars

\* A thread in an operation goes on, and who has the lock gives it back, also
\* when it tries to upgrade or downgrade before.
FairSpec == Spec /\ \A t \in Threads : WF_vars(Step(t)) /\ SF_vars(UnlockShared(t) \/ Unlock(t))

----------------------------------------------------------------------------
(* Properties *)

\* A holder as the caller sees it: from the return of a lock operation to the
\* call of an unlock, an upgrade or a downgrade in progress included.
Reader(t) == pc[t] = "rd" \/ (op[t] = "upgrade" /\ pc[t] \in {"cas", "drop", "scan", "readd", "back"})
Writer(t) == pc[t] \in {"wr", "store"} \/ (op[t] = "downgrade" /\ pc[t] = "inc")

\* A writer of the inode tree is alone: nobody reads or writes beside it.
Exclusion == \A w, t \in Threads : Writer(w) /\ w # t => ~Reader(t) /\ ~Writer(t)

\* A reader's counter is positive until it unlocks or has upgraded, so
\* unlock_shared and try_upgrade_lock never report a lock that is not held,
\* whichever threads share the counter.
HeldCounted == \A t \in Threads : pc[t] \in {"rd", "drop"} => readersCounters[IdxOf[t]] > 0

\* The operations in progress implement those of an atomic lock.
Lock == INSTANCE RWLock WITH readers <- {t \in Threads : Reader(t)},
                             writers <- {t \in Threads : Writer(t)}
Implements == Lock!Spec

\* A caller of lock() that has set writersMutex gets the lock: readers that
\* come later, or try to upgrade, cannot keep it out, since lock_shared() waits
\* for writersMutex before it counts itself again.  Only try_lock_shared(),
\* which counts itself whenever it is called, can.
WriterGetsIn ==
    \A t \in Threads :
        (pc[t] = "scan" /\ op[t] = "lock")
            ~> (pc[t] = "wr" \/ \E u \in Threads : op[u] = "try_lock_shared" /\ pc[u] = "chk")

----------------------------------------------------------------------------
(* The inductive invariant *)

\* Threads that have set writersMutex.
Owner(t) == \/ pc[t] \in {"drop", "scan", "wr", "readd", "back", "store"}
            \/ pc[t] = "inc" /\ op[t] = "downgrade"

\* Threads that are in their counter.
Counted(t) == \/ pc[t] \in {"chk", "dec", "rd", "drop", "store"}
              \/ pc[t] \in {"cas", "back"} /\ op[t] = "upgrade"
CountedAt(i) == {t \in Threads : IdxOf[t] = i /\ Counted(t)}

OpOK(t) ==
    /\ pc[t] \in {"chk", "dec", "spin"} => op[t] \in {"lock_shared", "try_lock_shared"}
    /\ pc[t] = "inc" => op[t] \in {"lock_shared", "try_lock_shared", "downgrade"}
    /\ pc[t] = "store" => op[t] = "downgrade"
    /\ pc[t] \in {"cas", "scan"} => op[t] \in {"lock", "try_lock", "upgrade"}
    /\ pc[t] \in {"drop", "readd"} => op[t] = "upgrade"
    /\ pc[t] = "back" => op[t] \in {"try_lock", "upgrade"}

\* Nobody but its owner reads below the counter a writer has reached, or at
\* all once it has the lock.
ScanOK(w, t) ==
    w # t /\ Reader(t) => /\ pc[w] \in {"drop", "scan"} => at[w] <= IdxOf[t]
                          /\ ~Writer(w)

LockInv ==
    /\ TypeOK
    /\ \A i \in 1..NumCores : readersCounters[i] = Cardinality(CountedAt(i))
    /\ \A t \in Threads : OpOK(t) /\ (Owner(t) => writersMutex = 1)
    /\ \A w, t \in Threads : (Owner(w) /\ Owner(t) => w = t) /\ ScanOK(w, t)

=============================================================================
