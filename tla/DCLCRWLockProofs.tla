-------------------------- MODULE DCLCRWLockProofs --------------------------
(***************************************************************************)
(* The distributed-counter lock excludes, for any number of threads and     *)
(* counters and any hash of threads to counters.                            *)
(***************************************************************************)
EXTENDS DCLCRWLock, FiniteSetTheorems, TLAPS

USE DCLCAssumption

\* A step of thread t leaves the other threads where they are.
Others(t) == \A u \in Threads : u # t => pc'[u] = pc[u] /\ op'[u] = op[u] /\ at'[u] = at[u]

\* The threads counted in a counter are finitely many.
LEMMA CountedFinite == ASSUME NEW i PROVE IsFiniteSet(CountedAt(i))
<1>1. CountedAt(i) \subseteq Threads
  BY Zenon DEF CountedAt
<1>2. QED
  BY Zenon, <1>1, FS_Subset

CountersOK == \A i \in 1..NumCores : readersCounters[i] = Cardinality(CountedAt(i))

\* A counter keeps counting when a thread counts itself exactly when it
\* becomes one of the counted.
LEMMA Counting ==
    ASSUME TypeOK, CountersOK, NEW t \in Threads, Others(t),
           \/ (Counted(t) <=> Counted(t)') /\ readersCounters' = readersCounters
           \/ ~Counted(t) /\ Counted(t)' /\ Count(t, 1)
           \/ Counted(t) /\ ~Counted(t)' /\ Count(t, -1)
    PROVE  CountersOK'
<1> SUFFICES ASSUME NEW i \in 1..NumCores
             PROVE  readersCounters'[i] = Cardinality(CountedAt(i)')
  BY Zenon DEF CountersOK
<1>0. \A u \in Threads : u # t => (Counted(u)' <=> Counted(u))
  BY Zenon DEF Others, Counted
<1>1. CASE i # IdxOf[t]
  <2>1. CountedAt(i)' = CountedAt(i)
    BY Zenon, <1>0, <1>1 DEF CountedAt
  <2>2. readersCounters'[i] = readersCounters[i]
    BY Zenon, <1>1 DEF Count, TypeOK
  <2>3. QED
    BY Zenon, <2>1, <2>2 DEF CountersOK
<1>2. CASE i = IdxOf[t] /\ (Counted(t) <=> Counted(t)') /\ readersCounters' = readersCounters
  <2>1. CountedAt(i)' = CountedAt(i)
    BY Zenon, <1>0, <1>2 DEF CountedAt
  <2>2. QED
    BY Zenon, <1>2, <2>1 DEF CountersOK
<1>3. CASE i = IdxOf[t] /\ ~Counted(t) /\ Counted(t)' /\ Count(t, 1)
  <2>1. CountedAt(i)' = CountedAt(i) \cup {t} /\ t \notin CountedAt(i)
    BY Zenon, <1>0, <1>3 DEF CountedAt
  <2>2. Cardinality(CountedAt(i)') = Cardinality(CountedAt(i)) + 1
    BY Zenon, <2>1, CountedFinite, FS_AddElement
  <2>3. readersCounters'[i] = readersCounters[i] + 1
    BY Zenon, <1>3 DEF Count, TypeOK
  <2>4. QED
    BY Zenon, <2>2, <2>3 DEF CountersOK
<1>4. CASE i = IdxOf[t] /\ Counted(t) /\ ~Counted(t)' /\ Count(t, -1)
  <2>1. CountedAt(i)' = CountedAt(i) \ {t} /\ t \in CountedAt(i)
    BY Zenon, <1>0, <1>4 DEF CountedAt
  <2>2. Cardinality(CountedAt(i)') = Cardinality(CountedAt(i)) - 1
    BY <2>1, CountedFinite, FS_RemoveElement, ZenonT(60)
  <2>3. readersCounters'[i] = readersCounters[i] + (-1)
    BY Zenon, <1>4 DEF Count, TypeOK
  <2>4. readersCounters[i] \in Int
    BY Zenon DEF TypeOK
  <2>5. QED
    BY Zenon, <2>2, <2>3, <2>4 DEF CountersOK
<1>5. QED
  BY Zenon, <1>1, <1>2, <1>3, <1>4

\* A counter that is not positive has nobody in it.
LEMMA NobodyCounted ==
    ASSUME CountersOK, NEW t \in Threads, readersCounters[IdxOf[t]] <= 0
    PROVE  ~Counted(t)
<1> SUFFICES ASSUME Counted(t) PROVE FALSE
  BY Zenon
<1>1. t \in CountedAt(IdxOf[t])
  BY Zenon DEF CountedAt
<1>2. Cardinality(CountedAt(IdxOf[t])) \in Nat /\ Cardinality(CountedAt(IdxOf[t])) # 0
  BY Zenon, <1>1, CountedFinite, FS_CardinalityType, FS_EmptySet
<1>3. QED
  BY <1>2 DEF CountersOK

\* A lock that nobody has used satisfies the invariant.
LEMMA InitLock == Init => LockInv
<1> SUFFICES ASSUME Init PROVE LockInv
  BY Zenon
<1>1. TypeOK
  BY DEF Init, TypeOK, Places, AllOps
<1>2. \A i \in 1..NumCores : CountedAt(i) = {}
  BY Zenon DEF Init, CountedAt, Counted
<1>3. QED
  BY <1>1, <1>2, FS_EmptySet, ZenonT(60) DEF Init, LockInv, OpOK, Owner, ScanOK, Reader

\* What a step of thread t owes the rest of the invariant.
LEMMA Stepping ==
    ASSUME LockInv, NEW t \in Threads, Others(t), TypeOK', CountersOK', OpOK(t)',
           Owner(t)' => writersMutex' = 1,
           \A u \in Threads \ {t} : Owner(u) => writersMutex' = 1,
           Owner(t)' => Owner(t) \/ writersMutex = 0,
           \A u \in Threads \ {t} : ScanOK(t, u)' /\ ScanOK(u, t)'
    PROVE  LockInv'
<1>1. \A u \in Threads : OpOK(u)' /\ (Owner(u)' => writersMutex' = 1)
  BY DEF LockInv, Others, OpOK, Owner
<1>2. \A w, u \in Threads : Owner(w)' /\ Owner(u)' => w = u
  BY DEF LockInv, Others, Owner
<1>3. \A w, u \in Threads : ScanOK(w, u)'
  <2>1. \A w, u \in Threads \ {t} : ScanOK(w, u)'
    BY DEF LockInv, Others, ScanOK, Reader, Writer
  <2>2. \A w \in Threads : ScanOK(w, w)'
    BY Zenon DEF ScanOK
  <2>3. QED
    BY Zenon, <2>1, <2>2
<1>4. QED
  BY Zenon, <1>1, <1>2, <1>3 DEF LockInv, CountersOK

\* Every atomic operation of every lock operation keeps the invariant.
LEMMA NextLock == LockInv /\ [Next]_vars => LockInv'
<1> SUFFICES ASSUME LockInv, [Next]_vars PROVE LockInv'
  BY Zenon
<1>0. TypeOK /\ CountersOK
  BY Zenon DEF LockInv, CountersOK
<1>1. ASSUME NEW t \in Threads, Begin(t) PROVE LockInv'
  <2>1. TypeOK'
    BY <1>0, <1>1 DEF TypeOK, Begin, Go, Places, AllOps
  <2>2. Others(t)
    BY Zenon, <1>0, <1>1 DEF TypeOK, Begin, Go, Others
  <2>3. CountersOK'
    BY <1>0, <1>1, <2>2, Counting, ZenonT(60) DEF LockInv, TypeOK, OpOK, Begin, Go, Counted
  <2>4. OpOK(t)'
    BY <1>0, <1>1 DEF LockInv, TypeOK, OpOK, Begin, Go, AllOps
  <2>5. /\ Owner(t)' => writersMutex' = 1
        /\ \A u \in Threads \ {t} : Owner(u) => writersMutex' = 1
        /\ Owner(t)' => Owner(t) \/ writersMutex = 0
    BY <1>0, <1>1 DEF LockInv, TypeOK, OpOK, Begin, Go, Owner
  <2>6. ASSUME NEW u \in Threads \ {t} PROVE ScanOK(t, u)' /\ ScanOK(u, t)'
    BY <1>0, <1>1, <2>2 DEF LockInv, TypeOK, OpOK, Begin, Go, Others, Owner, ScanOK, Reader, Writer
  <2>7. QED
    BY Zenon, <2>1, <2>2, <2>3, <2>4, <2>5, <2>6, Stepping
<1>2. ASSUME NEW t \in Threads, UnlockShared(t) PROVE LockInv'
  <2>1. TypeOK'
    BY <1>0, <1>2 DEF TypeOK, UnlockShared, Go, Count, Places, AllOps
  <2>2. Others(t)
    BY Zenon, <1>0, <1>2 DEF TypeOK, UnlockShared, Go, Others
  <2>3. CountersOK'
    BY Zenon, <1>0, <1>2, <2>2, Counting DEF LockInv, TypeOK, OpOK, UnlockShared, Go, Counted
  <2>4. OpOK(t)'
    BY Zenon, <1>0, <1>2 DEF LockInv, TypeOK, OpOK, UnlockShared, Go
  <2>5. /\ Owner(t)' => writersMutex' = 1
        /\ \A u \in Threads \ {t} : Owner(u) => writersMutex' = 1
        /\ Owner(t)' => Owner(t) \/ writersMutex = 0
    BY Zenon, <1>0, <1>2 DEF LockInv, TypeOK, OpOK, UnlockShared, Go, Owner
  <2>6. ASSUME NEW u \in Threads \ {t} PROVE ScanOK(t, u)' /\ ScanOK(u, t)'
    BY <1>0, <1>2, <2>2 DEF LockInv, TypeOK, OpOK, UnlockShared, Go, Others, Owner, ScanOK, Reader, Writer
  <2>7. QED
    BY <2>1, <2>2, <2>3, <2>4, <2>5, <2>6, Stepping
<1>3. ASSUME NEW t \in Threads, Unlock(t) PROVE LockInv'
  <2>1. TypeOK'
    BY Zenon, <1>0, <1>3 DEF TypeOK, Unlock, Go, Places, AllOps
  <2>2. Others(t)
    BY Zenon, <1>0, <1>3 DEF TypeOK, Unlock, Go, Others
  <2>3. CountersOK'
    BY <1>0, <1>3, <2>2, Counting, ZenonT(60) DEF LockInv, TypeOK, OpOK, Unlock, Go, Counted
  <2>4. OpOK(t)'
    BY Zenon, <1>0, <1>3 DEF LockInv, TypeOK, OpOK, Unlock, Go
  <2>5. /\ Owner(t)' => writersMutex' = 1
        /\ \A u \in Threads \ {t} : Owner(u) => writersMutex' = 1
        /\ Owner(t)' => Owner(t) \/ writersMutex = 0
    BY Zenon, <1>0, <1>3 DEF LockInv, TypeOK, OpOK, Unlock, Go, Owner
  <2>6. ASSUME NEW u \in Threads \ {t} PROVE ScanOK(t, u)' /\ ScanOK(u, t)'
    BY Zenon, <1>0, <1>3, <2>2 DEF LockInv, TypeOK, OpOK, Unlock, Go, Others, Owner, ScanOK, Reader, Writer
  <2>7. QED
    BY <2>1, <2>2, <2>3, <2>4, <2>5, <2>6, Stepping
<1>4. ASSUME NEW t \in Threads, Inc(t) PROVE LockInv'
  <2>1. TypeOK'
    BY <1>0, <1>4 DEF TypeOK, Inc, Go, Count, Places, AllOps
  <2>2. Others(t)
    BY Zenon, <1>0, <1>4 DEF TypeOK, Inc, Go, Others
  <2>3. CountersOK'
    BY <1>0, <1>4, <2>2, Counting, ZenonT(60) DEF LockInv, TypeOK, OpOK, Inc, Go, Counted
  <2>4. OpOK(t)'
    BY Zenon, <1>0, <1>4 DEF LockInv, TypeOK, OpOK, Inc, Go
  <2>5. /\ Owner(t)' => writersMutex' = 1
        /\ \A u \in Threads \ {t} : Owner(u) => writersMutex' = 1
        /\ Owner(t)' => Owner(t) \/ writersMutex = 0
    BY Zenon, <1>0, <1>4 DEF LockInv, TypeOK, OpOK, Inc, Go, Owner
  <2>6. ASSUME NEW u \in Threads \ {t} PROVE ScanOK(t, u)' /\ ScanOK(u, t)'
    BY <1>0, <1>4, <2>2 DEF LockInv, TypeOK, OpOK, Inc, Go, Others, Owner, ScanOK, Reader, Writer
  <2>7. QED
    BY <2>1, <2>2, <2>3, <2>4, <2>5, <2>6, Stepping
<1>5. ASSUME NEW t \in Threads, Chk(t) PROVE LockInv'
  <2>1. TypeOK'
    BY Zenon, <1>0, <1>5 DEF TypeOK, Chk, Go, Places, AllOps
  <2>2. Others(t)
    BY Zenon, <1>0, <1>5 DEF TypeOK, Chk, Go, Others
  <2>3. CountersOK'
    BY Zenon, <1>0, <1>5, <2>2, Counting DEF LockInv, TypeOK, OpOK, Chk, Go, Counted
  <2>4. OpOK(t)'
    BY Zenon, <1>0, <1>5 DEF LockInv, TypeOK, OpOK, Chk, Go
  <2>5. /\ Owner(t)' => writersMutex' = 1
        /\ \A u \in Threads \ {t} : Owner(u) => writersMutex' = 1
        /\ Owner(t)' => Owner(t) \/ writersMutex = 0
    BY Zenon, <1>0, <1>5 DEF LockInv, TypeOK, OpOK, Chk, Go, Owner
  <2>6. ASSUME NEW u \in Threads \ {t} PROVE ScanOK(t, u)' /\ ScanOK(u, t)'
    BY <1>0, <1>5, <2>2 DEF LockInv, TypeOK, OpOK, Chk, Go, Others, Owner, ScanOK, Reader, Writer
  <2>7. QED
    BY <2>1, <2>2, <2>3, <2>4, <2>5, <2>6, Stepping
<1>6. ASSUME NEW t \in Threads, Dec(t) PROVE LockInv'
  <2>1. TypeOK'
    BY <1>0, <1>6 DEF TypeOK, Dec, Go, Count, Places, AllOps
  <2>2. Others(t)
    BY Zenon, <1>0, <1>6 DEF TypeOK, Dec, Go, Others
  <2>3. CountersOK'
    BY Zenon, <1>0, <1>6, <2>2, Counting DEF LockInv, TypeOK, OpOK, Dec, Go, Counted
  <2>4. OpOK(t)'
    BY Zenon, <1>0, <1>6 DEF LockInv, TypeOK, OpOK, Dec, Go
  <2>5. /\ Owner(t)' => writersMutex' = 1
        /\ \A u \in Threads \ {t} : Owner(u) => writersMutex' = 1
        /\ Owner(t)' => Owner(t) \/ writersMutex = 0
    BY Zenon, <1>0, <1>6 DEF LockInv, TypeOK, OpOK, Dec, Go, Owner
  <2>6. ASSUME NEW u \in Threads \ {t} PROVE ScanOK(t, u)' /\ ScanOK(u, t)'
    BY <1>0, <1>6, <2>2 DEF LockInv, TypeOK, OpOK, Dec, Go, Others, Owner, ScanOK, Reader, Writer
  <2>7. QED
    BY <2>1, <2>2, <2>3, <2>4, <2>5, <2>6, Stepping
<1>7. ASSUME NEW t \in Threads, Spin(t) PROVE LockInv'
  <2>1. TypeOK'
    BY Zenon, <1>0, <1>7 DEF TypeOK, Spin, Go, Places, AllOps
  <2>2. Others(t)
    BY Zenon, <1>0, <1>7 DEF TypeOK, Spin, Go, Others
  <2>3. CountersOK'
    BY <1>0, <1>7, <2>2, Counting, ZenonT(60) DEF LockInv, TypeOK, OpOK, Spin, Go, Counted
  <2>4. OpOK(t)'
    BY Zenon, <1>0, <1>7 DEF LockInv, TypeOK, OpOK, Spin, Go
  <2>5. /\ Owner(t)' => writersMutex' = 1
        /\ \A u \in Threads \ {t} : Owner(u) => writersMutex' = 1
        /\ Owner(t)' => Owner(t) \/ writersMutex = 0
    BY <1>0, <1>7, ZenonT(60) DEF LockInv, TypeOK, OpOK, Spin, Go, Owner
  <2>6. ASSUME NEW u \in Threads \ {t} PROVE ScanOK(t, u)' /\ ScanOK(u, t)'
    BY <1>0, <1>7, <2>2, ZenonT(60) DEF LockInv, TypeOK, OpOK, Spin, Go, Others,
        Owner, ScanOK, Reader, Writer
  <2>7. QED
    BY <2>1, <2>2, <2>3, <2>4, <2>5, <2>6, Stepping
<1>8. ASSUME NEW t \in Threads, Store(t) PROVE LockInv'
  <2>1. TypeOK'
    BY Zenon, <1>0, <1>8 DEF TypeOK, Store, Go, Places, AllOps
  <2>2. Others(t)
    BY Zenon, <1>0, <1>8 DEF TypeOK, Store, Go, Others
  <2>3. CountersOK'
    BY Zenon, <1>0, <1>8, <2>2, Counting DEF LockInv, TypeOK, OpOK, Store, Go, Counted
  <2>4. OpOK(t)'
    BY Zenon, <1>0, <1>8 DEF LockInv, TypeOK, OpOK, Store, Go
  <2>5. /\ Owner(t)' => writersMutex' = 1
        /\ \A u \in Threads \ {t} : Owner(u) => writersMutex' = 1
        /\ Owner(t)' => Owner(t) \/ writersMutex = 0
    BY Zenon, <1>0, <1>8 DEF LockInv, TypeOK, OpOK, Store, Go, Owner
  <2>6. ASSUME NEW u \in Threads \ {t} PROVE ScanOK(t, u)' /\ ScanOK(u, t)'
    BY SMTT(30), <1>0, <1>8, <2>2 DEF LockInv, TypeOK, OpOK, Store, Go, Others, Owner, ScanOK, Reader, Writer
  <2>7. QED
    BY <2>1, <2>2, <2>3, <2>4, <2>5, <2>6, Stepping
<1>9. ASSUME NEW t \in Threads, Cas(t) PROVE LockInv'
  <2>1. TypeOK'
    <3>1. pc' \in [Threads -> Places] /\ writersMutex' \in {0, 1}
      BY <1>0, <1>9, ZenonT(60) DEF TypeOK, Cas, Go, Places
    <3>2. at' = at \/ at' = [at EXCEPT ![t] = 1]
      BY Zenon, <1>9 DEF Cas
    <3>3. 1 \in 1..NumCores
      OBVIOUS
    <3>4. at' \in [Threads -> 1..NumCores]
      BY Zenon, <1>0, <3>2, <3>3 DEF TypeOK
    <3>5. QED
      BY Zenon, <1>0, <1>9, <3>1, <3>4 DEF TypeOK, Cas
  <2>2. Others(t)
    BY Zenon, <1>0, <1>9 DEF TypeOK, Cas, Go, Others
  <2>3. CountersOK'
    BY <1>0, <1>9, <2>2, Counting, ZenonT(60) DEF LockInv, TypeOK, OpOK, Cas, Go, Counted
  <2>4. OpOK(t)'
    BY <1>0, <1>9 DEF LockInv, TypeOK, OpOK, Cas, Go
  <2>5. /\ Owner(t)' => writersMutex' = 1
        /\ \A u \in Threads \ {t} : Owner(u) => writersMutex' = 1
        /\ Owner(t)' => Owner(t) \/ writersMutex = 0
    BY <1>0, <1>9 DEF LockInv, TypeOK, OpOK, Cas, Go, Owner
  <2>6. ASSUME NEW u \in Threads \ {t} PROVE ScanOK(t, u)' /\ ScanOK(u, t)'
    BY SMTT(30), <1>0, <1>9, <2>2 DEF LockInv, TypeOK, OpOK, Cas, Go, Others, Owner, ScanOK, Reader, Writer
  <2>7. QED
    BY <2>1, <2>2, <2>3, <2>4, <2>5, <2>6, Stepping
<1>10. ASSUME NEW t \in Threads, Drop(t) PROVE LockInv'
  <2>1. TypeOK'
    BY <1>0, <1>10 DEF TypeOK, Drop, Go, Count, Places, AllOps
  <2>2. Others(t)
    BY Zenon, <1>0, <1>10 DEF TypeOK, Drop, Go, Others
  <2>3. CountersOK'
    <3>1. readersCounters[IdxOf[t]] > 0
      BY <1>0, <1>10, NobodyCounted DEF TypeOK, Drop, Counted
    <3>2. QED
      BY <1>0, <1>10, <2>2, <3>1, Counting DEF LockInv, TypeOK, OpOK, Drop, Go, Counted
  <2>4. OpOK(t)'
    BY Zenon, <1>0, <1>10 DEF LockInv, TypeOK, OpOK, Drop, Go
  <2>5. /\ Owner(t)' => writersMutex' = 1
        /\ \A u \in Threads \ {t} : Owner(u) => writersMutex' = 1
        /\ Owner(t)' => Owner(t) \/ writersMutex = 0
    BY Zenon, <1>0, <1>10 DEF LockInv, TypeOK, OpOK, Drop, Go, Owner
  <2>6. ASSUME NEW u \in Threads \ {t} PROVE ScanOK(t, u)' /\ ScanOK(u, t)'
    BY <1>0, <1>10, <2>2 DEF LockInv, TypeOK, OpOK, Drop, Go, Others, Owner, ScanOK, Reader, Writer
  <2>7. QED
    BY <2>1, <2>2, <2>3, <2>4, <2>5, <2>6, Stepping
<1>11. ASSUME NEW t \in Threads, Scan(t) PROVE LockInv'
  <2>1. TypeOK'
    <3>1. pc' \in [Threads -> Places]
      BY <1>0, <1>11, ZenonT(60) DEF TypeOK, Scan, Go, Places
    <3>2. at[t] < NumCores => at[t] + 1 \in 1..NumCores
      BY <1>0 DEF TypeOK
    <3>3. at' \in [Threads -> 1..NumCores]
      BY <1>0, <1>11, <3>2, ZenonT(60) DEF TypeOK, Scan
    <3>4. QED
      BY Zenon, <1>0, <1>11, <3>1, <3>3 DEF TypeOK, Scan
  <2>2. Others(t)
    BY Zenon, <1>0, <1>11 DEF TypeOK, Scan, Go, Others
  <2>3. CountersOK'
    BY <1>0, <1>11, <2>2, Counting, ZenonT(60) DEF LockInv, TypeOK, OpOK, Scan, Go, Counted
  <2>4. OpOK(t)'
    BY <1>0, <1>11 DEF LockInv, TypeOK, OpOK, Scan, Go
  <2>5. /\ Owner(t)' => writersMutex' = 1
        /\ \A u \in Threads \ {t} : Owner(u) => writersMutex' = 1
        /\ Owner(t)' => Owner(t) \/ writersMutex = 0
    BY Zenon, <1>0, <1>11 DEF LockInv, TypeOK, OpOK, Scan, Go, Owner
  <2>6. ASSUME NEW u \in Threads \ {t} PROVE ScanOK(t, u)' /\ ScanOK(u, t)'
    <3>1. Owner(t) /\ ~Owner(u)
      BY Zenon, <1>11 DEF LockInv, Scan, Owner
    <3>2. ~Writer(u) /\ pc[u] \notin {"drop", "scan"}
      BY Zenon, <3>1 DEF Owner, Writer
    <3>3. ScanOK(u, t)'
      BY Zenon, <2>2, <3>2 DEF Others, ScanOK, Writer
    <3>4. Reader(u) => Counted(u)
      BY Zenon, <3>1 DEF Owner, Reader, Counted
    <3>5. readersCounters[at[t]] <= 0 /\ Reader(u) => at[t] # IdxOf[u]
      BY Zenon, <1>0, <3>4, NobodyCounted
    <3>6. Reader(u) => at[t] <= IdxOf[u]
      BY Zenon, <1>11 DEF LockInv, ScanOK, Scan
    <3>7. at[t] \in 1..NumCores /\ IdxOf[u] \in 1..NumCores
      BY Zenon, <1>0 DEF TypeOK
    <3>8. Reader(u)' <=> Reader(u)
      BY Zenon, <2>2 DEF Others, Reader
    <3>9. SUFFICES ASSUME Reader(u)
                   PROVE  (pc'[t] \in {"drop", "scan"} => at'[t] <= IdxOf[u]) /\ ~Writer(t)'
      BY Zenon, <3>3, <3>8 DEF ScanOK
    <3>10. CASE readersCounters[at[t]] <= 0 /\ at[t] < NumCores /\ at'[t] = at[t] + 1 /\ pc' = pc
      BY <1>11, <3>5, <3>6, <3>7, <3>9, <3>10 DEF Scan, Writer
    <3>11. CASE readersCounters[at[t]] > 0 /\ pc'[t] \in {"readd", "back"}
      BY Zenon, <3>11 DEF Writer
    <3>12. ~(readersCounters[at[t]] <= 0 /\ at[t] = NumCores)
      BY <3>5, <3>6, <3>7, <3>9
    <3>13. QED
      BY Zenon, <1>0, <1>11, <3>10, <3>11, <3>12 DEF TypeOK, Scan, Go
  <2>7. QED
    BY <2>1, <2>2, <2>3, <2>4, <2>5, <2>6, Stepping
<1>12. ASSUME NEW t \in Threads, Readd(t) PROVE LockInv'
  <2>1. TypeOK'
    BY <1>0, <1>12 DEF TypeOK, Readd, Go, Count, Places, AllOps
  <2>2. Others(t)
    BY Zenon, <1>0, <1>12 DEF TypeOK, Readd, Go, Others
  <2>3. CountersOK'
    BY <1>0, <1>12, <2>2, Counting, ZenonT(60) DEF LockInv, TypeOK, OpOK, Readd, Go, Counted
  <2>4. OpOK(t)'
    BY Zenon, <1>0, <1>12 DEF LockInv, TypeOK, OpOK, Readd, Go
  <2>5. /\ Owner(t)' => writersMutex' = 1
        /\ \A u \in Threads \ {t} : Owner(u) => writersMutex' = 1
        /\ Owner(t)' => Owner(t) \/ writersMutex = 0
    BY Zenon, <1>0, <1>12 DEF LockInv, TypeOK, OpOK, Readd, Go, Owner
  <2>6. ASSUME NEW u \in Threads \ {t} PROVE ScanOK(t, u)' /\ ScanOK(u, t)'
    BY <1>0, <1>12, <2>2 DEF LockInv, TypeOK, OpOK, Readd, Go, Others, Owner, ScanOK, Reader, Writer
  <2>7. QED
    BY <2>1, <2>2, <2>3, <2>4, <2>5, <2>6, Stepping
<1>13. ASSUME NEW t \in Threads, Back(t) PROVE LockInv'
  <2>1. TypeOK'
    BY Zenon, <1>0, <1>13 DEF TypeOK, Back, Go, Places, AllOps
  <2>2. Others(t)
    BY Zenon, <1>0, <1>13 DEF TypeOK, Back, Go, Others
  <2>3. CountersOK'
    BY <1>0, <1>13, <2>2, Counting, ZenonT(60) DEF LockInv, TypeOK, OpOK, Back, Go, Counted
  <2>4. OpOK(t)'
    BY Zenon, <1>0, <1>13 DEF LockInv, TypeOK, OpOK, Back, Go
  <2>5. /\ Owner(t)' => writersMutex' = 1
        /\ \A u \in Threads \ {t} : Owner(u) => writersMutex' = 1
        /\ Owner(t)' => Owner(t) \/ writersMutex = 0
    BY Zenon, <1>0, <1>13 DEF LockInv, TypeOK, OpOK, Back, Go, Owner
  <2>6. ASSUME NEW u \in Threads \ {t} PROVE ScanOK(t, u)' /\ ScanOK(u, t)'
    BY <1>0, <1>13, <2>2 DEF LockInv, TypeOK, OpOK, Back, Go, Others, Owner, ScanOK, Reader, Writer
  <2>7. QED
    BY <2>1, <2>2, <2>3, <2>4, <2>5, <2>6, Stepping
<1>14. CASE UNCHANGED vars
  <2>1. \A i : CountedAt(i)' = CountedAt(i)
    BY Zenon, <1>14 DEF vars, CountedAt, Counted
  <2>2. QED
    BY <1>14, <2>1 DEF vars, LockInv, TypeOK, OpOK, Owner, ScanOK, Reader, Writer
<1>15. QED
  BY Zenon, <1>1, <1>2, <1>3, <1>4, <1>5, <1>6, <1>7, <1>8, <1>9, <1>10, <1>11, <1>12, <1>13, <1>14 DEF Next, Step

\* LockInv holds in every reachable state: the counters count, writersMutex
\* has at most one owner, and nobody reads behind a writer's scan.
THEOREM LockInvariant == Spec => []LockInv
  BY InitLock, NextLock, PTL DEF Spec

\* The inode tree's lock never lets anyone in beside a writer.
THEOREM Excludes == Spec => []Exclusion
<1>1. LockInv => Exclusion
  BY Zenon DEF LockInv, Exclusion, ScanOK, Owner, Writer
<1>2. QED
  BY <1>1, LockInvariant, PTL

\* unlock_shared and try_upgrade_lock never find a holder's counter at zero.
THEOREM HoldersCounted == Spec => []HeldCounted
<1>1. LockInv => HeldCounted
  <2> SUFFICES ASSUME LockInv, NEW t \in Threads, pc[t] \in {"rd", "drop"}
               PROVE  readersCounters[IdxOf[t]] > 0
    BY Zenon DEF HeldCounted
  <2>1. CountersOK /\ Counted(t) /\ readersCounters[IdxOf[t]] \in Int
    BY Zenon DEF LockInv, CountersOK, Counted, TypeOK
  <2>2. QED
    BY <2>1, NobodyCounted
<1>2. QED
  BY <1>1, LockInvariant, PTL

----------------------------------------------------------------------------
(* The lock implements the atomic reader-writer lock *)

\* The holders of the atomic lock.
RS == {t \in Threads : Reader(t)}
WS == {t \in Threads : Writer(t)}

\* A step of thread t changes the holders in t alone.
LEMMA HoldersOf ==
    ASSUME NEW t \in Threads, Others(t)
    PROVE  /\ RS' = IF Reader(t)' THEN RS \cup {t} ELSE RS \ {t}
           /\ WS' = IF Writer(t)' THEN WS \cup {t} ELSE WS \ {t}
  BY DEF Others, RS, WS, Reader, Writer

\* A step that changes nothing for its thread changes no holder.
LEMMA Quiet ==
    ASSUME NEW t \in Threads, Others(t), Reader(t)' <=> Reader(t), Writer(t)' <=> Writer(t)
    PROVE  RS' = RS /\ WS' = WS
  BY HoldersOf DEF RS, WS

\* A writer is the only holder.
LEMMA Alone ==
    ASSUME LockInv, NEW t \in Threads, Writer(t)
    PROVE  WS = {t} /\ RS \subseteq {t}
  BY Zenon DEF LockInv, ScanOK, Owner, Writer, RS, WS

\* Every action of a thread leaves the other threads where they are.
LEMMA OthersStep ==
    ASSUME TypeOK, NEW t \in Threads, Begin(t) \/ UnlockShared(t) \/ Unlock(t) \/ Step(t)
    PROVE  Others(t)
  BY ZenonT(40) DEF TypeOK, Others, Go, Step, Begin, UnlockShared, Unlock, Inc, Chk, Dec, Spin, Store, Cas,
         Drop, Scan, Readd, Back

\* Every atomic operation is a step of the atomic lock or changes no holder.
LEMMA StepRefines == LockInv /\ LockInv' /\ [Next]_vars => [Lock!Next]_<<RS, WS>>
<1> SUFFICES ASSUME LockInv, LockInv', [Next]_vars
             PROVE  Lock!Next \/ (RS' = RS /\ WS' = WS)
  BY Zenon
<1>0. TypeOK /\ \A t \in Threads : OpOK(t)
  BY Zenon DEF LockInv
<1>1. ASSUME NEW t \in Threads, Begin(t) PROVE RS' = RS /\ WS' = WS
  <2>1. (Reader(t)' <=> Reader(t)) /\ (Writer(t)' <=> Writer(t))
    BY <1>0, <1>1 DEF TypeOK, OpOK, Begin, Go, Reader, Writer
  <2>2. QED
    BY Zenon, <1>0, <1>1, <2>1, OthersStep, Quiet DEF Step
<1>2. ASSUME NEW t \in Threads, Inc(t) PROVE RS' = RS /\ WS' = WS
  <2>1. (Reader(t)' <=> Reader(t)) /\ (Writer(t)' <=> Writer(t))
    BY Zenon, <1>0, <1>2 DEF TypeOK, OpOK, Inc, Go, Reader, Writer
  <2>2. QED
    BY Zenon, <1>0, <1>2, <2>1, OthersStep, Quiet DEF Step
<1>3. ASSUME NEW t \in Threads, Dec(t) PROVE RS' = RS /\ WS' = WS
  <2>1. (Reader(t)' <=> Reader(t)) /\ (Writer(t)' <=> Writer(t))
    BY Zenon, <1>0, <1>3 DEF TypeOK, OpOK, Dec, Go, Reader, Writer
  <2>2. QED
    BY Zenon, <1>0, <1>3, <2>1, OthersStep, Quiet DEF Step
<1>4. ASSUME NEW t \in Threads, Spin(t) PROVE RS' = RS /\ WS' = WS
  <2>1. (Reader(t)' <=> Reader(t)) /\ (Writer(t)' <=> Writer(t))
    BY <1>0, <1>4, ZenonT(60) DEF TypeOK, OpOK, Spin, Go, Reader, Writer
  <2>2. QED
    BY Zenon, <1>0, <1>4, <2>1, OthersStep, Quiet DEF Step
<1>5. ASSUME NEW t \in Threads, Cas(t) PROVE RS' = RS /\ WS' = WS
  <2>1. (Reader(t)' <=> Reader(t)) /\ (Writer(t)' <=> Writer(t))
    BY <1>0, <1>5 DEF TypeOK, OpOK, Cas, Go, Reader, Writer
  <2>2. QED
    BY Zenon, <1>0, <1>5, <2>1, OthersStep, Quiet DEF Step
<1>6. ASSUME NEW t \in Threads, Drop(t) PROVE RS' = RS /\ WS' = WS
  <2>1. (Reader(t)' <=> Reader(t)) /\ (Writer(t)' <=> Writer(t))
    BY Zenon, <1>0, <1>6 DEF TypeOK, OpOK, Drop, Go, Reader, Writer
  <2>2. QED
    BY Zenon, <1>0, <1>6, <2>1, OthersStep, Quiet DEF Step
<1>7. ASSUME NEW t \in Threads, Readd(t) PROVE RS' = RS /\ WS' = WS
  <2>1. (Reader(t)' <=> Reader(t)) /\ (Writer(t)' <=> Writer(t))
    BY Zenon, <1>0, <1>7 DEF TypeOK, OpOK, Readd, Go, Reader, Writer
  <2>2. QED
    BY Zenon, <1>0, <1>7, <2>1, OthersStep, Quiet DEF Step
<1>8. ASSUME NEW t \in Threads, Back(t) PROVE RS' = RS /\ WS' = WS
  <2>1. (Reader(t)' <=> Reader(t)) /\ (Writer(t)' <=> Writer(t))
    BY Zenon, <1>0, <1>8 DEF TypeOK, OpOK, Back, Go, Reader, Writer
  <2>2. QED
    BY Zenon, <1>0, <1>8, <2>1, OthersStep, Quiet DEF Step
<1>9. ASSUME NEW t \in Threads, UnlockShared(t) PROVE Lock!UnlockShared(t)
  <2>1. Reader(t) /\ ~Reader(t)' /\ ~Writer(t) /\ ~Writer(t)'
    BY Zenon, <1>0, <1>9 DEF TypeOK, UnlockShared, Go, Reader, Writer
  <2>2. QED
    BY <1>0, <1>9, <2>1, OthersStep, HoldersOf DEF Lock!UnlockShared, RS, WS
<1>10. ASSUME NEW t \in Threads, Unlock(t) PROVE Lock!Unlock(t)
  <2>1. ~Reader(t) /\ ~Reader(t)' /\ Writer(t) /\ ~Writer(t)'
    BY Zenon, <1>0, <1>10 DEF TypeOK, Unlock, Go, Reader, Writer
  <2>2. WS = {t}
    BY Zenon, <2>1, Alone
  <2>3. QED
    BY <1>0, <1>10, <2>1, <2>2, OthersStep, HoldersOf DEF Lock!Unlock, RS, WS
<1>11. ASSUME NEW t \in Threads, Chk(t) PROVE Lock!LockShared(t) \/ (RS' = RS /\ WS' = WS)
  <2>1. ~Reader(t) /\ ~Writer(t) /\ ~Writer(t)' /\ Others(t)
    BY <1>0, <1>11, OthersStep, ZenonT(60) DEF TypeOK, OpOK, Chk, Go, Reader, Writer, Step
  <2>2. CASE writersMutex = 0
    <3>1. Reader(t)'
      BY Zenon, <1>0, <1>11, <2>2 DEF TypeOK, Chk, Go, Reader
    <3>2. WS = {}
      BY <2>2 DEF LockInv, WS, Writer, Owner
    <3>3. QED
      BY Zenon, <2>1, <3>1, <3>2, HoldersOf DEF Lock!LockShared, RS, WS
  <2>3. CASE writersMutex # 0
    <3>1. ~Reader(t)'
      BY Zenon, <1>0, <1>11, <2>3 DEF TypeOK, OpOK, Chk, Go, Reader
    <3>2. QED
      BY Zenon, <2>1, <3>1, Quiet
  <2>4. QED
    BY Zenon, <2>2, <2>3
<1>12. ASSUME NEW t \in Threads, Store(t) PROVE Lock!Downgrade(t)
  <2>1. ~Reader(t) /\ Reader(t)' /\ Writer(t) /\ ~Writer(t)'
    BY Zenon, <1>0, <1>12 DEF TypeOK, OpOK, Store, Go, Reader, Writer
  <2>2. WS = {t} /\ RS = {}
    BY <2>1, Alone DEF RS
  <2>3. QED
    BY Zenon, <1>0, <1>12, <2>1, <2>2, OthersStep, HoldersOf DEF Lock!Downgrade, RS, WS, Step
<1>13. ASSUME NEW t \in Threads, Scan(t)
       PROVE  Lock!Lock(t) \/ Lock!Upgrade(t) \/ (RS' = RS /\ WS' = WS)
  <2>0. pc[t] = "scan" /\ op[t] \in {"lock", "try_lock", "upgrade"} /\ op' = op
    BY Zenon, <1>0, <1>13 DEF OpOK, Scan
  <2>1. ~Writer(t) /\ Others(t)
    <3>1. Others(t)
      BY <1>0, <1>13, OthersStep, ZenonT(60) DEF Step
    <3>2. QED
      BY <2>0, <3>1, ZenonT(60) DEF Writer
  <2>2. CASE pc'[t] = "wr"
    <3>1. ~Reader(t)' /\ Writer(t)'
      BY Zenon, <2>2 DEF Reader, Writer
    <3>2. WS' = {t} /\ RS' = {}
      <4>1. WS' = {t} /\ RS' \subseteq {t}
        BY Zenon, <3>1 DEF LockInv, ScanOK, Owner, Writer, RS, WS
      <4>2. QED
        BY Zenon, <3>1, <4>1 DEF RS
    <3>3. WS = {} /\ (RS = {} \/ RS = {t})
      BY <2>1, <3>1, <3>2, HoldersOf DEF RS, WS
    <3>4. QED
      BY Zenon, <3>2, <3>3 DEF Lock!Lock, Lock!Upgrade, RS, WS
  <2>3. CASE pc'[t] # "wr"
    <3>1. pc'[t] \in {"scan", IF op[t] = "upgrade" THEN "readd" ELSE "back"}
      BY Zenon, <1>0, <1>13, <2>0, <2>3 DEF TypeOK, Scan, Go
    <3>2. (Reader(t)' <=> Reader(t)) /\ ~Writer(t)'
      BY Zenon, <2>0, <3>1 DEF Reader, Writer
    <3>3. QED
      BY Zenon, <2>1, <3>2, Quiet
  <2>4. QED
    BY Zenon, <2>2, <2>3
<1>14. CASE UNCHANGED vars
  BY Zenon, <1>14 DEF vars, RS, WS, Reader, Writer
<1>15. QED
  BY Zenon, <1>1, <1>2, <1>3, <1>4, <1>5, <1>6, <1>7, <1>8, <1>9, <1>10, <1>11, <1>12, <1>13, <1>14 DEF Next, Step, Lock!Next

\* Every behaviour of the distributed-counter lock is one of an atomic
\* reader-writer lock: its operations may be thought of as single steps.
THEOREM ImplementsLock == Spec => Implements
<1>1. Init => Lock!Init
  BY Zenon DEF Init, Lock!Init, Reader, Writer
<1>2. LockInv /\ LockInv' /\ [Next]_vars => [Lock!Next]_<<RS, WS>>
  BY Zenon, StepRefines
<1>3. QED
  BY <1>1, <1>2, LockInvariant, PTL DEF Spec, Implements, Lock!Spec, RS, WS

=============================================================================
