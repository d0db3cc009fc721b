------------------------------ MODULE ShmPools ------------------------------
(***************************************************************************)
(* SharedMemoryPools (ipc/shm.h): buffers of several sizes and requests,    *)
(* the choice of a pool by size, and the timed wait when all are taken.     *)
(* A pool is IndexPool, here only the number of its free elements.          *)
(***************************************************************************)
EXTENDS Integers, Sequences, FiniteSetsExt

CONSTANTS
    Threads,
    PoolPower,    \* sequence: pool i has elements of 2^PoolPower[i] KiB, in addPool's order
    PoolSize      \* elements of each pool, and of the requests' pool

VARIABLES
    poolSizeIndices,
    elems,        \* [pool -> free elements]; pool 0 is the requests'
    empty_,
    shthr         \* [Threads -> an allocation or a release in progress]

shvars == <<poolSizeIndices, elems, empty_, shthr>>

PoolIds == 1..Len(PoolPower)
Requests == 0
maxPower == Max({PoolPower[i] : i \in PoolIds})

\* The pairs that populateSizeIndices sorts: one per pool, and as many (0, 0) that the
\* vector was constructed with. Pool 0 of the code is pool 1 here.
Powers == {<<i, PoolPower[i]>> : i \in PoolIds} \union {<<1, 0>>}

\* Larger powers are assigned first, so the smallest that is large enough stays;
\* std::sort leaves the order of equals open
Serving_Up(n) == {p \in Powers : p[2] + 1 >= n}
Serving(n) == {p \in Powers : p[2] >= n}
populateSizeIndices(f) ==
    \A n \in 0..maxPower :
        \E p \in Serving(n) : p[1] = f[n] /\ \A q \in Serving(n) : p[2] <= q[2]

ShIdle == [pc |-> "idle", bucket |-> 0, try |-> 0, pool |-> 0]
ShGo(t, r) == shthr' = [shthr EXCEPT ![t] = r]

\* alloc of 2^b KiB, or allocRequest
AllocBegin(t) ==
    /\ shthr[t].pc = "idle"
    /\ \/ \E b \in 0..maxPower : ShGo(t, [ShIdle EXCEPT !.pc = "try", !.bucket = b, !.try = b])
       \/ ShGo(t, [ShIdle EXCEPT !.pc = "request"])
    /\ UNCHANGED <<poolSizeIndices, elems, empty_>>

Take(t, p, Otherwise) ==
    IF elems[p] > 0
    THEN /\ elems' = [elems EXCEPT ![p] = @ - 1]
         /\ ShGo(t, [shthr[t] EXCEPT !.pc = "have", !.pool = p])
    ELSE ShGo(t, Otherwise) /\ UNCHANGED elems

\* the smallest pool that serves the size, then the larger ones, then the wait
alloc(t) ==
    LET r == shthr[t]
    IN  /\ r.pc = "try"
        /\ Take(t, poolSizeIndices[r.try],
                IF r.try < maxPower THEN [r EXCEPT !.try = @ + 1]
                ELSE [r EXCEPT !.pc = "wait", !.try = r.bucket])
        /\ UNCHANGED <<poolSizeIndices, empty_>>

allocRequest(t) ==
    /\ shthr[t].pc = "request"
    /\ Take(t, Requests, [shthr[t] EXCEPT !.pc = "wait", !.bucket = -1])
    /\ UNCHANGED <<poolSizeIndices, empty_>>

Retry(r) == [r EXCEPT !.pc = IF r.bucket = -1 THEN "request" ELSE "try"]

waitForFreeSpace(t) ==
    /\ shthr[t].pc = "wait"
    /\ empty_' = TRUE
    /\ ShGo(t, [shthr[t] EXCEPT !.pc = "asleep"])
    /\ UNCHANGED <<poolSizeIndices, elems>>

wait_for_Untimed(t) == FALSE
wait_for(t) == shthr[t].pc = "asleep"
TimedOut(t) ==
    /\ wait_for(t)
    /\ ShGo(t, Retry(shthr[t]))
    /\ UNCHANGED <<poolSizeIndices, elems, empty_>>

\* free recycles the element and looks at empty_; freeRequest only recycles it
free(t) ==
    LET r == shthr[t]
    IN  /\ r.pc = "have"
        /\ elems' = [elems EXCEPT ![r.pool] = @ + 1]
        /\ ShGo(t, IF r.pool = Requests THEN ShIdle ELSE [r EXCEPT !.pc = "freed"])
        /\ UNCHANGED <<poolSizeIndices, empty_>>

LoadEmpty(t) ==
    /\ shthr[t].pc = "freed"
    /\ ShGo(t, IF empty_ THEN [shthr[t] EXCEPT !.pc = "wake"] ELSE ShIdle)
    /\ UNCHANGED <<poolSizeIndices, elems, empty_>>

maybeWakeWaiters(t) ==
    /\ shthr[t].pc = "wake"
    /\ empty_' = FALSE
    /\ shthr' = [x \in Threads |-> IF x = t THEN ShIdle
                                   ELSE IF shthr[x].pc = "asleep" THEN Retry(shthr[x])
                                   ELSE shthr[x]]
    /\ UNCHANGED <<poolSizeIndices, elems>>

ShInit ==
    /\ poolSizeIndices \in {f \in [0..maxPower -> PoolIds] : populateSizeIndices(f)}
    /\ elems = [p \in PoolIds \union {Requests} |-> PoolSize]
    /\ empty_ = FALSE
    /\ shthr = [t \in Threads |-> ShIdle]

ShStep(t) == \/ alloc(t) \/ allocRequest(t) \/ waitForFreeSpace(t) \/ TimedOut(t)
             \/ free(t) \/ LoadEmpty(t) \/ maybeWakeWaiters(t)

ShNext == \E t \in Threads : AllocBegin(t) \/ ShStep(t)

\* a thread inside the allocator runs, and a holder gives its element back
ShSpec == ShInit /\ [][ShNext]_shvars
ShFairSpec == ShSpec /\ \A t \in Threads : WF_shvars(ShStep(t))

(***************************************************************************)
(* Properties.                                                             *)
(***************************************************************************)
\* A buffer is as large as was asked for, whatever the order in which the pools were
\* added and however std::sort leaves pools of one size.
BufferFits ==
    \A t \in Threads : (shthr[t].pc = "have" /\ shthr[t].pool # Requests) =>
        PoolPower[shthr[t].pool] >= shthr[t].bucket

\* No allocation sleeps for good beside a free element that serves it: the waker looks
\* at empty_ outside the mutex and freeRequest does not look at all, which the
\* comment in maybeWakeWaiters calls fine because the wait is timed.
Serves(r) == IF r.bucket = -1 THEN elems[Requests] > 0
             ELSE \E n \in r.bucket..maxPower : elems[poolSizeIndices[n]] > 0
NoSleepBesideFree == \A t \in Threads : []<>~(shthr[t].pc = "asleep" /\ Serves(shthr[t]))
=============================================================================
