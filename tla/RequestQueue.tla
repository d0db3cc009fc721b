---------------------------- MODULE RequestQueue ----------------------------
(***************************************************************************)
(* How a request of an SDK client reaches a worker of pfsd and is answered: *)
(* executeRequest (ipc/client.h), the shared-memory queue (ipc/mpmc.h), its *)
(* event counts (ipc/eventcount.h) and queue_worker (pfsd/pfsd_main.cc).    *)
(*                                                                          *)
(* Every access to shared memory is a step, with two exceptions that add    *)
(* nothing: a test of the turn repeated at once by the same thread (spin,   *)
(* fast path of await), and the load of an epoch followed by the futex's    *)
(* own comparison.  Locals that go out of scope are reset.                  *)
(***************************************************************************)
EXTENDS Naturals

CONSTANTS Clients,     \* client threads
          Workers,
          NumQueues,
          OwnQueue,    \* index of the queue a worker is bound to
          Capacity,
          MaxCalls,    \* bound: requests per client
          CanCrash,    \* may client processes be killed?
          None

Actors == Clients \cup Workers
QueueIds == 1..NumQueues
Slots == 0..Capacity - 1

ASSUME QueueAssumption ==
    /\ NumQueues \in Nat \ {0} /\ Capacity \in Nat \ {0}
    /\ MaxCalls \in Nat /\ CanCrash \in BOOLEAN
    /\ OwnQueue \in [Workers -> QueueIds]
    /\ Clients \cap Workers = {} /\ None \notin Actors
    \* sanity_check: no more queues than workers, bound round-robin
    /\ \A q \in QueueIds : \E w \in Workers : OwnQueue[w] = q

VARIABLES head, tail,   \* per queue
          turn,         \* per queue and slot: even for a producer, odd for a consumer
          storage,      \* per queue and slot: whose request is in it
          full, empty,  \* per queue and slot: the event counts
          sem,          \* per client: the semaphore in its request
          calls,        \* per client: requests made
          pc,
          q, ticket,    \* the queue a thread works on and its position in it
          key,          \* the epoch a waiter read
          rp,           \* the request a worker took
          via,          \* where in its loop a worker took it: "own", "other" or "pop"
          idx, count    \* a worker's scan of the other queues

shared == <<head, tail, turn, storage, full, empty>>
scan == <<via, idx, count>>
vars == <<shared, sem, calls, pc, q, ticket, key, rp, scan>>

EventCount == [epoch : Nat, waiters : Nat, asleep : SUBSET Actors]

Places == {"idle", "turn", "prep", "cond", "cancel", "wait", "asleep", "sub", "put", "pub",
           "notify", "wake", "sem", "dead", "load", "test", "cas", "reload", "pop",
           "take", "release", "handle"}

EventsOK ==
    /\ full \in [QueueIds -> [Slots -> EventCount]]
    /\ empty \in [QueueIds -> [Slots -> EventCount]]
RestOK ==
    /\ head \in [QueueIds -> Nat] /\ tail \in [QueueIds -> Nat]
    /\ turn \in [QueueIds -> [Slots -> Nat]]
    /\ storage \in [QueueIds -> [Slots -> Clients \cup {None}]]
    /\ sem \in [Clients -> 0..1] /\ calls \in [Clients -> 0..MaxCalls]
    /\ pc \in [Actors -> Places]
    /\ q \in [Actors -> QueueIds] /\ ticket \in [Actors -> Nat] /\ key \in [Actors -> Nat]
    /\ rp \in [Workers -> Clients \cup {None}]
    /\ via \in [Workers -> {"own", "other", "pop"}]
    /\ idx \in [Workers -> QueueIds] /\ count \in [Workers -> 0..NumQueues]
TypeOK == EventsOK /\ RestOK

Init ==
    /\ head = [i \in QueueIds |-> 0] /\ tail = head
    /\ turn = [i \in QueueIds |-> [s \in Slots |-> 0]]
    /\ storage = [i \in QueueIds |-> [s \in Slots |-> None]]
    /\ full = [i \in QueueIds |-> [s \in Slots |-> [epoch |-> 0, waiters |-> 0, asleep |-> {}]]]
    /\ empty = full
    /\ sem = [c \in Clients |-> 0] /\ calls = [c \in Clients |-> 0]
    /\ pc = [t \in Actors |-> IF t \in Clients THEN "idle" ELSE "load"]
    /\ q = [t \in Actors |-> IF t \in Clients THEN 1 ELSE OwnQueue[t]]
    /\ ticket = [t \in Actors |-> 0] /\ key = ticket
    /\ rp = [w \in Workers |-> None] /\ via = [w \in Workers |-> "own"]
    /\ idx = [w \in Workers |-> 1] /\ count = [w \in Workers |-> 0]

Go(t, p) == pc' = [pc EXCEPT ![t] = p]
\* The slot of position n, and how often the queue was gone round before it.
SlotIndex(n) == n % Capacity
Lap(n) == n \div Capacity
SlotOf(t) == SlotIndex(ticket[t])

\* The turn a thread waits for, at the position it has.
TurnOf(t) == 2 * Lap(ticket[t]) + (IF t \in Clients THEN 0 ELSE 1)
MyTurn(t) == turn[q[t]][SlotOf(t)] = TurnOf(t)

\* Producers wait on full, consumers on empty; each notifies the other.
WaitsOn(t) == IF t \in Clients THEN full[q[t]][SlotOf(t)] ELSE empty[q[t]][SlotOf(t)]
Notifies(t) == IF t \in Clients THEN empty[q[t]][SlotOf(t)] ELSE full[q[t]][SlotOf(t)]

SetFull(t, e) == full' = [full EXCEPT ![q[t]][SlotOf(t)] = e] /\ UNCHANGED empty
SetEmpty(t, e) == empty' = [empty EXCEPT ![q[t]][SlotOf(t)] = e] /\ UNCHANGED full
SetWaitsOn(t, e) == IF t \in Clients THEN SetFull(t, e) ELSE SetEmpty(t, e)
SetNotifies(t, e) == IF t \in Clients THEN SetEmpty(t, e) ELSE SetFull(t, e)

----------------------------------------------------------------------------
(* Waiting for the turn and handing it on; producers and consumers alike *)

\* Mutant: any turn of the right kind will do.
AwaitTurn_Parity(t) ==
    /\ pc[t] = "turn"
    /\ Go(t, IF turn[q[t]][SlotOf(t)] % 2 # TurnOf(t) % 2 THEN "prep"
             ELSE IF t \in Clients THEN "put" ELSE "take")
    /\ UNCHANGED <<shared, sem, calls, q, ticket, key, rp, scan>>

AwaitTurn(t) ==
    /\ pc[t] = "turn"
    /\ Go(t, IF ~MyTurn(t) THEN "prep" ELSE IF t \in Clients THEN "put" ELSE "take")
    /\ UNCHANGED <<shared, sem, calls, q, ticket, key, rp, scan>>

\* Mutant: the waiter does not count itself.
PrepareWait_Uncounted(t) ==
    /\ pc[t] = "prep"
    /\ key' = [key EXCEPT ![t] = WaitsOn(t).epoch]
    /\ Go(t, "cond")
    /\ UNCHANGED <<shared, sem, calls, q, ticket, rp, scan>>

PrepareWait(t) ==
    /\ pc[t] = "prep"
    /\ SetWaitsOn(t, [WaitsOn(t) EXCEPT !.waiters = @ + 1])
    /\ key' = [key EXCEPT ![t] = WaitsOn(t).epoch]
    /\ Go(t, "cond")
    /\ UNCHANGED <<head, tail, turn, storage, sem, calls, q, ticket, rp, scan>>

\* Mutant: await does not test its condition again after prepareWait.
Condition_Skipped(t) ==
    /\ pc[t] = "cond"
    /\ Go(t, "wait")
    /\ UNCHANGED <<shared, sem, calls, q, ticket, key, rp, scan>>

Condition(t) ==
    /\ pc[t] = "cond"
    /\ Go(t, IF MyTurn(t) THEN "cancel" ELSE "wait")
    /\ UNCHANGED <<shared, sem, calls, q, ticket, key, rp, scan>>

\* wait: the futex sleeps only while the epoch is the one read before.
Wait(t) ==
    /\ pc[t] = "wait"
    /\ IF WaitsOn(t).epoch = key[t]
         THEN /\ SetWaitsOn(t, [WaitsOn(t) EXCEPT !.asleep = @ \cup {t}])
              /\ Go(t, "asleep")
         ELSE Go(t, "sub") /\ UNCHANGED <<full, empty>>
    /\ UNCHANGED <<head, tail, turn, storage, sem, calls, q, ticket, key, rp, scan>>

Woken(t) ==
    /\ pc[t] = "asleep" /\ t \notin WaitsOn(t).asleep
    /\ Go(t, "wait")
    /\ UNCHANGED <<shared, sem, calls, q, ticket, key, rp, scan>>

\* A signal, or a wake-up for no reason.
SpuriousWakeup(t) ==
    /\ pc[t] = "asleep" /\ t \in WaitsOn(t).asleep
    /\ SetWaitsOn(t, [WaitsOn(t) EXCEPT !.asleep = @ \ {t}])
    /\ UNCHANGED <<head, tail, turn, storage, sem, calls, pc, q, ticket, key, rp, scan>>

\* The end of wait, after which await prepares again, and cancelWait, which
\* ends it.
SubWaiter(t) ==
    /\ pc[t] \in {"sub", "cancel"}
    /\ SetWaitsOn(t, [WaitsOn(t) EXCEPT !.waiters = @ - 1])
    /\ key' = [key EXCEPT ![t] = 0]
    /\ Go(t, IF pc[t] = "sub" THEN "prep" ELSE "turn")
    /\ UNCHANGED <<head, tail, turn, storage, sem, calls, q, ticket, rp, scan>>

\* The store that hands the slot to the other side.
HandOn(t) ==
    /\ pc[t] \in {"pub", "release"}
    /\ turn' = [turn EXCEPT ![q[t]][SlotOf(t)] = TurnOf(t) + 1]
    /\ Go(t, "notify")
    /\ UNCHANGED <<head, tail, storage, full, empty, sem, calls, q, ticket, key, rp, scan>>

Then(t) == IF t \in Clients THEN "sem" ELSE "handle"

\* doNotify: a new epoch, and the futex only if there were waiters.
Notify(t) ==
    /\ pc[t] = "notify"
    /\ SetNotifies(t, [Notifies(t) EXCEPT !.epoch = @ + 1])
    /\ Go(t, IF Notifies(t).waiters > 0 THEN "wake" ELSE Then(t))
    /\ UNCHANGED <<head, tail, turn, storage, sem, calls, q, ticket, key, rp, scan>>

Wake(t) ==
    /\ pc[t] = "wake"
    /\ SetNotifies(t, [Notifies(t) EXCEPT !.asleep = {}])
    /\ Go(t, Then(t))
    /\ UNCHANGED <<head, tail, turn, storage, sem, calls, q, ticket, key, rp, scan>>

----------------------------------------------------------------------------
(* Clients *)

\* executeRequest picks a queue by its depth and by chance; emplace takes
\* the next position in it.
Call(c) ==
    /\ pc[c] = "idle" /\ calls[c] < MaxCalls
    /\ calls' = [calls EXCEPT ![c] = @ + 1]
    /\ \E i \in QueueIds :
         /\ q' = [q EXCEPT ![c] = i]
         /\ ticket' = [ticket EXCEPT ![c] = head[i]]
         /\ head' = [head EXCEPT ![i] = @ + 1]
    /\ Go(c, "turn")
    /\ UNCHANGED <<tail, turn, storage, full, empty, sem, key, rp, scan>>

Construct(c) ==
    /\ pc[c] = "put"
    /\ storage' = [storage EXCEPT ![q[c]][SlotOf(c)] = c]
    /\ Go(c, "pub")
    /\ UNCHANGED <<head, tail, turn, full, empty, sem, calls, q, ticket, key, rp, scan>>

SemWait(c) ==
    /\ pc[c] = "sem" /\ sem[c] > 0
    /\ sem' = [sem EXCEPT ![c] = @ - 1]
    /\ Go(c, "idle")
    /\ q' = [q EXCEPT ![c] = 1] /\ ticket' = [ticket EXCEPT ![c] = 0]
    /\ UNCHANGED <<shared, calls, key, rp, scan>>

\* The client's process is killed; the shared memory stays as it is.
Crash(c) ==
    /\ CanCrash /\ pc[c] # "dead"
    /\ IF pc[c] = "asleep"
         THEN SetWaitsOn(c, [WaitsOn(c) EXCEPT !.asleep = @ \ {c}])
         ELSE UNCHANGED <<full, empty>>
    /\ Go(c, "dead")
    /\ UNCHANGED <<head, tail, turn, storage, sem, calls, q, ticket, key, rp, scan>>

----------------------------------------------------------------------------
(* Workers *)

\* A worker goes on with try_pop on queue i, or with pop on its own.
Enter(w, v, i) ==
    /\ via' = [via EXCEPT ![w] = v]
    /\ q' = [q EXCEPT ![w] = i] /\ ticket' = [ticket EXCEPT ![w] = 0]
    /\ Go(w, IF v = "pop" THEN "pop" ELSE "load")

TryLoad(w) ==
    /\ pc[w] = "load"
    /\ ticket' = [ticket EXCEPT ![w] = tail[q[w]]]
    /\ Go(w, "test")
    /\ UNCHANGED <<shared, sem, calls, q, key, rp, scan>>

TryTest(w) ==
    /\ pc[w] = "test"
    /\ Go(w, IF MyTurn(w) THEN "cas" ELSE "reload")
    /\ UNCHANGED <<shared, sem, calls, q, ticket, key, rp, scan>>

\* Mutant: the position is taken by a store and not by compare-and-swap.
TryCas_Stores(w) ==
    /\ pc[w] = "cas"
    /\ tail' = [tail EXCEPT ![q[w]] = ticket[w] + 1]
    /\ Go(w, "take")
    /\ UNCHANGED <<head, turn, storage, full, empty, sem, calls, q, ticket, key, rp, scan>>

TryCas(w) ==
    /\ pc[w] = "cas"
    /\ IF tail[q[w]] = ticket[w]
         THEN /\ tail' = [tail EXCEPT ![q[w]] = @ + 1]
              /\ Go(w, "take")
              /\ UNCHANGED ticket
         ELSE /\ ticket' = [ticket EXCEPT ![w] = tail[q[w]]]
              /\ Go(w, "test")
              /\ UNCHANGED tail
    /\ UNCHANGED <<head, turn, storage, full, empty, sem, calls, q, key, rp, scan>>

NextIdx(w) == (idx[w] % NumQueues) + 1

\* Without a request in its own queue a worker tries all of them once, and
\* then waits for one in its own.
TryReload(w) ==
    /\ pc[w] = "reload"
    /\ \/ /\ tail[q[w]] # ticket[w]
          /\ ticket' = [ticket EXCEPT ![w] = tail[q[w]]]
          /\ Go(w, "test")
          /\ UNCHANGED <<q, scan>>
       \/ /\ tail[q[w]] = ticket[w] /\ via[w] = "own"
          /\ count' = [count EXCEPT ![w] = NumQueues]
          /\ Enter(w, "other", idx[w])
          /\ UNCHANGED idx
       \/ /\ tail[q[w]] = ticket[w] /\ via[w] = "other"
          /\ count' = [count EXCEPT ![w] = @ - 1]
          /\ idx' = [idx EXCEPT ![w] = NextIdx(w)]
          /\ IF count[w] > 1 THEN Enter(w, "other", NextIdx(w)) ELSE Enter(w, "pop", OwnQueue[w])
    /\ UNCHANGED <<shared, sem, calls, key, rp>>

Pop(w) ==
    /\ pc[w] = "pop"
    /\ ticket' = [ticket EXCEPT ![w] = tail[q[w]]]
    /\ tail' = [tail EXCEPT ![q[w]] = @ + 1]
    /\ Go(w, "turn")
    /\ UNCHANGED <<head, turn, storage, full, empty, sem, calls, q, key, rp, scan>>

\* The request is copied out; destroying a RequestPtr leaves its bytes.
Take(w) ==
    /\ pc[w] = "take"
    /\ rp' = [rp EXCEPT ![w] = storage[q[w]][SlotOf(w)]]
    /\ Go(w, "release")
    /\ UNCHANGED <<shared, sem, calls, q, ticket, key, scan>>

\* Mutant: a worker that served another queue waits there.
Handle_Stays(w) ==
    /\ pc[w] = "handle"
    /\ sem' = IF rp[w] \in Clients /\ pc[rp[w]] # "dead" THEN [sem EXCEPT ![rp[w]] = @ + 1] ELSE sem
    /\ rp' = [rp EXCEPT ![w] = None]
    /\ IF via[w] = "other" THEN Enter(w, "pop", q[w]) ELSE Enter(w, "own", OwnQueue[w])
    /\ count' = [count EXCEPT ![w] = 0]
    /\ UNCHANGED <<shared, calls, key, idx>>

\* handle_request, whose sem_post nobody reads when the client is dead; then
\* back to the top, or to pop after a request of another queue.
Handle(w) ==
    /\ pc[w] = "handle"
    /\ sem' = IF rp[w] \in Clients /\ pc[rp[w]] # "dead" THEN [sem EXCEPT ![rp[w]] = @ + 1] ELSE sem
    /\ rp' = [rp EXCEPT ![w] = None]
    /\ IF via[w] = "other" THEN Enter(w, "pop", OwnQueue[w]) ELSE Enter(w, "own", OwnQueue[w])
    /\ count' = [count EXCEPT ![w] = 0]
    /\ UNCHANGED <<shared, calls, key, idx>>

----------------------------------------------------------------------------

WaitStep(t) == AwaitTurn(t) \/ PrepareWait(t) \/ Condition(t) \/ Wait(t) \/ Woken(t) \/ SubWaiter(t)
PassStep(t) == HandOn(t) \/ Notify(t) \/ Wake(t)
ClientStep(c) == Construct(c) \/ SemWait(c)
WorkerStep(w) == \/ TryLoad(w) \/ TryTest(w) \/ TryCas(w) \/ TryReload(w)
                 \/ Pop(w) \/ Take(w) \/ Handle(w)

Step(t) == \/ WaitStep(t) \/ PassStep(t)
           \/ t \in Clients /\ ClientStep(t)
           \/ t \in Workers /\ WorkerStep(t)

Next == \/ \E c \in Clients : Call(c) \/ Crash(c)
        \/ \E t \in Actors : Step(t) \/ SpuriousWakeup(t)

Spec == Init /\ [][Next]_vars

\* The scheduler runs every thread that can run.
FairSpec == Spec /\ \A t \in Actors : WF_vars(Step(t))

----------------------------------------------------------------------------
(* Properties *)

\* Who may touch the contents of a slot is alone at it, and a consumer finds
\* a request there, whatever the order in which the positions were taken.
InSlot(t) == pc[t] \in {"put", "pub", "take", "release"}
SlotExclusive ==
    \A t \in Actors : InSlot(t) =>
        /\ \A u \in Actors \ {t} : InSlot(u) => q[u] # q[t] \/ SlotOf(u) # SlotOf(t)
        /\ pc[t] = "take" => storage[q[t]][SlotOf(t)] # None

\* A request is in the hands of one worker at most, the one that took its
\* client's position in the queue, and is answered once, while its client
\* still waits for it (a client reuses the request and its buffers after).
HandledOnce ==
    \A c \in Clients : LET holders == {w \in Workers : rp[w] = c} IN
        pc[c] # "dead" =>
            /\ \A v, w \in holders : v = w
            /\ sem[c] <= IF holders = {} THEN 1 ELSE 0
            /\ holders # {} \/ sem[c] > 0 => pc[c] \in {"notify", "wake", "sem"}
            /\ \A w \in holders : q[w] = q[c] /\ ticket[w] = ticket[c]

\* Nobody sleeps through its turn: if the turn of a thread asleep in await
\* has come, the wake-up is on its way.  (A client killed between handing the
\* turn on and notifying takes the wake-up with it.)
NoLostWakeup ==
    (\A c \in Clients : pc[c] # "dead") =>
    \A t \in Actors : pc[t] = "asleep" /\ MyTurn(t) =>
        \/ t \notin WaitsOn(t).asleep
        \/ \E u \in Actors : /\ pc[u] \in {"notify", "wake"} /\ (u \in Clients) # (t \in Clients)
                              /\ q[u] = q[t] /\ SlotOf(u) = SlotOf(t)

----------------------------------------------------------------------------
(* The inductive invariant *)

\* A thread in await is counted among the waiters of its event count; a thread
\* that owns a position took it from head or tail and has not given it up.
Waiting(t) == pc[t] \in {"cond", "cancel", "wait", "asleep", "sub"}
Owns(t) == \/ Waiting(t)
           \/ pc[t] \in {"turn", "prep", "put", "pub", "take", "release",
                         "notify", "wake", "sem", "handle"}
Side(t) == IF t \in Clients THEN "producer" ELSE "consumer"
Odd(n) == n % 2 = 1

\* Where clients and workers are, and that a worker on its round of the queues
\* has some left to try.
Roles ==
    /\ \A c \in Clients : \/ Waiting(c)
                         \/ pc[c] \in {"idle", "dead", "turn", "prep", "put", "pub",
                                       "notify", "wake", "sem"}
    /\ \A w \in Workers : \/ Waiting(w)
                         \/ pc[w] \in {"load", "test", "cas", "reload", "pop", "turn", "prep",
                                       "take", "release", "notify", "wake", "handle"}
    /\ \A w \in Workers : via[w] = "other" => count[w] > 0

\* No two threads of one side own the same position.
OwnedBelow == \A t \in Actors : Owns(t) =>
    ticket[t] < IF t \in Clients THEN head[q[t]] ELSE tail[q[t]]
OwnedApart == \A t, u \in Actors :
    t # u /\ Owns(t) /\ Owns(u) /\ Side(t) = Side(u) /\ q[t] = q[u] => ticket[t] # ticket[u]
Scans(w) == pc[w] \in {"test", "cas", "reload"}
ScansBelow == \A w \in Workers : Scans(w) => ticket[w] <= tail[q[w]]
Positions == OwnedBelow /\ OwnedApart /\ ScansBelow

\* A thread is at a slot only in its turn, and a slot that was ever handed on
\* has a request in it.
InTurn == \A t \in Actors : InSlot(t) => MyTurn(t)
CasInTurn == \A w \in Workers : pc[w] = "cas" /\ tail[q[w]] = ticket[w] => MyTurn(w)
Stored == \A c \in Clients : pc[c] = "pub" => storage[q[c]][SlotOf(c)] = c
Filled == \A i \in QueueIds, s \in Slots : turn[i][s] # 0 => storage[i][s] # None
Turns == InTurn /\ CasInTurn /\ Stored /\ Filled

\* A request that waits in a slot or is in a worker's hands is that of a client
\* which published it at this position and was not yet answered.
Published(c) == pc[c] \in {"notify", "wake", "sem"}
Held == \A w \in Workers : rp[w] # None => pc[w] \in {"release", "notify", "wake", "handle"}
Posted == \A c \in Clients : pc[c] # "dead" /\ sem[c] > 0 => Published(c)
InHand == \A w \in Workers, c \in Clients : rp[w] = c /\ pc[c] # "dead" =>
    Published(c) /\ sem[c] = 0 /\ q[w] = q[c] /\ ticket[w] = ticket[c]
InStorage == \A i \in QueueIds, s \in Slots, c \in Clients :
    storage[i][s] = c /\ Odd(turn[i][s]) /\ pc[c] # "dead" =>
      /\ Published(c) /\ sem[c] = 0
      /\ q[c] = i /\ SlotOf(c) = s /\ turn[i][s] = TurnOf(c) + 1
      /\ \A w \in Workers : rp[w] = c => pc[w] = "release"
Requests == Held /\ Posted /\ InHand /\ InStorage

\* The event count that threads of side k wait on at slot s of queue i, and the
\* threads that do.
Event(k, i, s) == IF k = "producer" THEN full[i][s] ELSE empty[i][s]
WaitersAt(k, i, s) == {t \in Actors : Waiting(t) /\ Side(t) = k /\ q[t] = i /\ SlotOf(t) = s}

\* u, of the other side, has handed the turn on to the slot t waits at.
Notifier(u, t, p) == pc[u] = p /\ Side(u) # Side(t) /\ q[u] = q[t] /\ SlotOf(u) = SlotOf(t)

\* S has n elements or fewer: they can be numbered apart.
AtMost(S, n) == \E f \in [S -> 1..n] : \A a, b \in S : f[a] = f[b] => a = b

\* Waiters are counted, and one whose turn has come is about to be notified or,
\* if it sleeps through a new epoch, to be woken.
Counted == \A k \in {"producer", "consumer"}, i \in QueueIds, s \in Slots :
    AtMost(WaitersAt(k, i, s), Event(k, i, s).waiters)
Keys == \A t \in Actors : Waiting(t) => key[t] <= WaitsOn(t).epoch
NobodyDead == \A c \in Clients : pc[c] # "dead"
Alerted(t) ==
    /\ pc[t] \in {"wait", "asleep"} /\ MyTurn(t) /\ key[t] = WaitsOn(t).epoch =>
         \E u \in Actors : Notifier(u, t, "notify")
    /\ pc[t] = "asleep" /\ t \in WaitsOn(t).asleep /\ key[t] < WaitsOn(t).epoch =>
         \E u \in Actors : Notifier(u, t, "wake")
Waits == Counted /\ Keys /\ (NobodyDead => \A t \in Actors : Alerted(t))

\* What the proofs of the four properties above are built on: every thread owns
\* its position alone and is at the slot in its turn only, the request in a slot
\* is its publisher's, and the event counts count their waiters.
QueueInv == TypeOK /\ Roles /\ Positions /\ Turns /\ Requests /\ Waits

----------------------------------------------------------------------------
\* Every request that an SDK thread makes is answered.
Served == \A c \in Clients : pc[c] = "turn" ~> pc[c] = "idle"

=============================================================================
