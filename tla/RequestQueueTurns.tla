------------------------- MODULE RequestQueueTurns --------------------------
(***************************************************************************)
(* Part of the proof about the request queue: the steps keep the positions  *)
(* of threads apart, a slot passes from turn to turn, and a request that is *)
(* stored in a slot, handed on, taken and answered stays with its publisher *)
(* until it is answered, for any number of clients, workers, queues and     *)
(* slots; and the steps of clients and workers keep the types.              *)
(***************************************************************************)
EXTENDS RequestQueue, TLAPS

\* A position has a slot and a lap, which together determine it (idx and turn of
\* the queue).
LEMMA SlotAndLap ==
    /\ \A n \in Nat : SlotIndex(n) \in Slots /\ Lap(n) \in Nat
    /\ \A m, n \in Nat : SlotIndex(m) = SlotIndex(n) /\ Lap(m) = Lap(n) => m = n
<1>1. Capacity \in Nat \ {0}
  BY Zenon, QueueAssumption
<1>2. \A n \in Nat : n % Capacity \in 0..Capacity - 1
  BY <1>1
<1>3. \A n \in Nat : n \div Capacity \in Nat
  BY <1>1
<1>4. \A n \in Nat : n = Capacity * (n \div Capacity) + (n % Capacity)
  BY <1>1
<1>5. QED
  BY Zenon, <1>1, <1>2, <1>3, <1>4 DEF SlotIndex, Lap, Slots

\* Turns of producers are even, those of consumers odd.
LEMMA Parity == \A n \in Nat : ~Odd(2 * n) /\ Odd(2 * n + 1) /\ ~Odd(2 * n + 1 + 1)
BY DEF Odd

\* The threads other than t stay where they are.
Others(t) == \A u \in Actors : u # t =>
    pc'[u] = pc[u] /\ q'[u] = q[u] /\ ticket'[u] = ticket[u] /\ key'[u] = key[u]

\* The types of a thread's locals, and the values computed from them.
LEMMA Locals ==
    ASSUME TypeOK, NEW t \in Actors
    PROVE  /\ q[t] \in QueueIds /\ ticket[t] \in Nat /\ SlotOf(t) \in Slots
           /\ Lap(ticket[t]) \in Nat /\ TurnOf(t) \in Nat
           /\ turn[q[t]][SlotOf(t)] \in Nat
BY SlotAndLap DEF TypeOK, RestOK, SlotOf, TurnOf

\* Two threads in the slot at once would have the same turn, so they would be
\* on the same side and own the same position.
LEMMA Alone ==
    ASSUME TypeOK, Positions, Turns, NEW t \in Actors, NEW u \in Actors,
           InSlot(t), InSlot(u), q[t] = q[u], SlotOf(t) = SlotOf(u)
    PROVE  t = u
<1>1. TurnOf(t) = TurnOf(u)
  BY Zenon DEF Turns, InTurn, MyTurn
<1>2. Lap(ticket[t]) \in Nat /\ Lap(ticket[u]) \in Nat /\ ticket[t] \in Nat /\ ticket[u] \in Nat
  BY Zenon, Locals
<1>3. Side(t) = Side(u) /\ Lap(ticket[t]) = Lap(ticket[u])
  <2>1. \A a, b \in Nat : 2 * a + 0 # 2 * b + 1
    OBVIOUS
  <2>2. t \in Clients <=> u \in Clients
    BY Zenon, <1>1, <1>2, <2>1 DEF TurnOf
  <2>3. QED
    BY <1>1, <1>2, <2>2 DEF TurnOf, Side
<1>4. ticket[t] = ticket[u]
  BY Zenon, <1>2, <1>3, SlotAndLap DEF SlotOf
<1>5. Owns(t) /\ Owns(u)
  BY Zenon DEF InSlot, Owns
<1>6. QED
  BY Zenon, <1>3, <1>4, <1>5 DEF Positions, OwnedApart

Safe == TypeOK /\ Roles /\ Positions /\ Turns /\ Requests

\* Clients and workers are different threads, and None is neither.
LEMMA Threads ==
    /\ Clients \subseteq Actors /\ Workers \subseteq Actors /\ Actors = Clients \cup Workers
    /\ Clients \cap Workers = {} /\ None \notin Actors
BY Zenon, QueueAssumption DEF Actors

----------------------------------------------------------------------------
(* A step of one thread, t, as the others see it *)

\* They keep their places.
LEMMA Frame ==
    ASSUME NEW t \in Actors, Others(t), NEW u \in Actors, u # t
    PROVE  /\ pc'[u] = pc[u] /\ q'[u] = q[u] /\ ticket'[u] = ticket[u]
           /\ SlotOf(u)' = SlotOf(u) /\ TurnOf(u)' = TurnOf(u)
           /\ turn' = turn => (MyTurn(u)' <=> MyTurn(u))
           /\ Owns(u)' <=> Owns(u)
           /\ InSlot(u)' <=> InSlot(u)
           /\ Scans(u)' <=> Scans(u)
           /\ Published(u)' <=> Published(u)
<1>1. pc'[u] = pc[u] /\ q'[u] = q[u] /\ ticket'[u] = ticket[u]
  BY Zenon DEF Others
<1>2. SlotOf(u)' = SlotOf(u) /\ TurnOf(u)' = TurnOf(u)
  BY Zenon, <1>1 DEF SlotOf, TurnOf
<1>3. turn' = turn => (MyTurn(u)' <=> MyTurn(u))
  BY Zenon, <1>1, <1>2 DEF MyTurn
<1>4. /\ Owns(u)' <=> Owns(u)
      /\ InSlot(u)' <=> InSlot(u)
  BY Zenon, <1>1 DEF Owns, Waiting, InSlot
<1>5. /\ Scans(u)' <=> Scans(u)
      /\ Published(u)' <=> Published(u)
  BY Zenon, <1>1 DEF Scans, Published
<1>6. QED
  BY Zenon, <1>1, <1>2, <1>3, <1>4, <1>5

\* A thread that takes no position leaves the positions apart.
LEMMA PositionsKept ==
    ASSUME Positions, NEW t \in Actors, Others(t), UNCHANGED <<head, tail>>,
           Owns(t)' => Owns(t) /\ q'[t] = q[t] /\ ticket'[t] = ticket[t],
           t \in Workers /\ Scans(t)' => ticket'[t] <= tail[q'[t]]
    PROVE  Positions'
<1>1. \A u \in Actors : Owns(u)' => Owns(u) /\ q'[u] = q[u] /\ ticket'[u] = ticket[u]
  BY Zenon, Frame
<1>2. OwnedBelow'
  BY Zenon, <1>1 DEF Positions, OwnedBelow
<1>3. OwnedApart'
  BY Zenon, <1>1 DEF Positions, OwnedApart, Side
<1>4. ScansBelow'
  BY Frame, Threads DEF Positions, ScansBelow
<1>5. QED
  BY Zenon, <1>2, <1>3, <1>4 DEF Positions

\* A thread that hands nothing on and stores nothing leaves the others their turns.
LEMMA TurnsKept ==
    ASSUME Turns, NEW t \in Actors, Others(t), UNCHANGED <<turn, storage>>,
           \A w \in Workers : w # t /\ pc[w] = "cas" /\ tail'[q[w]] = ticket[w] => tail[q[w]] = ticket[w],
           InSlot(t)' => MyTurn(t)', t \in Workers /\ pc'[t] = "cas" => MyTurn(t)', pc'[t] # "pub"
    PROVE  Turns'
<1>1. InTurn'
  BY Zenon, Frame DEF Turns, InTurn
<1>2. CasInTurn'
  BY Zenon, Frame, Threads DEF Turns, CasInTurn
<1>3. Stored'
  BY Frame, Threads DEF Turns, Stored
<1>4. Filled'
  BY Zenon DEF Turns, Filled
<1>5. QED
  BY Zenon, <1>1, <1>2, <1>3, <1>4 DEF Turns

\* A thread that neither takes, hands on nor answers a request leaves the requests.
LEMMA RequestsKept ==
    ASSUME Requests, NEW t \in Actors, Others(t), UNCHANGED <<turn, storage, sem, rp>>,
           t \in Clients /\ pc'[t] # "dead" =>
             /\ pc[t] # "dead"
             /\ Published(t) => Published(t)' /\ q'[t] = q[t] /\ ticket'[t] = ticket[t],
           pc[t] # "release",
           t \in Workers /\ rp[t] # None =>
             q'[t] = q[t] /\ ticket'[t] = ticket[t] /\ pc'[t] \in {"notify", "wake", "handle"}
    PROVE  Requests'
<1>1. \A c \in Clients : pc'[c] # "dead" => pc[c] # "dead" /\ (Published(c) => Published(c)')
  BY Zenon, Frame, Threads
<1>2. \A c \in Clients : pc'[c] # "dead" /\ Published(c) =>
        q'[c] = q[c] /\ ticket'[c] = ticket[c] /\ SlotOf(c)' = SlotOf(c) /\ TurnOf(c)' = TurnOf(c)
  <2>1. q'[t] = q[t] /\ ticket'[t] = ticket[t] => SlotOf(t)' = SlotOf(t) /\ TurnOf(t)' = TurnOf(t)
    BY Zenon DEF SlotOf, TurnOf
  <2>2. QED
    BY <2>1, Frame, Threads
<1>3. \A w \in Workers : rp[w] # None => q'[w] = q[w] /\ ticket'[w] = ticket[w]
  BY Frame, Threads
<1>4. Held'
  BY ZenonT(40), Frame, Threads DEF Requests, Held
<1>5. Posted'
  BY Zenon, <1>1 DEF Requests, Posted
<1>6. InHand'
  BY <1>1, <1>2, <1>3, Threads DEF Requests, InHand
<1>7. InStorage'
  <2>1. \A w \in Workers : pc[w] = "release" => pc'[w] = "release"
    BY Zenon, Frame, Threads
  <2>2. QED
    BY <1>1, <1>2, <2>1 DEF Requests, InStorage, Odd
<1>8. QED
  BY Zenon, <1>4, <1>5, <1>6, <1>7 DEF Requests

----------------------------------------------------------------------------
(* Steps in which nobody takes or gives up a position *)

\* The waiting and notifying steps, a worker's test of the turn, and the death of
\* a client.
Moves(t) ==
    /\ Others(t) /\ UNCHANGED <<head, tail, turn, storage, sem, rp>>
    /\ q'[t] = q[t] /\ ticket'[t] = ticket[t]
    /\ pc[t] # "dead" /\ pc[t] # "release"
    /\ Owns(t)' => Owns(t)
    /\ InSlot(t)' => MyTurn(t)
    /\ pc'[t] # "pub"
    /\ t \in Workers /\ Scans(t)' => Scans(t)
    /\ t \in Workers /\ pc'[t] = "cas" => MyTurn(t)
    /\ t \in Clients /\ pc'[t] # "dead" /\ Published(t) => Published(t)'
    /\ t \in Workers /\ rp[t] # None => pc'[t] \in {"notify", "wake", "handle"}

\* They keep positions, turns and requests: nobody's position or turn changes.
LEMMA MovesKeep ==
    ASSUME Safe, NEW t \in Actors, Moves(t)
    PROVE  Positions' /\ Turns' /\ Requests'
<1>1. Positions /\ Turns /\ Requests /\ ScansBelow /\ Others(t) /\ UNCHANGED <<head, tail, turn, storage, sem, rp>>
  BY Zenon DEF Safe, Positions, Moves
<1>2. MyTurn(t)' <=> MyTurn(t)
  BY Zenon DEF Moves, MyTurn, SlotOf, TurnOf
<1>3. Positions'
  BY Zenon, <1>1, PositionsKept DEF Moves, ScansBelow
<1>4. Turns'
  BY Zenon, <1>1, <1>2, TurnsKept DEF Moves
<1>5. Requests'
  BY Zenon, <1>1, RequestsKept DEF Moves
<1>6. QED
  BY Zenon, <1>3, <1>4, <1>5

\* A worker's scan for a queue that has a request.
ScanMoves(w) ==
    /\ Others(w) /\ UNCHANGED <<head, tail, turn, storage, sem, rp>>
    /\ pc[w] \in {"load", "cas", "reload"} /\ pc'[w] \in {"load", "test", "pop"}
    /\ Scans(w)' => ticket'[w] <= tail[q'[w]]

\* The scan keeps them: a worker that scans owns no position and holds no request.
LEMMA ScanMovesKeep ==
    ASSUME Safe, NEW w \in Workers, ScanMoves(w)
    PROVE  Positions' /\ Turns' /\ Requests'
<1>1. /\ Positions /\ Turns /\ Requests /\ Others(w) /\ w \in Actors /\ w \notin Clients
      /\ UNCHANGED <<head, tail, turn, storage, sem, rp>>
  BY Zenon, Threads DEF Safe, ScanMoves
<1>2. ~Owns(w)' /\ ~InSlot(w)' /\ pc'[w] \notin {"cas", "pub"} /\ pc[w] # "release"
  BY Zenon DEF ScanMoves, Owns, Waiting, InSlot
<1>3. rp[w] = None
  BY Zenon, <1>1 DEF Requests, Held, ScanMoves
<1>4. Positions'
  BY Zenon, <1>1, <1>2, PositionsKept DEF ScanMoves
<1>5. Turns'
  BY Zenon, <1>1, <1>2, TurnsKept
<1>6. Requests'
  BY Zenon, <1>1, <1>2, <1>3, RequestsKept
<1>7. QED
  BY Zenon, <1>4, <1>5, <1>6

----------------------------------------------------------------------------
(* Taking a position *)

\* A worker takes the position at tail, by fetch_add or by compare-and-swap.
TakesPosition(w) ==
    /\ Others(w) /\ UNCHANGED <<head, turn, storage, sem, rp>>
    /\ pc[w] \in {"cas", "pop"} /\ pc'[w] \in {"turn", "take"}
    /\ q'[w] = q[w] /\ ticket'[w] = tail[q[w]] /\ tail' = [tail EXCEPT ![q[w]] = @ + 1]
    /\ pc'[w] = "take" => pc[w] = "cas" /\ ticket[w] = tail[q[w]]

\* Nobody else owns the position at tail, and after a compare-and-swap that
\* succeeds the turn tested before is still the worker's.
LEMMA TakesPositionKeeps ==
    ASSUME Safe, NEW w \in Workers, TakesPosition(w)
    PROVE  Positions' /\ Turns' /\ Requests'
<1>1. Others(w) /\ w \in Actors /\ w \notin Clients /\ UNCHANGED <<head, turn, storage, sem, rp>>
  BY Zenon, Threads DEF TakesPosition
<1>2. Positions /\ Turns /\ Requests
  BY Zenon DEF Safe
<1>3. /\ \A u \in Actors : q[u] \in QueueIds /\ ticket[u] \in Nat
      /\ \A i \in QueueIds : head[i] \in Nat /\ tail[i] \in Nat
      /\ \A i \in QueueIds : tail'[i] = IF i = q[w] THEN tail[i] + 1 ELSE tail[i]
  BY Zenon DEF TakesPosition, Safe, TypeOK, RestOK
<1>4. q'[w] = q[w] /\ ticket'[w] = tail[q[w]] /\ ~Scans(w)' /\ pc[w] # "release"
  BY Zenon DEF TakesPosition, Scans
<1>5. Positions'
  <2>1. \A u \in Actors : u # w /\ Owns(u) /\ u \notin Clients /\ q[u] = q[w] => ticket[u] < tail[q[w]]
    BY Zenon, <1>2 DEF Positions, OwnedBelow
  <2>2. OwnedBelow'
    <3>1. ASSUME NEW u \in Actors, u # w, Owns(u)
          PROVE  ticket[u] < IF u \in Clients THEN head[q[u]] ELSE tail'[q[u]]
      BY <1>2, <1>3, <3>1 DEF Positions, OwnedBelow
    <3>2. QED
      BY <1>1, <1>3, <1>4, <3>1, Frame DEF OwnedBelow
  <2>3. OwnedApart'
    <3>1. \A u \in Actors : u # w /\ Owns(u)' /\ Side(u) = Side(w) /\ q'[u] = q[w] => ticket'[u] # tail[q[w]]
      BY <1>1, <1>3, <2>1, Frame DEF Side
    <3>2. \A u, v \in Actors : u # w /\ v # w /\ u # v /\ Owns(u)' /\ Owns(v)' /\ Side(u) = Side(v) /\ q'[u] = q'[v]
            => ticket'[u] # ticket'[v]
      BY <1>1, <1>2, Frame DEF Positions, OwnedApart
    <3>3. QED
      BY ZenonT(40), <1>4, <3>1, <3>2 DEF OwnedApart, Side
  <2>4. ScansBelow'
    BY <1>1, <1>2, <1>3, <1>4, Frame, Threads DEF Positions, ScansBelow
  <2>5. QED
    BY Zenon, <2>2, <2>3, <2>4 DEF Positions
<1>6. Turns'
  <2>1. InSlot(w)' => MyTurn(w)'
    BY Zenon, <1>1, <1>2 DEF TakesPosition, InSlot, Turns, CasInTurn, MyTurn, SlotOf, TurnOf
  <2>2. \A v \in Workers : v # w /\ pc[v] = "cas" /\ tail'[q[v]] = ticket[v] => tail[q[v]] = ticket[v]
    BY <1>2, <1>3, Threads DEF Positions, ScansBelow, Scans
  <2>3. pc'[w] # "cas" /\ pc'[w] # "pub"
    BY Zenon DEF TakesPosition
  <2>4. QED
    BY Zenon, <1>1, <1>2, <2>1, <2>2, <2>3, TurnsKept
<1>7. Requests'
  <2>1. rp[w] = None
    BY Zenon, <1>2 DEF Requests, Held, TakesPosition
  <2>2. QED
    BY Zenon, <1>1, <1>2, <1>4, <2>1, RequestsKept
<1>8. QED
  BY <1>5, <1>6, <1>7

\* A client takes the position at head.
LEMMA CallKeeps ==
    ASSUME Safe, NEW c \in Clients, Call(c)
    PROVE  Positions' /\ Turns' /\ Requests'
<1>1. c \in Actors /\ c \notin Workers /\ Positions /\ Turns /\ Requests
  BY Zenon, Threads DEF Safe
<1>2. PICK i \in QueueIds : /\ q' = [q EXCEPT ![c] = i] /\ ticket' = [ticket EXCEPT ![c] = head[i]]
                            /\ head' = [head EXCEPT ![i] = @ + 1]
  BY Zenon DEF Call
<1>3. /\ pc' = [pc EXCEPT ![c] = "turn"] /\ pc[c] = "idle"
      /\ UNCHANGED <<tail, turn, storage, sem, rp, key>>
  BY Zenon DEF Call, Go
<1>4. /\ Others(c) /\ pc'[c] = "turn" /\ q'[c] = i /\ ticket'[c] = head[i]
      /\ \A j \in QueueIds : head'[j] = IF j = i THEN head[j] + 1 ELSE head[j]
  BY Zenon, <1>1, <1>2, <1>3 DEF Safe, TypeOK, RestOK, Others
<1>5. /\ \A u \in Actors : q[u] \in QueueIds /\ ticket[u] \in Nat
      /\ \A j \in QueueIds : head[j] \in Nat /\ tail[j] \in Nat
  BY Zenon DEF Safe, TypeOK, RestOK
<1>6. Positions'
  <2>1. OwnedBelow'
    <3>1. ASSUME NEW u \in Actors, u # c, Owns(u)
          PROVE  ticket[u] < IF u \in Clients THEN head'[q[u]] ELSE tail[q[u]]
      BY <1>1, <1>4, <1>5, <3>1 DEF Positions, OwnedBelow
    <3>2. QED
      BY <1>1, <1>3, <1>4, <1>5, <3>1, Frame DEF OwnedBelow
  <2>2. OwnedApart'
    <3>1. \A u \in Actors : u # c /\ Owns(u)' /\ Side(u) = Side(c) /\ q'[u] = i => ticket'[u] # head[i]
      BY <1>1, <1>4, <1>5, Frame DEF Positions, OwnedBelow, Side
    <3>2. \A u, v \in Actors : u # c /\ v # c /\ u # v /\ Owns(u)' /\ Owns(v)' /\ Side(u) = Side(v) /\ q'[u] = q'[v]
            => ticket'[u] # ticket'[v]
      BY <1>1, <1>4, Frame DEF Positions, OwnedApart
    <3>3. QED
      BY <1>4, <3>1, <3>2 DEF OwnedApart, Side
  <2>3. ScansBelow'
    BY <1>1, <1>3, <1>4, Frame, Threads DEF Positions, ScansBelow
  <2>4. QED
    BY Zenon, <2>1, <2>2, <2>3 DEF Positions
<1>7. Turns'
  <2>1. ~InSlot(c)'
    BY Zenon, <1>4 DEF InSlot
  <2>2. QED
    BY Zenon, <1>1, <1>3, <1>4, <2>1, TurnsKept
<1>8. Requests'
  <2>1. ~Published(c)
    BY Zenon, <1>3 DEF Published
  <2>2. QED
    BY Zenon, <1>1, <1>3, <1>4, <2>1, RequestsKept
<1>9. QED
  BY Zenon, <1>6, <1>7, <1>8

----------------------------------------------------------------------------
(* Types and roles *)

\* The steps of a client keep the types.
LEMMA ClientTypes ==
    ASSUME TypeOK, NEW c \in Clients,
           Call(c) \/ Construct(c) \/ SemWait(c) \/ Crash(c)
    PROVE  RestOK'
<1>1. c \in Actors /\ \A p \in Places : [pc EXCEPT ![c] = p] \in [Actors -> Places]
  BY Zenon DEF TypeOK, RestOK, Actors
<1>2. 1 \in QueueIds /\ q[c] \in QueueIds /\ SlotOf(c) \in Slots
  BY <1>1, QueueAssumption, Locals DEF QueueIds
<1>3. CASE Call(c)
  <2>1. PICK i \in QueueIds : /\ q' = [q EXCEPT ![c] = i] /\ ticket' = [ticket EXCEPT ![c] = head[i]]
                              /\ head' = [head EXCEPT ![i] = @ + 1]
    BY ZenonT(40), <1>3 DEF Call
  <2>2. /\ q' \in [Actors -> QueueIds] /\ ticket' \in [Actors -> Nat] /\ head' \in [QueueIds -> Nat]
        /\ pc' \in [Actors -> Places]
    BY <1>1, <1>3, <2>1 DEF Call, Go, TypeOK, RestOK, Places
  <2>3. calls' \in [Clients -> 0..MaxCalls]
    BY <1>3, QueueAssumption DEF Call, TypeOK, RestOK
  <2>4. QED
    BY Zenon, <1>3, <2>2, <2>3 DEF Call, TypeOK, RestOK, scan
<1>4. CASE Construct(c)
  <2>1. storage' \in [QueueIds -> [Slots -> Clients \cup {None}]] /\ pc' \in [Actors -> Places]
    BY ZenonT(40), <1>1, <1>2, <1>4 DEF Construct, Go, TypeOK, RestOK, Places
  <2>2. QED
    BY Zenon, <1>4, <2>1 DEF Construct, TypeOK, RestOK, scan
<1>5. CASE SemWait(c)
  <2>1. /\ q' \in [Actors -> QueueIds] /\ ticket' \in [Actors -> Nat]
        /\ sem' \in [Clients -> 0..1] /\ pc' \in [Actors -> Places]
    BY <1>1, <1>2, <1>5 DEF SemWait, Go, TypeOK, RestOK, Places
  <2>2. QED
    BY Zenon, <1>5, <2>1 DEF SemWait, TypeOK, RestOK, shared, scan
<1>6. CASE Crash(c)
  BY Zenon, <1>1, <1>6 DEF Crash, Go, TypeOK, RestOK, Places, scan
<1>7. QED
  BY Zenon, <1>3, <1>4, <1>5, <1>6

\* The steps of a worker, and handing the turn on, keep the types.
LEMMA WorkerTypes ==
    ASSUME Safe, NEW w \in Workers, WorkerStep(w)
    PROVE  RestOK'
<1>1. /\ w \in Actors /\ q[w] \in QueueIds /\ SlotOf(w) \in Slots
      /\ tail[q[w]] \in Nat /\ OwnQueue[w] \in QueueIds /\ NumQueues \in Nat \ {0}
  BY Zenon, QueueAssumption, Locals DEF Safe, TypeOK, RestOK, Actors
<1>2. NextIdx(w) \in QueueIds
  <2>1. \A i \in Nat, n \in Nat \ {0} : (i % n) + 1 \in 1..n
    OBVIOUS
  <2>2. idx[w] \in Nat
    BY <1>1 DEF Safe, TypeOK, RestOK, QueueIds
  <2>3. QED
    BY Zenon, <1>1, <2>1, <2>2 DEF NextIdx, QueueIds
<1> DEFINE pcs(p) == [pc EXCEPT ![w] = p]
           qs(i) == [q EXCEPT ![w] = i]
           tickets(n) == [ticket EXCEPT ![w] = n]
           counts(n) == [count EXCEPT ![w] = n]
           vias(v) == [via EXCEPT ![w] = v]
<1>u. /\ \A p \in Places : pcs(p) \in [Actors -> Places]
      /\ \A i \in QueueIds : qs(i) \in [Actors -> QueueIds]
      /\ \A n \in Nat : tickets(n) \in [Actors -> Nat]
      /\ \A n \in 0..NumQueues : counts(n) \in [Workers -> 0..NumQueues]
      /\ \A v \in {"own", "other", "pop"} : vias(v) \in [Workers -> {"own", "other", "pop"}]
      /\ [tail EXCEPT ![q[w]] = tail[q[w]] + 1] \in [QueueIds -> Nat]
      /\ [idx EXCEPT ![w] = NextIdx(w)] \in [Workers -> QueueIds]
  BY <1>1, <1>2 DEF Safe, TypeOK, RestOK
<1>t. /\ q \in [Actors -> QueueIds] /\ ticket \in [Actors -> Nat] /\ tail \in [QueueIds -> Nat]
      /\ count \in [Workers -> 0..NumQueues] /\ via \in [Workers -> {"own", "other", "pop"}]
  BY Zenon DEF Safe, TypeOK, RestOK
<1>e. ASSUME NEW v \in {"own", "other", "pop"}, NEW i \in QueueIds, Enter(w, v, i)
      PROVE  /\ pc' \in [Actors -> Places] /\ q' \in [Actors -> QueueIds]
             /\ ticket' \in [Actors -> Nat] /\ via' \in [Workers -> {"own", "other", "pop"}]
  <2>1. pc' = pcs("pop") \/ pc' = pcs("load")
    BY Zenon, <1>e DEF Enter, Go
  <2>2. q' = qs(i) /\ ticket' = tickets(0) /\ via' = vias(v)
    BY Zenon, <1>e DEF Enter
  <2>3. "pop" \in Places /\ "load" \in Places
    BY Zenon DEF Places
  <2> HIDE DEF pcs, qs, tickets, vias
  <2>4. QED
    BY <1>u, <2>1, <2>2, <2>3
<1>3. CASE TryLoad(w)
  <2>1. pc' = pcs("test") /\ ticket' = tickets(tail[q[w]]) /\ "test" \in Places
    BY Zenon, <1>3 DEF TryLoad, Go, Places
  <2>2. pc' \in [Actors -> Places] /\ ticket' \in [Actors -> Nat]
    BY Zenon, <1>1, <1>u, <2>1
  <2>3. QED
    BY Zenon, <1>3, <2>2 DEF TryLoad, Safe, TypeOK, RestOK, shared, scan
<1>4. CASE TryTest(w)
  <2>1. pc' \in [Actors -> Places]
    BY Zenon, <1>u, <1>4 DEF TryTest, Go, Places
  <2>2. QED
    BY Zenon, <1>4, <2>1 DEF TryTest, Safe, TypeOK, RestOK, shared, scan
<1>5. CASE TryCas(w)
  <2>1. /\ pc' = pcs("take") \/ pc' = pcs("test")
        /\ ticket' = ticket \/ ticket' = tickets(tail[q[w]])
        /\ tail' = tail \/ tail' = [tail EXCEPT ![q[w]] = tail[q[w]] + 1]
        /\ "take" \in Places /\ "test" \in Places
    BY Zenon, <1>5 DEF TryCas, Go, Places
  <2> HIDE DEF pcs, tickets
  <2>2. pc' \in [Actors -> Places]
    BY <1>u, <2>1
  <2>3. ticket' \in [Actors -> Nat]
    BY <1>1, <1>t, <1>u, <2>1
  <2>4. tail' \in [QueueIds -> Nat]
    BY Zenon, <1>t, <1>u, <2>1
  <2>5. QED
    BY Zenon, <1>5, <2>2, <2>3, <2>4 DEF TryCas, Safe, TypeOK, RestOK, scan
<1>6. CASE TryReload(w)
  <2>1. /\ pc' \in [Actors -> Places] /\ q' \in [Actors -> QueueIds] /\ ticket' \in [Actors -> Nat]
        /\ via' \in [Workers -> {"own", "other", "pop"}]
    <3>1. \/ pc' = pcs("test") /\ ticket' = tickets(tail[q[w]]) /\ q' = q /\ via' = via /\ "test" \in Places
          \/ Enter(w, "other", idx[w])
          \/ Enter(w, "other", NextIdx(w))
          \/ Enter(w, "pop", OwnQueue[w])
      BY Zenon, <1>6 DEF TryReload, Go, scan, Places
    <3>2. idx[w] \in QueueIds
      BY Zenon DEF Safe, TypeOK, RestOK
    <3> HIDE DEF pcs, tickets
    <3>3. CASE pc' = pcs("test") /\ ticket' = tickets(tail[q[w]]) /\ q' = q /\ via' = via /\ "test" \in Places
      BY Zenon, <1>1, <1>t, <1>u, <3>3
    <3>4. CASE Enter(w, "other", idx[w])
      BY Zenon, <1>e, <3>2, <3>4
    <3>5. CASE Enter(w, "other", NextIdx(w))
      BY Zenon, <1>2, <1>e, <3>5
    <3>6. CASE Enter(w, "pop", OwnQueue[w])
      BY Zenon, <1>1, <1>e, <3>6
    <3>7. QED
      BY Zenon, <3>1, <3>3, <3>4, <3>5, <3>6
  <2>2. idx' \in [Workers -> QueueIds]
    <3>1. idx' = idx \/ idx' = [idx EXCEPT ![w] = NextIdx(w)]
      BY Zenon, <1>6 DEF TryReload, scan
    <3>2. QED
      BY Zenon, <1>u, <3>1 DEF Safe, TypeOK, RestOK
  <2>3. count' \in [Workers -> 0..NumQueues]
    <3>1. \/ count' = count
          \/ count' = counts(NumQueues)
          \/ count' = counts(count[w] - 1) /\ count[w] > 0
      BY Zenon, <1>6 DEF TryReload, scan, Safe, Roles
    <3>2. NumQueues \in 0..NumQueues /\ (count[w] > 0 => count[w] - 1 \in 0..NumQueues)
      BY <1>1 DEF Safe, TypeOK, RestOK
    <3> HIDE DEF counts
    <3>3. QED
      BY <1>t, <1>u, <3>1, <3>2
  <2>4. QED
    BY Zenon, <1>6, <2>1, <2>2, <2>3 DEF TryReload, Safe, TypeOK, RestOK, shared
<1>7. CASE Pop(w)
  <2>1. /\ pc' = pcs("turn") /\ ticket' = tickets(tail[q[w]]) /\ "turn" \in Places
        /\ tail' = [tail EXCEPT ![q[w]] = tail[q[w]] + 1]
    BY Zenon, <1>7 DEF Pop, Go, Places
  <2>2. pc' \in [Actors -> Places] /\ ticket' \in [Actors -> Nat] /\ tail' \in [QueueIds -> Nat]
    BY Zenon, <1>1, <1>u, <2>1
  <2>3. QED
    BY Zenon, <1>7, <2>2 DEF Pop, Safe, TypeOK, RestOK, scan
<1>8. CASE Take(w)
  <2>1. pc' \in [Actors -> Places]
    BY Zenon, <1>u, <1>8 DEF Take, Go, Places
  <2>2. rp' \in [Workers -> Clients \cup {None}]
    BY <1>1, <1>8 DEF Take, Safe, TypeOK, RestOK
  <2>3. QED
    BY Zenon, <1>8, <2>1, <2>2 DEF Take, Safe, TypeOK, RestOK, shared, scan
<1>9. CASE Handle(w)
  <2>1. sem' \in [Clients -> 0..1]
    <3>1. rp[w] \in Clients /\ pc[rp[w]] # "dead" => sem[rp[w]] = 0
      BY Zenon DEF Safe, Requests, InHand
    <3>2. QED
      BY <1>9, <3>1 DEF Handle, Safe, TypeOK, RestOK
  <2>2. /\ pc' \in [Actors -> Places] /\ q' \in [Actors -> QueueIds] /\ ticket' \in [Actors -> Nat]
        /\ via' \in [Workers -> {"own", "other", "pop"}]
    <3>1. Enter(w, "pop", OwnQueue[w]) \/ Enter(w, "own", OwnQueue[w])
      BY Zenon, <1>9 DEF Handle
    <3>2. QED
      BY Zenon, <1>1, <1>e, <3>1
  <2>3. rp' \in [Workers -> Clients \cup {None}] /\ count' \in [Workers -> 0..NumQueues]
    <3>1. count' = counts(0) /\ 0 \in 0..NumQueues
      BY <1>1, <1>9 DEF Handle
    <3>2. QED
      BY <1>u, <1>9, <3>1 DEF Handle, Safe, TypeOK, RestOK
  <2>4. QED
    BY ZenonT(40), <1>9, <2>1, <2>2, <2>3 DEF Handle, Safe, TypeOK, RestOK, shared
<1>10. QED
  BY Zenon, <1>3, <1>4, <1>5, <1>6, <1>7, <1>8, <1>9 DEF WorkerStep

\* Where a client and a worker may be.
ClientPlaces == {"cond", "cancel", "wait", "asleep", "sub", "idle", "dead", "turn", "prep",
                 "put", "pub", "notify", "wake", "sem"}
WorkerPlaces == {"cond", "cancel", "wait", "asleep", "sub", "load", "test", "cas", "reload",
                 "pop", "turn", "prep", "take", "release", "notify", "wake", "handle"}

\* A step of t to one of its places keeps the roles.
LEMMA RolesKept ==
    ASSUME TypeOK, Roles, NEW t \in Actors, NEW p, Go(t, p),
           t \in Clients => p \in ClientPlaces, t \in Workers => p \in WorkerPlaces,
           \A w \in Workers : via'[w] = "other" => count'[w] > 0
    PROVE  Roles'
<1>1. pc'[t] = p /\ \A u \in Actors : u # t => pc'[u] = pc[u]
  BY Zenon DEF Go, TypeOK, RestOK
<1>2. Clients \subseteq Actors /\ Workers \subseteq Actors
  BY Zenon DEF Actors
<1>3. /\ Roles <=> /\ \A c \in Clients : pc[c] \in ClientPlaces
                   /\ \A w \in Workers : pc[w] \in WorkerPlaces
                   /\ \A w \in Workers : via[w] = "other" => count[w] > 0
      /\ Roles' <=> /\ \A c \in Clients : pc'[c] \in ClientPlaces
                    /\ \A w \in Workers : pc'[w] \in WorkerPlaces
                    /\ \A w \in Workers : via'[w] = "other" => count'[w] > 0
  BY Zenon DEF Roles, Waiting, ClientPlaces, WorkerPlaces
<1>4. QED
  BY Zenon, <1>1, <1>2, <1>3

----------------------------------------------------------------------------
(* The steps of a request: into the slot, out of it, and answered *)

\* The owner of the slot stores its request there.
LEMMA ConstructKeeps ==
    ASSUME Safe, NEW c \in Clients, Construct(c)
    PROVE  Positions' /\ Turns' /\ Requests'
<1>1. c \in Actors /\ c \notin Workers /\ c # None /\ TypeOK /\ Positions /\ Turns /\ Requests
  BY Zenon, Threads DEF Safe
<1>2. /\ pc[c] = "put" /\ pc'[c] = "pub" /\ Others(c)
      /\ UNCHANGED <<head, tail, turn, sem, q, ticket, rp>>
  BY Zenon, <1>1 DEF Construct, Go, TypeOK, RestOK, Others
<1>3. \A i \in QueueIds, s \in Slots :
         storage'[i][s] = IF i = q[c] /\ s = SlotOf(c) THEN c ELSE storage[i][s]
  BY Zenon, <1>1, Locals DEF Construct, TypeOK, RestOK
<1>4. \A u \in Actors : /\ SlotOf(u)' = SlotOf(u) /\ TurnOf(u)' = TurnOf(u)
                        /\ MyTurn(u)' <=> MyTurn(u)
                        /\ q[u] \in QueueIds /\ SlotOf(u) \in Slots
  BY Zenon, <1>1, <1>2, Locals DEF SlotOf, TurnOf, MyTurn
<1>5. MyTurn(c) /\ Owns(c) /\ InSlot(c) /\ ~Scans(c)'
  BY Zenon, <1>1, <1>2 DEF Turns, InTurn, InSlot, Owns, Scans
<1>6. Positions'
  BY Zenon, <1>1, <1>2, <1>5, PositionsKept
<1>7. Turns'
  <2>1. InTurn'
    BY Zenon, <1>1, <1>2, <1>4, <1>5, Frame DEF Turns, InTurn
  <2>2. CasInTurn'
    BY Zenon, <1>1, <1>2, <1>4, Frame, Threads DEF Turns, CasInTurn
  <2>3. \A d \in Clients : d # c /\ pc[d] = "pub" => ~(q[d] = q[c] /\ SlotOf(d) = SlotOf(c))
    BY ZenonT(40), <1>1, <1>5, Alone, Threads DEF InSlot
  <2>4. Stored'
    BY <1>1, <1>2, <1>3, <1>4, <2>3, Frame, Threads DEF Turns, Stored
  <2>5. Filled'
    BY <1>1, <1>2, <1>3 DEF Turns, Filled
  <2>6. QED
    BY Zenon, <2>1, <2>2, <2>4, <2>5 DEF Turns
<1>8. Requests'
  <2>1. ~Odd(turn[q[c]][SlotOf(c)]) /\ ~Published(c)
    BY <1>1, <1>2, <1>5, Parity, Locals DEF MyTurn, TurnOf, Published
  <2>2. \A d \in Clients : /\ pc'[d] # "dead" => pc[d] # "dead"
                           /\ Published(d) => Published(d)'
    BY Zenon, <1>1, <1>2, <2>1, Frame, Threads
  <2>3. \A w \in Workers : pc'[w] = pc[w]
    BY Zenon, <1>1, <1>2, Frame, Threads
  <2>4. Held' /\ Posted'
    BY Zenon, <1>1, <1>2, <2>2, <2>3 DEF Requests, Held, Posted
  <2>5. InHand'
    BY ZenonT(40), <1>1, <1>2, <2>2 DEF Requests, InHand
  <2>6. InStorage'
    BY <1>1, <1>2, <1>3, <1>4, <2>1, <2>2, <2>3, Threads DEF Requests, InStorage, Odd
  <2>7. QED
    BY Zenon, <2>4, <2>5, <2>6 DEF Requests
<1>9. QED
  BY Zenon, <1>6, <1>7, <1>8

\* A worker whose compare-and-swap would succeed is not at the slot of another
\* thread that is in its turn there: it would have the same position.
LEMMA CasApart ==
    ASSUME Safe, NEW w \in Workers, NEW t \in Actors, w # t, pc[w] = "cas", tail[q[w]] = ticket[w],
           InSlot(t), q[w] = q[t], SlotOf(w) = SlotOf(t)
    PROVE  FALSE
<1>1. w \in Actors /\ w \notin Clients /\ TypeOK /\ Positions /\ Turns
  BY Zenon, Threads DEF Safe
<1>2. TurnOf(w) = TurnOf(t)
  BY Zenon, <1>1 DEF Turns, CasInTurn, InTurn, MyTurn
<1>3. /\ Lap(ticket[w]) \in Nat /\ Lap(ticket[t]) \in Nat
      /\ ticket[w] \in Nat /\ ticket[t] \in Nat
  BY Zenon, <1>1, Locals
<1>4. t \notin Clients
  <2>1. \A a, b \in Nat : 2 * a + 1 # 2 * b + 0
    OBVIOUS
  <2>2. QED
    BY ZenonT(40), <1>1, <1>2, <1>3, <2>1 DEF TurnOf
<1>5. Lap(ticket[w]) = Lap(ticket[t])
  BY <1>1, <1>2, <1>3, <1>4 DEF TurnOf
<1>6. ticket[w] = ticket[t]
  BY Zenon, <1>3, <1>5, SlotAndLap DEF SlotOf
<1>7. ticket[t] < tail[q[t]] /\ tail[q[t]] \in Nat
  BY Zenon, <1>1, <1>4 DEF Positions, OwnedBelow, InSlot, Owns, TypeOK, RestOK
<1>8. QED
  BY <1>3, <1>6, <1>7

\* The owner of the slot hands it to the other side.
LEMMA HandOnKeeps ==
    ASSUME Safe, NEW t \in Actors, HandOn(t)
    PROVE  Positions' /\ Turns' /\ Requests'
<1>1. TypeOK /\ Roles /\ Positions /\ Turns /\ Requests
  BY Zenon DEF Safe
<1>2. /\ pc[t] \in {"pub", "release"} /\ pc'[t] = "notify" /\ Others(t)
      /\ UNCHANGED <<head, tail, storage, sem, q, ticket, rp>>
  BY Zenon, <1>1 DEF HandOn, Go, TypeOK, RestOK, Others
<1>3. \A i \in QueueIds, s \in Slots :
         turn'[i][s] = IF i = q[t] /\ s = SlotOf(t) THEN TurnOf(t) + 1 ELSE turn[i][s]
  BY Zenon, <1>1, Locals DEF HandOn, TypeOK, RestOK
<1>4. \A u \in Actors : /\ SlotOf(u)' = SlotOf(u) /\ TurnOf(u)' = TurnOf(u)
                        /\ q[u] \in QueueIds /\ SlotOf(u) \in Slots
  BY Zenon, <1>1, <1>2, Locals DEF SlotOf, TurnOf
<1>5. InSlot(t) /\ MyTurn(t) /\ Owns(t) /\ ~Scans(t)' /\ ~InSlot(t)'
  BY Zenon, <1>1, <1>2 DEF Turns, InTurn, InSlot, Owns, Scans
<1>6. (t \in Clients => pc[t] = "pub") /\ (t \in Workers => pc[t] = "release")
  BY Zenon, <1>1, <1>2 DEF Roles, Waiting
<1>7. Positions'
  BY Zenon, <1>1, <1>2, <1>5, PositionsKept
<1>8. Turns'
  <2>1. \A u \in Actors : MyTurn(u) /\ ~(q[u] = q[t] /\ SlotOf(u) = SlotOf(t)) => MyTurn(u)'
    BY <1>2, <1>3, <1>4 DEF MyTurn
  <2>2. InTurn'
    <3>1. \A u \in Actors : InSlot(u)' => u # t /\ InSlot(u) /\ MyTurn(u)
      BY Zenon, <1>1, <1>2, <1>5, Frame DEF Turns, InTurn
    <3>2. \A u \in Actors : u # t /\ InSlot(u) => ~(q[u] = q[t] /\ SlotOf(u) = SlotOf(t))
      BY Zenon, <1>1, <1>5, Alone
    <3>3. QED
      BY Zenon, <2>1, <3>1, <3>2 DEF InTurn
  <2>3. CasInTurn'
    <3>1. \A w \in Workers : pc'[w] = "cas" => w # t /\ pc[w] = "cas"
      BY ZenonT(40), <1>2, Frame, Threads
    <3>2. \A w \in Workers : w # t /\ pc[w] = "cas" /\ tail[q[w]] = ticket[w] =>
            MyTurn(w) /\ ~(q[w] = q[t] /\ SlotOf(w) = SlotOf(t))
      BY Zenon, <1>1, <1>5, CasApart DEF Turns, CasInTurn
    <3>3. QED
      BY Zenon, <1>2, <2>1, <3>1, <3>2, Threads DEF CasInTurn
  <2>4. Stored'
    BY <1>1, <1>2, <1>4, Frame, Threads DEF Turns, Stored
  <2>5. Filled'
    <3>1. storage[q[t]][SlotOf(t)] # None
      <4>1. CASE t \in Clients
        BY Zenon, <1>1, <1>6, <4>1, Threads DEF Turns, Stored
      <4>2. CASE t \in Workers
        <5>1. turn[q[t]][SlotOf(t)] # 0
          BY <1>1, <1>5, <4>2, Locals, Threads DEF MyTurn, TurnOf
        <5>2. QED
          BY Zenon, <1>1, <1>4, <5>1 DEF Turns, Filled
      <4>3. QED
        BY Zenon, <4>1, <4>2, Threads
    <3>2. QED
      BY <1>1, <1>2, <1>3, <3>1 DEF Turns, Filled
  <2>6. QED
    BY Zenon, <2>2, <2>3, <2>4, <2>5 DEF Turns
<1>9. Requests'
  <2>1. \A d \in Clients : d # t => (Published(d)' <=> Published(d)) /\ pc'[d] = pc[d]
    BY Zenon, <1>2, Frame, Threads
  <2>2. t \in Clients => ~Published(t) /\ Published(t)' /\ pc[t] # "dead" /\ pc'[t] # "dead"
    BY Zenon, <1>2, <1>6 DEF Published
  <2>3. t \in Clients => sem[t] = 0 /\ \A w \in Workers : rp[w] # t
    BY <1>1, <2>2 DEF Requests, Posted, InHand, TypeOK, RestOK
  <2>4. Held'
    BY Zenon, <1>1, <1>2, Frame, Threads DEF Requests, Held
  <2>5. Posted'
    BY Zenon, <1>1, <1>2, <2>1, <2>2 DEF Requests, Posted
  <2>6. InHand'
    BY Zenon, <1>1, <1>2, <2>1, <2>2, <2>3 DEF Requests, InHand
  <2>7. ASSUME NEW i \in QueueIds, NEW s \in Slots, NEW d \in Clients,
               storage[i][s] = d, Odd(turn'[i][s]), pc'[d] # "dead"
        PROVE  /\ Published(d)' /\ sem[d] = 0
               /\ q[d] = i /\ SlotOf(d) = s /\ turn'[i][s] = TurnOf(d) + 1
               /\ \A w \in Workers : rp[w] = d => pc'[w] = "release"
    <3>1. CASE i = q[t] /\ s = SlotOf(t) /\ t \in Clients
      <4>1. d = t
        BY Zenon, <1>1, <1>6, <2>7, <3>1 DEF Turns, Stored
      <4>2. QED
        BY Zenon, <1>3, <2>2, <2>3, <3>1, <4>1
    <3>2. CASE i = q[t] /\ s = SlotOf(t) /\ t \in Workers
      <4>1. turn'[i][s] = 2 * Lap(ticket[t]) + 1 + 1
        BY Zenon, <1>3, <3>2, Threads DEF TurnOf
      <4>2. QED
        BY Zenon, <1>1, <2>7, <4>1, Locals, Parity
    <3>3. CASE ~(i = q[t] /\ s = SlotOf(t))
      <4>1. turn'[i][s] = turn[i][s] /\ pc[d] # "dead"
        BY Zenon, <1>3, <2>1, <2>2, <2>7, <3>3
      <4>2. /\ Published(d) /\ sem[d] = 0
            /\ q[d] = i /\ SlotOf(d) = s /\ turn[i][s] = TurnOf(d) + 1
            /\ \A w \in Workers : rp[w] = d => pc[w] = "release"
        BY <1>1, <2>7, <4>1 DEF Requests, InStorage
      <4>3. \A w \in Workers : rp[w] = d => q[w] = i /\ SlotOf(w) = s
        BY Zenon, <1>1, <4>1, <4>2 DEF Requests, InHand, SlotOf
      <4>4. \A w \in Workers : rp[w] = d => pc'[w] = "release"
        BY <1>2, <3>3, <4>2, <4>3, Frame, Threads
      <4>5. QED
        BY Zenon, <2>1, <2>2, <4>1, <4>2, <4>4
    <3>4. QED
      BY Zenon, <3>1, <3>2, <3>3, Threads
  <2>8. InStorage'
    BY <1>2, <1>4, <2>7, Threads DEF InStorage, Odd
  <2>9. QED
    BY <2>4, <2>5, <2>6, <2>8 DEF Requests
<1>10. QED
  BY Zenon, <1>7, <1>8, <1>9

\* The client that is answered has nothing left in a slot or in a worker's hands.
LEMMA SemWaitKeeps ==
    ASSUME Safe, NEW c \in Clients, SemWait(c)
    PROVE  Positions' /\ Turns' /\ Requests'
<1>1. c \in Actors /\ c \notin Workers /\ TypeOK /\ Positions /\ Turns /\ Requests
  BY Zenon, Threads DEF Safe
<1>2. /\ pc[c] = "sem" /\ pc'[c] = "idle" /\ Others(c)
      /\ UNCHANGED <<head, tail, turn, storage, rp>>
  BY Zenon, <1>1 DEF SemWait, Go, shared, TypeOK, RestOK, Others
<1>3. sem[c] = 1 /\ sem'[c] = 0 /\ \A d \in Clients : d # c => sem'[d] = sem[d]
  BY <1>1 DEF SemWait, TypeOK, RestOK
<1>4. ~Owns(c)' /\ ~InSlot(c)'
  BY Zenon, <1>2 DEF Owns, Waiting, InSlot
<1>5. Positions'
  BY Zenon, <1>1, <1>2, <1>4, PositionsKept
<1>6. Turns'
  BY Zenon, <1>1, <1>2, <1>4, TurnsKept
<1>7. Requests'
  <2>1. \A w \in Workers : rp[w] # c /\ pc'[w] = pc[w] /\ q'[w] = q[w] /\ ticket'[w] = ticket[w]
    <3>1. sem[c] # 0 /\ pc[c] # "dead"
      BY <1>2, <1>3
    <3>2. \A w \in Workers : rp[w] # c
      BY Zenon, <1>1, <3>1 DEF Requests, InHand
    <3>3. QED
      BY ZenonT(40), <1>1, <1>2, <3>2, Frame, Threads
  <2>2. \A i \in QueueIds, s \in Slots : storage[i][s] = c => ~Odd(turn[i][s])
    <3>1. sem[c] # 0 /\ pc[c] # "dead"
      BY <1>2, <1>3
    <3>2. InStorage
      BY Zenon, <1>1 DEF Requests
    <3>3. QED
      BY <3>1, <3>2 DEF InStorage
  <2>3. \A d \in Clients : d # c =>
          /\ pc'[d] = pc[d] /\ q'[d] = q[d] /\ ticket'[d] = ticket[d]
          /\ SlotOf(d)' = SlotOf(d) /\ TurnOf(d)' = TurnOf(d)
          /\ Published(d)' <=> Published(d)
    BY Zenon, <1>1, <1>2, Frame, Threads
  <2>4. Held'
    BY Zenon, <1>1, <1>2, <2>1 DEF Requests, Held
  <2>5. Posted'
    <3>1. ~(sem'[c] > 0)
      BY <1>3
    <3>2. QED
      BY Zenon, <1>1, <1>3, <2>3, <3>1 DEF Requests, Posted
  <2>6. InHand'
    <3>1. SUFFICES ASSUME NEW w \in Workers, NEW d \in Clients, rp[w] = d, pc'[d] # "dead"
                   PROVE  Published(d)' /\ sem'[d] = 0 /\ q'[w] = q'[d] /\ ticket'[w] = ticket'[d]
      BY Zenon, <1>2 DEF InHand
    <3>2. d # c /\ pc[d] # "dead"
      BY Zenon, <2>1, <2>3, <3>1
    <3>3. Published(d) /\ sem[d] = 0 /\ q[w] = q[d] /\ ticket[w] = ticket[d]
      BY Zenon, <1>1, <3>1, <3>2 DEF Requests, InHand
    <3>4. QED
      BY Zenon, <1>3, <2>1, <2>3, <3>2, <3>3
  <2>7. InStorage'
    <3>1. SUFFICES ASSUME NEW i \in QueueIds, NEW s \in Slots, NEW d \in Clients,
                          storage[i][s] = d, Odd(turn[i][s]), pc'[d] # "dead"
                   PROVE  /\ Published(d)' /\ sem'[d] = 0
                          /\ q'[d] = i /\ SlotOf(d)' = s /\ turn[i][s] = TurnOf(d)' + 1
                          /\ \A w \in Workers : rp[w] = d => pc'[w] = "release"
      BY <1>2 DEF InStorage, Odd
    <3>2. d # c /\ pc[d] # "dead"
      BY ZenonT(40), <2>2, <2>3, <3>1
    <3>3. /\ Published(d) /\ sem[d] = 0
          /\ q[d] = i /\ SlotOf(d) = s /\ turn[i][s] = TurnOf(d) + 1
          /\ \A w \in Workers : rp[w] = d => pc[w] = "release"
      <4>1. InStorage
        BY Zenon, <1>1 DEF Requests
      <4>2. QED
        BY <3>1, <3>2, <4>1 DEF InStorage
    <3>4. QED
      BY ZenonT(40), <1>3, <2>1, <2>3, <3>2, <3>3
  <2>8. QED
    BY Zenon, <2>4, <2>5, <2>6, <2>7 DEF Requests
<1>8. QED
  BY <1>5, <1>6, <1>7

\* The request a worker takes is that of the client that had its position.
LEMMA TakeKeeps ==
    ASSUME Safe, NEW w \in Workers, Take(w)
    PROVE  Positions' /\ Turns' /\ Requests'
<1>1. w \in Actors /\ w \notin Clients /\ TypeOK /\ Positions /\ Turns /\ Requests
  BY Zenon, Threads DEF Safe
<1>2. /\ pc[w] = "take" /\ pc'[w] = "release" /\ Others(w)
      /\ \A v \in Workers : rp'[v] = IF v = w THEN storage[q[w]][SlotOf(w)] ELSE rp[v]
      /\ UNCHANGED <<head, tail, turn, storage, sem, q, ticket>>
  BY Zenon, <1>1 DEF Take, Go, shared, TypeOK, RestOK, Others
<1>3. InSlot(w) /\ MyTurn(w) /\ MyTurn(w)' /\ Owns(w) /\ ~Scans(w)'
  BY Zenon, <1>1, <1>2 DEF Turns, InTurn, InSlot, MyTurn, SlotOf, TurnOf, Owns, Scans
<1>4. Positions'
  BY Zenon, <1>1, <1>2, <1>3, PositionsKept
<1>5. Turns'
  BY Zenon, <1>1, <1>2, <1>3, TurnsKept
<1>6. Requests'
  <2>1. \A d \in Clients : /\ pc'[d] = pc[d] /\ SlotOf(d)' = SlotOf(d) /\ TurnOf(d)' = TurnOf(d)
                           /\ Published(d)' <=> Published(d)
    BY Zenon, <1>1, <1>2, Frame, Threads
  <2>2. \A v \in Workers : v # w => pc'[v] = pc[v]
    BY Zenon, <1>1, <1>2, Frame, Threads
  <2>3. ASSUME NEW d \in Clients, storage[q[w]][SlotOf(w)] = d, pc[d] # "dead"
        PROVE  Published(d) /\ sem[d] = 0 /\ q[w] = q[d] /\ ticket[w] = ticket[d]
    <3>1. turn[q[w]][SlotOf(w)] = 2 * Lap(ticket[w]) + 1 /\ q[w] \in QueueIds /\ SlotOf(w) \in Slots
      BY Zenon, <1>1, <1>3, Locals DEF MyTurn, TurnOf
    <3>2. /\ ticket[w] \in Nat /\ ticket[d] \in Nat
          /\ Lap(ticket[w]) \in Nat /\ Lap(ticket[d]) \in Nat
      BY Zenon, <1>1, Locals, Threads
    <3>3. Odd(turn[q[w]][SlotOf(w)])
      BY ZenonT(40), <3>1, <3>2, Parity
    <3>4. /\ Published(d) /\ sem[d] = 0 /\ q[d] = q[w] /\ SlotOf(d) = SlotOf(w)
          /\ turn[q[w]][SlotOf(w)] = TurnOf(d) + 1
      BY SMTT(30), <1>1, <2>3, <3>1, <3>3 DEF Requests, InStorage
    <3>5. Lap(ticket[d]) = Lap(ticket[w])
      BY <3>1, <3>2, <3>4 DEF TurnOf
    <3>6. QED
      BY Zenon, <3>2, <3>4, <3>5, SlotAndLap DEF SlotOf
  <2>4. Held'
    BY Zenon, <1>1, <1>2, <2>2 DEF Requests, Held
  <2>5. Posted'
    BY Zenon, <1>1, <1>2, <2>1 DEF Requests, Posted
  <2>6. InHand'
    <3>1. SUFFICES ASSUME NEW v \in Workers, NEW d \in Clients, rp'[v] = d, pc'[d] # "dead"
                   PROVE  Published(d)' /\ sem[d] = 0 /\ q[v] = q[d] /\ ticket[v] = ticket[d]
      BY Zenon, <1>2 DEF InHand
    <3>2. pc[d] # "dead" /\ (Published(d)' <=> Published(d))
      BY Zenon, <2>1, <3>1
    <3>3. CASE v = w
      BY Zenon, <1>2, <2>3, <3>1, <3>2, <3>3
    <3>4. CASE v # w
      BY Zenon, <1>1, <1>2, <3>1, <3>2, <3>4 DEF Requests, InHand
    <3>5. QED
      BY Zenon, <3>3, <3>4
  <2>7. InStorage'
    <3>1. SUFFICES ASSUME NEW i \in QueueIds, NEW s \in Slots, NEW d \in Clients,
                          storage[i][s] = d, Odd(turn[i][s]), pc'[d] # "dead"
                   PROVE  /\ Published(d)' /\ sem[d] = 0
                          /\ q[d] = i /\ SlotOf(d)' = s /\ turn[i][s] = TurnOf(d)' + 1
                          /\ \A v \in Workers : rp'[v] = d => pc'[v] = "release"
      BY SMTT(30), <1>2 DEF InStorage, Odd
    <3>2. pc[d] # "dead"
      BY Zenon, <2>1, <3>1
    <3>3. /\ Published(d) /\ sem[d] = 0
          /\ q[d] = i /\ SlotOf(d) = s /\ turn[i][s] = TurnOf(d) + 1
          /\ \A v \in Workers : rp[v] = d => pc[v] = "release"
      <4>1. InStorage
        BY Zenon, <1>1 DEF Requests
      <4>2. QED
        BY <3>1, <3>2, <4>1 DEF InStorage
    <3>4. QED
      BY Zenon, <1>2, <2>1, <2>2, <3>3
  <2>8. QED
    BY Zenon, <2>4, <2>5, <2>6, <2>7 DEF Requests
<1>7. QED
  BY <1>4, <1>5, <1>6

\* The worker that answers a client is the only one that has its request, and the
\* request is in no slot any more.
LEMMA HandleKeeps ==
    ASSUME Safe, NEW w \in Workers, Handle(w)
    PROVE  Positions' /\ Turns' /\ Requests'
<1>1. w \in Actors /\ w \notin Clients /\ TypeOK /\ Positions /\ Turns /\ Requests
  BY Threads DEF Safe
<1>2. /\ pc[w] = "handle" /\ pc'[w] \in {"load", "pop"} /\ Others(w)
      /\ UNCHANGED <<head, tail, turn, storage>>
  BY Zenon, <1>1 DEF Handle, Enter, Go, shared, TypeOK, RestOK, Others
<1>3. /\ \A v \in Workers : rp'[v] = IF v = w THEN None ELSE rp[v]
      /\ \A d \in Clients : sem'[d] = IF d = rp[w] /\ pc[d] # "dead" THEN sem[d] + 1 ELSE sem[d]
  BY Zenon, <1>1 DEF Handle, TypeOK, RestOK
<1>4. ~Owns(w)' /\ ~InSlot(w)' /\ ~Scans(w)' /\ Owns(w)
  BY Zenon, <1>2 DEF Owns, Waiting, InSlot, Scans
<1>5. Positions'
  BY Zenon, <1>1, <1>2, <1>4, PositionsKept
<1>6. Turns'
  BY Zenon, <1>1, <1>2, <1>4, TurnsKept
<1>7. Requests'
  <2>1. \A d \in Clients : /\ pc'[d] = pc[d] /\ q'[d] = q[d] /\ ticket'[d] = ticket[d]
                           /\ SlotOf(d)' = SlotOf(d) /\ TurnOf(d)' = TurnOf(d)
                           /\ Published(d)' <=> Published(d)
    BY ZenonT(40), <1>1, <1>2, Frame, Threads
  <2>2. \A v \in Workers : v # w => pc'[v] = pc[v] /\ q'[v] = q[v] /\ ticket'[v] = ticket[v]
    BY Zenon, <1>1, <1>2, Frame, Threads
  <2>3. ASSUME NEW v \in Workers, NEW d \in Clients, v # w, rp[v] = d, rp[w] = d, pc[d] # "dead"
        PROVE  FALSE
    <3>1. q[v] = q[w] /\ ticket[v] = ticket[w]
      BY ZenonT(40), <1>1, <2>3 DEF Requests, InHand
    <3>2. Owns(v) /\ Side(v) = Side(w) /\ v \in Actors
      BY Zenon, <1>1, <2>3, Threads DEF Requests, Held, Owns, Side
    <3>3. QED
      BY Zenon, <1>1, <1>4, <2>3, <3>1, <3>2 DEF Positions, OwnedApart
  <2>4. \A i \in QueueIds, s \in Slots, d \in Clients :
          storage[i][s] = d /\ Odd(turn[i][s]) /\ pc[d] # "dead" => rp[w] # d
    <3>1. InStorage
      BY Zenon, <1>1 DEF Requests
    <3>2. QED
      BY <1>2, <3>1 DEF InStorage
  <2>5. Held'
    BY Zenon, <1>1, <1>3, <2>2 DEF Requests, Held
  <2>6. Posted'
    BY Zenon, <1>1, <1>3, <2>1 DEF Requests, Posted, InHand
  <2>7. InHand'
    <3>1. SUFFICES ASSUME NEW v \in Workers, NEW d \in Clients, rp'[v] = d, pc'[d] # "dead"
                   PROVE  Published(d)' /\ sem'[d] = 0 /\ q'[v] = q'[d] /\ ticket'[v] = ticket'[d]
      BY Zenon DEF InHand
    <3>2. v # w /\ rp[v] = d /\ pc[d] # "dead"
      BY Zenon, <1>3, <2>1, <3>1, Threads
    <3>3. Published(d) /\ sem[d] = 0 /\ q[v] = q[d] /\ ticket[v] = ticket[d]
      BY Zenon, <1>1, <3>1, <3>2 DEF Requests, InHand
    <3>4. rp[w] # d
      BY Zenon, <2>3, <3>1, <3>2
    <3>5. QED
      BY Zenon, <1>3, <2>1, <2>2, <3>2, <3>3, <3>4
  <2>8. InStorage'
    <3>1. SUFFICES ASSUME NEW i \in QueueIds, NEW s \in Slots, NEW d \in Clients,
                          storage[i][s] = d, Odd(turn[i][s]), pc'[d] # "dead"
                   PROVE  /\ Published(d)' /\ sem'[d] = 0
                          /\ q'[d] = i /\ SlotOf(d)' = s /\ turn[i][s] = TurnOf(d)' + 1
                          /\ \A v \in Workers : rp'[v] = d => pc'[v] = "release"
      BY <1>2 DEF InStorage, Odd
    <3>2. pc[d] # "dead" /\ rp[w] # d
      BY ZenonT(40), <2>1, <2>4, <3>1
    <3>3. /\ Published(d) /\ sem[d] = 0
          /\ q[d] = i /\ SlotOf(d) = s /\ turn[i][s] = TurnOf(d) + 1
          /\ \A v \in Workers : rp[v] = d => pc[v] = "release"
      <4>1. InStorage
        BY Zenon, <1>1 DEF Requests
      <4>2. QED
        BY <3>1, <3>2, <4>1 DEF InStorage
    <3>4. \A v \in Workers : rp'[v] = d => v # w /\ rp[v] = d
      BY Zenon, <1>3, Threads
    <3>5. QED
      BY ZenonT(40), <1>3, <2>1, <2>2, <3>2, <3>3, <3>4
  <2>9. QED
    BY Zenon, <2>5, <2>6, <2>7, <2>8 DEF Requests
<1>8. QED
  BY <1>5, <1>6, <1>7
=============================================================================
