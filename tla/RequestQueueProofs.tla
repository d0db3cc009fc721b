------------------------- MODULE RequestQueueProofs -------------------------
(***************************************************************************)
(* What holds of the request queue for any number of clients, workers,      *)
(* queues and slots, with clients killed at any point: a slot has one user, *)
(* a request is handled once, the waiters of the event counts are counted   *)
(* and, while no client was killed, no wake-up is lost.                     *)
(***************************************************************************)
EXTENDS RequestQueueTurns

----------------------------------------------------------------------------
(* Event counts *)

\* The threads that wait on the event count that t waits on, or that t notifies.
Beside(u, t) == Side(u) = Side(t) /\ q[u] = q[t] /\ SlotOf(u) = SlotOf(t)
Opposite(u, t) == Side(u) # Side(t) /\ q[u] = q[t] /\ SlotOf(u) = SlotOf(t)

\* Event counts are records, found by the side that waits on them.
LEMMA EventTypes ==
    ASSUME TypeOK, NEW t \in Actors
    PROVE  /\ WaitsOn(t) \in EventCount /\ Notifies(t) \in EventCount
           /\ WaitsOn(t) = Event(Side(t), q[t], SlotOf(t))
           /\ Side(t) \in {"producer", "consumer"} /\ q[t] \in QueueIds /\ SlotOf(t) \in Slots
BY Zenon, Locals DEF TypeOK, EventsOK, WaitsOn, Notifies, Event, Side

\* A store to one event count leaves the others.
LEMMA Stores ==
    ASSUME NEW F \in [QueueIds -> [Slots -> EventCount]], NEW i \in QueueIds, NEW s \in Slots,
           NEW e \in EventCount, NEW G, G = [F EXCEPT ![i][s] = e]
    PROVE  /\ G \in [QueueIds -> [Slots -> EventCount]]
           /\ \A j \in QueueIds, r \in Slots : G[j][r] = IF j = i /\ r = s THEN e ELSE F[j][r]
<1> DEFINE f == [F[i] EXCEPT ![s] = e]
<1>1. f \in [Slots -> EventCount] /\ \A r \in Slots : f[r] = IF r = s THEN e ELSE F[i][r]
  BY Zenon
<1>2. [F EXCEPT ![i][s] = e] = [F EXCEPT ![i] = f]
  BY Zenon
<1> HIDE DEF f
<1>3. [F EXCEPT ![i] = f] \in [QueueIds -> [Slots -> EventCount]]
  BY Zenon, <1>1
<1>4. \A j \in QueueIds, r \in Slots : [F EXCEPT ![i] = f][j][r] = IF j = i /\ r = s THEN e ELSE F[j][r]
  BY Zenon, <1>1
<1>5. QED
  BY Zenon, <1>2, <1>3, <1>4

\* A store to the event count t waits on is seen by those beside it.
LEMMA StoresWaitsOn ==
    ASSUME TypeOK, NEW t \in Actors, NEW e \in EventCount, SetWaitsOn(t, e)
    PROVE  /\ EventsOK'
           /\ \A u \in Actors : q'[u] = q[u] /\ ticket'[u] = ticket[u] =>
                WaitsOn(u)' = IF Beside(u, t) THEN e ELSE WaitsOn(u)
           /\ \A k \in {"producer", "consumer"}, i \in QueueIds, s \in Slots :
                Event(k, i, s)' = IF k = Side(t) /\ i = q[t] /\ s = SlotOf(t) THEN e
                                  ELSE Event(k, i, s)
<1>1. q[t] \in QueueIds /\ SlotOf(t) \in Slots /\ \A u \in Actors : q[u] \in QueueIds /\ SlotOf(u) \in Slots
  BY Zenon, Locals
<1>2. EventsOK
  BY Zenon DEF TypeOK
<1>3. \A u \in Actors : q'[u] = q[u] /\ ticket'[u] = ticket[u] => SlotOf(u)' = SlotOf(u)
  BY Zenon DEF SlotOf
<1>4. CASE t \in Clients
  <2>1. /\ \A i \in QueueIds, s \in Slots : full'[i][s] = IF i = q[t] /\ s = SlotOf(t) THEN e ELSE full[i][s]
        /\ empty' = empty /\ full' \in [QueueIds -> [Slots -> EventCount]]
    <3>1. full' = [full EXCEPT ![q[t]][SlotOf(t)] = e] /\ empty' = empty
      BY Zenon, <1>4 DEF SetWaitsOn, SetFull
    <3>2. QED
      BY <1>1, <1>2, <3>1, Stores DEF EventsOK
  <2>2. QED
    BY <1>1, <1>2, <1>3, <1>4, <2>1 DEF EventsOK, WaitsOn, Beside, Side, Event
<1>5. CASE t \notin Clients
  <2>1. /\ \A i \in QueueIds, s \in Slots : empty'[i][s] = IF i = q[t] /\ s = SlotOf(t) THEN e ELSE empty[i][s]
        /\ full' = full /\ empty' \in [QueueIds -> [Slots -> EventCount]]
    <3>1. empty' = [empty EXCEPT ![q[t]][SlotOf(t)] = e] /\ full' = full
      BY Zenon, <1>5 DEF SetWaitsOn, SetEmpty
    <3>2. QED
      BY <1>1, <1>2, <3>1, Stores DEF EventsOK
  <2>2. QED
    BY <1>1, <1>2, <1>3, <1>5, <2>1 DEF EventsOK, WaitsOn, Beside, Side, Event
<1>6. QED
  BY Zenon, <1>4, <1>5

\* A store to the event count t notifies is seen by those opposite.
LEMMA StoresNotifies ==
    ASSUME TypeOK, NEW t \in Actors, NEW e \in EventCount, SetNotifies(t, e)
    PROVE  /\ EventsOK'
           /\ \A u \in Actors : q'[u] = q[u] /\ ticket'[u] = ticket[u] =>
                WaitsOn(u)' = IF Opposite(u, t) THEN e ELSE WaitsOn(u)
           /\ \A u \in Actors : Opposite(u, t) => WaitsOn(u) = Notifies(t)
           /\ \A k \in {"producer", "consumer"}, i \in QueueIds, s \in Slots :
                \/ Event(k, i, s)' = Event(k, i, s)
                \/ Event(k, i, s)' = e /\ Event(k, i, s) = Notifies(t)
<1>1. q[t] \in QueueIds /\ SlotOf(t) \in Slots /\ \A u \in Actors : q[u] \in QueueIds /\ SlotOf(u) \in Slots
  BY Locals
<1>2. EventsOK
  BY DEF TypeOK
<1>3. \A u \in Actors : q'[u] = q[u] /\ ticket'[u] = ticket[u] => SlotOf(u)' = SlotOf(u)
  BY DEF SlotOf
<1>4. CASE t \in Clients
  <2>1. /\ \A i \in QueueIds, s \in Slots : empty'[i][s] = IF i = q[t] /\ s = SlotOf(t) THEN e ELSE empty[i][s]
        /\ full' = full /\ empty' \in [QueueIds -> [Slots -> EventCount]]
    <3>1. empty' = [empty EXCEPT ![q[t]][SlotOf(t)] = e] /\ full' = full
      BY Zenon, <1>4 DEF SetNotifies, SetEmpty
    <3>2. QED
      BY <1>1, <1>2, <3>1, Stores DEF EventsOK
  <2>2. QED
    BY <1>1, <1>2, <1>3, <1>4, <2>1 DEF EventsOK, WaitsOn, Notifies, Opposite, Side, Event
<1>5. CASE t \notin Clients
  <2>1. /\ \A i \in QueueIds, s \in Slots : full'[i][s] = IF i = q[t] /\ s = SlotOf(t) THEN e ELSE full[i][s]
        /\ empty' = empty /\ full' \in [QueueIds -> [Slots -> EventCount]]
    <3>1. full' = [full EXCEPT ![q[t]][SlotOf(t)] = e] /\ empty' = empty
      BY Zenon, <1>5 DEF SetNotifies, SetFull
    <3>2. QED
      BY <1>1, <1>2, <3>1, Stores DEF EventsOK
  <2>2. QED
    BY <1>1, <1>2, <1>3, <1>5, <2>1 DEF EventsOK, WaitsOn, Notifies, Opposite, Side, Event
<1>6. QED
  BY Zenon, <1>4, <1>5

\* A store of t to the event count it waits on that starts no new epoch and puts
\* nobody else to sleep.
LEMMA Revised ==
    ASSUME TypeOK, NEW t \in Actors, NEW e \in EventCount, SetWaitsOn(t, e), q' = q, ticket' = ticket,
           e.epoch = WaitsOn(t).epoch, e.asleep \subseteq WaitsOn(t).asleep \cup {t}
    PROVE  /\ EventsOK' /\ WaitsOn(t)' = e
           /\ \A u \in Actors : WaitsOn(u)'.epoch = WaitsOn(u).epoch
           /\ \A u \in Actors : u # t /\ u \in WaitsOn(u)'.asleep => u \in WaitsOn(u).asleep
           /\ \A k \in {"producer", "consumer"}, i \in QueueIds, s \in Slots :
                Event(k, i, s)'.waiters = IF k = Side(t) /\ i = q[t] /\ s = SlotOf(t) THEN e.waiters
                                          ELSE Event(k, i, s).waiters
<1>1. \A u \in Actors : WaitsOn(u)' = IF Beside(u, t) THEN e ELSE WaitsOn(u)
  BY Zenon, StoresWaitsOn
<1>2. \A u \in Actors : Beside(u, t) => WaitsOn(u) = WaitsOn(t)
  BY Zenon, EventTypes DEF Beside
<1>3. \A u \in Actors : WaitsOn(u)'.epoch = WaitsOn(u).epoch
  BY Zenon, <1>1, <1>2
<1>4. \A u \in Actors : u # t /\ u \in WaitsOn(u)'.asleep => u \in WaitsOn(u).asleep
  BY Zenon, <1>1, <1>2
<1>5. WaitsOn(t)' = e
  BY Zenon, <1>1 DEF Beside
<1>6. QED
  BY <1>3, <1>4, <1>5, StoresWaitsOn

----------------------------------------------------------------------------
(* Counting: AtMost(S, n) by numbering the elements *)

\* A subset has no more elements.
LEMMA AtMostSubset ==
    ASSUME NEW S, NEW R, NEW n, R \subseteq S, AtMost(S, n)
    PROVE  AtMost(R, n)
<1>1. PICK f \in [S -> 1..n] : \A a, b \in S : f[a] = f[b] => a = b
  BY Zenon DEF AtMost
<1> DEFINE g == [a \in R |-> f[a]]
<1>2. g \in [R -> 1..n] /\ \A a, b \in R : g[a] = g[b] => a = b
  BY Zenon, <1>1
<1> HIDE DEF g
<1>3. QED
  BY <1>2, Zenon DEF AtMost

\* One more element gets a new number.
LEMMA AtMostMore ==
    ASSUME NEW S, NEW n \in Nat, NEW t, AtMost(S, n)
    PROVE  AtMost(S \cup {t}, n + 1)
<1>1. PICK f \in [S -> 1..n] : \A a, b \in S : f[a] = f[b] => a = b
  BY Zenon DEF AtMost
<1> DEFINE g == [a \in S \cup {t} |-> IF a = t THEN n + 1 ELSE f[a]]
<1>2. \A a \in S : f[a] \in 1..n + 1 /\ f[a] # n + 1
  BY <1>1
<1>3. g \in [S \cup {t} -> 1..n + 1]
  BY <1>2
<1>4. \A a, b \in S \cup {t} : g[a] = g[b] => a = b
  BY Zenon, <1>1, <1>2
<1> HIDE DEF g
<1>5. QED
  BY <1>3, <1>4, Zenon DEF AtMost

\* Without t, its number can be given to the element with the last one.
LEMMA AtMostLess ==
    ASSUME NEW S, NEW n \in Nat, NEW t \in S, AtMost(S, n)
    PROVE  n >= 1 /\ AtMost(S \ {t}, n - 1)
<1>1. PICK f \in [S -> 1..n] : \A a, b \in S : f[a] = f[b] => a = b
  BY Zenon DEF AtMost
<1>2. f[t] \in 1..n
  BY Zenon, <1>1
<1> DEFINE R == S \ {t}
           g == [a \in R |-> IF f[a] = n THEN f[t] ELSE f[a]]
<1>3. \A a \in R : f[a] \in 1..n /\ f[a] # f[t]
  BY Zenon, <1>1
<1>4. g \in [R -> 1..n - 1]
  BY <1>2, <1>3
<1>5. \A a, b \in R : g[a] = g[b] => a = b
  BY Zenon, <1>1, <1>3
<1> HIDE DEF g
<1>6. AtMost(S \ {t}, n - 1)
  BY <1>4, <1>5, Zenon DEF AtMost, R
<1>7. QED
  BY <1>2, <1>6

\* A thread in await is counted.
LEMMA SelfCounted ==
    ASSUME TypeOK, Counted, NEW t \in Actors, Waiting(t)
    PROVE  WaitsOn(t).waiters \in Nat /\ WaitsOn(t).waiters >= 1
<1> DEFINE W == WaitersAt(Side(t), q[t], SlotOf(t))
<1>1. t \in W
  BY Zenon DEF WaitersAt
<1>2. AtMost(W, WaitsOn(t).waiters) /\ WaitsOn(t).waiters \in Nat
  BY Zenon, EventTypes DEF Counted, EventCount
<1> HIDE DEF W
<1>3. QED
  BY Zenon, <1>1, <1>2, AtMostLess

----------------------------------------------------------------------------
(* A step of one thread, t, as those who wait see it *)

\* The others wait where they did.
LEMMA WaiterFrame ==
    ASSUME NEW t \in Actors, Others(t), NEW u \in Actors, u # t
    PROVE  /\ pc'[u] = pc[u] /\ q'[u] = q[u] /\ key'[u] = key[u] /\ SlotOf(u)' = SlotOf(u)
           /\ turn' = turn => (MyTurn(u)' <=> MyTurn(u))
           /\ Waiting(u)' <=> Waiting(u)
<1>1. pc'[u] = pc[u] /\ key'[u] = key[u]
  BY Zenon DEF Others
<1>2. QED
  BY Zenon, <1>1, Frame DEF Waiting

\* No new waiters on the same counts.
LEMMA CountKept ==
    ASSUME Counted, NEW t \in Actors, Others(t),
           Waiting(t)' => Waiting(t) /\ q'[t] = q[t] /\ ticket'[t] = ticket[t],
           \A k \in {"producer", "consumer"}, i \in QueueIds, s \in Slots :
             Event(k, i, s)'.waiters = Event(k, i, s).waiters
    PROVE  Counted'
<1> SUFFICES ASSUME NEW k \in {"producer", "consumer"}, NEW i \in QueueIds, NEW s \in Slots
             PROVE  AtMost(WaitersAt(k, i, s)', Event(k, i, s)'.waiters)
  BY Zenon DEF Counted
<1>1. WaitersAt(k, i, s)' \subseteq WaitersAt(k, i, s)
  BY Zenon, WaiterFrame DEF WaitersAt, Side, SlotOf
<1>2. AtMost(WaitersAt(k, i, s), Event(k, i, s).waiters)
  BY Zenon DEF Counted
<1>3. QED
  BY Zenon, <1>1, <1>2, AtMostSubset

\* t joins the waiters and counts itself, or leaves them and the count.
LEMMA Recounted ==
    ASSUME TypeOK, Counted, NEW t \in Actors, Others(t), q' = q, ticket' = ticket, NEW n,
           \/ n = WaitsOn(t).waiters + 1
           \/ n = WaitsOn(t).waiters - 1 /\ Waiting(t) /\ ~Waiting(t)',
           \A k \in {"producer", "consumer"}, i \in QueueIds, s \in Slots :
             Event(k, i, s)'.waiters = IF k = Side(t) /\ i = q[t] /\ s = SlotOf(t) THEN n
                                       ELSE Event(k, i, s).waiters
    PROVE  Counted'
<1> SUFFICES ASSUME NEW k \in {"producer", "consumer"}, NEW i \in QueueIds, NEW s \in Slots
             PROVE  AtMost(WaitersAt(k, i, s)', Event(k, i, s)'.waiters)
  BY Zenon DEF Counted
<1> DEFINE W == WaitersAt(k, i, s)
           here == k = Side(t) /\ i = q[t] /\ s = SlotOf(t)
<1>1. \A u \in Actors : u # t /\ u \in W' => u \in W
  BY Zenon, WaiterFrame DEF WaitersAt, Side
<1>2. SlotOf(t)' = SlotOf(t)
  BY Zenon DEF SlotOf
<1>3. t \in W' => here /\ Waiting(t)'
  BY Zenon, <1>2 DEF WaitersAt, Side
<1>4. W' \subseteq Actors /\ (here /\ Waiting(t) => t \in W)
  BY Zenon DEF WaitersAt
<1>5. AtMost(W, Event(k, i, s).waiters)
  BY Zenon DEF Counted
<1>6. here => Event(k, i, s) = WaitsOn(t) /\ WaitsOn(t).waiters \in Nat
  BY Zenon, EventTypes DEF EventCount
<1>7. Event(k, i, s)'.waiters = IF here THEN n ELSE Event(k, i, s).waiters
  BY Zenon
<1> HIDE DEF W, here
<1>8. CASE ~here
  <2>1. W' \subseteq W
    BY Zenon, <1>1, <1>3, <1>4, <1>8
  <2>2. QED
    BY <1>5, <1>7, <1>8, <2>1, AtMostSubset, Zenon DEF W
<1>9. CASE here /\ n = WaitsOn(t).waiters + 1
  <2>1. W' \subseteq W \cup {t}
    BY Zenon, <1>1, <1>4
  <2>2. AtMost(W \cup {t}, n)
    BY Zenon, <1>5, <1>6, <1>9, AtMostMore
  <2>3. QED
    BY ZenonT(40), <1>7, <1>9, <2>1, <2>2, AtMostSubset DEF W
<1>10. CASE here /\ n = WaitsOn(t).waiters - 1 /\ Waiting(t) /\ ~Waiting(t)'
  <2>1. W' \subseteq W \ {t} /\ t \in W
    BY Zenon, <1>1, <1>3, <1>4, <1>10
  <2>2. AtMost(W \ {t}, n)
    BY Zenon, <1>5, <1>6, <1>10, <2>1, AtMostLess
  <2>3. QED
    BY <1>7, <1>10, <2>1, <2>2, AtMostSubset DEF W
<1>11. QED
  BY Zenon, <1>8, <1>9, <1>10

\* No new keys and no new epochs.
LEMMA KeysKept ==
    ASSUME Keys, NEW t \in Actors, Others(t),
           Waiting(t)' => Waiting(t) /\ key'[t] = key[t],
           \A u \in Actors : Waiting(u)' => WaitsOn(u)'.epoch = WaitsOn(u).epoch
    PROVE  Keys'
BY Zenon, WaiterFrame DEF Keys

\* A step that hands no turn on and ends no notification leaves the others alerted.
LEMMA AlertsKept ==
    ASSUME Waits, NEW t \in Actors, Others(t), turn' = turn, pc[t] \notin {"dead", "notify", "wake"},
           \A u \in Actors : u # t => WaitsOn(u)'.epoch = WaitsOn(u).epoch,
           \A u \in Actors : u # t /\ u \in WaitsOn(u)'.asleep => u \in WaitsOn(u).asleep,
           NobodyDead => Alerted(t)'
    PROVE  NobodyDead' => \A v \in Actors : Alerted(v)'
<1> SUFFICES ASSUME NobodyDead', NEW v \in Actors PROVE Alerted(v)'
  BY Zenon
<1>1. NobodyDead
  BY ZenonT(40), WaiterFrame, Threads DEF NobodyDead
<1>2. CASE v # t
  <2>1. Alerted(v)
    BY Zenon, <1>1 DEF Waits
  <2>2. \A u \in Actors, p \in {"notify", "wake"} : Notifier(u, v, p) => Notifier(u, v, p)'
    BY <1>2, WaiterFrame DEF Notifier, Side
  <2>3. /\ pc'[v] = pc[v] /\ (MyTurn(v)' <=> MyTurn(v)) /\ key'[v] = key[v]
        /\ WaitsOn(v)'.epoch = WaitsOn(v).epoch
        /\ v \in WaitsOn(v)'.asleep => v \in WaitsOn(v).asleep
    BY Zenon, <1>2, WaiterFrame
  <2>4. QED
    BY Zenon, <2>1, <2>2, <2>3 DEF Alerted
<1>3. QED
  BY Zenon, <1>1, <1>2

----------------------------------------------------------------------------
(* The steps *)

\* Steps outside await and notify.
Elsewhere(t) ==
    /\ Others(t) /\ UNCHANGED <<turn, full, empty>>
    /\ pc[t] \notin {"dead", "notify", "wake"} /\ ~Waiting(t) /\ ~Waiting(t)'

\* They concern neither those who wait nor those who notify.
LEMMA ElsewhereWaits ==
    ASSUME Waits, NEW t \in Actors, Elsewhere(t)
    PROVE  Waits'
<1>1. /\ Others(t) /\ turn' = turn /\ full' = full /\ empty' = empty
      /\ pc[t] \notin {"dead", "notify", "wake"} /\ ~Waiting(t)'
  BY Zenon DEF Elsewhere
<1>2. \A u \in Actors : u # t => WaitsOn(u)' = WaitsOn(u)
  BY Zenon, <1>1, WaiterFrame DEF WaitsOn
<1>3. Counted'
  <2>1. \A k \in {"producer", "consumer"}, i \in QueueIds, s \in Slots : Event(k, i, s)' = Event(k, i, s)
    BY Zenon, <1>1 DEF Event
  <2>2. QED
    BY Zenon, <1>1, <2>1, CountKept DEF Waits
<1>4. Keys'
  BY Zenon, <1>1, <1>2, KeysKept DEF Waits
<1>5. NobodyDead' => \A v \in Actors : Alerted(v)'
  <2>1. Alerted(t)'
    BY Zenon, <1>1 DEF Alerted, Waiting
  <2>2. QED
    BY Zenon, <1>1, <1>2, <2>1, AlertsKept
<1>6. QED
  BY Zenon, <1>3, <1>4, <1>5 DEF Waits

\* Steps of a thread in await that change nothing but its place: it tests its
\* condition, wakes up, or finds a new epoch.
Stirs(t) ==
    /\ Others(t) /\ UNCHANGED <<turn, full, empty>>
    /\ q'[t] = q[t] /\ ticket'[t] = ticket[t] /\ key'[t] = key[t]
    /\ Waiting(t) /\ pc'[t] \in {"cancel", "wait", "sub"}
    /\ pc'[t] = "wait" => pc[t] = "asleep" \/ ~MyTurn(t)

\* It stays counted, and if it goes on waiting in its turn it was to be notified
\* before.
LEMMA StirsWaits ==
    ASSUME Waits, NEW t \in Actors, Stirs(t)
    PROVE  Waits'
<1>1. /\ Others(t) /\ turn' = turn /\ full' = full /\ empty' = empty
      /\ q'[t] = q[t] /\ ticket'[t] = ticket[t] /\ key'[t] = key[t]
      /\ Waiting(t) /\ pc'[t] \in {"cancel", "wait", "sub"}
  BY Zenon DEF Stirs
<1>2. \A u \in Actors : WaitsOn(u)' = WaitsOn(u)
  BY Zenon, <1>1, WaiterFrame DEF WaitsOn, SlotOf
<1>3. Counted'
  <2>1. \A k \in {"producer", "consumer"}, i \in QueueIds, s \in Slots : Event(k, i, s)' = Event(k, i, s)
    BY Zenon, <1>1 DEF Event
  <2>2. QED
    BY Zenon, <1>1, <2>1, CountKept DEF Waits
<1>4. Keys'
  BY Zenon, <1>1, <1>2, KeysKept DEF Waits
<1>5. NobodyDead' => \A v \in Actors : Alerted(v)'
  <2>1. pc[t] \notin {"dead", "notify", "wake"}
    BY Zenon, <1>1 DEF Waiting
  <2>2. ASSUME NobodyDead PROVE Alerted(t)'
    <3>1. Alerted(t)
      BY Zenon, <2>2 DEF Waits
    <3>2. MyTurn(t)' <=> MyTurn(t)
      BY Zenon, <1>1 DEF MyTurn, SlotOf, TurnOf
    <3>3. \A u \in Actors : Notifier(u, t, "notify") => Notifier(u, t, "notify")'
      BY Zenon, <1>1, <2>1, WaiterFrame DEF Notifier, Side, SlotOf
    <3>4. QED
      BY Zenon, <1>1, <1>2, <3>1, <3>2, <3>3 DEF Alerted, Stirs
  <2>3. QED
    BY Zenon, <1>1, <1>2, <2>1, <2>2, AlertsKept
<1>6. QED
  BY <1>3, <1>4, <1>5 DEF Waits

\* Falling asleep, and being woken for no reason: only t enters or leaves the
\* sleepers, and it falls asleep only in the epoch it read.
LEMMA SleepWaits ==
    ASSUME TypeOK, Waits, NEW t \in Actors,
           \/ Wait(t) /\ WaitsOn(t).epoch = key[t]
           \/ SpuriousWakeup(t)
    PROVE  Waits' /\ EventsOK'
<1> DEFINE S == IF pc[t] = "wait" THEN WaitsOn(t).asleep \cup {t} ELSE WaitsOn(t).asleep \ {t}
<1>1. /\ SetWaitsOn(t, [WaitsOn(t) EXCEPT !.asleep = S])
      /\ S \subseteq WaitsOn(t).asleep \cup {t} /\ S \in SUBSET Actors
      /\ WaitsOn(t).epoch = key[t] \/ t \notin S
  <2>1. WaitsOn(t).asleep \in SUBSET Actors
    BY Zenon, EventTypes DEF EventCount
  <2>2. CASE Wait(t) /\ WaitsOn(t).epoch = key[t]
    <3>1. S = WaitsOn(t).asleep \cup {t}
      BY Zenon, <2>2 DEF Wait
    <3>2. SetWaitsOn(t, [WaitsOn(t) EXCEPT !.asleep = WaitsOn(t).asleep \cup {t}])
      BY Zenon, <2>2 DEF Wait
    <3> HIDE DEF S
    <3>3. QED
      BY Zenon, <2>1, <2>2, <3>1, <3>2
  <2>3. CASE SpuriousWakeup(t)
    <3>1. S = WaitsOn(t).asleep \ {t}
      BY Zenon, <2>3 DEF SpuriousWakeup
    <3>2. SetWaitsOn(t, [WaitsOn(t) EXCEPT !.asleep = WaitsOn(t).asleep \ {t}])
      BY Zenon, <2>3 DEF SpuriousWakeup
    <3> HIDE DEF S
    <3>3. QED
      BY Zenon, <2>1, <3>1, <3>2
  <2>4. QED
    BY Zenon, <2>2, <2>3
<1> HIDE DEF S
<1> DEFINE e == [WaitsOn(t) EXCEPT !.asleep = S]
<1>2. e \in EventCount /\ e.epoch = WaitsOn(t).epoch /\ e.waiters = WaitsOn(t).waiters /\ e.asleep = S
  BY ZenonT(30), <1>1, EventTypes DEF EventCount
<1>3. SetWaitsOn(t, e)
  BY Zenon, <1>1
<1> HIDE DEF e
<1>4. /\ turn' = turn /\ q' = q /\ ticket' = ticket /\ key' = key /\ Others(t)
      /\ pc[t] \in {"wait", "asleep"} /\ pc'[t] = "asleep"
  BY Zenon DEF Wait, SpuriousWakeup, Go, TypeOK, RestOK, Others
<1>5. /\ EventsOK' /\ WaitsOn(t)' = e
      /\ \A u \in Actors : WaitsOn(u)'.epoch = WaitsOn(u).epoch
      /\ \A u \in Actors : u # t /\ u \in WaitsOn(u)'.asleep => u \in WaitsOn(u).asleep
  BY Zenon, <1>1, <1>2, <1>3, <1>4, Revised
<1>6. \A k \in {"producer", "consumer"}, i \in QueueIds, s \in Slots :
        Event(k, i, s)'.waiters = Event(k, i, s).waiters
  BY <1>1, <1>2, <1>3, <1>4, Revised, EventTypes
<1>7. Waiting(t) /\ pc[t] \notin {"dead", "notify", "wake"}
  BY Zenon, <1>4 DEF Waiting
<1>8. Counted' /\ Keys'
  BY Zenon, <1>4, <1>5, <1>6, <1>7, CountKept, KeysKept DEF Waits
<1>9. NobodyDead' => \A v \in Actors : Alerted(v)'
  <2>1. ASSUME NobodyDead PROVE Alerted(t)'
    <3>1. Alerted(t)
      BY Zenon, <2>1 DEF Waits
    <3>2. MyTurn(t)' <=> MyTurn(t)
      BY Zenon, <1>4 DEF MyTurn, SlotOf, TurnOf
    <3>3. \A u \in Actors : Notifier(u, t, "notify") => Notifier(u, t, "notify")'
      BY Zenon, <1>4, <1>7, WaiterFrame DEF Notifier, Side, SlotOf
    <3>4. t \in WaitsOn(t)'.asleep => ~(key'[t] < WaitsOn(t)'.epoch)
      <4>1. key[t] \in Nat
        BY Zenon DEF TypeOK, RestOK
      <4>2. QED
        BY <1>1, <1>2, <1>4, <1>5, <4>1
    <3>5. QED
      BY Zenon, <1>4, <1>5, <3>1, <3>2, <3>3, <3>4 DEF Alerted
  <2>2. QED
    BY Zenon, <1>4, <1>5, <1>7, <2>1, AlertsKept
<1>10. QED
  BY Zenon, <1>5, <1>8, <1>9 DEF Waits

\* A thread that prepares to wait counts itself and remembers the epoch.
LEMMA PrepareWaits ==
    ASSUME TypeOK, Waits, NEW t \in Actors, PrepareWait(t)
    PROVE  Waits' /\ EventsOK'
<1> DEFINE e == [WaitsOn(t) EXCEPT !.waiters = WaitsOn(t).waiters + 1]
<1>1. /\ e \in EventCount /\ e.epoch = WaitsOn(t).epoch /\ e.waiters = WaitsOn(t).waiters + 1
      /\ e.asleep = WaitsOn(t).asleep /\ WaitsOn(t).epoch \in Nat
  BY EventTypes DEF EventCount
<1>2. SetWaitsOn(t, e)
  BY Zenon DEF PrepareWait
<1> HIDE DEF e
<1>3. /\ turn' = turn /\ q' = q /\ ticket' = ticket /\ Others(t)
      /\ pc[t] = "prep" /\ pc'[t] = "cond" /\ key'[t] = WaitsOn(t).epoch
  BY Zenon DEF PrepareWait, Go, TypeOK, RestOK, Others
<1>4. /\ EventsOK'
      /\ \A u \in Actors : WaitsOn(u)'.epoch = WaitsOn(u).epoch
      /\ \A u \in Actors : u # t /\ u \in WaitsOn(u)'.asleep => u \in WaitsOn(u).asleep
      /\ \A k \in {"producer", "consumer"}, i \in QueueIds, s \in Slots :
           Event(k, i, s)'.waiters = IF k = Side(t) /\ i = q[t] /\ s = SlotOf(t) THEN e.waiters
                                     ELSE Event(k, i, s).waiters
  BY Zenon, <1>1, <1>2, <1>3, Revised
<1>5. Counted'
  <2>1. /\ Counted
        /\ \/ e.waiters = WaitsOn(t).waiters + 1
           \/ e.waiters = WaitsOn(t).waiters - 1 /\ Waiting(t) /\ ~Waiting(t)'
    BY Zenon, <1>1 DEF Waits
  <2>2. QED
    BY <1>3, <1>4, <2>1, Recounted
<1>6. Keys'
  <2>1. key'[t] <= WaitsOn(t)'.epoch
    BY <1>1, <1>3, <1>4
  <2>2. ASSUME NEW u \in Actors, u # t, Waiting(u)' PROVE key'[u] <= WaitsOn(u)'.epoch
    BY Zenon, <1>3, <1>4, <2>2, WaiterFrame DEF Waits, Keys
  <2>3. QED
    BY Zenon, <2>1, <2>2 DEF Keys
<1>7. NobodyDead' => \A v \in Actors : Alerted(v)'
  <2>1. Alerted(t)'
    BY Zenon, <1>3 DEF Alerted
  <2>2. QED
    BY Zenon, <1>3, <1>4, <2>1, AlertsKept
<1>8. QED
  BY Zenon, <1>4, <1>5, <1>6, <1>7 DEF Waits

\* A thread that ends or cancels its wait takes itself off the count.
LEMMA SubWaits ==
    ASSUME TypeOK, Waits, NEW t \in Actors, SubWaiter(t)
    PROVE  Waits' /\ EventsOK'
<1> DEFINE e == [WaitsOn(t) EXCEPT !.waiters = WaitsOn(t).waiters - 1]
<1>1. Waiting(t) /\ WaitsOn(t).waiters \in Nat /\ WaitsOn(t).waiters >= 1
  BY Zenon, SelfCounted DEF Waits, SubWaiter, Waiting
<1>2. /\ e \in EventCount /\ e.epoch = WaitsOn(t).epoch /\ e.waiters = WaitsOn(t).waiters - 1
      /\ e.asleep = WaitsOn(t).asleep
  BY <1>1, EventTypes DEF EventCount
<1>3. SetWaitsOn(t, e)
  BY Zenon DEF SubWaiter
<1> HIDE DEF e
<1>4. /\ turn' = turn /\ q' = q /\ ticket' = ticket /\ Others(t)
      /\ pc[t] \in {"sub", "cancel"} /\ pc'[t] \in {"prep", "turn"}
  BY Zenon DEF SubWaiter, Go, TypeOK, RestOK, Others
<1>5. /\ EventsOK'
      /\ \A u \in Actors : WaitsOn(u)'.epoch = WaitsOn(u).epoch
      /\ \A u \in Actors : u # t /\ u \in WaitsOn(u)'.asleep => u \in WaitsOn(u).asleep
      /\ \A k \in {"producer", "consumer"}, i \in QueueIds, s \in Slots :
           Event(k, i, s)'.waiters = IF k = Side(t) /\ i = q[t] /\ s = SlotOf(t) THEN e.waiters
                                     ELSE Event(k, i, s).waiters
  BY Zenon, <1>2, <1>3, <1>4, Revised
<1>6. ~Waiting(t)' /\ pc[t] \notin {"dead", "notify", "wake"}
  BY Zenon, <1>4 DEF Waiting
<1>7. Counted'
  BY <1>1, <1>2, <1>4, <1>5, <1>6, Recounted DEF Waits
<1>8. Keys'
  BY Zenon, <1>4, <1>5, <1>6, KeysKept DEF Waits
<1>9. NobodyDead' => \A v \in Actors : Alerted(v)'
  <2>1. Alerted(t)'
    BY Zenon, <1>4 DEF Alerted
  <2>2. QED
    BY Zenon, <1>4, <1>5, <1>6, <2>1, AlertsKept
<1>10. QED
  BY <1>5, <1>7, <1>8, <1>9 DEF Waits

\* Handing the turn on gives it to threads of the other side, and whoever hands
\* it on notifies them next.
LEMMA HandOnWaits ==
    ASSUME TypeOK, Waits, NEW t \in Actors, HandOn(t)
    PROVE  Waits'
<1>1. /\ full' = full /\ empty' = empty /\ q' = q /\ ticket' = ticket /\ key' = key
      /\ Others(t) /\ pc[t] \in {"pub", "release"} /\ pc'[t] = "notify"
  BY Zenon DEF HandOn, Go, TypeOK, RestOK, Others
<1>2. \A u \in Actors : q[u] \in QueueIds /\ SlotOf(u) \in Slots /\ Lap(ticket[u]) \in Nat
  BY Zenon, Locals
<1>3. \A i \in QueueIds, s \in Slots :
        turn'[i][s] = IF i = q[t] /\ s = SlotOf(t) THEN TurnOf(t) + 1 ELSE turn[i][s]
  BY Zenon, <1>2 DEF HandOn, TypeOK, RestOK
<1>4. \A u \in Actors : SlotOf(u)' = SlotOf(u) /\ TurnOf(u)' = TurnOf(u) /\ WaitsOn(u)' = WaitsOn(u)
  BY Zenon, <1>1 DEF SlotOf, TurnOf, WaitsOn
<1>5. ~Waiting(t)'
  BY Zenon, <1>1 DEF Waiting
<1>6. Counted'
  <2>1. \A k \in {"producer", "consumer"}, i \in QueueIds, s \in Slots : Event(k, i, s)' = Event(k, i, s)
    BY Zenon, <1>1 DEF Event
  <2>2. QED
    BY Zenon, <1>1, <1>5, <2>1, CountKept DEF Waits
<1>7. Keys'
  BY Zenon, <1>1, <1>4, <1>5, KeysKept DEF Waits
<1>8. ASSUME NobodyDead', NEW v \in Actors, v # t PROVE Alerted(v)'
  <2>1. NobodyDead
    BY <1>1, <1>8, WaiterFrame, Threads DEF NobodyDead
  <2>2. Alerted(v) /\ pc'[v] = pc[v]
    BY Zenon, <1>1, <1>8, <2>1, WaiterFrame DEF Waits
  <2>3. \A u \in Actors, p \in {"notify", "wake"} : Notifier(u, v, p) => Notifier(u, v, p)'
    BY Zenon, <1>1, <1>4, WaiterFrame DEF Notifier, Side
  <2>4. MyTurn(v)' => MyTurn(v) \/ Notifier(t, v, "notify")'
    <3>1. ASSUME q[v] = q[t], SlotOf(v) = SlotOf(t), TurnOf(v) = TurnOf(t) + 1 PROVE Side(v) # Side(t)
      <4>1. \A a, b \in Nat : 2 * a + 0 # (2 * b + 0) + 1 /\ 2 * a + 1 # (2 * b + 1) + 1
        OBVIOUS
      <4>2. QED
        BY Zenon, <1>2, <3>1, <4>1 DEF TurnOf, Side
    <3>2. CASE q[v] = q[t] /\ SlotOf(v) = SlotOf(t)
      <4>1. MyTurn(v)' => TurnOf(v) = TurnOf(t) + 1
        BY <1>1, <1>2, <1>3, <1>4, <3>2 DEF MyTurn
      <4>2. QED
        BY Zenon, <1>1, <1>4, <3>1, <3>2, <4>1 DEF Notifier, Side
    <3>3. CASE ~(q[v] = q[t] /\ SlotOf(v) = SlotOf(t))
      BY <1>1, <1>2, <1>3, <1>4, <3>3 DEF MyTurn
    <3>4. QED
      BY Zenon, <3>2, <3>3
  <2>5. QED
    BY Zenon, <1>1, <1>4, <2>2, <2>3, <2>4 DEF Alerted
<1>9. Alerted(t)'
  BY Zenon, <1>1 DEF Alerted
<1>10. QED
  BY Zenon, <1>6, <1>7, <1>8, <1>9 DEF Waits

\* A new epoch wakes those about to sleep; for those asleep, who are counted, the
\* notifier goes on to the futex.
LEMMA NotifyWaits ==
    ASSUME TypeOK, Waits, NEW t \in Actors, Notify(t)
    PROVE  Waits' /\ EventsOK'
<1> DEFINE e == [Notifies(t) EXCEPT !.epoch = Notifies(t).epoch + 1]
<1>1. /\ Notifies(t).epoch \in Nat
      /\ e \in EventCount /\ e.epoch = Notifies(t).epoch + 1 /\ e.waiters = Notifies(t).waiters
  BY EventTypes DEF EventCount
<1>2. SetNotifies(t, e)
  BY Zenon DEF Notify
<1> HIDE DEF e
<1>3. /\ turn' = turn /\ q' = q /\ ticket' = ticket /\ key' = key /\ Others(t)
      /\ pc[t] = "notify" /\ pc'[t] \in {"wake", "sem", "handle"}
      /\ Notifies(t).waiters > 0 => pc'[t] = "wake"
  BY Zenon DEF Notify, Go, Then, TypeOK, RestOK, Others
<1>4. /\ EventsOK'
      /\ \A u \in Actors : WaitsOn(u)' = IF Opposite(u, t) THEN e ELSE WaitsOn(u)
      /\ \A u \in Actors : Opposite(u, t) => WaitsOn(u) = Notifies(t)
  BY Zenon, <1>1, <1>2, <1>3, StoresNotifies
<1>5. ~Waiting(t)'
  BY Zenon, <1>3 DEF Waiting
<1>6. Counted'
  <2>1. \A k \in {"producer", "consumer"}, i \in QueueIds, s \in Slots :
          Event(k, i, s)'.waiters = Event(k, i, s).waiters
    BY <1>1, <1>2, <1>3, StoresNotifies
  <2>2. QED
    BY Zenon, <1>3, <1>5, <2>1, CountKept DEF Waits
<1>7. \A u \in Actors : /\ key[u] \in Nat /\ (Waiting(u) => key[u] <= WaitsOn(u).epoch)
                        /\ u # t => pc'[u] = pc[u] /\ (Waiting(u)' <=> Waiting(u))
  BY Zenon, <1>3, WaiterFrame DEF TypeOK, RestOK, Waits, Keys
<1>8. Keys'
  <2>1. ASSUME NEW u \in Actors, u # t, Waiting(u) PROVE key[u] <= WaitsOn(u)'.epoch
    BY <1>1, <1>4, <1>7, <2>1
  <2>2. QED
    BY Zenon, <1>3, <1>5, <1>7, <2>1 DEF Keys
<1>9. ASSUME NobodyDead', NEW v \in Actors, v # t PROVE Alerted(v)'
  <2>1. Alerted(v)
    BY Zenon, <1>3, <1>7, <1>9, Threads DEF NobodyDead, Waits
  <2>2. CASE Opposite(v, t)
    <3>1. Waiting(v) => key[v] < WaitsOn(v)'.epoch
      BY <1>1, <1>4, <1>7, <2>2
    <3>2. Waiting(v) => Notifier(t, v, "wake")'
      <4>1. Waiting(v) => pc'[t] = "wake"
        BY <1>3, <1>4, <2>2, SelfCounted DEF Waits
      <4>2. QED
        BY Zenon, <1>3, <2>2, <4>1 DEF Notifier, Opposite, Side, SlotOf
    <3>3. WaitsOn(v)'.epoch \in Nat
      BY <1>1, <1>4, <2>2
    <3>4. pc'[v] \in {"wait", "asleep"} => Waiting(v)
      BY Zenon, <1>7, <1>9 DEF Waiting
    <3>5. QED
      BY <1>3, <1>7, <3>1, <3>2, <3>3, <3>4 DEF Alerted
  <2>3. CASE ~Opposite(v, t)
    <3>1. WaitsOn(v)' = WaitsOn(v) /\ (MyTurn(v)' <=> MyTurn(v))
      BY Zenon, <1>3, <1>4, <1>9, <2>3, WaiterFrame
    <3>2. \A u \in Actors, p \in {"notify", "wake"} : Notifier(u, v, p) => Notifier(u, v, p)'
      BY Zenon, <1>3, <2>3, WaiterFrame DEF Notifier, Opposite, Side, SlotOf
    <3>3. QED
      BY Zenon, <1>3, <1>7, <1>9, <2>1, <3>1, <3>2 DEF Alerted
  <2>4. QED
    BY Zenon, <2>2, <2>3
<1>10. Alerted(t)'
  BY Zenon, <1>3 DEF Alerted
<1>11. QED
  BY Zenon, <1>4, <1>6, <1>8, <1>9, <1>10 DEF Waits

\* The futex wakes all that sleep on the event count.
LEMMA WakeWaits ==
    ASSUME TypeOK, Waits, NEW t \in Actors, Wake(t)
    PROVE  Waits' /\ EventsOK'
<1> DEFINE e == [Notifies(t) EXCEPT !.asleep = {}]
<1>1. /\ e \in EventCount /\ e.epoch = Notifies(t).epoch /\ e.waiters = Notifies(t).waiters
      /\ e.asleep = {}
  BY ZenonT(40), EventTypes DEF EventCount
<1>2. SetNotifies(t, e)
  BY Zenon DEF Wake
<1> HIDE DEF e
<1>3. /\ turn' = turn /\ q' = q /\ ticket' = ticket /\ key' = key /\ Others(t)
      /\ pc[t] = "wake" /\ pc'[t] \in {"sem", "handle"}
  BY Zenon DEF Wake, Go, Then, TypeOK, RestOK, Others
<1>4. /\ EventsOK'
      /\ \A u \in Actors : WaitsOn(u)' = IF Opposite(u, t) THEN e ELSE WaitsOn(u)
      /\ \A u \in Actors : Opposite(u, t) => WaitsOn(u) = Notifies(t)
  BY Zenon, <1>1, <1>2, <1>3, StoresNotifies
<1>5. ~Waiting(t)' /\ \A u \in Actors : WaitsOn(u)'.epoch = WaitsOn(u).epoch
  BY Zenon, <1>1, <1>3, <1>4 DEF Waiting
<1>6. Counted'
  <2>1. \A k \in {"producer", "consumer"}, i \in QueueIds, s \in Slots :
          Event(k, i, s)'.waiters = Event(k, i, s).waiters
    BY <1>1, <1>2, <1>3, StoresNotifies
  <2>2. QED
    BY Zenon, <1>3, <1>5, <2>1, CountKept DEF Waits
<1>7. Keys'
  BY Zenon, <1>3, <1>5, KeysKept DEF Waits
<1>8. ASSUME NobodyDead', NEW v \in Actors, v # t PROVE Alerted(v)'
  <2>1. NobodyDead
    BY <1>3, <1>8, WaiterFrame, Threads DEF NobodyDead
  <2>2. Alerted(v) /\ pc'[v] = pc[v] /\ (MyTurn(v)' <=> MyTurn(v))
    BY Zenon, <1>3, <1>8, <2>1, WaiterFrame DEF Waits
  <2>3. \A u \in Actors : Notifier(u, v, "notify") => Notifier(u, v, "notify")'
    BY Zenon, <1>3, WaiterFrame DEF Notifier, Side, SlotOf
  <2>4. Opposite(v, t) => v \notin WaitsOn(v)'.asleep
    BY Zenon, <1>1, <1>4
  <2>5. ~Opposite(v, t) => WaitsOn(v)' = WaitsOn(v)
    BY Zenon, <1>4
  <2>6. ~Opposite(v, t) => \A u \in Actors : Notifier(u, v, "wake") => Notifier(u, v, "wake")'
    BY Zenon, <1>3, WaiterFrame DEF Notifier, Opposite, Side, SlotOf
  <2>7. QED
    BY Zenon, <1>3, <1>5, <2>2, <2>3, <2>4, <2>5, <2>6 DEF Alerted
<1>9. Alerted(t)'
  BY Zenon, <1>3 DEF Alerted
<1>10. QED
  BY <1>4, <1>6, <1>7, <1>8, <1>9 DEF Waits

\* A client that is killed stays counted; its wake-ups are lost with it.
LEMMA CrashWaits ==
    ASSUME TypeOK, Waits, NEW c \in Clients, Crash(c)
    PROVE  Waits' /\ EventsOK'
<1>1. c \in Actors
  BY Zenon, Threads
<1>2. q' = q /\ ticket' = ticket /\ Others(c) /\ pc'[c] = "dead"
  BY Zenon, <1>1 DEF Crash, Go, TypeOK, RestOK, Others
<1>3. ~Waiting(c)'
  BY Zenon, <1>2 DEF Waiting
<1>4. /\ EventsOK'
      /\ \A u \in Actors : WaitsOn(u)'.epoch = WaitsOn(u).epoch
      /\ \A k \in {"producer", "consumer"}, i \in QueueIds, s \in Slots :
           Event(k, i, s)'.waiters = Event(k, i, s).waiters
  <2>1. CASE pc[c] = "asleep"
    <3> DEFINE e == [WaitsOn(c) EXCEPT !.asleep = WaitsOn(c).asleep \ {c}]
    <3>1. /\ e \in EventCount /\ e.epoch = WaitsOn(c).epoch /\ e.waiters = WaitsOn(c).waiters
          /\ e.asleep \subseteq WaitsOn(c).asleep \cup {c}
      BY Zenon, <1>1, EventTypes DEF EventCount
    <3>2. SetWaitsOn(c, e)
      BY Zenon, <2>1 DEF Crash
    <3> HIDE DEF e
    <3>3. QED
      BY <1>1, <1>2, <3>1, <3>2, Revised, EventTypes
  <2>2. CASE pc[c] # "asleep"
    <3>1. full' = full /\ empty' = empty
      BY Zenon, <2>2 DEF Crash
    <3>2. QED
      BY Zenon, <1>2, <3>1 DEF TypeOK, EventsOK, WaitsOn, SlotOf, Event
  <2>3. QED
    BY Zenon, <2>1, <2>2
<1>5. Counted' /\ Keys'
  BY Zenon, <1>1, <1>2, <1>3, <1>4, CountKept, KeysKept DEF Waits
<1>6. ~NobodyDead'
  BY Zenon, <1>2 DEF NobodyDead
<1>7. QED
  BY Zenon, <1>4, <1>5, <1>6 DEF Waits

----------------------------------------------------------------------------
(* Types and roles *)

\* The steps of waiting and notifying keep the types.
LEMMA WaitTypes ==
    ASSUME TypeOK, NEW t \in Actors,
           \/ AwaitTurn(t) \/ PrepareWait(t) \/ Condition(t) \/ Wait(t) \/ Woken(t) \/ SubWaiter(t)
           \/ SpuriousWakeup(t) \/ Notify(t) \/ Wake(t)
    PROVE  RestOK'
<1>1. /\ UNCHANGED <<head, tail, turn, storage, sem, calls, q, ticket, rp, scan>>
      /\ pc' \in [Actors -> Places]
  <2>1. \A p \in Places : [pc EXCEPT ![t] = p] \in [Actors -> Places]
    BY Zenon DEF TypeOK, RestOK
  <2>2. CASE AwaitTurn(t) \/ Condition(t)
    BY Zenon, <2>1, <2>2 DEF AwaitTurn, Condition, Go, Places, shared
  <2>3. CASE PrepareWait(t) \/ Wait(t) \/ Woken(t) \/ SubWaiter(t)
    BY <2>1, <2>3 DEF PrepareWait, Wait, Woken, SubWaiter, Go, Places, shared
  <2>4. CASE SpuriousWakeup(t)
    BY Zenon, <2>4 DEF SpuriousWakeup, TypeOK, RestOK
  <2>5. CASE Notify(t) \/ Wake(t)
    BY Zenon, <2>1, <2>5 DEF Notify, Wake, Go, Then, Places
  <2>6. QED
    BY Zenon, <2>2, <2>3, <2>4, <2>5
<1>2. key' \in [Actors -> Nat]
  <2>1. WaitsOn(t).epoch \in Nat
    BY Zenon, EventTypes DEF EventCount
  <2>2. key' = key \/ key' = [key EXCEPT ![t] = WaitsOn(t).epoch] \/ key' = [key EXCEPT ![t] = 0]
    BY Zenon DEF AwaitTurn, PrepareWait, Condition, Wait, Woken, SubWaiter, SpuriousWakeup, Notify, Wake
  <2>3. key \in [Actors -> Nat]
    BY Zenon DEF TypeOK, RestOK
  <2>4. \A n \in Nat : [key EXCEPT ![t] = n] \in [Actors -> Nat]
    BY Zenon, <2>3
  <2>5. [key EXCEPT ![t] = WaitsOn(t).epoch] \in [Actors -> Nat] /\ [key EXCEPT ![t] = 0] \in [Actors -> Nat]
    BY <2>1, <2>4, Zenon
  <2>6. QED
    BY Zenon, <2>2, <2>3, <2>5
<1>3. QED
  BY Zenon, <1>1, <1>2 DEF TypeOK, RestOK, scan

----------------------------------------------------------------------------
(* The invariant is kept by every step *)

\* Waiting and notifying.
LEMMA WaitStepKeeps ==
    ASSUME QueueInv, NEW t \in Actors,
           WaitStep(t) \/ SpuriousWakeup(t) \/ Notify(t) \/ Wake(t)
    PROVE  QueueInv'
<1>1. Safe /\ TypeOK /\ Roles /\ Requests /\ Waits
  BY Zenon DEF QueueInv, Safe
<1>2. t \in Clients \/ (t \in Workers /\ t \notin Clients)
  BY Zenon, QueueAssumption DEF Actors
<1>3. /\ UNCHANGED <<head, tail, turn, storage, sem, rp, q, ticket, via, count>>
      /\ \A u \in Actors : u # t => pc'[u] = pc[u] /\ key'[u] = key[u]
  <2>1. UNCHANGED <<head, tail, turn, storage, sem, rp, q, ticket, via, count>>
    BY Zenon DEF WaitStep, AwaitTurn, PrepareWait, Condition, Wait, Woken, SubWaiter, SpuriousWakeup,
           Notify, Wake, shared, scan
  <2>2. \A u \in Actors : u # t => pc'[u] = pc[u] /\ key'[u] = key[u]
    BY Zenon, <1>1 DEF WaitStep, AwaitTurn, PrepareWait, Condition, Wait, Woken, SubWaiter,
                SpuriousWakeup, Notify, Wake, Go, TypeOK, RestOK
  <2>3. QED
    BY Zenon, <2>1, <2>2
<1>4. \/ pc[t] = "turn" /\ pc'[t] = "prep"
      \/ pc[t] = "turn" /\ MyTurn(t) /\ pc'[t] = IF t \in Clients THEN "put" ELSE "take"
      \/ pc[t] = "prep" /\ pc'[t] = "cond"
      \/ pc[t] = "cond" /\ pc'[t] \in {"cancel", "wait"}
      \/ pc[t] = "wait" /\ pc'[t] \in {"asleep", "sub"}
      \/ pc[t] = "asleep" /\ pc'[t] \in {"wait", "asleep"}
      \/ pc[t] \in {"sub", "cancel"} /\ pc'[t] \in {"prep", "turn"}
      \/ pc[t] \in {"notify", "wake"} /\ pc'[t] \in {"wake", IF t \in Clients THEN "sem" ELSE "handle"}
  BY ZenonT(30), <1>1 DEF WaitStep, AwaitTurn, PrepareWait, Condition, Wait, Woken, SubWaiter,
              SpuriousWakeup, Notify, Wake, Go, Then, TypeOK, RestOK
<1>5. Positions' /\ Turns' /\ Requests'
  <2>1. Others(t)
    BY Zenon, <1>3 DEF Others
  <2>2. /\ pc[t] # "dead" /\ pc[t] # "release" /\ pc'[t] # "pub"
        /\ Owns(t)' => Owns(t)
        /\ InSlot(t)' => MyTurn(t)
    BY Zenon, <1>2, <1>4 DEF Owns, Waiting, InSlot
  <2>3. /\ t \in Workers /\ Scans(t)' => Scans(t)
        /\ t \in Workers /\ pc'[t] = "cas" => MyTurn(t)
        /\ t \in Clients /\ pc'[t] # "dead" /\ Published(t) => Published(t)'
    BY Zenon, <1>2, <1>4 DEF Scans, Published
  <2>4. t \in Workers /\ rp[t] # None => pc'[t] \in {"notify", "wake", "handle"}
    BY Zenon, <1>1, <1>4, Threads DEF Requests, Held
  <2>5. Moves(t)
    BY Zenon, <1>3, <2>1, <2>2, <2>3, <2>4 DEF Moves
  <2>6. QED
    BY Zenon, <1>1, <2>5, MovesKeep
<1>6. RestOK'
  BY Zenon, <1>1, WaitTypes DEF WaitStep
<1>7. Roles'
  <2>1. Go(t, pc'[t])
    <3>1. pc' = [pc EXCEPT ![t] = pc'[t]]
      BY Zenon, <1>1, <1>3, <1>6 DEF TypeOK, RestOK
    <3>2. QED
      BY Zenon, <3>1 DEF Go
  <2>2. /\ t \in Clients => pc'[t] \in ClientPlaces
        /\ t \in Workers => pc'[t] \in WorkerPlaces
    BY Zenon, <1>2, <1>4, QueueAssumption DEF ClientPlaces, WorkerPlaces
  <2>3. \A w \in Workers : via'[w] = "other" => count'[w] > 0
    BY Zenon, <1>1, <1>3 DEF Roles
  <2>4. QED
    BY Zenon, <1>1, <2>1, <2>2, <2>3, RolesKept
<1>8. Waits' /\ EventsOK'
  <2>1. EventsOK
    BY Zenon, <1>1 DEF TypeOK
  <2>2. Others(t)
    BY <1>3 DEF Others
  <2>3. CASE AwaitTurn(t)
    <3>1. Elsewhere(t) /\ UNCHANGED <<full, empty>>
      BY Zenon, <1>1, <1>3, <2>2, <2>3 DEF AwaitTurn, Go, TypeOK, RestOK, Elsewhere, Waiting, shared
    <3>2. QED
      BY Zenon, <1>1, <2>1, <3>1, ElsewhereWaits DEF EventsOK
  <2>4. CASE Condition(t) \/ Woken(t) \/ (Wait(t) /\ WaitsOn(t).epoch # key[t])
    <3>1. UNCHANGED <<full, empty, key>>
      BY Zenon, <2>4 DEF Condition, Woken, Wait, shared
    <3>2. Waiting(t) /\ pc'[t] \in {"cancel", "wait", "sub"} /\ (pc'[t] = "wait" => pc[t] = "asleep" \/ ~MyTurn(t))
      BY Zenon, <1>1, <2>4 DEF Condition, Woken, Wait, Go, TypeOK, RestOK, Waiting
    <3>3. Stirs(t)
      BY Zenon, <1>3, <2>2, <3>1, <3>2 DEF Stirs
    <3>4. QED
      BY Zenon, <1>1, <2>1, <3>1, <3>3, StirsWaits DEF EventsOK
  <2>5. CASE (Wait(t) /\ WaitsOn(t).epoch = key[t]) \/ SpuriousWakeup(t)
    BY Zenon, <1>1, <2>5, SleepWaits
  <2>6. CASE PrepareWait(t)
    BY Zenon, <1>1, <2>6, PrepareWaits
  <2>7. CASE SubWaiter(t)
    BY Zenon, <1>1, <2>7, SubWaits
  <2>8. CASE Notify(t)
    BY Zenon, <1>1, <2>8, NotifyWaits
  <2>9. CASE Wake(t)
    BY Zenon, <1>1, <2>9, WakeWaits
  <2>10. QED
    BY Zenon, <2>3, <2>4, <2>5, <2>6, <2>7, <2>8, <2>9 DEF WaitStep
<1>9. QED
  BY Zenon, <1>5, <1>6, <1>7, <1>8 DEF TypeOK, QueueInv

\* Handing the turn on.
LEMMA HandOnStepKeeps ==
    ASSUME QueueInv, NEW t \in Actors, HandOn(t)
    PROVE  QueueInv'
<1>1. Safe /\ TypeOK /\ Roles /\ Waits
  BY Zenon DEF QueueInv, Safe
<1>2. q[t] \in QueueIds /\ SlotOf(t) \in Slots /\ TurnOf(t) + 1 \in Nat
  BY <1>1, Locals
<1>3. RestOK' /\ EventsOK'
  <2>1. turn' \in [QueueIds -> [Slots -> Nat]]
    BY Zenon, <1>1, <1>2 DEF HandOn, TypeOK, RestOK
  <2>2. pc' \in [Actors -> Places]
    BY Zenon, <1>1 DEF HandOn, Go, TypeOK, RestOK, Places
  <2>3. RestOK'
    BY Zenon, <1>1, <2>1, <2>2 DEF HandOn, TypeOK, RestOK, scan
  <2>4. QED
    BY Zenon, <1>1, <2>3 DEF HandOn, TypeOK, EventsOK
<1>4. Roles'
  <2>1. Go(t, "notify") /\ UNCHANGED <<via, count>>
    BY Zenon DEF HandOn, scan
  <2>2. \A w \in Workers : via'[w] = "other" => count'[w] > 0
    BY Zenon, <1>1, <2>1 DEF Roles
  <2>3. "notify" \in ClientPlaces /\ "notify" \in WorkerPlaces
    BY Zenon DEF ClientPlaces, WorkerPlaces
  <2>4. QED
    BY Zenon, <1>1, <2>1, <2>2, <2>3, RolesKept
<1>5. QED
  BY Zenon, <1>1, <1>3, <1>4, HandOnKeeps, HandOnWaits DEF TypeOK, QueueInv

\* What a client does.
LEMMA ClientStepKeeps ==
    ASSUME QueueInv, NEW c \in Clients, Call(c) \/ Construct(c) \/ SemWait(c) \/ Crash(c)
    PROVE  QueueInv'
<1>1. Safe /\ TypeOK /\ Roles /\ Waits
  BY Zenon DEF QueueInv, Safe
<1>2. c \in Actors /\ c \notin Workers
  BY Zenon, QueueAssumption DEF Actors
<1>3. Positions' /\ Turns' /\ Requests'
  <2>1. CASE Crash(c)
    <3>1. Others(c) /\ UNCHANGED <<head, tail, turn, storage, sem, rp, q, ticket>> /\ pc'[c] = "dead"
      BY Zenon, <1>1, <1>2, <2>1 DEF Crash, Go, TypeOK, RestOK, Others
    <3>2. pc[c] # "dead" /\ pc[c] # "release"
      BY Zenon, <1>1, <2>1 DEF Crash, Roles, Waiting
    <3>3. ~Owns(c)' /\ ~InSlot(c)'
      BY Zenon, <3>1 DEF Owns, Waiting, InSlot
    <3>4. Moves(c)
      BY Zenon, <1>2, <3>1, <3>2, <3>3 DEF Moves
    <3>5. QED
      BY Zenon, <1>1, <1>2, <3>4, MovesKeep
  <2>2. QED
    BY Zenon, <1>1, <2>1, CallKeeps, ConstructKeeps, SemWaitKeeps
<1>4. RestOK'
  BY Zenon, <1>1, ClientTypes
<1>5. Roles'
  <2>1. PICK p \in {"turn", "pub", "idle", "dead"} : Go(c, p)
    BY Zenon DEF Call, Construct, SemWait, Crash
  <2>2. \A w \in Workers : via'[w] = "other" => count'[w] > 0
    <3>1. UNCHANGED scan
      BY Zenon DEF Call, Construct, SemWait, Crash
    <3>2. QED
      BY Zenon, <1>1, <3>1 DEF Roles, scan
  <2>3. p \in ClientPlaces
    BY Zenon DEF ClientPlaces
  <2>4. QED
    BY Zenon, <1>1, <1>2, <2>1, <2>2, <2>3, RolesKept
<1>6. Waits' /\ EventsOK'
  <2>1. CASE Crash(c)
    BY Zenon, <1>1, <2>1, CrashWaits
  <2>2. CASE Call(c) \/ Construct(c) \/ SemWait(c)
    <3>1. UNCHANGED <<turn, full, empty>> /\ pc[c] \in {"idle", "put", "sem"} /\ pc'[c] \in {"turn", "pub", "idle"}
      BY Zenon, <1>1, <1>2, <2>2 DEF Call, Construct, SemWait, Go, TypeOK, RestOK, shared
    <3>2. Others(c)
      BY ZenonT(40), <1>1, <2>2 DEF Others, Call, Construct, SemWait, Go, TypeOK, RestOK
    <3>3. Elsewhere(c)
      BY Zenon, <3>1, <3>2 DEF Elsewhere, Waiting
    <3>4. QED
      BY Zenon, <1>1, <1>2, <3>1, <3>3, ElsewhereWaits DEF TypeOK, EventsOK
  <2>3. QED
    BY Zenon, <2>1, <2>2
<1>7. QED
  BY Zenon, <1>3, <1>4, <1>5, <1>6 DEF TypeOK, QueueInv

\* What a worker does.
LEMMA WorkerStepKeeps ==
    ASSUME QueueInv, NEW w \in Workers, WorkerStep(w)
    PROVE  QueueInv'
<1>1. Safe /\ TypeOK /\ Roles /\ Requests /\ Waits
  BY Zenon DEF QueueInv, Safe
<1>2. w \in Actors /\ w \notin Clients
  BY Zenon, QueueAssumption DEF Actors
<1>3. /\ UNCHANGED <<turn, full, empty, key>>
      /\ pc[w] \in {"load", "test", "cas", "reload", "pop", "take", "handle"}
  BY Zenon DEF WorkerStep, TryLoad, TryTest, TryCas, TryReload, Pop, Take, Handle, shared
<1>4. PICK p \in {"load", "test", "cas", "reload", "pop", "turn", "take", "release"} : Go(w, p)
  BY Zenon DEF WorkerStep, TryLoad, TryTest, TryCas, TryReload, Pop, Take, Handle, Enter
<1>5. Others(w)
  <2>1. CASE TryLoad(w) \/ TryTest(w) \/ TryCas(w)
    BY Zenon, <1>1, <2>1 DEF Others, TryLoad, TryTest, TryCas, Go, TypeOK, RestOK
  <2>2. CASE TryReload(w)
    BY ZenonT(40), <1>1, <2>2 DEF Others, TryReload, Enter, Go, TypeOK, RestOK
  <2>3. CASE Pop(w) \/ Take(w) \/ Handle(w)
    BY <1>1, <2>3 DEF Others, Pop, Take, Handle, Enter, Go, TypeOK, RestOK
  <2>4. QED
    BY Zenon, <2>1, <2>2, <2>3 DEF WorkerStep
<1>6. Positions' /\ Turns' /\ Requests'
  <2>1. q[w] \in QueueIds /\ ticket[w] \in Nat /\ tail[q[w]] \in Nat
    BY Zenon, <1>1, <1>2 DEF TypeOK, RestOK
  <2>2. CASE TryLoad(w)
    <3>1. /\ UNCHANGED <<head, tail, turn, storage, sem, rp, q>>
          /\ pc[w] = "load" /\ pc'[w] = "test" /\ ticket'[w] = tail[q[w]]
      BY Zenon, <1>1, <1>2, <2>2 DEF TryLoad, Go, TypeOK, RestOK, shared
    <3>2. ScanMoves(w)
      BY <1>5, <2>1, <3>1 DEF ScanMoves
    <3>3. QED
      BY Zenon, <1>1, <3>2, ScanMovesKeep
  <2>3. CASE TryTest(w)
    <3>1. /\ UNCHANGED <<head, tail, turn, storage, sem, rp, q, ticket>>
          /\ pc[w] = "test" /\ pc'[w] \in {"cas", "reload"} /\ (pc'[w] = "cas" => MyTurn(w))
      BY Zenon, <1>1, <1>2, <2>3 DEF TryTest, Go, TypeOK, RestOK, shared
    <3>2. rp[w] = None
      BY Zenon, <1>1, <3>1 DEF Requests, Held
    <3>3. Moves(w)
      BY Zenon, <1>2, <1>5, <3>1, <3>2 DEF Moves, Owns, Waiting, InSlot, Scans
    <3>4. QED
      BY Zenon, <1>1, <1>2, <3>3, MovesKeep
  <2>4. CASE TryCas(w) /\ tail[q[w]] # ticket[w]
    <3>1. /\ UNCHANGED <<head, tail, turn, storage, sem, rp, q>>
          /\ pc[w] = "cas" /\ pc'[w] = "test" /\ ticket'[w] = tail[q[w]]
      BY Zenon, <1>1, <1>2, <2>4 DEF TryCas, Go, TypeOK, RestOK
    <3>2. ScanMoves(w)
      BY <1>5, <2>1, <3>1 DEF ScanMoves
    <3>3. QED
      BY <1>1, <3>2, ScanMovesKeep
  <2>5. CASE (TryCas(w) /\ tail[q[w]] = ticket[w]) \/ Pop(w)
    <3>1. /\ UNCHANGED <<head, turn, storage, sem, rp, q>>
          /\ pc[w] \in {"cas", "pop"} /\ pc'[w] \in {"turn", "take"} /\ ticket'[w] = tail[q[w]]
          /\ tail' = [tail EXCEPT ![q[w]] = @ + 1]
          /\ pc'[w] = "take" => pc[w] = "cas" /\ ticket[w] = tail[q[w]]
      BY Zenon, <1>1, <1>2, <2>5 DEF TryCas, Pop, Go, TypeOK, RestOK
    <3>2. TakesPosition(w)
      BY Zenon, <1>5, <3>1 DEF TakesPosition
    <3>3. QED
      BY <1>1, <3>2, TakesPositionKeeps
  <2>6. CASE TryReload(w)
    <3>1. /\ UNCHANGED <<head, tail, turn, storage, sem, rp>>
          /\ pc[w] = "reload" /\ pc'[w] \in {"load", "test", "pop"}
          /\ pc'[w] = "test" => ticket'[w] = tail[q[w]] /\ q' = q
      BY Zenon, <1>1, <1>2, <2>6 DEF TryReload, Enter, Go, TypeOK, RestOK, shared
    <3>2. ScanMoves(w)
      BY <1>5, <2>1, <3>1 DEF ScanMoves, Scans
    <3>3. QED
      BY <1>1, <3>2, ScanMovesKeep
  <2>7. QED
    BY Zenon, <1>1, <2>2, <2>3, <2>4, <2>5, <2>6, TakeKeeps, HandleKeeps DEF WorkerStep
<1>7. RestOK' /\ EventsOK'
  BY Zenon, <1>1, <1>3, WorkerTypes DEF TypeOK, EventsOK
<1>8. Roles'
  <2>1. \A v \in Workers : via'[v] = "other" => count'[v] > 0
    <3>1. CASE UNCHANGED <<via, count>>
      BY Zenon, <1>1, <3>1 DEF Roles
    <3>2. CASE TryReload(w) /\ ~UNCHANGED <<via, count>>
      <4>1. /\ \A v \in Workers : v # w => via'[v] = via[v] /\ count'[v] = count[v]
            /\ via'[w] = "other" => count'[w] > 0
        BY <1>1, <3>2, QueueAssumption DEF TryReload, Enter, TypeOK, RestOK, scan
      <4>2. QED
        BY Zenon, <1>1, <4>1 DEF Roles
    <3>3. CASE Handle(w)
      <4>1. /\ \A v \in Workers : v # w => via'[v] = via[v] /\ count'[v] = count[v]
            /\ via'[w] # "other"
        BY Zenon, <1>1, <3>3 DEF Handle, Enter, TypeOK, RestOK
      <4>2. QED
        BY Zenon, <1>1, <4>1 DEF Roles
    <3>4. QED
      BY Zenon, <3>1, <3>2, <3>3 DEF WorkerStep, TryLoad, TryTest, TryCas, Pop, Take, scan
  <2>2. p \in WorkerPlaces
    BY Zenon DEF WorkerPlaces
  <2>3. QED
    BY Zenon, <1>1, <1>2, <1>4, <2>1, <2>2, RolesKept
<1>9. Waits'
  <2>1. pc'[w] = p
    BY Zenon, <1>1, <1>2, <1>4 DEF Go, TypeOK, RestOK
  <2>2. Elsewhere(w)
    BY Zenon, <1>3, <1>5, <2>1 DEF Elsewhere, Waiting
  <2>3. QED
    BY Zenon, <1>1, <1>2, <2>2, ElsewhereWaits
<1>10. QED
  BY Zenon, <1>6, <1>7, <1>8, <1>9 DEF TypeOK, QueueInv

----------------------------------------------------------------------------
(* Theorems *)

\* Nobody waits and nothing is in a slot when the queues are set up.
LEMMA InitInv == Init => QueueInv
<1> SUFFICES ASSUME Init PROVE QueueInv
  BY Zenon
<1>1. \A t \in Actors : pc[t] = IF t \in Clients THEN "idle" ELSE "load"
  BY Zenon DEF Init
<1>2. TypeOK
  <2>1. 1 \in QueueIds /\ 0 \in 0..NumQueues /\ 0 \in 0..MaxCalls
    BY QueueAssumption DEF QueueIds
  <2>2. pc \in [Actors -> Places] /\ q \in [Actors -> QueueIds] /\ ticket \in [Actors -> Nat] /\ key \in [Actors -> Nat]
    BY Zenon, <2>1, QueueAssumption DEF Init, Actors, Places
  <2>3. full \in [QueueIds -> [Slots -> EventCount]] /\ empty \in [QueueIds -> [Slots -> EventCount]]
    BY Zenon DEF Init, EventCount
  <2>4. QED
    BY <2>1, <2>2, <2>3 DEF Init, TypeOK, EventsOK, RestOK
<1>3. Roles
  BY Zenon, <1>1, QueueAssumption DEF Init, Roles, Actors
<1>4. /\ \A t \in Actors : ~Owns(t) /\ ~InSlot(t) /\ ~Waiting(t) /\ ~Scans(t)
      /\ \A t \in Actors : pc[t] \notin {"cas", "pub", "wait", "asleep", "dead"}
  BY Zenon, <1>1 DEF Owns, InSlot, Waiting, Scans
<1>5. Positions /\ Turns
  <2>1. Positions
    BY Zenon, <1>4, Threads DEF Positions, OwnedBelow, OwnedApart, ScansBelow
  <2>2. \A i \in QueueIds, s \in Slots : turn[i][s] = 0
    BY Zenon DEF Init
  <2>3. Turns
    BY Zenon, <1>4, <2>2, Threads DEF Turns, InTurn, CasInTurn, Stored, Filled
  <2>4. QED
    BY Zenon, <2>1, <2>3
<1>6. Requests
  <2>1. \A w \in Workers : rp[w] = None
    BY Zenon DEF Init
  <2>2. \A c \in Clients : ~(sem[c] > 0) /\ c # None
    <3>1. \A c \in Clients : sem[c] = 0 /\ c # None
      BY Zenon, Threads DEF Init
    <3>2. ~(0 > 0)
      OBVIOUS
    <3>3. QED
      BY Zenon, <3>1, <3>2
  <2>3. \A i \in QueueIds, s \in Slots : storage[i][s] = None
    BY Zenon DEF Init
  <2>4. QED
    BY Zenon, <2>1, <2>2, <2>3 DEF Requests, Held, Posted, InHand, InStorage
<1>7. Waits
  <2>1. Counted
    <3> SUFFICES ASSUME NEW k \in {"producer", "consumer"}, NEW i \in QueueIds, NEW s \in Slots
                 PROVE  AtMost(WaitersAt(k, i, s), Event(k, i, s).waiters)
      BY Zenon DEF Counted
    <3>1. WaitersAt(k, i, s) = {}
      BY Zenon, <1>4 DEF WaitersAt
    <3>2. Event(k, i, s).waiters = 0
      BY Zenon DEF Init, Event
    <3>3. AtMost({}, 0)
      <4>1. [a \in {} |-> 1] \in [{} -> 1..0]
        BY Zenon
      <4>2. QED
        BY Zenon, <4>1 DEF AtMost
    <3>4. QED
      BY Zenon, <3>1, <3>2, <3>3
  <2>2. Keys
    BY Zenon, <1>4 DEF Keys
  <2>3. \A t \in Actors : Alerted(t)
    BY Zenon, <1>4 DEF Alerted
  <2>4. QED
    BY Zenon, <2>1, <2>2, <2>3 DEF Waits
<1>8. QED
  BY Zenon, <1>2, <1>3, <1>5, <1>6, <1>7 DEF QueueInv

\* Every step keeps the invariant.
LEMMA NextInv == QueueInv /\ [Next]_vars => QueueInv'
<1> SUFFICES ASSUME QueueInv, [Next]_vars PROVE QueueInv'
  BY Zenon
<1>1. CASE UNCHANGED vars
  <2>1. TypeOK'
    BY Zenon, <1>1 DEF vars, shared, scan, QueueInv, TypeOK, EventsOK, RestOK
  <2>2. Roles'
    BY Zenon, <1>1 DEF vars, scan, QueueInv, Roles, Waiting
  <2>3. Positions'
    BY ZenonT(30), <1>1 DEF vars, shared, QueueInv, Positions, OwnedBelow, OwnedApart, ScansBelow, Owns, Waiting,
                Side, Scans
  <2>4. Turns'
    BY Zenon, <1>1 DEF vars, shared, QueueInv, Turns, InTurn, CasInTurn, Stored, Filled, InSlot, MyTurn, SlotOf,
                TurnOf
  <2>5. Requests'
    <3>1. /\ turn' = turn /\ storage' = storage /\ sem' = sem /\ pc' = pc /\ q' = q
          /\ ticket' = ticket /\ rp' = rp /\ Requests
      BY Zenon, <1>1 DEF vars, shared, QueueInv
    <3>2. \A c \in Clients : /\ SlotOf(c)' = SlotOf(c) /\ TurnOf(c)' = TurnOf(c)
                            /\ Published(c)' <=> Published(c)
      BY Zenon, <3>1 DEF SlotOf, TurnOf, Published
    <3>3. Held' /\ Posted'
      BY Zenon, <3>1, <3>2 DEF Requests, Held, Posted
    <3>4. InHand'
      BY Zenon, <3>1, <3>2 DEF Requests, InHand
    <3>5. InStorage'
      BY <3>1, <3>2 DEF Requests, InStorage, Odd
    <3>6. QED
      BY Zenon, <3>3, <3>4, <3>5 DEF Requests
  <2>6. Waits'
    <3>1. /\ turn' = turn /\ full' = full /\ empty' = empty /\ pc' = pc /\ q' = q
          /\ ticket' = ticket /\ key' = key /\ Waits
      BY Zenon, <1>1 DEF vars, shared, QueueInv
    <3>2. \A t \in Actors : /\ SlotOf(t)' = SlotOf(t) /\ WaitsOn(t)' = WaitsOn(t)
                            /\ MyTurn(t)' <=> MyTurn(t)
                            /\ Waiting(t)' <=> Waiting(t)
      BY Zenon, <3>1 DEF SlotOf, TurnOf, MyTurn, WaitsOn, Waiting
    <3>3. Counted'
      <4>1. \A k, i, s : /\ Event(k, i, s)' = Event(k, i, s)
                         /\ WaitersAt(k, i, s)' = WaitersAt(k, i, s)
        BY <3>1 DEF WaitersAt, Event, Waiting, SlotOf, Side
      <4>2. QED
        BY Zenon, <3>1, <4>1 DEF Waits, Counted
    <3>4. Keys'
      BY Zenon, <3>1, <3>2 DEF Waits, Keys
    <3>5. \A t, u \in Actors, p \in {"notify", "wake"} : Notifier(u, t, p) => Notifier(u, t, p)'
      BY Zenon, <3>1, <3>2 DEF Notifier, Side
    <3>6. \A t \in Actors : Alerted(t) => Alerted(t)'
      BY Zenon, <3>1, <3>2, <3>5 DEF Alerted
    <3>7. QED
      BY Zenon, <3>1, <3>3, <3>4, <3>6 DEF Waits, NobodyDead
  <2>7. QED
    BY Zenon, <2>1, <2>2, <2>3, <2>4, <2>5, <2>6 DEF QueueInv
<1>2. CASE \E c \in Clients : Call(c) \/ Crash(c)
  BY Zenon, <1>2, ClientStepKeeps
<1>3. ASSUME NEW t \in Actors, Step(t) \/ SpuriousWakeup(t) PROVE QueueInv'
  BY Zenon, <1>3, WaitStepKeeps, HandOnStepKeeps, ClientStepKeeps, WorkerStepKeeps DEF Step, PassStep, ClientStep
<1>4. QED
  BY Zenon, <1>1, <1>2, <1>3 DEF Next

\* The invariant that the other theorems follow from holds: positions are owned
\* alone, slots are entered in turn, requests wait for their answer and waiters
\* are counted (mpmc.h, eventcount.h, executeRequest and queue_worker).
THEOREM QueueInvariant == Spec => []QueueInv
BY InitInv, NextInv, PTL DEF Spec

\* At a slot of the queue there is one thread at a time, and a consumer finds a
\* request in it, whatever the order in which positions were taken.
THEOREM SlotsExclusive == Spec => []SlotExclusive
<1>1. QueueInv => SlotExclusive
  <2> SUFFICES ASSUME QueueInv, NEW t \in Actors, InSlot(t)
               PROVE  /\ \A u \in Actors \ {t} : InSlot(u) => q[u] # q[t] \/ SlotOf(u) # SlotOf(t)
                      /\ pc[t] = "take" => storage[q[t]][SlotOf(t)] # None
    BY Zenon DEF SlotExclusive
  <2>1. TypeOK /\ Roles /\ Positions /\ Turns
    BY Zenon DEF QueueInv
  <2>2. \A u \in Actors \ {t} : InSlot(u) => q[u] # q[t] \/ SlotOf(u) # SlotOf(t)
    BY Zenon, <2>1, Alone
  <2>3. ASSUME pc[t] = "take" PROVE storage[q[t]][SlotOf(t)] # None
    <3>1. t \notin Clients
      BY Zenon, <2>1, <2>3 DEF Roles, Waiting
    <3>2. turn[q[t]][SlotOf(t)] # 0 /\ q[t] \in QueueIds /\ SlotOf(t) \in Slots
      BY <2>1, <3>1, Locals DEF Turns, InTurn, MyTurn, TurnOf
    <3>3. QED
      BY Zenon, <2>1, <3>2 DEF Turns, Filled
  <2>4. QED
    BY Zenon, <2>2, <2>3
<1>2. QED
  BY <1>1, QueueInvariant, PTL

\* A request of a live client is with one worker at most, the one that took the
\* client's position, and is answered once, while the client waits for it.
THEOREM RequestsHandledOnce == Spec => []HandledOnce
<1>1. QueueInv => HandledOnce
  <2> SUFFICES ASSUME QueueInv, NEW c \in Clients, pc[c] # "dead"
               PROVE  LET holders == {w \in Workers : rp[w] = c} IN
                      /\ \A v, w \in holders : v = w
                      /\ sem[c] <= IF holders = {} THEN 1 ELSE 0
                      /\ holders # {} \/ sem[c] > 0 => pc[c] \in {"notify", "wake", "sem"}
                      /\ \A w \in holders : q[w] = q[c] /\ ticket[w] = ticket[c]
    BY Zenon DEF HandledOnce
  <2> DEFINE holders == {w \in Workers : rp[w] = c}
  <2>1. TypeOK /\ Positions /\ Requests
    BY Zenon DEF QueueInv
  <2>2. \A w \in holders : Published(c) /\ sem[c] = 0 /\ q[w] = q[c] /\ ticket[w] = ticket[c] /\ Owns(w)
    BY <2>1, Threads DEF Requests, Held, InHand, Owns
  <2>3. \A v, w \in holders : v = w
    BY Zenon, <2>1, <2>2, Threads DEF Positions, OwnedApart, Side
  <2>4. sem[c] <= IF holders = {} THEN 1 ELSE 0
    <3>1. sem[c] \in 0..1
      BY Zenon, <2>1 DEF TypeOK, RestOK
    <3> HIDE DEF holders
    <3>2. QED
      BY <2>2, <3>1
  <2>5. holders # {} \/ sem[c] > 0 => pc[c] \in {"notify", "wake", "sem"}
    BY Zenon, <2>1, <2>2 DEF Requests, Posted, Published
  <2>6. QED
    BY Zenon, <2>2, <2>3, <2>4, <2>5
<1>2. QED
  BY <1>1, QueueInvariant, PTL

\* Unless a client was killed nobody sleeps through its turn: the thread that
\* handed the turn on is still to notify or to wake the sleeper.
THEOREM NoWakeupLost == Spec => []NoLostWakeup
<1>1. QueueInv => NoLostWakeup
  <2> SUFFICES ASSUME QueueInv, NobodyDead, NEW t \in Actors, pc[t] = "asleep", MyTurn(t), t \in WaitsOn(t).asleep
               PROVE  \E u \in Actors : /\ pc[u] \in {"notify", "wake"} /\ (u \in Clients) # (t \in Clients)
                                        /\ q[u] = q[t] /\ SlotOf(u) = SlotOf(t)
    BY Zenon DEF NoLostWakeup, NobodyDead
  <2>1. TypeOK /\ Keys /\ Alerted(t)
    BY Zenon DEF Waits, QueueInv
  <2>2. key[t] <= WaitsOn(t).epoch /\ key[t] \in Nat /\ WaitsOn(t).epoch \in Nat
    BY Zenon, <2>1, EventTypes DEF Keys, Waiting, TypeOK, RestOK, EventCount
  <2>3. PICK u \in Actors, p \in {"notify", "wake"} : Notifier(u, t, p)
    BY <2>1, <2>2 DEF Alerted
  <2>4. (u \in Clients) # (t \in Clients)
    BY <2>3, Zenon DEF Notifier, Side
  <2>5. QED
    BY Zenon, <2>3, <2>4 DEF Notifier
<1>2. QED
  BY <1>1, QueueInvariant, PTL

\* What a step may do to a slot: its turn stays or goes up by one, and a request
\* is stored only in the turn of a producer, when the one before was taken.
SlotStep ==
    \A i \in QueueIds, s \in Slots :
        /\ turn'[i][s] \in {turn[i][s], turn[i][s] + 1}
        /\ storage'[i][s] # storage[i][s] => ~Odd(turn[i][s])

\* Slots are passed between producers and consumers turn by turn, and no request
\* is overwritten before it was taken (emplace, pop and try_pop of mpmc.h).
THEOREM SlotsInOrder == Spec => [][SlotStep]_vars
<1>1. QueueInv /\ [Next]_vars => [SlotStep]_vars
  <2> SUFFICES ASSUME QueueInv, Next PROVE SlotStep
    BY Zenon DEF vars
  <2>1. TypeOK /\ Turns /\ Roles
    BY Zenon DEF QueueInv
  <2>2. CASE UNCHANGED <<turn, storage>>
    BY Zenon, <2>1, <2>2 DEF SlotStep, TypeOK, RestOK
  <2>3. ASSUME NEW t \in Actors, HandOn(t) PROVE SlotStep
    <3>1. turn[q[t]][SlotOf(t)] = TurnOf(t) /\ q[t] \in QueueIds /\ SlotOf(t) \in Slots
      BY Zenon, <2>1, <2>3, Locals DEF HandOn, Turns, InTurn, InSlot, MyTurn
    <3>2. QED
      BY Zenon, <2>1, <2>3, <3>1 DEF HandOn, SlotStep, TypeOK, RestOK
  <2>4. ASSUME NEW c \in Clients, Construct(c) PROVE SlotStep
    <3>1. c \in Actors
      BY Zenon DEF Actors
    <3>2. ~Odd(turn[q[c]][SlotOf(c)]) /\ q[c] \in QueueIds /\ SlotOf(c) \in Slots
      <4>1. turn[q[c]][SlotOf(c)] = TurnOf(c)
        BY Zenon, <2>1, <2>4, <3>1 DEF Construct, Turns, InTurn, InSlot, MyTurn
      <4>2. q[c] \in QueueIds /\ SlotOf(c) \in Slots /\ Lap(ticket[c]) \in Nat
        BY Zenon, <2>1, <3>1, Locals
      <4>3. ~Odd(TurnOf(c))
        BY <4>2, Parity DEF TurnOf
      <4>4. QED
        BY Zenon, <4>1, <4>2, <4>3
    <3>3. QED
      BY Zenon, <2>1, <2>4, <3>2 DEF Construct, SlotStep, TypeOK, RestOK
  <2>5. \/ UNCHANGED <<turn, storage>>
        \/ \E t \in Actors : HandOn(t)
        \/ \E c \in Clients : Construct(c)
    <3>1. ASSUME NEW c \in Clients, Call(c) \/ Crash(c) \/ SemWait(c)
          PROVE  UNCHANGED <<turn, storage>>
      BY Zenon, <3>1 DEF Call, Crash, SemWait, shared
    <3>2. ASSUME NEW t \in Actors, WaitStep(t) \/ SpuriousWakeup(t) \/ Notify(t) \/ Wake(t)
          PROVE  UNCHANGED <<turn, storage>>
      BY Zenon, <3>2 DEF WaitStep, AwaitTurn, PrepareWait, Condition, Wait, Woken, SubWaiter,
                         SpuriousWakeup, Notify, Wake, shared
    <3>3. ASSUME NEW w \in Workers, WorkerStep(w)
          PROVE  UNCHANGED <<turn, storage>>
      BY Zenon, <3>3 DEF WorkerStep, TryLoad, TryTest, TryCas, TryReload, Pop, Take, Handle, shared
    <3>4. QED
      BY Zenon, <3>1, <3>2, <3>3 DEF Next, Step, PassStep, ClientStep
  <2>6. QED
    BY Zenon, <2>2, <2>3, <2>4, <2>5
<1>2. QED
  BY <1>1, QueueInvariant, PTL DEF Spec
=============================================================================
