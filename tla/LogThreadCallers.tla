-------------------------- MODULE LogThreadCallers --------------------------
(***************************************************************************)
(* The steps of the threads that send requests to the log thread keep the   *)
(* inductive invariant of LogThread.  The steps of the log thread are in    *)
(* LogThreadHandlers and LogThreadProofs.                                   *)
(***************************************************************************)
EXTENDS LogThread, TLAPS

(***************************************************************************)
(* Queues as sequences without repetition.                                 *)
(***************************************************************************)

\* The empty queue.
LEMMA NoQueue ==
    ASSUME NEW S
    PROVE  /\ <<>> \in Seq(S) /\ Len(<<>>) = 0
           /\ \A s \in Seq(S) : s # <<>> => Len(s) \in Nat \ {0}
OBVIOUS

\* The places of a queue.
LEMMA QueueLen ==
    ASSUME NEW S, NEW s \in Seq(S)
    PROVE  Len(s) \in Nat /\ DOMAIN s = 1..Len(s)
OBVIOUS

\* Append adds a place at the end.
LEMMA QueueAppend ==
    ASSUME NEW S, NEW s \in Seq(S), NEW e \in S
    PROVE  /\ Append(s, e) \in Seq(S) /\ Len(Append(s, e)) = Len(s) + 1
           /\ \A i \in 1..Len(s) : Append(s, e)[i] = s[i]
           /\ Append(s, e)[Len(s) + 1] = e
OBVIOUS

\* Tail drops the first place.
LEMMA QueueTail ==
    ASSUME NEW S, NEW s \in Seq(S), s # <<>>
    PROVE  /\ Head(s) \in S /\ Tail(s) \in Seq(S) /\ Len(Tail(s)) = Len(s) - 1
           /\ \A i \in 1..Len(Tail(s)) : Tail(s)[i] = s[i + 1]
OBVIOUS

\* Concatenation puts the second queue behind the first.
LEMMA QueueConcat ==
    ASSUME NEW S, NEW s \in Seq(S), NEW r \in Seq(S)
    PROVE  /\ s \o r \in Seq(S) /\ Len(s \o r) = Len(s) + Len(r)
           /\ \A i \in 1..Len(s) + Len(r) : (s \o r)[i] = IF i <= Len(s) THEN s[i] ELSE r[i - Len(s)]
OBVIOUS

\* Concatenation with the empty queue changes nothing.
LEMMA ConcatNone ==
    ASSUME NEW S, NEW s \in Seq(S)
    PROVE  s \o <<>> = s /\ <<>> \o s = s
OBVIOUS

\* Membership in a queue, by position.
LEMMA InRange ==
    ASSUME NEW S, NEW s \in Seq(S), NEW e
    PROVE  e \in Range(s) <=> \E k \in 1..Len(s) : s[k] = e
BY Zenon, QueueLen DEF Range

\* The empty queue has no members, and only the empty one.
LEMMA EmptyQueue ==
    ASSUME NEW S, NEW s \in Seq(S)
    PROVE  /\ Range(<<>>) = {} /\ IsInjective(<<>>) /\ <<>> \in Seq(S)
           /\ Range(s) = {} => s = <<>>
<1>1. Range(<<>>) = {} /\ IsInjective(<<>>) BY NoQueue DEF Range, IsInjective
<1>2. <<>> \in Seq(S) BY Zenon, NoQueue
<1>3. ASSUME s # <<>> PROVE Range(s) # {}
  <2>1. Len(s) \in Nat \ {0} BY Zenon, <1>3, NoQueue
  <2>2. s[1] \in Range(s) BY <2>1, InRange
  <2> QED BY Zenon, <2>2
<1> QED BY Zenon, <1>1, <1>2, <1>3

\* A queue with one more member at its end.
LEMMA AppendQueue ==
    ASSUME NEW S, NEW s \in Seq(S), NEW e \in S
    PROVE  /\ Append(s, e) \in Seq(S)
           /\ Range(Append(s, e)) = Range(s) \cup {e}
           /\ IsInjective(s) /\ e \notin Range(s) => IsInjective(Append(s, e))
<1> DEFINE r == Append(s, e)
<1>1. /\ r \in Seq(S) /\ Len(r) = Len(s) + 1 /\ Len(s) \in Nat
      /\ \A i \in 1..Len(s) : r[i] = s[i]
      /\ r[Len(s) + 1] = e
  BY QueueAppend, QueueLen
<1>2. DOMAIN s = 1..Len(s) /\ DOMAIN r = 1..Len(s) + 1 BY Zenon, <1>1, QueueLen
<1> HIDE DEF r
<1>3. Range(r) = Range(s) \cup {e} BY <1>1, <1>2 DEF Range
<1>4. ASSUME IsInjective(s), e \notin Range(s) PROVE IsInjective(r)
  <2> SUFFICES ASSUME NEW a \in 1..Len(s) + 1, NEW b \in 1..Len(s) + 1, r[a] = r[b] PROVE a = b
    BY Zenon, <1>2 DEF IsInjective
  <2>1. \A i \in 1..Len(s) : s[i] # e BY Zenon, <1>2, <1>4 DEF Range
  <2> QED BY <1>1, <1>2, <1>4, <2>1 DEF IsInjective
<1> QED BY Zenon, <1>1, <1>3, <1>4 DEF r

\* Two queues with no member in common, one behind the other.
LEMMA ConcatQueues ==
    ASSUME NEW S, NEW s \in Seq(S), NEW r \in Seq(S)
    PROVE  /\ s \o r \in Seq(S)
           /\ Range(s \o r) = Range(s) \cup Range(r)
           /\ IsInjective(s) /\ IsInjective(r) /\ Range(s) \cap Range(r) = {} =>
                IsInjective(s \o r)
<1> DEFINE c == s \o r
<1>1. /\ c \in Seq(S) /\ Len(c) = Len(s) + Len(r) /\ Len(s) \in Nat /\ Len(r) \in Nat
      /\ \A i \in 1..Len(s) + Len(r) : c[i] = IF i <= Len(s) THEN s[i] ELSE r[i - Len(s)]
  BY Zenon, QueueConcat, QueueLen
<1>2. DOMAIN s = 1..Len(s) /\ DOMAIN r = 1..Len(r) /\ DOMAIN c = 1..Len(s) + Len(r)
  BY Zenon, <1>1, QueueLen
<1> HIDE DEF c
<1>3. Range(c) = Range(s) \cup Range(r)
  <2>1. ASSUME NEW k \in 1..Len(c) PROVE c[k] \in Range(s) \cup Range(r)
    <3>1. CASE k <= Len(s) BY <1>1, <1>2, <3>1 DEF Range
    <3>2. CASE k > Len(s)
      <4>1. k - Len(s) \in 1..Len(r) /\ c[k] = r[k - Len(s)] BY <1>1, <3>2
      <4> QED BY Zenon, <1>2, <4>1 DEF Range
    <3> QED BY <1>1, <3>1, <3>2
  <2>2. ASSUME NEW k \in 1..Len(s) PROVE s[k] \in Range(c)
    <3>1. k \in 1..Len(s) + Len(r) /\ k <= Len(s) BY <1>1
    <3>2. c[k] = s[k] BY Zenon, <1>1, <3>1
    <3> QED BY Zenon, <1>2, <3>1, <3>2 DEF Range
  <2>3. ASSUME NEW k \in 1..Len(r) PROVE r[k] \in Range(c)
    <3>1. PICK j \in 1..Len(s) + Len(r) : ~(j <= Len(s)) /\ j - Len(s) = k
      <4>1. k + Len(s) \in 1..Len(s) + Len(r) /\ ~(k + Len(s) <= Len(s)) /\ (k + Len(s)) - Len(s) = k
        BY <1>1
      <4> QED BY Zenon, <4>1
    <3>2. c[j] = r[k] BY Zenon, <1>1, <3>1
    <3> QED BY Zenon, <1>2, <3>1, <3>2 DEF Range
  <2> QED BY ZenonT(40), <1>1, <1>2, <2>1, <2>2, <2>3 DEF Range
<1>4. ASSUME IsInjective(s), IsInjective(r), Range(s) \cap Range(r) = {} PROVE IsInjective(c)
  <2> SUFFICES ASSUME NEW a \in 1..Len(s) + Len(r), NEW b \in 1..Len(s) + Len(r), c[a] = c[b]
               PROVE  a = b
    BY Zenon, <1>2 DEF IsInjective
  <2>1. \A i \in 1..Len(s), j \in 1..Len(r) : s[i] # r[j] BY Zenon, <1>2, <1>4 DEF Range
  <2>2. \A i, j \in 1..Len(s) : s[i] = s[j] => i = j BY Zenon, <1>2, <1>4 DEF IsInjective
  <2>3. \A i, j \in 1..Len(r) : r[i] = r[j] => i = j BY Zenon, <1>2, <1>4 DEF IsInjective
  <2>4. CASE a <= Len(s) /\ b <= Len(s)
    <3>1. s[a] = s[b] /\ a \in 1..Len(s) /\ b \in 1..Len(s) BY <1>1, <2>4
    <3> QED BY Zenon, <2>2, <3>1
  <2>5. CASE a > Len(s) /\ b > Len(s)
    <3>1. r[a - Len(s)] = r[b - Len(s)] /\ a - Len(s) \in 1..Len(r) /\ b - Len(s) \in 1..Len(r)
      BY <1>1, <2>5
    <3> QED BY SMTT(30), <1>1, <2>3, <3>1
  <2>6. CASE a <= Len(s) /\ b > Len(s)
    <3>1. s[a] = r[b - Len(s)] /\ a \in 1..Len(s) /\ b - Len(s) \in 1..Len(r) BY <1>1, <2>6
    <3> QED BY Zenon, <2>1, <3>1
  <2>7. CASE a > Len(s) /\ b <= Len(s)
    <3>1. s[b] = r[a - Len(s)] /\ b \in 1..Len(s) /\ a - Len(s) \in 1..Len(r) BY <1>1, <2>7
    <3> QED BY Zenon, <2>1, <3>1
  <2> QED BY <1>1, <2>4, <2>5, <2>6, <2>7
<1> QED BY Zenon, <1>1, <1>3, <1>4 DEF c

\* A queue that was not empty without its first member.
LEMMA TailQueue ==
    ASSUME NEW S, NEW s \in Seq(S), s # <<>>
    PROVE  /\ Head(s) \in Range(s) /\ Head(s) \in S
           /\ Tail(s) \in Seq(S) /\ Range(Tail(s)) \subseteq Range(s)
           /\ IsInjective(s) => IsInjective(Tail(s)) /\ Head(s) \notin Range(Tail(s))
           /\ Len(Tail(s)) = Len(s) - 1
<1> DEFINE r == Tail(s)
<1>1. /\ r \in Seq(S) /\ Len(r) = Len(s) - 1 /\ Len(s) \in Nat \ {0}
      /\ \A i \in 1..Len(r) : r[i] = s[i + 1]
      /\ Head(s) = s[1] /\ Head(s) \in S
  BY QueueTail, NoQueue, QueueLen
<1>2. DOMAIN s = 1..Len(s) /\ DOMAIN r = 1..Len(s) - 1 BY Zenon, <1>1, QueueLen
<1> HIDE DEF r
<1>3. Head(s) \in Range(s) /\ Range(r) \subseteq Range(s) BY SMTT(30), <1>1, <1>2 DEF Range
<1>4. ASSUME IsInjective(s) PROVE IsInjective(r) /\ Head(s) \notin Range(r)
  <2>1. \A i, j \in 1..Len(s) : s[i] = s[j] => i = j BY Zenon, <1>2, <1>4 DEF IsInjective
  <2>2. IsInjective(r) BY <1>1, <1>2, <2>1 DEF IsInjective
  <2>3. \A i \in 1..Len(s) - 1 : r[i] # s[1] BY <1>1, <2>1
  <2> QED BY Zenon, <1>1, <1>2, <2>2, <2>3 DEF Range
<1> QED BY Zenon, <1>1, <1>3, <1>4 DEF r

\* A queue in which only one can be has one member if it is not empty.
LEMMA SingleQueue ==
    ASSUME NEW S, NEW s \in Seq(S), IsInjective(s), NEW e, Range(s) \subseteq {e}, s # <<>>
    PROVE  Len(s) = 1 /\ Range(s) = {e}
<1>1. Len(s) \in Nat \ {0} /\ DOMAIN s = 1..Len(s) BY Zenon, NoQueue, QueueLen
<1>2. \A i \in 1..Len(s) : s[i] = e BY Zenon, <1>1 DEF Range
<1>3. \A i, j \in 1..Len(s) : i = j BY Zenon, <1>1, <1>2 DEF IsInjective
<1>4. Len(s) = 1 BY <1>1, <1>3
<1> QED BY <1>1, <1>2, <1>4 DEF Range

(***************************************************************************)
(* The order of the handlers.                                              *)
(***************************************************************************)

\* The request types and their places in log_req_handlers.
LEMMA Handlers ==
    /\ Types = {"LOAD", "REPLAYDONE", "TRIM", "POLL", "RESET", "WRITE", "FLUSH",
                "SUSPEND", "RESUME", "STOP"}
    /\ Len(Order) = 10
    /\ Index("LOAD") = 1 /\ Index("REPLAYDONE") = 2 /\ Index("TRIM") = 3 /\ Index("POLL") = 4
    /\ Index("RESET") = 5 /\ Index("WRITE") = 6 /\ Index("FLUSH") = 7
    /\ Index("SUSPEND") = 8 /\ Index("RESUME") = 9 /\ Index("STOP") = 10
<1>1. Len(Order) = 10 /\ DOMAIN Order = 1..10 BY DEF Order
<1>2. /\ Order[1] = "LOAD" /\ Order[2] = "REPLAYDONE" /\ Order[3] = "TRIM" /\ Order[4] = "POLL"
      /\ Order[5] = "RESET" /\ Order[6] = "WRITE" /\ Order[7] = "FLUSH"
      /\ Order[8] = "SUSPEND" /\ Order[9] = "RESUME" /\ Order[10] = "STOP"
  BY Zenon DEF Order
<1>3. 1..10 = {1, 2, 3, 4, 5, 6, 7, 8, 9, 10} OBVIOUS
<1> HIDE DEF Order
<1>4. Types = {Order[1], Order[2], Order[3], Order[4], Order[5], Order[6], Order[7], Order[8],
               Order[9], Order[10]}
  BY <1>1, <1>3 DEF Types, Range
<1>5. \A k \in 1..10 : \A j \in 1..10 : Order[j] = Order[k] => j = k BY <1>2, <1>3
<1>6. \A k \in 1..10 : Index(Order[k]) = k BY Zenon, <1>1, <1>5 DEF Index
<1> QED BY <1>1, <1>2, <1>4, <1>6

(***************************************************************************)
(* Steps that share a reason.                                              *)
(***************************************************************************)

\* The queues of threads and of the log thread are sequences.
LEMMA QueueTypes ==
    ASSUME TypeOK
    PROVE  /\ \A x \in Types : reqhead[x] \in Seq(Threads)
           /\ \A q \in Queues : work[q] \in Seq(Threads \cup {"log"})
           /\ Types \subseteq Queues /\ "REPLAY_WAIT" \in Queues
BY Zenon DEF TypeOK, Queues

\* Threads that do not wait may move.
LEMMA QueuesKept ==
    ASSUME QueuesOK, UNCHANGED <<reqhead, work>>,
           \A t \in Threads : thr[t].pc = "wait" => thr'[t] = thr[t]
    PROVE  QueuesOK'
BY SMTT(30) DEF QueuesOK, Waits

\* pfs_log_request_impl queues a thread that is in no queue.
LEMMA Sent ==
    ASSUME TypeOK, QueuesOK, NEW t \in Threads, NEW x \in Types \ {"TRIM"},
           thr[t].pc # "wait", Send(t, x), work' = work
    PROVE  QueuesOK'
<1>1. reqhead[x] \in Seq(Threads) BY Zenon, QueueTypes
<1>2. /\ \A y \in Types : t \notin Range(reqhead[y])
      /\ \A y \in Types \ {"TRIM"} : t \notin Range(work[y])
      /\ t \notin Range(work["REPLAY_WAIT"])
  BY ZenonT(40) DEF QueuesOK, Waits
<1>3. /\ reqhead'[x] = Append(reqhead[x], t)
      /\ \A y \in Types : y # x => reqhead'[y] = reqhead[y]
  BY Zenon DEF Send, TypeOK
<1>4. /\ Range(reqhead'[x]) = Range(reqhead[x]) \cup {t}
      /\ IsInjective(reqhead[x]) => IsInjective(reqhead'[x])
  BY <1>1, <1>2, <1>3, AppendQueue
<1>5. /\ \A u \in Threads : u # t => thr'[u] = thr[u]
      /\ thr'[t].pc = "wait" /\ thr'[t].req = x
  BY Zenon DEF Send, Become, TypeOK
<1>6. \A u, y : Waits(u, y) /\ u # t => Waits(u, y)' BY Zenon, <1>5 DEF Waits
<1>7. Waits(t, x)' BY Zenon, <1>5 DEF Waits
<1>8. ASSUME NEW y \in Types
      PROVE  /\ \A u \in Range(reqhead'[y]) : Waits(u, y)'
             /\ IsInjective(reqhead'[y])
             /\ Range(reqhead'[y]) \cap Range(work[y]) = {}
  <2>1. CASE y = x BY Zenon, <1>2, <1>4, <1>6, <1>7, <2>1 DEF QueuesOK
  <2>2. CASE y # x BY Zenon, <1>2, <1>3, <1>6, <2>2 DEF QueuesOK
  <2> QED BY Zenon, <2>1, <2>2
<1>9. \A y \in Types \ {"TRIM"} : \A u \in Range(work[y]) : Waits(u, y)'
  BY Zenon, <1>2, <1>6 DEF QueuesOK
<1>10. \A u \in Range(work["REPLAY_WAIT"]) : /\ Waits(u, "POLL")'
                                             /\ u \notin Range(work["POLL"])
                                             /\ u \notin Range(reqhead'["POLL"])
  <2>1. "POLL" \in Types BY Zenon, Handlers
  <2>2. Range(reqhead'["POLL"]) \subseteq Range(reqhead["POLL"]) \cup {t}
    BY Zenon, <1>3, <1>4, <2>1
  <2> QED BY Zenon, <1>2, <1>6, <2>2 DEF QueuesOK
<1>11. \A q \in Queues \ {"TRIM"} : IsInjective(work[q]) BY Zenon DEF QueuesOK
<1> QED BY Zenon, <1>8, <1>9, <1>10, <1>11 DEF QueuesOK

\* A sender of TRIM does not exist.
LEMMA NoTrimSent ==
    ASSUME TypeOK, QueuesOK, SendersOK
    PROVE  Range(reqhead["TRIM"]) = {} /\ reqhead["TRIM"] = <<>>
<1>1. "TRIM" \in Types BY Zenon, Handlers
<1>2. reqhead["TRIM"] \in Seq(Threads) BY Zenon, <1>1, QueueTypes
<1>3. Range(reqhead["TRIM"]) = {} BY <1>1 DEF QueuesOK, SendersOK, Waits
<1> QED BY Zenon, <1>2, <1>3, EmptyQueue

\* pfs_log_reply takes the threads it answers from the queues of the log thread.
LEMMA Answering ==
    ASSUME TypeOK, QueuesOK, SendersOK, NEW ts, reqhead' = reqhead,
           \A u \in Threads : u \notin ts => thr'[u] = thr[u],
           \A y \in Types : Range(reqhead[y]) \cap ts = {},
           \A q \in Queues \ {"TRIM"} : /\ IsInjective(work'[q])
                                        /\ Range(work'[q]) \cap ts = {},
           \A y \in Types \ {"TRIM"} : Range(work'[y]) \subseteq Range(work[y]),
           Range(work'["REPLAY_WAIT"]) \subseteq Range(work["REPLAY_WAIT"]) \cup Range(work["POLL"]),
           Range(work'["REPLAY_WAIT"]) \cap Range(work'["POLL"]) = {}
    PROVE  QueuesOK'
<1>1. \A u, y : Waits(u, y) /\ u \notin ts => Waits(u, y)' BY Zenon DEF Waits
<1>2. ASSUME NEW y \in Types
      PROVE  /\ \A u \in Range(reqhead[y]) : Waits(u, y)'
             /\ IsInjective(reqhead[y])
             /\ Range(reqhead[y]) \cap Range(work'[y]) = {}
  <2>1. \A u \in Range(reqhead[y]) : Waits(u, y)' BY Zenon, <1>1 DEF QueuesOK
  <2>2. IsInjective(reqhead[y]) BY Zenon DEF QueuesOK
  <2>3. Range(reqhead[y]) \cap Range(work'[y]) = {}
    <3>1. CASE y = "TRIM" BY Zenon, <3>1, NoTrimSent
    <3>2. CASE y # "TRIM" BY Zenon, <3>2 DEF QueuesOK
    <3> QED BY Zenon, <3>1, <3>2
  <2> QED BY Zenon, <2>1, <2>2, <2>3
<1>3. ASSUME NEW y \in Types \ {"TRIM"} PROVE \A u \in Range(work'[y]) : Waits(u, y)'
  <2>1. \A u \in Range(work'[y]) : u \notin ts BY Zenon, QueueTypes DEF Queues
  <2> QED BY Zenon, <1>1, <2>1 DEF QueuesOK
<1>4. ASSUME NEW u \in Range(work'["REPLAY_WAIT"])
      PROVE  /\ Waits(u, "POLL")'
             /\ u \notin Range(work'["POLL"])
             /\ u \notin Range(reqhead["POLL"])
  <2>1. "POLL" \in Types \ {"TRIM"} /\ "REPLAY_WAIT" \in Queues \ {"TRIM"} BY Zenon, Handlers DEF Queues
  <2>2. u \notin ts BY Zenon, <2>1
  <2>3. Waits(u, "POLL") /\ u \notin Range(reqhead["POLL"]) BY Zenon, <2>1 DEF QueuesOK
  <2> QED BY Zenon, <1>1, <2>2, <2>3
<1> QED BY Zenon, <1>2, <1>3, <1>4 DEF QueuesOK

\* The answer to a sender disturbs nothing the senders' conditions speak of.
LEMMA LogFrame ==
    ASSUME SendersOK, PlanOK, WriterOK, UNCHANGED <<meta, inside, plan, mnt>>,
           \A t \in Threads : \/ thr'[t] = thr[t]
                              \/ /\ thr[t].pc = "wait" /\ thr'[t].pc = "got"
                                 /\ thr'[t].req = thr[t].req
    PROVE  SendersOK' /\ PlanOK' /\ WriterOK'
<1>1. \A t, x : Waits(t, x)' => Waits(t, x) BY Zenon DEF Waits
<1>2. Poll \in Threads /\ Bd \in Threads /\ Admin \in Threads /\ Clients \subseteq Threads
  BY Zenon DEF Threads
<1>3. \A t \in Threads : thr'[t].req = thr[t].req /\ (thr'[t].pc = "lock" => thr[t].pc = "lock")
  BY Zenon
<1>4. \A t \in Threads : thr'[t].pc # "idle" => thr[t].pc # "idle" BY Zenon
<1>5. SendersOK' BY <1>1, <1>2, <1>3, <1>4 DEF SendersOK
<1>6. PlanOK'
  <2>1. \A t \in Threads : thr[t].pc \in {"out", "start"} => thr'[t] = thr[t] BY Zenon
  <2> QED BY <1>2, <2>1 DEF PlanOK, Before
<1>7. WriterOK' BY Zenon, <1>1 DEF WriterOK
<1> QED BY Zenon, <1>5, <1>6, <1>7

\* Nothing that a replay consists of happens.
LEMMA ReplayKept ==
    ASSUME ReplayOwner, lt'.replay_wait = lt.replay_wait,
           \A u \in Threads : Replaying(u)' <=> Replaying(u)
    PROVE  ReplayOwner'
<1>1. Replayers' = Replayers BY Zenon DEF Replayers
<1> QED BY Zenon, <1>1 DEF ReplayOwner

\* The threads are distinct, and nobody is none of them.
LEMMA Distinct ==
    /\ Poll \in Threads /\ Bd \in Threads /\ Admin \in Threads /\ Clients \subseteq Threads
    /\ Poll \notin Clients /\ Bd \notin Clients /\ Admin \notin Clients
    /\ Poll # Bd /\ Poll # Admin /\ Bd # Admin /\ Unowned \notin Threads
BY Zenon, LogThreadAssumption DEF Threads, Poll, Bd, Admin, Unowned

\* What one thread's step leaves of the others.
LEMMA Moved ==
    ASSUME TypeOK, NEW t \in Threads, NEW r, Become(t, r)
    PROVE  thr'[t] = r /\ \A u \in Threads : u # t => thr'[u] = thr[u]
BY Zenon DEF TypeOK, Become

\* The request of a thread has the form the log thread expects.
LEMMA SentTypes ==
    ASSUME TypeOK, NEW t \in Threads, NEW x \in Types, Send(t, x)
    PROVE  reqhead' \in [Types -> Seq(Threads)] /\ thr' \in [Threads -> ThreadStates]
<1>1. reqhead[x] \in Seq(Threads) BY Zenon, QueueTypes
<1>2. Append(reqhead[x], t) \in Seq(Threads) BY Zenon, <1>1, AppendQueue
<1>3. reqhead' \in [Types -> Seq(Threads)] BY Zenon, <1>2 DEF Send, TypeOK
<1>4. thr' \in [Threads -> ThreadStates] BY Zenon DEF Send, Become, TypeOK, ThreadStates
<1> QED BY Zenon, <1>3, <1>4

\* A step of one thread t that was not waiting, to its new state r.
LEMMA Move ==
    ASSUME LogInv, TypeOK', QueuesOK', NEW t \in Threads, NEW r, Become(t, r),
           thr[t].pc # "wait",
           UNCHANGED <<lt, work, plan, mnt, used, lag>>,
           r.req # "TRIM",
           r.req \in {"LOAD", "RESET", "SUSPEND", "RESUME", "STOP"} => t = Admin,
           r.pc = "lock" => t \in Clients \cup {Bd},
           \A c \in Clients : c # t /\ c \in inside => c \in inside',
           t \in Clients /\ r.pc # "idle" => t \in inside',
           plan # <<>> \/ ~mnt.inited => inside' = {},
           t = Admin /\ r.pc # "idle" => plan # <<>> /\ plan[1] \in Types,
           t = Admin /\ r.pc = "wait" /\ r.req = "LOAD" => plan[1] = "LOAD",
           t = Poll \/ t = Bd => thr[t].pc # "out",
           t = Bd /\ ~mnt.inited => r.pc \in {"out", "start"},
           \A u \in Threads : u # t /\ meta = u => meta' = u,
           r.pc = "wait" /\ r.req = "WRITE" => meta' = t,
           Replaying(t)' <=> Replaying(t)
    PROVE  LogInv'
<1>1. thr'[t] = r /\ \A u \in Threads : u # t => thr'[u] = thr[u] BY Zenon, Moved DEF LogInv
<1>2. \A u, x : u # t => (Waits(u, x)' <=> Waits(u, x)) BY Zenon, <1>1 DEF Waits
<1>3. \A x : Waits(t, x)' <=> r.pc = "wait" /\ r.req = x BY Zenon, <1>1 DEF Waits
<1>4. SendersOK'
  <2>1. \A u \in Threads : /\ thr'[u].req # "TRIM"
                           /\ thr'[u].req \in {"LOAD", "RESET", "SUSPEND", "RESUME", "STOP"} =>
                                 u = Admin
                           /\ thr'[u].pc = "lock" => u \in Clients \cup {Bd}
    BY Zenon, <1>1 DEF LogInv, SendersOK
  <2>2. \A c \in Clients : thr'[c].pc # "idle" => c \in inside'
    BY ZenonT(40), <1>1, Distinct DEF LogInv, SendersOK
  <2>3. thr'[Admin].pc # "idle" => plan # <<>> /\ plan[1] \in Types
    BY Zenon, <1>1, Distinct DEF LogInv, SendersOK
  <2>4. Waits(Admin, "LOAD")' => plan[1] = "LOAD" BY Zenon, <1>2, <1>3 DEF LogInv, SendersOK
  <2> QED BY Zenon, <2>1, <2>2, <2>3, <2>4 DEF SendersOK
<1>5. PlanOK'
  <2>1. ~mnt.inited => thr'[Bd].pc \in {"out", "start"} BY Zenon, <1>1, Distinct DEF LogInv, PlanOK
  <2>2. /\ thr[Poll].pc = "out" => thr'[Poll].pc = "out"
        /\ thr[Bd].pc = "out" => thr'[Bd].pc = "out"
    BY Zenon, <1>1, Distinct
  <2> QED BY <2>1, <2>2 DEF LogInv, PlanOK, Before
<1>6. WriterOK' BY Zenon, <1>1, <1>2, <1>3 DEF LogInv, WriterOK
<1>7. ReplayOwner'
  <2>1. \A u \in Threads : Replaying(u)' <=> Replaying(u) BY Zenon, <1>1 DEF Replaying
  <2> QED BY Zenon, <2>1, ReplayKept DEF LogInv
<1>8. PassOK' BY Zenon DEF LogInv, PassOK
<1>9. TrimOK' BY Zenon DEF LogInv, TrimOK, TrimOnce
<1>10. RoomOK' BY Zenon DEF LogInv, RoomOK
<1> QED BY Zenon, <1>4, <1>5, <1>6, <1>7, <1>8, <1>9, <1>10 DEF LogInv

(***************************************************************************)
(* The threads that send requests.                                         *)
(***************************************************************************)

\* A call of the API keeps the invariant.
LEMMA BeginCallKeeps ==
    ASSUME LogInv, NEW c \in Clients, BeginCall(c)
    PROVE  LogInv'
<1> USE Distinct
<1>1. TypeOK /\ QueuesOK BY Zenon DEF LogInv
<1>2. c \in Threads /\ c # Admin /\ c # Bd /\ c # Poll /\ inside' \subseteq Clients /\ c \in inside'
      /\ inside \subseteq inside'
  BY Zenon, <1>1 DEF BeginCall, TypeOK
<1>4. ASSUME NEW x \in {"POLL", "FLUSH"}, Send(c, x) PROVE LogInv'
  <2>1. x \in Types \ {"TRIM"} BY Zenon, Handlers
  <2>2. TypeOK' BY Zenon, <1>1, <1>2, <1>4, <2>1, SentTypes DEF TypeOK, BeginCall
  <2>3. QueuesOK' BY Zenon, <1>1, <1>2, <1>4, <2>1, Sent DEF BeginCall
  <2>4. Become(c, [pc |-> "wait", req |-> x, reply |-> "none"]) BY Zenon, <1>4 DEF Send
  <2>5. ~Replaying(c) /\ ~Replaying(c)'
    BY <1>1, <1>2, <2>4, Moved DEF Replaying, BeginCall
  <2> QED BY Zenon, <1>2, <2>2, <2>3, <2>4, <2>5, Move DEF BeginCall
<1>5. ASSUME NEW pc \in {"lock", "read"}, Become(c, Thread(pc)), UNCHANGED reqhead PROVE LogInv'
  <2>1. Thread(pc) \in ThreadStates BY Zenon DEF Thread, ThreadStates
  <2>2. TypeOK' BY Zenon, <1>1, <1>2, <1>5, <2>1 DEF TypeOK, BeginCall, Become
  <2>3. thr'[c] = Thread(pc) /\ \A u \in Threads : u # c => thr'[u] = thr[u]
    BY Zenon, <1>1, <1>2, <1>5, Moved
  <2>4. QueuesOK' BY Zenon, <1>1, <1>5, <2>3, QueuesKept DEF BeginCall
  <2>5. ~Replaying(c) /\ ~Replaying(c)' BY <2>3 DEF Replaying, BeginCall, Thread
  <2>6. Thread(pc).pc = pc /\ Thread(pc).req = "none" BY Zenon DEF Thread
  <2> QED BY Zenon, <1>2, <1>5, <2>2, <2>4, <2>5, <2>6, Move DEF BeginCall
<1> QED BY Zenon, <1>4, <1>5 DEF BeginCall

\* A client that reads keeps the invariant.
LEMMA ReadMetaKeeps ==
    ASSUME LogInv, NEW c \in Clients, ReadMeta(c)
    PROVE  LogInv'
<1> USE Distinct
<1>1. TypeOK /\ QueuesOK BY DEF LogInv
<1>2. Become(c, Thread("idle")) /\ inside' = inside \ {c} BY Zenon DEF ReadMeta, Finish
<1>3. Thread("idle") \in ThreadStates /\ Thread("idle").pc = "idle" /\ Thread("idle").req = "none"
  BY Zenon DEF Thread, ThreadStates
<1>4. TypeOK' BY Zenon, <1>1, <1>2, <1>3 DEF TypeOK, ReadMeta, Become
<1>5. thr'[c] = Thread("idle") /\ \A u \in Threads : u # c => thr'[u] = thr[u]
  BY Zenon, <1>1, <1>2, Moved
<1>6. QueuesOK' BY Zenon, <1>1, <1>5, QueuesKept DEF ReadMeta
<1>7. ~Replaying(c) /\ ~Replaying(c)' BY Zenon, <1>3, <1>5 DEF Replaying, ReadMeta
<1>8. plan # <<>> \/ ~mnt.inited => inside' = {} BY Zenon, <1>2 DEF LogInv, PlanOK
<1> QED BY <1>2, <1>3, <1>4, <1>6, <1>7, <1>8, Move DEF ReadMeta

\* A round of the poll thread begins.
LEMMA BeginPollKeeps ==
    ASSUME LogInv, BeginPoll
    PROVE  LogInv'
<1> USE Distinct
<1>1. TypeOK /\ QueuesOK BY Zenon DEF LogInv
<1>2. "POLL" \in Types \ {"TRIM"} BY Zenon, Handlers
<1>3. Send(Poll, "POLL") /\ thr[Poll].pc \in {"idle", "start"} BY Zenon DEF BeginPoll, Ready
<1>4. TypeOK' BY Zenon, <1>1, <1>2, <1>3, SentTypes DEF TypeOK, BeginPoll
<1>5. QueuesOK' BY Zenon, <1>1, <1>2, <1>3, Sent DEF BeginPoll
<1>6. Become(Poll, [pc |-> "wait", req |-> "POLL", reply |-> "none"]) BY Zenon, <1>3 DEF Send
<1>7. ~Replaying(Poll) /\ ~Replaying(Poll)' BY <1>1, <1>3, <1>6, Moved DEF Replaying
<1>8. plan # <<>> \/ ~mnt.inited => inside' = {} BY Zenon DEF LogInv, PlanOK, BeginPoll
<1> QED BY Zenon, <1>3, <1>4, <1>5, <1>6, <1>7, <1>8, Move DEF BeginPoll

\* A round of the discard thread begins, on an inited mount.
LEMMA BeginDiscardKeeps ==
    ASSUME LogInv, BeginDiscard
    PROVE  LogInv'
<1> USE Distinct
<1>1. TypeOK /\ QueuesOK BY DEF LogInv
<1>2. Become(Bd, Thread("lock")) /\ thr[Bd].pc \in {"idle", "start"} BY Zenon DEF BeginDiscard, Ready
<1>3. Thread("lock") \in ThreadStates /\ Thread("lock").pc = "lock" /\ Thread("lock").req = "none"
  BY Zenon DEF Thread, ThreadStates
<1>4. TypeOK' BY <1>1, <1>2, <1>3 DEF TypeOK, BeginDiscard, Become
<1>5. thr'[Bd] = Thread("lock") /\ \A u \in Threads : u # Bd => thr'[u] = thr[u]
  BY Zenon, <1>1, <1>2, Moved
<1>6. QueuesOK' BY Zenon, <1>1, <1>2, <1>5, QueuesKept DEF BeginDiscard
<1>7. ~Replaying(Bd) /\ ~Replaying(Bd)' BY Zenon, <1>2, <1>3, <1>5 DEF Replaying
<1>8. plan # <<>> \/ ~mnt.inited => inside' = {} BY Zenon DEF LogInv, PlanOK, BeginDiscard
<1>9. mnt.inited BY Zenon, <1>2 DEF LogInv, PlanOK, BeginDiscard, Ready
<1> QED BY Zenon, <1>2, <1>3, <1>4, <1>6, <1>7, <1>8, <1>9, Move DEF BeginDiscard

\* A thread with the metadata lock before it, or with entries to replay, is not
\* the discard thread of a mount that is not inited.
LEMMA InCall ==
    ASSUME LogInv, NEW t \in Threads, thr[t].pc \notin {"out", "start", "idle"}
    PROVE  /\ t = Bd => mnt.inited
           /\ t \in Clients => t \in inside /\ mnt.inited /\ plan = <<>>
           /\ t = Admin => plan # <<>> /\ plan[1] \in Types
BY Zenon DEF LogInv, PlanOK, SendersOK

\* Taking the metadata lock: a write transaction has it when it is sent.
LEMMA LockMetaKeeps ==
    ASSUME LogInv, NEW t \in Threads, LockMeta(t)
    PROVE  LogInv'
<1> USE Distinct
<1>1. TypeOK /\ QueuesOK BY Zenon DEF LogInv
<1>2. thr[t].pc \in {"lock", "rlock"} BY Zenon DEF LockMeta
<1>3. plan # <<>> \/ ~mnt.inited => inside' = {} BY Zenon DEF LogInv, PlanOK, LockMeta
<1>4. meta' \in Threads \cup {Unowned} BY Zenon, <1>1 DEF TypeOK, LockMeta
<1>5. \A u \in Threads : u # t /\ meta = u => meta' = u BY Zenon DEF LockMeta
<1>6. CASE thr[t].pc = "lock" /\ Send(t, "WRITE")
  <2>1. "WRITE" \in Types \ {"TRIM"} BY Zenon, Handlers
  <2>2. TypeOK' BY Zenon, <1>1, <1>4, <1>6, <2>1, SentTypes DEF TypeOK, LockMeta
  <2>3. QueuesOK' BY Zenon, <1>1, <1>6, <2>1, Sent DEF LockMeta
  <2>4. Become(t, [pc |-> "wait", req |-> "WRITE", reply |-> "none"]) BY Zenon, <1>6 DEF Send
  <2>5. ~Replaying(t) /\ ~Replaying(t)' BY <1>1, <1>6, <2>4, Moved DEF Replaying
  <2>6. t \in Clients \cup {Bd} BY Zenon, <1>6 DEF LogInv, SendersOK
  <2>7. mnt.inited BY Zenon, <1>2, <2>6, InCall
  <2>8. meta' = t BY Zenon, <2>7 DEF LockMeta
  <2> QED BY Zenon, <1>2, <1>3, <1>5, <2>2, <2>3, <2>4, <2>5, <2>6, <2>8, InCall, Move DEF LockMeta
<1>7. CASE thr[t].pc = "rlock" /\ Become(t, Thread("replay")) /\ UNCHANGED reqhead
  <2>1. /\ Thread("replay") \in ThreadStates
        /\ Thread("replay").pc = "replay" /\ Thread("replay").req = "none"
    BY Zenon DEF Thread, ThreadStates
  <2>2. TypeOK' BY Zenon, <1>1, <1>4, <1>7, <2>1 DEF TypeOK, LockMeta, Become
  <2>3. thr'[t] = Thread("replay") /\ \A u \in Threads : u # t => thr'[u] = thr[u]
    BY Zenon, <1>1, <1>7, Moved
  <2>4. QueuesOK' BY Zenon, <1>1, <1>7, <2>3, QueuesKept DEF LockMeta
  <2>5. Replaying(t) /\ Replaying(t)' BY Zenon, <1>7, <2>1, <2>3 DEF Replaying
  <2> QED BY Zenon, <1>2, <1>3, <1>5, <1>7, <2>1, <2>2, <2>4, <2>5, InCall, Move DEF LockMeta
<1> QED BY Zenon, <1>6, <1>7 DEF LockMeta

\* The end of a replay keeps its thread the one that replays.
LEMMA ReplayKeeps ==
    ASSUME LogInv, NEW t \in Threads, Replay(t)
    PROVE  LogInv'
<1> USE Distinct
<1>1. TypeOK /\ QueuesOK BY DEF LogInv
<1>2. "REPLAYDONE" \in Types \ {"TRIM"} BY Zenon, Handlers
<1>3. thr[t].pc = "replay" /\ Send(t, "REPLAYDONE") BY Zenon DEF Replay
<1>4. plan # <<>> \/ ~mnt.inited => inside' = {} BY Zenon DEF LogInv, PlanOK, Replay
<1>5. meta' \in Threads \cup {Unowned} BY Zenon, <1>1 DEF TypeOK, Replay, UnlockMeta
<1>6. \A u \in Threads : u # t /\ meta = u => meta' = u BY Zenon DEF Replay, UnlockMeta
<1>7. TypeOK' BY Zenon, <1>1, <1>2, <1>3, <1>5, SentTypes DEF TypeOK, Replay
<1>8. QueuesOK' BY Zenon, <1>1, <1>2, <1>3, Sent DEF Replay
<1>9. Become(t, [pc |-> "wait", req |-> "REPLAYDONE", reply |-> "none"]) BY Zenon, <1>3 DEF Send
<1>10. Replaying(t) /\ Replaying(t)' BY <1>1, <1>3, <1>9, Moved DEF Replaying
<1> QED BY Zenon, <1>3, <1>4, <1>6, <1>7, <1>8, <1>9, <1>10, InCall, Move DEF Replay

\* A sender takes its answer: with entries to replay it stays the one that
\* replays, otherwise it was not.
LEMMA TakeReplyKeeps ==
    ASSUME LogInv, NEW t \in Threads, TakeReply(t)
    PROVE  LogInv'
<1> USE Distinct
<1>1. TypeOK /\ QueuesOK BY DEF LogInv
<1>2. thr[t].pc = "got" /\ t # Admin BY Zenon DEF TakeReply
<1>3. PICK pc \in {"rlock", "read", "idle"} :
          /\ Become(t, Thread(pc))
          /\ thr[t].reply = "new" <=> pc = "rlock"
          /\ pc = "idle" => inside' = inside \ {t}
          /\ pc # "idle" => inside' = inside
  <2>1. CASE thr[t].reply = "new" BY Zenon, <2>1 DEF TakeReply
  <2>2. CASE thr[t].reply # "new" BY Zenon, <2>2 DEF TakeReply, Finish
  <2> QED BY Zenon, <2>1, <2>2
<1>4. inside' \subseteq inside /\ \A c \in Clients : c # t /\ c \in inside => c \in inside' BY Zenon, <1>3
<1>5. plan # <<>> \/ ~mnt.inited => inside' = {} BY Zenon, <1>4 DEF LogInv, PlanOK
<1>6. meta' \in Threads \cup {Unowned} BY Zenon, <1>1 DEF TypeOK, TakeReply, UnlockMeta
<1>7. \A u \in Threads : u # t /\ meta = u => meta' = u BY Zenon DEF TakeReply, UnlockMeta
<1>8. Thread(pc) \in ThreadStates /\ Thread(pc).pc = pc /\ Thread(pc).req = "none"
  BY Zenon DEF Thread, ThreadStates
<1>9. TypeOK' BY Zenon, <1>1, <1>3, <1>4, <1>6, <1>8 DEF TypeOK, TakeReply, Become
<1>10. thr'[t] = Thread(pc) /\ \A u \in Threads : u # t => thr'[u] = thr[u] BY Zenon, <1>1, <1>3, Moved
<1>11. QueuesOK' BY Zenon, <1>1, <1>2, <1>10, QueuesKept DEF TakeReply
<1>12. Replaying(t)' <=> Replaying(t) BY Zenon, <1>2, <1>3, <1>8, <1>10 DEF Replaying
<1>13. t \in Clients /\ pc # "idle" => t \in inside' BY Zenon, <1>2, <1>3, InCall
<1> QED BY Zenon, <1>2, <1>3, <1>4, <1>5, <1>7, <1>8, <1>9, <1>11, <1>12, <1>13, InCall, Move DEF TakeReply

(***************************************************************************)
(* The admin thread.                                                       *)
(***************************************************************************)

\* The first step of a plan.
LEMMA PlanHead ==
    ASSUME TypeOK, plan # <<>>
    PROVE  1 \in DOMAIN plan /\ Head(plan) = plan[1]
BY NoQueue DEF TypeOK

\* The admin thread sends what its plan says.
LEMMA AdminRequestKeeps ==
    ASSUME LogInv, AdminRequest
    PROVE  LogInv'
<1> USE Distinct
<1>1. TypeOK /\ QueuesOK BY DEF LogInv
<1>2. PICK x \in Types : AtStep(x) /\ Send(Admin, x) BY Zenon DEF AdminRequest
<1>3. plan # <<>> /\ thr[Admin].pc = "idle" /\ plan[1] = x BY Zenon, <1>1, <1>2, PlanHead DEF AtStep
<1>4. x \notin {"TRIM", "WRITE", "FLUSH", "REPLAYDONE"} BY Zenon, <1>1, <1>3, PlanHead DEF LogInv, PlanOK
<1>5. TypeOK' BY Zenon, <1>1, <1>2, SentTypes DEF TypeOK, AdminRequest
<1>6. QueuesOK' BY Zenon, <1>1, <1>2, <1>3, <1>4, Sent DEF AdminRequest
<1>7. Become(Admin, [pc |-> "wait", req |-> x, reply |-> "none"]) BY Zenon, <1>2 DEF Send
<1>8. ~Replaying(Admin) /\ ~Replaying(Admin)' BY <1>1, <1>3, <1>4, <1>7, Moved DEF Replaying
<1>9. plan # <<>> \/ ~mnt.inited => inside' = {} BY Zenon DEF LogInv, PlanOK, AdminRequest
<1> QED BY Zenon, <1>3, <1>4, <1>5, <1>6, <1>7, <1>8, <1>9, Move DEF AdminRequest

\* What is left of a plan after its first step.
LEMMA PlanTail ==
    ASSUME TypeOK, plan # <<>>
    PROVE  /\ Tail(plan) \in Seq(Types \cup Steps)
           /\ \A k \in DOMAIN Tail(plan) : k + 1 \in DOMAIN plan /\ k + 1 # 1
                                           /\ k \in Nat \ {0} /\ Tail(plan)[k] = plan[k + 1]
           /\ \A k \in DOMAIN plan : k # 1 => k - 1 \in DOMAIN Tail(plan) /\ Tail(plan)[k - 1] = plan[k]
<1>1. plan \in Seq(Types \cup Steps) BY Zenon DEF TypeOK
<1>2. /\ Len(plan) \in Nat \ {0} /\ DOMAIN plan = 1..Len(plan)
  BY Zenon, <1>1, NoQueue, QueueLen
<1>3. /\ Tail(plan) \in Seq(Types \cup Steps) /\ Len(Tail(plan)) = Len(plan) - 1
      /\ \A k \in 1..Len(Tail(plan)) : Tail(plan)[k] = plan[k + 1]
  BY Zenon, <1>1, QueueTail
<1>4. DOMAIN Tail(plan) = 1..Len(plan) - 1 BY Zenon, <1>3, QueueLen
<1>5. \A k \in 1..Len(plan) : k # 1 => k - 1 \in 1..Len(plan) - 1 /\ (k - 1) + 1 = k BY <1>2
<1>6. \A k \in 1..Len(plan) - 1 : k + 1 \in 1..Len(plan) /\ k + 1 # 1 /\ k \in Nat \ {0} BY <1>2
<1>7. \A k \in 1..Len(plan) - 1 : Tail(plan)[k] = plan[k + 1] BY Zenon, <1>3
<1>8. \A k \in 1..Len(plan) : k # 1 => Tail(plan)[k - 1] = plan[(k - 1) + 1] BY Zenon, <1>5, <1>7
<1> QED BY Zenon, <1>2, <1>3, <1>4, <1>5, <1>6, <1>7, <1>8

\* What comes before a step, as its plan goes on.
LEMMA BeforeTail ==
    ASSUME TypeOK, plan # <<>>, plan' = Tail(plan), NEW k \in DOMAIN plan', NEW s
    PROVE  Before(k + 1, s) <=> plan[1] = s \/ Before(k, s)'
<1>1. k + 1 \in DOMAIN plan /\ k \in Nat \ {0} BY Zenon, PlanTail
<1>2. 1 \in 1..k /\ 1..k \subseteq DOMAIN plan
  <2>1. plan \in Seq(Types \cup Steps) BY Zenon DEF TypeOK
  <2>2. DOMAIN plan = 1..Len(plan) /\ Len(plan) \in Nat BY Zenon, <2>1, QueueLen
  <2> QED BY <1>1, <2>2
<1>3. \A j \in 1..k : j # 1 => j - 1 \in 1..k-1 /\ plan'[j - 1] = plan[j]
  BY <1>1, <1>2, PlanTail
<1>4. \A j \in 1..k-1 : j + 1 \in 1..k /\ plan'[j] = plan[j + 1]
  <2> TAKE j \in 1..k-1
  <2>1. j + 1 \in 1..k /\ j + 1 # 1 /\ (j + 1) - 1 = j BY <1>1
  <2> QED BY Zenon, <1>3, <2>1
<1>5. Before(k + 1, s) <=> \E j \in 1..k : plan[j] = s BY <1>1 DEF Before
<1>6. Before(k, s)' <=> \E j \in 1..k-1 : plan'[j] = s BY Zenon DEF Before
<1>7. ASSUME Before(k + 1, s) PROVE plan[1] = s \/ Before(k, s)' BY Zenon, <1>3, <1>5, <1>6, <1>7
<1>8. ASSUME plan[1] = s \/ Before(k, s)' PROVE Before(k + 1, s) BY Zenon, <1>2, <1>4, <1>5, <1>6, <1>8
<1> QED BY Zenon, <1>7, <1>8

\* A plan goes on to its next step: the discard and poll threads are stopped by the
\* steps that say so, and started when no reload is to come.
LEMMA PlanGoesOn ==
    ASSUME TypeOK, PlanOK, plan # <<>>, plan' = Tail(plan), inside' = inside,
           ~mnt'.inited => thr'[Bd].pc \in {"out", "start"},
           plan[1] # "start" => \/ thr'[Bd] = thr[Bd] /\ plan[1] # "stop_bd"
                                \/ thr'[Bd].pc = "out",
           plan[1] # "start" => \/ thr'[Poll] = thr[Poll] /\ plan[1] # "stop_poll"
                                \/ thr'[Poll].pc = "out"
    PROVE  PlanOK'
<1>1. inside' = {} BY Zenon DEF PlanOK
<1>2. ASSUME NEW k \in DOMAIN plan'
      PROVE  /\ plan'[k] \notin {"TRIM", "WRITE", "FLUSH", "REPLAYDONE"}
             /\ plan'[k] # "LOAD"
  <2>1. k + 1 \in DOMAIN plan /\ k + 1 # 1 /\ plan'[k] = plan[k + 1] BY Zenon, PlanTail
  <2> QED BY Zenon, <2>1 DEF PlanOK
<1>3. ASSUME NEW k \in DOMAIN plan', plan'[k] \in {"reload_ro", "reload_rw", "start"}
      PROVE  /\ ~Before(k, "start")' /\ (thr'[Bd].pc = "out" \/ Before(k, "stop_bd")')
             /\ plan'[k] \in {"reload_rw", "start"} =>
                  thr'[Poll].pc = "out" \/ Before(k, "stop_poll")'
  <2>1. k + 1 \in DOMAIN plan /\ plan[k + 1] = plan'[k] BY Zenon, PlanTail
  <2>2. /\ ~Before(k + 1, "start") /\ (thr[Bd].pc = "out" \/ Before(k + 1, "stop_bd"))
        /\ plan'[k] \in {"reload_rw", "start"} => thr[Poll].pc = "out" \/ Before(k + 1, "stop_poll")
    BY Zenon, <1>3, <2>1 DEF PlanOK
  <2>3. ~Before(k, "start")' /\ plan[1] # "start" BY Zenon, <2>2, BeforeTail
  <2>4. thr'[Bd].pc = "out" \/ Before(k, "stop_bd")' BY Zenon, <2>2, <2>3, BeforeTail
  <2>5. plan'[k] \in {"reload_rw", "start"} => thr'[Poll].pc = "out" \/ Before(k, "stop_poll")'
    BY Zenon, <2>2, <2>3, BeforeTail
  <2> QED BY Zenon, <2>3, <2>4, <2>5
<1> QED BY Zenon, <1>1, <1>2, <1>3 DEF PlanOK

\* What is on the disk fits into the log.
LEMMA Room ==
    ASSUME LogInv
    PROVE  /\ used + lag \in 0..LogRoom
           /\ used \in 0..LogRoom /\ lag \in 0..1 /\ nlag \in 0..MaxLag
           /\ LogRoom \in Nat \ {0} /\ MaxLag \in Nat
BY LogThreadAssumption DEF LogInv, TypeOK, RoomOK

\* The first state of the log thread is one of its states.
LEMMA StartState ==
    [pc |-> "gather", st |-> "notloaded", i |-> 1, mask |-> {}, replay_wait |-> FALSE,
     space_needed |-> FALSE, trim_forced |-> FALSE] \in LogStates
<1>1. 1 \in 1..Len(Order) + 1 BY Handlers
<1> QED BY Zenon, <1>1 DEF LogStates

\* The log thread as pfs_log_start leaves it.
LEMMA Started ==
    ASSUME lt = [Off EXCEPT !.pc = "gather"]
    PROVE  /\ lt.pc = "gather" /\ lt.st = "notloaded" /\ lt.i = 1 /\ lt.mask = {} /\ ~lt.replay_wait
           /\ lt \in LogStates
<1>1. lt = [pc |-> "gather", st |-> "notloaded", i |-> 1, mask |-> {}, replay_wait |-> FALSE,
            space_needed |-> FALSE, trim_forced |-> FALSE]
  BY Zenon DEF Off
<1>2. lt \in LogStates BY Zenon, <1>1, StartState
<1> QED BY <1>1, <1>2

\* The steps of the admin thread that no request is sent in: what they leave alone.
LEMMA AdminFrame ==
    ASSUME LogInv, TypeOK', PlanOK', UNCHANGED <<lt, reqhead, work, meta, inside>>,
           \A t \in Threads : thr[t].pc = "wait" => thr'[t] = thr[t],
           \A t \in Threads :
              thr'[t] # thr[t] =>
                 \/ thr'[t] \in {Thread("out"), Thread("start")} /\ t \in {Poll, Bd}
                 \/ thr'[t] = Thread("idle") /\ t = Admin,
           \A t \in Threads : thr'[t] # thr[t] => ~Replaying(t),
           thr'[Admin].pc = "idle", used' + lag' <= LogRoom
    PROVE  LogInv'
<1> USE Distinct
<1>1. \A u, x : Waits(u, x)' => Waits(u, x) BY DEF Waits, Thread
<1>2. QueuesOK' BY Zenon, QueuesKept DEF LogInv
<1>3. SendersOK'
  <2>1. \A t \in Threads : thr'[t] # thr[t] =>
            thr'[t].req = "none" /\ thr'[t].pc \in {"out", "start", "idle"}
    BY DEF Thread
  <2>2. \A t \in Threads : /\ thr'[t].req # "TRIM"
                           /\ thr'[t].req \in {"LOAD", "RESET", "SUSPEND", "RESUME", "STOP"} =>
                                 t = Admin
                           /\ thr'[t].pc = "lock" => t \in Clients \cup {Bd}
    BY ZenonT(40), <2>1 DEF LogInv, SendersOK
  <2>3. \A c \in Clients : thr'[c] = thr[c] BY Zenon
  <2>4. \A c \in Clients : thr'[c].pc # "idle" => c \in inside' BY Zenon, <2>3 DEF LogInv, SendersOK
  <2>5. ~Waits(Admin, "LOAD")' BY Zenon DEF Waits
  <2> QED BY Zenon, <2>2, <2>4, <2>5 DEF SendersOK
<1>4. WriterOK' BY Zenon, <1>1 DEF LogInv, WriterOK
<1>5. \A t \in Threads : Replaying(t)' <=> Replaying(t) BY DEF Replaying, Thread
<1>6. ReplayOwner' BY Zenon, <1>5, ReplayKept DEF LogInv
<1>7. PassOK' BY Zenon DEF LogInv, PassOK
<1>8. TrimOK' BY Zenon DEF LogInv, TrimOK, TrimOnce
<1>9. RoomOK' BY Zenon DEF RoomOK
<1> QED BY Zenon, <1>2, <1>3, <1>4, <1>6, <1>7, <1>8, <1>9 DEF LogInv

\* A plan begins with nobody in a call.
LEMMA AdminBeginKeeps ==
    ASSUME LogInv, AdminBegin
    PROVE  LogInv'
<1> USE Distinct
<1>1. TypeOK /\ plan = <<>> /\ inside = {} BY Zenon DEF LogInv, AdminBegin
<1>2. thr[Admin].pc = "idle" BY Zenon, <1>1 DEF LogInv, SendersOK
<1>3. PICK p \in Plans : plan' = PlanOf[p] BY Zenon DEF AdminBegin
<1>4. p \in {"release", "demote", "promote", "umount"} BY Zenon, LogThreadAssumption DEF AllPlans, PlanOf
<1>5. plan' \in Seq(Types \cup Steps) /\ PlanOK'
  <2>1. thr' = thr /\ mnt' = mnt /\ inside' = {} BY Zenon, <1>1 DEF AdminBegin
  <2>2. CASE p = "release"
    <3>1. plan' = <<"RESET">> BY Zenon, <1>3, <2>2 DEF PlanOf
    <3>2. plan' \in Seq(Types \cup Steps) BY <3>1, Handlers
    <3>3. DOMAIN plan' = {1} /\ plan'[1] = "RESET" BY <3>1
    <3> QED BY Zenon, <2>1, <3>2, <3>3 DEF LogInv, PlanOK
  <2>3. CASE p = "demote"
    <3>1. plan' = <<"stop_bd", "SUSPEND", "reload_ro", "RESUME", "inited">> BY Zenon, <1>3, <2>3 DEF PlanOf
    <3>2. plan' \in Seq(Types \cup Steps) BY <3>1, Handlers DEF Steps
    <3>3. /\ DOMAIN plan' = {1, 2, 3, 4, 5}
          /\ plan'[1] = "stop_bd" /\ plan'[2] = "SUSPEND" /\ plan'[3] = "reload_ro"
          /\ plan'[4] = "RESUME" /\ plan'[5] = "inited"
      BY <3>1
    <3>4. ~Before(3, "start")' /\ Before(3, "stop_bd")' BY <3>3 DEF Before
    <3>5. \A k \in DOMAIN plan' :
            /\ plan'[k] \notin {"TRIM", "WRITE", "FLUSH", "REPLAYDONE", "LOAD"}
            /\ plan'[k] \in {"reload_ro", "reload_rw", "start"} => k = 3 /\ plan'[k] = "reload_ro"
      BY Zenon, <3>3
    <3> QED BY Zenon, <2>1, <3>2, <3>3, <3>4, <3>5 DEF LogInv, PlanOK
  <2>4. CASE p = "promote"
    <3>1. plan' = <<"stop_bd", "stop_poll", "SUSPEND", "reload_rw", "RESUME", "start", "POLL", "inited">>
      BY Zenon, <1>3, <2>4 DEF PlanOf
    <3>2. plan' \in Seq(Types \cup Steps) BY <3>1, Handlers DEF Steps
    <3>3. /\ DOMAIN plan' = {1, 2, 3, 4, 5, 6, 7, 8}
          /\ plan'[1] = "stop_bd" /\ plan'[2] = "stop_poll" /\ plan'[3] = "SUSPEND"
          /\ plan'[4] = "reload_rw" /\ plan'[5] = "RESUME" /\ plan'[6] = "start"
          /\ plan'[7] = "POLL" /\ plan'[8] = "inited"
      BY <3>1
    <3>4. \A k \in {4, 6} : ~Before(k, "start")' /\ Before(k, "stop_bd")' /\ Before(k, "stop_poll")'
      BY <3>3 DEF Before
    <3>5. \A k \in DOMAIN plan' :
            /\ plan'[k] \notin {"TRIM", "WRITE", "FLUSH", "REPLAYDONE", "LOAD"}
            /\ plan'[k] \in {"reload_ro", "reload_rw", "start"} => k \in {4, 6}
      BY Zenon, <3>3
    <3> QED BY ZenonT(40), <2>1, <3>2, <3>3, <3>4, <3>5 DEF LogInv, PlanOK
  <2>5. CASE p = "umount"
    <3>1. plan' = <<"stop_bd", "stop_poll", "STOP", "join">> BY Zenon, <1>3, <2>5 DEF PlanOf
    <3>2. plan' \in Seq(Types \cup Steps) BY <3>1, Handlers DEF Steps
    <3>3. /\ DOMAIN plan' = {1, 2, 3, 4}
          /\ plan'[1] = "stop_bd" /\ plan'[2] = "stop_poll" /\ plan'[3] = "STOP" /\ plan'[4] = "join"
      BY <3>1
    <3> QED BY Zenon, <2>1, <3>2, <3>3 DEF LogInv, PlanOK
  <2> QED BY Zenon, <1>4, <2>2, <2>3, <2>4, <2>5
<1>6. TypeOK' BY Zenon, <1>1, <1>5 DEF TypeOK, AdminBegin
<1>7. thr' = thr /\ UNCHANGED <<lt, reqhead, work, meta, inside>> BY Zenon DEF AdminBegin
<1>8. used' + lag' <= LogRoom BY Zenon DEF AdminBegin, LogInv, RoomOK
<1> QED BY Zenon, <1>2, <1>5, <1>6, <1>7, <1>8, AdminFrame

\* The discard and poll threads are stopped and started.
LEMMA AdminThreadsKeeps ==
    ASSUME LogInv, AdminThreads
    PROVE  LogInv'
<1> USE Distinct
<1>1. TypeOK /\ PlanOK BY Zenon DEF LogInv
<1>2. plan # <<>> /\ thr[Admin].pc = "idle" /\ plan' = Tail(plan)
  BY Zenon DEF AdminThreads, AtStep
<1>3. Head(plan) = plan[1] BY Zenon, <1>1, <1>2, PlanHead
<1>4. Thread("out") \in ThreadStates /\ Thread("start") \in ThreadStates BY Zenon DEF Thread, ThreadStates
<1>5. plan[1] = "start" => thr[Bd].pc = "out" /\ thr[Poll].pc = "out"
  <2>1. ~Before(1, "stop_bd") /\ ~Before(1, "stop_poll") BY DEF Before
  <2> QED BY Zenon, <1>1, <1>2, <2>1, PlanHead DEF PlanOK
<1>6. /\ thr' \in [Threads -> ThreadStates]
      /\ \A t \in Threads : t \notin {Poll, Bd} => thr'[t] = thr[t]
      /\ \A t \in {Poll, Bd} : \/ thr'[t] = thr[t]
                               \/ /\ thr'[t] \in {Thread("out"), Thread("start")}
                                  /\ thr[t].pc \in {"out", "start", "idle"}
      /\ plan[1] # "start" => \/ thr'[Bd] = thr[Bd] /\ plan[1] # "stop_bd"
                              \/ thr'[Bd].pc = "out"
      /\ plan[1] # "start" => \/ thr'[Poll] = thr[Poll] /\ plan[1] # "stop_poll"
                              \/ thr'[Poll].pc = "out"
  <2>1. CASE AtStep("stop_bd") /\ StopThread(Bd)
    BY <1>1, <1>3, <1>4, <2>1 DEF AtStep, StopThread, Become, TypeOK, Thread
  <2>2. CASE AtStep("stop_poll") /\ StopThread(Poll)
    BY <1>1, <1>3, <1>4, <2>2 DEF AtStep, StopThread, Become, TypeOK, Thread
  <2>3. CASE /\ AtStep("start")
             /\ thr' = [thr EXCEPT ![Poll] = Thread("start"),
                                   ![Bd] = IF mnt.mode = "rw" THEN Thread("start") ELSE @]
    BY <1>1, <1>3, <1>4, <1>5, <2>3 DEF AtStep, TypeOK
  <2> QED BY Zenon, <2>1, <2>2, <2>3 DEF AdminThreads
<1>7. UNCHANGED <<lt, reqhead, work, meta, inside, mnt, used, lag, nlag>> BY Zenon DEF AdminThreads
<1>8. Thread("out").pc = "out" /\ Thread("start").pc = "start" BY Zenon DEF Thread
<1>9. PlanOK'
  <2>1. ~mnt'.inited => thr'[Bd].pc \in {"out", "start"} BY Zenon, <1>1, <1>6, <1>7, <1>8 DEF PlanOK
  <2> QED BY Zenon, <1>1, <1>2, <1>6, <1>7, <2>1, PlanGoesOn
<1>10. TypeOK' BY Zenon, <1>1, <1>2, <1>6, <1>7, PlanTail DEF TypeOK
<1>11. \A t \in Threads : thr'[t] # thr[t] => t \in {Poll, Bd} /\ thr[t].pc \in {"out", "start", "idle"}
  BY Zenon, <1>6
<1>12. \A t \in Threads : thr'[t] # thr[t] => ~Replaying(t) BY Zenon, <1>11 DEF Replaying
<1>13. used' + lag' <= LogRoom BY Zenon, <1>7 DEF LogInv, RoomOK
<1>14. \A t \in Threads : thr[t].pc = "wait" => thr'[t] = thr[t] BY Zenon, <1>11
<1>15. thr'[Admin].pc = "idle" BY Zenon, <1>2, <1>6
<1>16. \A t \in Threads :
          thr'[t] # thr[t] =>
             \/ thr'[t] \in {Thread("out"), Thread("start")} /\ t \in {Poll, Bd}
             \/ thr'[t] = Thread("idle") /\ t = Admin
  BY Zenon, <1>6
<1> QED BY Zenon, <1>7, <1>9, <1>10, <1>12, <1>13, <1>14, <1>15, <1>16, AdminFrame

\* The mount is reloaded with its discard thread stopped, and inited.
LEMMA AdminMountKeeps ==
    ASSUME LogInv, AdminMount
    PROVE  LogInv'
<1> USE Distinct
<1>1. TypeOK /\ PlanOK BY DEF LogInv
<1>2. plan # <<>> /\ thr[Admin].pc = "idle" /\ Head(plan) = plan[1]
  BY Zenon, <1>1, PlanHead DEF AdminMount, AtStep
<1>3. UNCHANGED <<lt, reqhead, work, thr, meta, inside, nlag>> BY Zenon DEF AdminMount
<1>4. plan[1] \in {"reload_ro", "reload_rw"} => thr[Bd].pc = "out"
  <2>1. ~Before(1, "stop_bd") BY DEF Before
  <2> QED BY Zenon, <1>1, <1>2, <2>1, PlanHead DEF PlanOK
<1>5. used + lag \in 0..LogRoom BY Zenon, Room
<1>6. /\ mnt' \in [mode : {"ro", "rw"}, inited : BOOLEAN]
      /\ used' \in 0..LogRoom /\ lag' \in 0..1 /\ used' + lag' <= LogRoom
      /\ mnt'.inited \/ plan[1] \in {"reload_ro", "reload_rw"}
  <2>1. CASE AtStep("reload_ro") /\ Reload("ro") BY <1>2, <1>5, <2>1 DEF AtStep, Reload
  <2>2. CASE AtStep("reload_rw") /\ Reload("rw") BY <1>2, <1>5, <2>2 DEF AtStep, Reload
  <2>3. CASE AtStep("reload_rw") /\ Reload("ro") BY <1>2, <1>5, <2>3 DEF AtStep, Reload
  <2>4. CASE AtStep("inited") /\ mnt' = [mnt EXCEPT !.inited = TRUE] /\ UNCHANGED <<used, lag>>
    <3>1. mnt' \in [mode : {"ro", "rw"}, inited : BOOLEAN] /\ mnt'.inited BY Zenon, <1>1, <2>4 DEF TypeOK
    <3>2. used' \in 0..LogRoom /\ lag' \in 0..1 /\ used' + lag' <= LogRoom
      BY <1>1, <1>5, <2>4, LogThreadAssumption DEF TypeOK
    <3> QED BY Zenon, <3>1, <3>2
  <2> QED BY Zenon, <2>1, <2>2, <2>3, <2>4 DEF AdminMount
<1>7. ~mnt'.inited => thr[Bd].pc \in {"out", "start"} BY Zenon, <1>4, <1>6
<1>8. plan' \in Seq(Types \cup Steps) /\ PlanOK'
  <2>1. CASE plan' = Tail(plan)
    <3>1. plan[1] \notin {"stop_bd", "stop_poll"} BY Zenon, <1>2 DEF AdminMount, AtStep
    <3> QED BY Zenon, <1>1, <1>2, <1>3, <1>7, <2>1, <3>1, PlanTail, PlanGoesOn
  <2>2. CASE AtStep("reload_rw") /\ plan' = <<"RESUME", "start", "inited">>
    <3>1. plan' \in Seq(Types \cup Steps) BY <2>2, Handlers DEF Steps
    <3>2. /\ DOMAIN plan' = {1, 2, 3}
          /\ plan'[1] = "RESUME" /\ plan'[2] = "start" /\ plan'[3] = "inited"
      BY <2>2
    <3>3. ~Before(2, "start")' BY <3>2 DEF Before
    <3>4. ~Before(1, "stop_poll") BY DEF Before
    <3>5. thr[Poll].pc = "out" /\ thr[Bd].pc = "out" /\ inside = {}
      BY Zenon, <1>1, <1>2, <1>4, <2>2, <3>4, PlanHead DEF PlanOK, AtStep
    <3> QED BY ZenonT(40), <1>3, <3>1, <3>2, <3>3, <3>5 DEF PlanOK
  <2> QED BY Zenon, <2>1, <2>2 DEF AdminMount
<1>9. TypeOK' BY Zenon, <1>1, <1>3, <1>6, <1>8 DEF TypeOK
<1> QED BY Zenon, <1>2, <1>3, <1>6, <1>8, <1>9, AdminFrame

\* The admin thread takes its answer, and goes on with its plan.
LEMMA AdminReplyKeeps ==
    ASSUME LogInv, AdminReply
    PROVE  LogInv'
<1> USE Distinct
<1>1. TypeOK /\ PlanOK /\ QueuesOK BY Zenon DEF LogInv
<1>2. thr[Admin].pc = "got" BY Zenon DEF AdminReply
<1>3. plan # <<>> /\ plan[1] \in Types BY Zenon, <1>2 DEF LogInv, SendersOK
<1>4. UNCHANGED <<lt, reqhead, work, meta, inside, mnt, used, lag, nlag>> BY Zenon DEF AdminReply
<1>5. \A pc \in {"rlock", "idle"} : /\ Thread(pc) \in ThreadStates
                                    /\ Thread(pc).pc = pc /\ Thread(pc).req = "none"
  BY Zenon DEF Thread, ThreadStates
<1>6. CASE thr[Admin].reply = "new" /\ Become(Admin, Thread("rlock")) /\ plan' = plan
  <2>1. TypeOK' BY Zenon, <1>1, <1>4, <1>5, <1>6 DEF TypeOK, Become
  <2>2. thr'[Admin] = Thread("rlock") /\ \A u \in Threads : u # Admin => thr'[u] = thr[u]
    BY Zenon, <1>1, <1>6, Moved
  <2>3. QueuesOK' BY Zenon, <1>1, <1>2, <1>4, <2>2, QueuesKept
  <2>4. Replaying(Admin) /\ Replaying(Admin)' BY Zenon, <1>2, <1>5, <1>6, <2>2 DEF Replaying
  <2>5. inside' = {} BY Zenon, <1>1, <1>3, <1>4 DEF PlanOK
  <2>6. inside = {} BY Zenon, <1>4, <2>5
  <2> QED BY Zenon, <1>2, <1>3, <1>4, <1>5, <1>6, <2>1, <2>3, <2>4, <2>5, <2>6, Move
<1>7. CASE /\ thr[Admin].reply # "new" /\ Become(Admin, Thread("idle"))
           /\ plan' \in {<<"STOP", "join">>, Tail(plan)}
  <2>1. thr'[Admin] = Thread("idle") /\ \A u \in Threads : u # Admin => thr'[u] = thr[u]
    BY Zenon, <1>1, <1>7, Moved
  <2>2. plan' \in Seq(Types \cup Steps) /\ PlanOK'
    <3>1. CASE plan' = <<"STOP", "join">>
      <4>1. plan' \in Seq(Types \cup Steps) BY <3>1, Handlers DEF Steps
      <4>2. DOMAIN plan' = {1, 2} /\ plan'[1] = "STOP" /\ plan'[2] = "join" BY <3>1
      <4> QED BY Zenon, <1>1, <1>3, <1>4, <2>1, <4>1, <4>2 DEF PlanOK
    <3>2. CASE plan' = Tail(plan)
      <4>1. plan[1] \notin {"stop_bd", "stop_poll"} BY Zenon, <1>3, Handlers
      <4>2. ~mnt'.inited => thr'[Bd].pc \in {"out", "start"} BY Zenon, <1>1, <1>4, <2>1 DEF PlanOK
      <4> QED BY Zenon, <1>1, <1>3, <1>4, <2>1, <3>2, <4>1, <4>2, PlanTail, PlanGoesOn
    <3> QED BY Zenon, <1>7, <3>1, <3>2
  <2>3. TypeOK' BY Zenon, <1>1, <1>4, <1>5, <1>7, <2>2 DEF TypeOK, Become
  <2>4. ~Replaying(Admin) BY Zenon, <1>2, <1>7 DEF Replaying
  <2>5. used' + lag' <= LogRoom BY <1>4 DEF LogInv, RoomOK
  <2> QED BY Zenon, <1>2, <1>4, <1>5, <2>1, <2>2, <2>3, <2>4, <2>5, AdminFrame
<1> QED BY Zenon, <1>6, <1>7 DEF AdminReply

\* A mount that has just started its log thread.
Fresh ==
    /\ lt = [Off EXCEPT !.pc = "gather"]
    /\ reqhead = [x \in Types |-> <<>>]
    /\ work = [q \in Queues |-> <<>>]
    /\ thr = [t \in Threads |-> IF t \in {Poll, Bd} THEN Thread("out") ELSE Thread("idle")]
    /\ meta = Unowned
    /\ inside = {}
    /\ plan = PlanOf.mount
    /\ mnt \in [mode : {"ro", "rw"}, inited : {FALSE}]
    /\ used \in 0..LogRoom /\ lag = 0 /\ nlag \in 0..MaxLag

\* The invariant holds when a mount starts.
LEMMA FreshInv == Fresh => LogInv
<1> SUFFICES ASSUME Fresh PROVE LogInv BY Zenon
<1> USE Distinct DEF Fresh
<1>1. /\ lt.pc = "gather" /\ lt.st = "notloaded" /\ lt.i = 1 /\ lt.mask = {} /\ ~lt.replay_wait
      /\ lt \in LogStates
  BY Zenon, Started
<1>2. \A t \in Threads : thr[t] = Thread("out") \/ thr[t] = Thread("idle") BY Zenon
<1>3. \A t \in Threads : thr[t] \in ThreadStates /\ thr[t].pc \in {"out", "idle"} /\ thr[t].req = "none"
  BY Zenon, <1>2 DEF Thread, ThreadStates
<1>4. \A t \in Threads : t \notin {Poll, Bd} => thr[t].pc = "idle" BY Zenon DEF Thread
<1>5. thr[Poll].pc = "out" /\ thr[Bd].pc = "out" BY Zenon DEF Thread
<1>6. \A t, x : ~Waits(t, x) BY Zenon, <1>3 DEF Waits
<1>7. Range(<<>>) = {} /\ IsInjective(<<>>) /\ <<>> \in Seq(Threads) /\ <<>> \in Seq(Threads \cup {"log"})
  <2>1. <<>> \in Seq(Threads) /\ <<>> \in Seq(Threads \cup {"log"}) BY Zenon, NoQueue
  <2> QED BY Zenon, <2>1, EmptyQueue
<1>8. plan = <<"LOAD", "start", "inited">> BY Zenon DEF PlanOf
<1>9. plan \in Seq(Types \cup Steps) BY <1>8, Handlers DEF Steps
<1>10. DOMAIN plan = {1, 2, 3} /\ plan[1] = "LOAD" /\ plan[2] = "start" /\ plan[3] = "inited" BY <1>8
<1>11. TypeOK
  <2>1. reqhead \in [Types -> Seq(Threads)] /\ work \in [Queues -> Seq(Threads \cup {"log"})] BY Zenon, <1>7
  <2>2. thr \in [Threads -> ThreadStates] BY Zenon, <1>3
  <2>3. mnt \in [mode : {"ro", "rw"}, inited : BOOLEAN] BY Zenon
  <2>4. lag \in 0..1 OBVIOUS
  <2> QED BY Zenon, <1>1, <1>9, <2>1, <2>2, <2>3, <2>4 DEF TypeOK
<1>12. QueuesOK
  <2>1. \A x \in Types : reqhead[x] = <<>> /\ work[x] = <<>> BY Zenon DEF Queues
  <2>2. \A q \in Queues : work[q] = <<>> BY Zenon
  <2>3. work["REPLAY_WAIT"] = <<>> BY Zenon DEF Queues
  <2> QED BY Zenon, <1>7, <2>1, <2>2, <2>3 DEF QueuesOK
<1>13. SendersOK BY ZenonT(40), <1>3, <1>4, <1>6 DEF SendersOK
<1>14. PlanOK
  <2>1. ~mnt.inited BY Zenon
  <2>2. ~Before(2, "start") BY <1>10 DEF Before
  <2> QED BY ZenonT(40), <1>5, <1>10, <2>1, <2>2 DEF PlanOK
<1>15. WriterOK BY Zenon, <1>6 DEF WriterOK
<1>16. ReplayOwner
  <2>1. Replayers = {} BY ZenonT(40), <1>3 DEF Replayers, Replaying
  <2> QED BY Zenon, <1>1, <2>1 DEF ReplayOwner
<1>17. PassOK BY Zenon, <1>1 DEF PassOK
<1>18. TrimOK
  <2>1. work["TRIM"] = <<>> BY Zenon, Handlers DEF Queues
  <2> QED BY <1>1, <2>1 DEF TrimOK, TrimOnce
<1>19. RoomOK BY LogThreadAssumption DEF RoomOK
<1> QED BY ZenonT(40), <1>11, <1>12, <1>13, <1>14, <1>15, <1>16, <1>17, <1>18, <1>19 DEF LogInv

\* A later mount of the same disk.
LEMMA RestartKeeps ==
    ASSUME LogInv, Restart
    PROVE  LogInv'
<1>1. used + lag \in 0..LogRoom BY Zenon, Room
<1>2. PICK mode \in {"ro", "rw"} : Reload(mode) BY Zenon DEF Restart
<1>3. Fresh'
  <2>1. mnt' \in [mode : {"ro", "rw"}, inited : {FALSE}] BY Zenon, <1>2 DEF Reload
  <2>2. used' \in 0..LogRoom /\ lag' = 0 BY Zenon, <1>1, <1>2 DEF Reload
  <2>3. nlag' \in 0..MaxLag BY Zenon DEF LogInv, TypeOK, Restart
  <2> QED BY Zenon, <2>1, <2>2, <2>3 DEF Fresh, Restart
<1>4. (Fresh => LogInv)' BY FreshInv, PTL
<1> QED BY Zenon, <1>3, <1>4

\* Log entries of another host appear.
LEMMA NewEntriesKeeps ==
    ASSUME LogInv, NewEntries
    PROVE  LogInv'
<1>1. UNCHANGED <<lt, reqhead, work, thr, meta, inside, plan, mnt>> BY Zenon DEF NewEntries
<1>2. used' \in 0..LogRoom /\ lag' \in 0..1 /\ nlag' \in 0..MaxLag /\ used' + lag' <= LogRoom
  <2>1. /\ lag' = 1 /\ nlag' = nlag + 1 /\ nlag < MaxLag
        /\ used' \in {used, 0} /\ used' < LogRoom
    BY Zenon DEF NewEntries
  <2> QED BY <2>1, Room
<1>3. TypeOK' BY Zenon, <1>1, <1>2 DEF LogInv, TypeOK
<1>4. QueuesOK' BY Zenon, <1>1, QueuesKept DEF LogInv
<1>5. SendersOK' BY ZenonT(40), <1>1 DEF LogInv, SendersOK, Waits
<1>6. PlanOK' BY <1>1 DEF LogInv, PlanOK, Before
<1>7. WriterOK' BY Zenon, <1>1 DEF LogInv, WriterOK, Waits
<1>8. ReplayOwner' BY Zenon, <1>1, ReplayKept DEF LogInv, Replaying
<1>9. PassOK' /\ TrimOK' BY Zenon, <1>1 DEF LogInv, PassOK, TrimOK, TrimOnce
<1>10. RoomOK' BY Zenon, <1>2 DEF RoomOK
<1> QED BY Zenon, <1>3, <1>4, <1>5, <1>6, <1>7, <1>8, <1>9, <1>10 DEF LogInv
=============================================================================
