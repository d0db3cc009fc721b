------------------------- MODULE LogThreadHandlers -------------------------
(***************************************************************************)
(* What a handler of the log thread does to the queues and their senders;  *)
(* the handlers of trims, state changes, loads and ended replays keep the  *)
(* inductive invariant of LogThread.                                       *)
(***************************************************************************)
EXTENDS LogThreadCallers

\* A thread is in one queue.
LEMMA Apart ==
    ASSUME TypeOK, QueuesOK
    PROVE  /\ \A p, q \in Queues \ {"TRIM"} : p # q => Range(work[p]) \cap Range(work[q]) = {}
           /\ \A x \in Types : \A q \in Queues \ {"TRIM"} : Range(reqhead[x]) \cap Range(work[q]) = {}
           /\ \A q \in Queues \ {"TRIM"} : \A t \in Range(work[q]) :
                 /\ t \in Threads /\ thr[t].pc = "wait"
                 /\ thr[t].req = "REPLAYDONE" <=> q = "REPLAYDONE"
                 /\ q # "REPLAY_WAIT" => thr[t].req = q
<1>1. \A q \in Types \ {"TRIM"} : \A t \in Range(work[q]) : Waits(t, q) BY Zenon DEF QueuesOK
<1>2. \A t \in Range(work["REPLAY_WAIT"]) : /\ Waits(t, "POLL")
                                            /\ t \notin Range(work["POLL"])
                                            /\ t \notin Range(reqhead["POLL"])
  BY Zenon DEF QueuesOK
<1>3. \A x \in Types : \A t \in Range(reqhead[x]) : Waits(t, x) /\ t \notin Range(work[x]) BY Zenon DEF QueuesOK
<1>4. \A t, x, y : Waits(t, x) /\ Waits(t, y) => x = y BY Zenon DEF Waits
<1>5. \A q : q \in Queues \ {"TRIM"} <=> q \in Types \ {"TRIM"} \/ q = "REPLAY_WAIT"
  BY Zenon, Handlers DEF Queues
<1>6. \A p, q \in Queues \ {"TRIM"} : p # q => Range(work[p]) \cap Range(work[q]) = {}
  BY Zenon, <1>1, <1>2, <1>4, <1>5
<1>7. \A x \in Types : \A q \in Queues \ {"TRIM"} : Range(reqhead[x]) \cap Range(work[q]) = {}
  BY <1>1, <1>2, <1>3, <1>4, <1>5
<1>8. ASSUME NEW q \in Queues \ {"TRIM"}, NEW t \in Range(work[q])
      PROVE  /\ t \in Threads /\ thr[t].pc = "wait"
             /\ thr[t].req = "REPLAYDONE" <=> q = "REPLAYDONE"
             /\ q # "REPLAY_WAIT" => thr[t].req = q
  BY Zenon, <1>1, <1>2, <1>5 DEF Waits
<1> QED BY Zenon, <1>6, <1>7, <1>8

\* The state of a thread that is answered.
LEMMA AnswerState ==
    ASSUME NEW s \in ThreadStates, NEW r \in {"ok", "again", "new", "error", "nodata"}
    PROVE  /\ Answer(s, r) \in ThreadStates /\ Answer(s, r).pc = "got" /\ Answer(s, r).reply = r
           /\ Answer(s, r).req = s.req
BY Zenon DEF ThreadStates, Answer

\* What an answer r to the threads ts does to them.
LEMMA Replied ==
    ASSUME TypeOK, NEW ts, NEW r \in {"ok", "again", "new", "error", "nodata"}, Reply(ts, r)
    PROVE  /\ thr' \in [Threads -> ThreadStates]
           /\ \A t \in Threads : t \notin ts => thr'[t] = thr[t]
           /\ \A t \in Threads : t \in ts => /\ thr'[t].pc = "got" /\ thr'[t].reply = r
                                             /\ thr'[t].req = thr[t].req
<1>1. \A t \in Threads : thr[t] \in ThreadStates BY Zenon DEF TypeOK
<1>2. \A t \in Threads : /\ t \notin ts => thr'[t] = thr[t]
                         /\ t \in ts => thr'[t] = Answer(thr[t], r)
  BY Zenon DEF Reply
<1>3. \A t \in Threads : t \in ts => /\ thr'[t] \in ThreadStates
                                     /\ thr'[t].pc = "got" /\ thr'[t].reply = r
                                     /\ thr'[t].req = thr[t].req
  BY <1>1, <1>2, AnswerState
<1>4. thr' \in [Threads -> ThreadStates]
  <2>1. \A t \in Threads : thr'[t] \in ThreadStates BY Zenon, <1>1, <1>2, <1>3
  <2>2. thr' = [t \in Threads |-> thr'[t]] BY Zenon DEF Reply
  <2> QED BY Zenon, <2>1, <2>2
<1> QED BY Zenon, <1>2, <1>3, <1>4

\* The queues X are emptied and all that waited in them are answered alike.
Clears(X, ts, r) ==
    /\ X \subseteq Queues \ {"TRIM"}
    /\ \A t : t \in ts <=> \E q \in X : t \in Range(work[q])
    /\ Reply(ts, r)
    /\ work' = [q \in Queues |-> IF q \in X THEN <<>> ELSE work[q]]
    /\ UNCHANGED <<reqhead, meta, inside, plan, mnt>>

\* That is a step the invariants on the threads allow.
LEMMA Cleared ==
    ASSUME LogInv, NEW X, NEW ts, NEW r \in {"ok", "again", "new", "error", "nodata"},
           Clears(X, ts, r)
    PROVE  /\ thr' \in [Threads -> ThreadStates]
           /\ work' \in [Queues -> Seq(Threads \cup {"log"})]
           /\ work'["TRIM"] = work["TRIM"]
           /\ QueuesOK' /\ SendersOK' /\ PlanOK' /\ WriterOK'
           /\ \A t \in Threads : t \notin ts => thr'[t] = thr[t]
           /\ \A t \in Threads : t \in ts => thr'[t].pc = "got" /\ thr'[t].reply = r
           /\ ("REPLAYDONE" \notin X /\ r # "new") => \A t \in Threads : Replaying(t)' <=> Replaying(t)
<1> USE DEF Clears
<1>1. TypeOK /\ QueuesOK /\ SendersOK /\ PlanOK /\ WriterOK BY Zenon DEF LogInv
<1>2. /\ thr' \in [Threads -> ThreadStates]
      /\ \A t \in Threads : t \notin ts => thr'[t] = thr[t]
      /\ \A t \in Threads : t \in ts => /\ thr'[t].pc = "got" /\ thr'[t].reply = r
                                        /\ thr'[t].req = thr[t].req
  BY <1>1, Replied
<1>3. \A t \in ts : t \in Threads /\ thr[t].pc = "wait" BY <1>1, Apart
<1>4. Range(<<>>) = {} /\ IsInjective(<<>>) /\ <<>> \in Seq(Threads \cup {"log"})
  <2>1. <<>> \in Seq(Threads \cup {"log"}) BY Zenon, NoQueue
  <2> QED BY Zenon, <2>1, EmptyQueue
<1>5. /\ work' \in [Queues -> Seq(Threads \cup {"log"})]
      /\ \A q \in Queues : q \in X => work'[q] = <<>>
      /\ \A q \in Queues : q \notin X => work'[q] = work[q]
  BY Zenon, <1>1, <1>4 DEF TypeOK
<1>6. work'["TRIM"] = work["TRIM"] BY Zenon, <1>5, Handlers DEF Queues
<1>7. QueuesOK'
  <2>1. \A y \in Types : Range(reqhead[y]) \cap ts = {} BY <1>1, Apart
  <2>2. \A q \in Queues \ {"TRIM"} : IsInjective(work'[q]) BY Zenon, <1>1, <1>4, <1>5 DEF QueuesOK
  <2>3. \A q \in Queues \ {"TRIM"} : Range(work'[q]) \cap ts = {}
    <3> TAKE q \in Queues \ {"TRIM"}
    <3>1. CASE q \in X BY Zenon, <1>4, <1>5, <3>1
    <3>2. CASE q \notin X
      <4>1. \A p \in X : Range(work[q]) \cap Range(work[p]) = {} BY <1>1, <3>2, Apart
      <4> QED BY Zenon, <1>5, <3>2, <4>1
    <3> QED BY Zenon, <3>1, <3>2
  <2>4. \A q \in Queues : Range(work'[q]) \subseteq Range(work[q]) BY Zenon, <1>4, <1>5
  <2>5. "REPLAY_WAIT" \in Queues /\ "POLL" \in Queues /\ Types \subseteq Queues BY Zenon, Handlers DEF Queues
  <2>6. Range(work["REPLAY_WAIT"]) \cap Range(work["POLL"]) = {} BY Zenon, <1>1 DEF QueuesOK
  <2>7. Range(work'["REPLAY_WAIT"]) \cap Range(work'["POLL"]) = {} BY Zenon, <2>4, <2>5, <2>6
  <2>8. Range(work'["REPLAY_WAIT"]) \subseteq Range(work["REPLAY_WAIT"]) \cup Range(work["POLL"])
    BY Zenon, <2>4, <2>5
  <2>9. \A y \in Types \ {"TRIM"} : Range(work'[y]) \subseteq Range(work[y]) BY Zenon, <2>4, <2>5
  <2>10. \A q \in Queues \ {"TRIM"} : IsInjective(work'[q]) /\ Range(work'[q]) \cap ts = {} BY Zenon, <2>2, <2>3
  <2> QED BY ZenonT(40), <1>1, <1>2, <2>1, <2>7, <2>8, <2>9, <2>10, Answering
<1>8. SendersOK' /\ PlanOK' /\ WriterOK'
  <2>1. \A t \in Threads : \/ thr'[t] = thr[t]
                           \/ /\ thr[t].pc = "wait" /\ thr'[t].pc = "got"
                              /\ thr'[t].req = thr[t].req
    BY Zenon, <1>2, <1>3
  <2> QED BY Zenon, <1>1, <2>1, LogFrame
<1>9. ASSUME "REPLAYDONE" \notin X, r # "new", NEW t \in Threads PROVE Replaying(t)' <=> Replaying(t)
  <2>1. CASE t \in ts
    <3>1. thr[t].pc = "wait" /\ thr[t].req # "REPLAYDONE" BY <1>1, <1>9, <2>1, Apart
    <3> QED BY Zenon, <1>2, <1>9, <2>1, <3>1 DEF Replaying
  <2>2. CASE t \notin ts BY Zenon, <1>2, <2>2 DEF Replaying
  <2> QED BY Zenon, <2>1, <2>2
<1> QED BY Zenon, <1>2, <1>5, <1>6, <1>7, <1>8, <1>9

\* pfs_log_reply_queue of one type.
LEMMA QueueAnswered ==
    ASSUME LogInv, NEW x \in Types \ {"TRIM"}, NEW r \in {"ok", "again", "new", "error", "nodata"},
           ReplyQueue(x, r), UNCHANGED <<reqhead, meta, inside, plan, mnt>>
    PROVE  /\ thr' \in [Threads -> ThreadStates]
           /\ work' \in [Queues -> Seq(Threads \cup {"log"})]
           /\ work'["TRIM"] = work["TRIM"]
           /\ QueuesOK' /\ SendersOK' /\ PlanOK' /\ WriterOK'
           /\ \A t \in Threads : t \notin Range(work[x]) => thr'[t] = thr[t]
           /\ \A t \in Threads : t \in Range(work[x]) => thr'[t].pc = "got" /\ thr'[t].reply = r
           /\ (x # "REPLAYDONE" /\ r # "new") => \A t \in Threads : Replaying(t)' <=> Replaying(t)
<1>1. PICK X : X = {x} BY Zenon
<1>2. PICK ts : ts = Range(work[x]) BY Zenon
<1>3. work' = [q \in Queues |-> IF q \in X THEN <<>> ELSE work[q]]
  BY Zenon, <1>1 DEF ReplyQueue, LogInv, TypeOK, Queues
<1>4. X \subseteq Queues \ {"TRIM"} BY Zenon, <1>1 DEF Queues
<1>5. Reply(ts, r) BY Zenon, <1>2 DEF ReplyQueue
<1>6. \A t : t \in ts <=> \E q \in X : t \in Range(work[q]) BY Zenon, <1>1, <1>2
<1>7. x # "REPLAYDONE" => "REPLAYDONE" \notin X BY Zenon, <1>1
<1>8. /\ thr' \in [Threads -> ThreadStates]
      /\ work' \in [Queues -> Seq(Threads \cup {"log"})]
      /\ work'["TRIM"] = work["TRIM"]
      /\ QueuesOK' /\ SendersOK' /\ PlanOK' /\ WriterOK'
      /\ \A t \in Threads : t \notin ts => thr'[t] = thr[t]
      /\ \A t \in Threads : t \in ts => thr'[t].pc = "got" /\ thr'[t].reply = r
      /\ ("REPLAYDONE" \notin X /\ r # "new") => \A t \in Threads : Replaying(t)' <=> Replaying(t)
  <2>1. Clears(X, ts, r) BY Zenon, <1>3, <1>4, <1>5, <1>6 DEF Clears
  <2> QED BY <2>1, Cleared
<1> QED BY Zenon, <1>2, <1>7, <1>8

\* What the handler of a queue may count on.
LEMMA Served ==
    ASSUME TypeOK, NEW x \in Types, Current(x)
    PROVE  /\ lt.pc = "pass" /\ x \in lt.mask /\ work[x] # <<>>
           /\ lt.i \in 1..11 /\ Index(x) \in 1..10 /\ lt.i <= Index(x)
           /\ Index(x) = 3 => x = "TRIM"
           /\ (x # "TRIM" /\ lt.i <= 3 /\ 3 < Index(x)) => ~("TRIM" \in lt.mask /\ work["TRIM"] # <<>>)
<1>1. lt.i \in 1..11
  <2>1. lt.i \in 1..Len(Order) + 1 BY Zenon DEF TypeOK, LogStates
  <2> QED BY <2>1, Handlers
<1>2. Index(x) \in 1..10 /\ (Index(x) = 3 => x = "TRIM") BY Handlers
<1>3. lt.pc = "pass" /\ x \in lt.mask /\ work[x] # <<>> /\ lt.i <= Index(x)
  BY Zenon, <1>1, <1>2 DEF Current, Pending
<1>4. ASSUME x # "TRIM", lt.i <= 3, 3 < Index(x), "TRIM" \in lt.mask, work["TRIM"] # <<>> PROVE FALSE
  <2>1. Index("TRIM") = 3 /\ "TRIM" \in Types BY Zenon, Handlers
  <2>2. Pending("TRIM") BY Zenon, <1>1, <1>4, <2>1 DEF Pending
  <2>3. Index(x) <= 3 BY Zenon, <2>1, <2>2 DEF Current
  <2> QED BY <1>2, <1>4, <2>3
<1> QED BY Zenon, <1>1, <1>2, <1>3, <1>4

\* No handler runs after STOP.
LEMMA NotStopped ==
    ASSUME LogInv, NEW x \in Types, Current(x)
    PROVE  lt.st # "stop"
<1>1. lt.pc = "pass" /\ lt.i \in 1..11 /\ Index(x) \in 1..10 /\ lt.i <= Index(x) BY Zenon, Served DEF LogInv
<1>2. Index("STOP") = 10 BY Zenon, Handlers
<1> QED BY <1>1, <1>2 DEF LogInv, PassOK

\* The handlers run in order.
LEMMA ContKeeps ==
    ASSUME LogInv, NEW x \in Types, Current(x), x # "TRIM" \/ lt.replay_wait,
           lt'.pc = "pass", lt'.i = Index(x) + 1, lt'.mask = lt.mask, lt'.st = lt.st,
           lt.replay_wait => lt'.replay_wait, work'["TRIM"] = work["TRIM"]
    PROVE  PassOK' /\ TrimOK'
<1>1. /\ lt.pc = "pass" /\ lt.i \in 1..11 /\ Index(x) \in 1..10 /\ lt.i <= Index(x)
      /\ Index(x) = 3 => x = "TRIM"
      /\ (x # "TRIM" /\ lt.i <= 3 /\ 3 < Index(x)) => ~("TRIM" \in lt.mask /\ work["TRIM"] # <<>>)
  BY ZenonT(40), Served DEF LogInv
<1>2. PassOK'
  <2>1. Index("RESUME") = 9 /\ Index("SUSPEND") = 8 BY Zenon, Handlers
  <2>2. lt.st # "stop" BY Zenon, NotStopped
  <2> QED BY <1>1, <2>1, <2>2 DEF LogInv, PassOK
<1>3. TrimOK'
  <2>1. Index("TRIM") = 3 BY Zenon, Handlers
  <2> SUFFICES ASSUME lt'.i > 3, "TRIM" \in lt.mask, ~lt'.replay_wait PROVE work["TRIM"] = <<>>
    BY Zenon, <2>1 DEF LogInv, TrimOK, TrimOnce
  <2>2. CASE lt.i > 3 BY Zenon, <1>1, <2>1, <2>2 DEF LogInv, TrimOK
  <2>3. CASE lt.i <= 3
    <3>1. x # "TRIM" /\ Index(x) # 3 /\ Index(x) >= 3 BY <1>1
    <3> QED BY <1>1, <2>3, <3>1
  <2> QED BY <1>1, <2>2, <2>3
<1> QED BY Zenon, <1>2, <1>3

\* A handler may end the pass.
LEMMA StopKeeps ==
    ASSUME LogInv, lt'.pc # "pass", lt'.pc = "off" \/ lt'.st # "stop", lt'.mask = lt.mask,
           Len(work'["TRIM"]) <= 1
    PROVE  PassOK' /\ TrimOK'
BY Zenon DEF LogInv, PassOK, TrimOK, TrimOnce

\* Beyond TRIM, and with no replay under way, the trim request is not queued.
LEMMA TrimDone ==
    ASSUME LogInv, NEW x \in {"WRITE", "FLUSH"}, Current(x), ~lt.replay_wait
    PROVE  work["TRIM"] = <<>> /\ "TRIM" \in lt.mask
<1>1. /\ lt.pc = "pass" /\ x \in lt.mask /\ lt.i \in 1..11 /\ Index(x) \in 1..10
      /\ (x # "TRIM" /\ lt.i <= 3 /\ 3 < Index(x)) => ~("TRIM" \in lt.mask /\ work["TRIM"] # <<>>)
  BY Zenon, Served, Handlers DEF LogInv
<1>2. "TRIM" \in lt.mask BY Zenon, <1>1 DEF LogInv, PassOK
<1>3. Index("TRIM") = 3 /\ Index(x) > 3 BY Handlers
<1>4. CASE lt.i > 3 BY Zenon, <1>1, <1>2, <1>3, <1>4 DEF LogInv, TrimOK
<1>5. CASE lt.i <= 3 BY Zenon, <1>1, <1>2, <1>3, <1>5
<1> QED BY <1>1, <1>2, <1>4, <1>5

\* The log thread's state when a handler lets the pass go on, ends it, or goes
\* back to TRIM.
LEMMA HandlerStates ==
    ASSUME TypeOK
    PROVE  /\ \A x \in Types :
                 /\ Cont(x) \in LogStates /\ Cont(x).pc = lt.pc /\ Cont(x).st = lt.st
                 /\ Cont(x).i = Index(x) + 1 /\ Cont(x).mask = lt.mask
                 /\ Cont(x).replay_wait = lt.replay_wait
           /\ Stop \in LogStates /\ Stop.pc = "gather" /\ Stop.st = lt.st /\ Stop.mask = lt.mask
           /\ Stop.replay_wait = lt.replay_wait
           /\ Back \in LogStates /\ Back.pc = lt.pc /\ Back.i = 3 /\ Back.mask = lt.mask
           /\ Back.st = lt.st /\ Back.replay_wait = lt.replay_wait
<1>1. lt \in LogStates BY Zenon DEF TypeOK
<1>2. Len(Order) = 10 /\ Index("TRIM") = 3 BY Zenon, Handlers
<1>3. \A x \in Types : Index(x) + 1 \in 1..Len(Order) + 1 BY Handlers
<1>4. ASSUME NEW x \in Types
      PROVE  /\ Cont(x) \in LogStates /\ Cont(x).pc = lt.pc /\ Cont(x).st = lt.st
             /\ Cont(x).i = Index(x) + 1 /\ Cont(x).mask = lt.mask
             /\ Cont(x).replay_wait = lt.replay_wait
  <2>1. PICK i : i = Index(x) + 1 BY Zenon
  <2>2. i \in 1..Len(Order) + 1 BY Zenon, <1>3, <2>1
  <2>3. Cont(x) = [lt EXCEPT !.i = i] BY Zenon, <2>1 DEF Cont
  <2> QED BY Zenon, <1>1, <2>1, <2>2, <2>3 DEF LogStates
<1>5. /\ Stop \in LogStates /\ Stop.pc = "gather" /\ Stop.st = lt.st /\ Stop.mask = lt.mask
      /\ Stop.replay_wait = lt.replay_wait
  BY Zenon, <1>1 DEF Stop, LogStates
<1>6. /\ Back \in LogStates /\ Back.pc = lt.pc /\ Back.i = 3 /\ Back.mask = lt.mask
      /\ Back.st = lt.st /\ Back.replay_wait = lt.replay_wait
  <2>1. 3 \in 1..Len(Order) + 1 BY <1>2
  <2>2. Back = [lt EXCEPT !.i = 3] BY Zenon, <1>2 DEF Back
  <2> QED BY Zenon, <1>1, <2>1, <2>2 DEF LogStates
<1> QED BY Zenon, <1>4, <1>5, <1>6

\* The log thread's state after a trim.
LEMMA SetField ==
    ASSUME NEW s \in LogStates, NEW b \in BOOLEAN, NEW a,
           a = [s EXCEPT !.trim_forced = FALSE, !.space_needed = b]
    PROVE  /\ a \in LogStates /\ a.st = s.st /\ a.pc = s.pc /\ a.i = s.i /\ a.mask = s.mask
           /\ a.replay_wait = s.replay_wait
BY Zenon DEF LogStates

\* The parts of the invariant make it up again.
LEMMA LogStepKeeps ==
    ASSUME LogInv, lt' \in LogStates, reqhead' \in [Types -> Seq(Threads)],
           work' \in [Queues -> Seq(Threads \cup {"log"})], thr' \in [Threads -> ThreadStates],
           UNCHANGED <<meta, inside, plan, mnt>>,
           used' \in 0..LogRoom, lag' \in 0..1, nlag' \in 0..MaxLag, RoomOK',
           QueuesOK', SendersOK', PlanOK', WriterOK', ReplayOwner', PassOK', TrimOK'
    PROVE  LogInv'
BY Zenon DEF LogInv, TypeOK

\* A step that leaves the numbers of transactions alone.
LEMMA SameRoom ==
    ASSUME LogInv, UNCHANGED <<used, lag, nlag>>
    PROVE  used' \in 0..LogRoom /\ lag' \in 0..1 /\ nlag' \in 0..MaxLag /\ RoomOK'
BY Zenon DEF LogInv, TypeOK, RoomOK

\* The entries that appeared are known now.
LEMMA LagTaken ==
    ASSUME LogInv, used' = used + lag, lag' = 0, nlag' = nlag
    PROVE  used' \in 0..LogRoom /\ lag' \in 0..1 /\ nlag' \in 0..MaxLag /\ RoomOK'
<1>1. LogRoom \in Nat /\ used \in 0..LogRoom /\ lag \in 0..1 /\ nlag \in 0..MaxLag
  BY Zenon, LogThreadAssumption DEF LogInv, TypeOK
<1>2. used + lag <= LogRoom BY Zenon DEF LogInv, RoomOK
<1> QED BY <1>1, <1>2 DEF RoomOK

\* A pass ends.
LEMMA EndPassKeeps ==
    ASSUME LogInv, EndPass
    PROVE  LogInv'
<1>1. UNCHANGED <<reqhead, work, thr, meta, inside, plan, mnt, used, lag, nlag>> BY Zenon DEF EndPass
<1>2. lt \in LogStates BY Zenon DEF LogInv, TypeOK
<1>3. /\ lt' \in LogStates /\ lt'.pc \in {"off", "gather"} /\ lt'.mask = lt.mask
      /\ lt'.replay_wait = lt.replay_wait /\ (lt'.pc = "off" \/ lt'.st # "stop")
  <2>1. PICK p \in {"off", "gather"} : lt' = [lt EXCEPT !.pc = p] /\ (lt.st = "stop" => p = "off")
    BY Zenon DEF EndPass
  <2> QED BY Zenon, <1>2, <2>1 DEF LogStates
<1>4. QueuesOK' /\ SendersOK' /\ PlanOK' /\ WriterOK'
  <2>1. QueuesOK' BY Zenon, <1>1, QueuesKept DEF LogInv
  <2>2. SendersOK' /\ PlanOK' /\ WriterOK' BY Zenon, <1>1, LogFrame DEF LogInv
  <2> QED BY Zenon, <2>1, <2>2
<1>5. ReplayOwner'
  <2>1. \A t \in Threads : Replaying(t)' <=> Replaying(t) BY Zenon, <1>1 DEF Replaying
  <2> QED BY Zenon, <1>3, <2>1, ReplayKept DEF LogInv
<1>6. PassOK' /\ TrimOK'
  <2>1. Len(work'["TRIM"]) <= 1 BY Zenon, <1>1 DEF LogInv, TrimOK, TrimOnce
  <2> QED BY Zenon, <1>3, <2>1, StopKeeps
<1>7. used' \in 0..LogRoom /\ lag' \in 0..1 /\ nlag' \in 0..MaxLag /\ RoomOK' BY Zenon, <1>1, SameRoom
<1>8. /\ reqhead' \in [Types -> Seq(Threads)]
      /\ work' \in [Queues -> Seq(Threads \cup {"log"})] /\ thr' \in [Threads -> ThreadStates]
  BY Zenon, <1>1 DEF LogInv, TypeOK
<1> QED BY ZenonT(40), <1>1, <1>3, <1>4, <1>5, <1>6, <1>7, <1>8, LogStepKeeps

\* TRIM, POLL and FLUSH are postponed.
LEMMA PostponeKeeps ==
    ASSUME LogInv, Postpone
    PROVE  LogInv'
<1>1. UNCHANGED <<reqhead, work, thr, meta, inside, plan, mnt, used, lag, nlag>> /\ lt.replay_wait
  BY Zenon DEF Postpone
<1>2. PICK x \in {"TRIM", "POLL", "FLUSH"} : Current(x) /\ lt' = Cont(x) BY Zenon DEF Postpone
<1>3. x \in Types BY Zenon, Handlers
<1>4. /\ lt' \in LogStates /\ lt'.pc = lt.pc /\ lt'.st = lt.st /\ lt'.i = Index(x) + 1
      /\ lt'.mask = lt.mask /\ lt'.replay_wait = lt.replay_wait
  BY Zenon, <1>2, <1>3, HandlerStates DEF LogInv
<1>5. QueuesOK' /\ SendersOK' /\ PlanOK' /\ WriterOK'
  <2>1. QueuesOK' BY Zenon, <1>1, QueuesKept DEF LogInv
  <2>2. SendersOK' /\ PlanOK' /\ WriterOK' BY Zenon, <1>1, LogFrame DEF LogInv
  <2> QED BY Zenon, <2>1, <2>2
<1>6. ReplayOwner'
  <2>1. \A t \in Threads : Replaying(t)' <=> Replaying(t) BY Zenon, <1>1 DEF Replaying
  <2> QED BY Zenon, <1>4, <2>1, ReplayKept DEF LogInv
<1>7. PassOK' /\ TrimOK'
  <2>1. lt.pc = "pass" BY Zenon, <1>2 DEF Current
  <2> QED BY Zenon, <1>1, <1>2, <1>3, <1>4, <2>1, ContKeeps
<1>8. used' \in 0..LogRoom /\ lag' \in 0..1 /\ nlag' \in 0..MaxLag /\ RoomOK' BY Zenon, <1>1, SameRoom
<1>9. /\ reqhead' \in [Types -> Seq(Threads)]
      /\ work' \in [Queues -> Seq(Threads \cup {"log"})] /\ thr' \in [Threads -> ThreadStates]
  BY Zenon, <1>1 DEF LogInv, TypeOK
<1> QED BY Zenon, <1>1, <1>4, <1>5, <1>6, <1>7, <1>8, <1>9, LogStepKeeps

\* A queue of one is empty after its head is taken.
LEMMA LastTaken ==
    ASSUME NEW S, NEW s \in Seq(S), s # <<>>, Len(s) <= 1
    PROVE  Tail(s) = <<>> /\ Tail(s) \in Seq(S)
<1>1. Tail(s) \in Seq(S) /\ Len(Tail(s)) = Len(s) - 1 BY Zenon, TailQueue
<1>2. Len(s) \in Nat /\ Len(s) # 0 BY Zenon, NoQueue
<1>3. Len(Tail(s)) = 0 BY <1>1, <1>2
<1> QED BY Zenon, <1>1, <1>3, NoQueue

\* The log has room for what is left of what it had.
LEMMA LessUsed ==
    ASSUME NEW R \in Nat, NEW n \in 0..R, NEW u \in 0..n - 1
    PROVE  u \in 0..R /\ u + 0 <= R
OBVIOUS

\* A trim is taken from its queue.
LEMMA TrimTaken ==
    ASSUME LogInv, Current("TRIM"), work' = [work EXCEPT !["TRIM"] = Tail(@)],
           UNCHANGED <<reqhead, thr, meta, inside, plan, mnt>>
    PROVE  /\ QueuesOK' /\ SendersOK' /\ PlanOK' /\ WriterOK'
           /\ reqhead' \in [Types -> Seq(Threads)] /\ thr' \in [Threads -> ThreadStates]
           /\ work' \in [Queues -> Seq(Threads \cup {"log"})]
           /\ work'["TRIM"] = <<>>
           /\ \A t \in Threads : Replaying(t)' <=> Replaying(t)
<1>1. /\ TypeOK /\ "TRIM" \in Queues /\ "TRIM" \in Types
      /\ \A q \in Queues : work[q] \in Seq(Threads \cup {"log"})
  BY Zenon, Handlers, QueueTypes DEF LogInv
<1>2. /\ \A q \in Queues \ {"TRIM"} : work'[q] = work[q]
      /\ work'["TRIM"] = Tail(work["TRIM"])
  BY Zenon, <1>1 DEF TypeOK
<1>3. work["TRIM"] # <<>> BY Zenon, <1>1, Served
<1>4. work'["TRIM"] = <<>> /\ work'["TRIM"] \in Seq(Threads \cup {"log"})
  <2>1. Len(work["TRIM"]) <= 1 /\ work["TRIM"] \in Seq(Threads \cup {"log"}) BY Zenon, <1>1 DEF LogInv, TrimOK, TrimOnce
  <2> QED BY Zenon, <1>2, <1>3, <2>1, LastTaken
<1>5. work' \in [Queues -> Seq(Threads \cup {"log"})]
  <2>1. \A q \in Queues : work'[q] \in Seq(Threads \cup {"log"}) BY Zenon, <1>1, <1>2, <1>4
  <2>2. work' = [q \in Queues |-> work'[q]] BY ZenonT(40), <1>1 DEF TypeOK
  <2> QED BY Zenon, <2>1, <2>2
<1>6. QueuesOK'
  <2>1. \A q \in Queues \ {"TRIM"} : IsInjective(work'[q]) BY ZenonT(40), <1>2 DEF LogInv, QueuesOK
  <2>2. Range(work'["TRIM"]) = {} BY Zenon, <1>4, EmptyQueue
  <2>3. \A x \in Types \ {"TRIM"} : work'[x] = work[x] BY Zenon, <1>1, <1>2, QueueTypes
  <2>4. work'["REPLAY_WAIT"] = work["REPLAY_WAIT"] /\ work'["POLL"] = work["POLL"]
    BY Zenon, <1>1, <1>2, Handlers, QueueTypes
  <2>5. \A x \in Types : /\ \A t \in Range(reqhead[x]) : Waits(t, x)
                         /\ IsInjective(reqhead[x])
                         /\ Range(reqhead[x]) \cap Range(work'[x]) = {}
    BY ZenonT(40), <2>2, <2>3 DEF LogInv, QueuesOK
  <2> QED BY SMTT(30), <2>1, <2>3, <2>4, <2>5 DEF LogInv, QueuesOK, Waits
<1>7. SendersOK' /\ PlanOK' /\ WriterOK' BY Zenon, LogFrame DEF LogInv
<1>8. \A t \in Threads : Replaying(t)' <=> Replaying(t) BY Zenon DEF Replaying
<1>9. reqhead' \in [Types -> Seq(Threads)] /\ thr' \in [Threads -> ThreadStates] BY Zenon, <1>1 DEF TypeOK
<1> QED BY Zenon, <1>4, <1>5, <1>6, <1>7, <1>8, <1>9

\* A trim that succeeds frees some of the log's room or none.
LEMMA TrimOkKeeps ==
    ASSUME LogInv, TrimOk
    PROVE  LogInv'
<1>1. /\ Current("TRIM") /\ work' = [work EXCEPT !["TRIM"] = Tail(@)]
      /\ UNCHANGED <<reqhead, thr, meta, inside, plan, mnt, nlag>>
  BY Zenon DEF TrimOk
<1>2. TypeOK /\ "TRIM" \in Types /\ Index("TRIM") = 3 /\ lt \in LogStates BY Zenon, Handlers DEF LogInv, TypeOK
<1>3. /\ lt' \in LogStates /\ lt'.pc = lt.pc /\ lt'.st = lt.st /\ lt'.i = 4
      /\ lt'.mask = lt.mask /\ lt'.replay_wait = lt.replay_wait
  <2>1. PICK s : s = Cont("TRIM") BY Zenon
  <2>2. PICK b : b = (lt.trim_forced /\ lt.space_needed) BY Zenon
  <2>3. b \in BOOLEAN BY Zenon, <1>2, <2>2 DEF LogStates
  <2>4. lt' = [s EXCEPT !.trim_forced = FALSE, !.space_needed = b] BY Zenon, <2>1, <2>2 DEF TrimOk
  <2>5. s \in LogStates /\ s.pc = lt.pc /\ s.st = lt.st /\ s.i = 4 /\ s.mask = lt.mask
        /\ s.replay_wait = lt.replay_wait
    BY <1>2, <2>1, HandlerStates
  <2>6. /\ lt' \in LogStates /\ lt'.st = s.st /\ lt'.pc = s.pc /\ lt'.i = s.i /\ lt'.mask = s.mask
        /\ lt'.replay_wait = s.replay_wait
    BY ZenonT(40), <2>3, <2>4, <2>5, SetField
  <2> QED BY Zenon, <2>5, <2>6
<1>4. /\ QueuesOK' /\ SendersOK' /\ PlanOK' /\ WriterOK'
      /\ reqhead' \in [Types -> Seq(Threads)] /\ thr' \in [Threads -> ThreadStates]
      /\ work' \in [Queues -> Seq(Threads \cup {"log"})]
      /\ work'["TRIM"] = <<>>
      /\ \A t \in Threads : Replaying(t)' <=> Replaying(t)
  BY Zenon, <1>1, TrimTaken
<1>5. ReplayOwner' BY Zenon, <1>3, <1>4, ReplayKept DEF LogInv
<1>6. TrimOK'
  <2>1. Len(<<>>) <= 1 OBVIOUS
  <2> QED BY Zenon, <1>4, <2>1 DEF TrimOK, TrimOnce
<1>7. PassOK'
  <2>1. lt.pc = "pass" /\ lt.i \in 1..11 /\ lt.i <= 3 /\ lt.st # "stop"
    BY Zenon, <1>1, <1>2, Served, NotStopped
  <2>2. Index("RESUME") = 9 /\ Index("SUSPEND") = 8 BY Zenon, Handlers
  <2> QED BY <1>3, <2>1, <2>2 DEF LogInv, PassOK
<1>8. used' \in 0..LogRoom /\ lag' \in 0..1 /\ nlag' \in 0..MaxLag /\ RoomOK'
  <2>1. CASE used' \in 0..used - 1 /\ lag' = 0
    <3>1. LogRoom \in Nat /\ used \in 0..LogRoom /\ nlag \in 0..MaxLag
      BY Zenon, LogThreadAssumption DEF LogInv, TypeOK
    <3>2. nlag' = nlag BY Zenon, <1>1
    <3>3. used' \in 0..LogRoom /\ used' + 0 <= LogRoom BY Zenon, <2>1, <3>1, LessUsed
    <3>4. lag' \in 0..1 /\ nlag' \in 0..MaxLag BY <2>1, <3>1, <3>2
    <3>5. used' + lag' <= LogRoom BY Zenon, <2>1, <3>3
    <3> QED BY Zenon, <3>3, <3>4, <3>5 DEF RoomOK
  <2>2. CASE UNCHANGED <<used, lag>> BY Zenon, <1>1, <2>2, SameRoom
  <2> QED BY Zenon, <2>1, <2>2 DEF TrimOk
<1> QED BY ZenonT(40), <1>1, <1>3, <1>4, <1>5, <1>6, <1>7, <1>8, LogStepKeeps

\* A trim that fails ends the pass.
LEMMA TrimFailsKeeps ==
    ASSUME LogInv, TrimFails
    PROVE  LogInv'
<1>1. /\ Current("TRIM") /\ work' = [work EXCEPT !["TRIM"] = Tail(@)]
      /\ UNCHANGED <<reqhead, thr, meta, inside, plan, mnt, used, lag, nlag>>
  BY Zenon DEF TrimFails
<1>2. TypeOK /\ lt \in LogStates BY Zenon DEF LogInv, TypeOK
<1>3. /\ lt' \in LogStates /\ lt'.pc = "gather" /\ lt'.st # "stop" /\ lt'.mask = lt.mask
      /\ lt'.replay_wait = lt.replay_wait
  <2>1. PICK s : s = Stop BY Zenon
  <2>2. PICK b : b = (lt.trim_forced /\ lt.space_needed) OBVIOUS
  <2>3. b \in BOOLEAN BY Zenon, <1>2, <2>2 DEF LogStates
  <2>4. lt' = [s EXCEPT !.trim_forced = FALSE, !.space_needed = b] BY Zenon, <2>1, <2>2 DEF TrimFails
  <2>5. s \in LogStates /\ s.pc = "gather" /\ s.st # "stop" /\ s.mask = lt.mask
        /\ s.replay_wait = lt.replay_wait
    <3>1. lt.st # "stop" BY Zenon, <1>1, NotStopped, Handlers
    <3> QED BY Zenon, <1>2, <2>1, <3>1, HandlerStates
  <2> QED BY ZenonT(40), <2>3, <2>4, <2>5, SetField
<1>4. /\ QueuesOK' /\ SendersOK' /\ PlanOK' /\ WriterOK'
      /\ reqhead' \in [Types -> Seq(Threads)] /\ thr' \in [Threads -> ThreadStates]
      /\ work' \in [Queues -> Seq(Threads \cup {"log"})]
      /\ work'["TRIM"] = <<>>
      /\ \A t \in Threads : Replaying(t)' <=> Replaying(t)
  BY Zenon, <1>1, TrimTaken
<1>5. ReplayOwner' BY Zenon, <1>3, <1>4, ReplayKept DEF LogInv
<1>6. PassOK' /\ TrimOK'
  <2>1. Len(<<>>) <= 1 OBVIOUS
  <2> QED BY Zenon, <1>3, <1>4, <2>1, StopKeeps
<1>7. used' \in 0..LogRoom /\ lag' \in 0..1 /\ nlag' \in 0..MaxLag /\ RoomOK' BY Zenon, <1>1, SameRoom
<1> QED BY Zenon, <1>1, <1>3, <1>4, <1>5, <1>6, <1>7, LogStepKeeps

\* LOG_TRY_RESET_LOCK is answered, or left while a replay goes on.
LEMMA HandleTryResetLockKeeps ==
    ASSUME LogInv, HandleTryResetLock
    PROVE  LogInv'
<1>1. Current("RESET") /\ UNCHANGED <<reqhead, meta, inside, plan, mnt, used, lag, nlag>>
  BY Zenon DEF HandleTryResetLock
<1>2. TypeOK /\ "RESET" \in Types \ {"TRIM"} BY Zenon, Handlers DEF LogInv
<1>3. used' \in 0..LogRoom /\ lag' \in 0..1 /\ nlag' \in 0..MaxLag /\ RoomOK' BY Zenon, <1>1, SameRoom
<1>4. reqhead' \in [Types -> Seq(Threads)] BY Zenon, <1>1, <1>2 DEF TypeOK
<1>5. CASE lt.replay_wait
  <2>1. lt' = Stop /\ UNCHANGED <<work, thr>> BY Zenon, <1>5 DEF HandleTryResetLock
  <2>2. /\ lt' \in LogStates /\ lt'.pc = "gather" /\ lt'.st = lt.st /\ lt'.mask = lt.mask
        /\ lt'.replay_wait = lt.replay_wait
    BY Zenon, <1>2, <2>1, HandlerStates
  <2>3. QueuesOK' BY Zenon, <1>1, <2>1, QueuesKept DEF LogInv
  <2>4. SendersOK' /\ PlanOK' /\ WriterOK' BY Zenon, <1>1, <2>1, LogFrame DEF LogInv
  <2>5. \A t \in Threads : Replaying(t)' <=> Replaying(t) BY Zenon, <2>1 DEF Replaying
  <2>6. ReplayOwner' BY Zenon, <2>2, <2>5, ReplayKept DEF LogInv
  <2>7. Len(work'["TRIM"]) <= 1 BY Zenon, <2>1 DEF LogInv, TrimOK, TrimOnce
  <2>8. PassOK' /\ TrimOK' BY Zenon, <1>1, <1>2, <2>2, <2>7, NotStopped, StopKeeps
  <2>9. work' \in [Queues -> Seq(Threads \cup {"log"})] /\ thr' \in [Threads -> ThreadStates]
    BY Zenon, <1>2, <2>1 DEF TypeOK
  <2> QED BY Zenon, <1>1, <1>3, <1>4, <2>2, <2>3, <2>4, <2>6, <2>8, <2>9, LogStepKeeps
<1>6. CASE ~lt.replay_wait
  <2>1. lt' = Cont("RESET") /\ ReplyQueue("RESET", "ok") BY Zenon, <1>6 DEF HandleTryResetLock
  <2>2. /\ lt' \in LogStates /\ lt'.pc = lt.pc /\ lt'.st = lt.st /\ lt'.i = Index("RESET") + 1
        /\ lt'.mask = lt.mask /\ lt'.replay_wait = lt.replay_wait
    BY Zenon, <1>2, <2>1, HandlerStates
  <2>3. /\ thr' \in [Threads -> ThreadStates] /\ work' \in [Queues -> Seq(Threads \cup {"log"})]
        /\ work'["TRIM"] = work["TRIM"] /\ QueuesOK' /\ SendersOK' /\ PlanOK' /\ WriterOK'
        /\ \A t \in Threads : Replaying(t)' <=> Replaying(t)
    BY <1>1, <1>2, <2>1, QueueAnswered
  <2>4. ReplayOwner' BY Zenon, <2>2, <2>3, ReplayKept DEF LogInv
  <2>5. lt.pc = "pass" BY Zenon, <1>1 DEF Current
  <2>6. PassOK' /\ TrimOK' BY Zenon, <1>1, <1>2, <2>2, <2>3, <2>5, ContKeeps
  <2> QED BY Zenon, <1>1, <1>3, <1>4, <2>2, <2>3, <2>4, <2>6, LogStepKeeps
<1> QED BY Zenon, <1>5, <1>6

\* SUSPEND, RESUME and STOP change the state the later handlers are not admitted for.
LEMMA HandleStateKeeps ==
    ASSUME LogInv, NEW x \in {"SUSPEND", "RESUME", "STOP"}, HandleState(x)
    PROVE  LogInv'
<1>1. /\ Current(x) /\ ReplyQueue(x, "ok") /\ lt' = [Cont(x) EXCEPT !.st = NewState[x]]
      /\ UNCHANGED <<reqhead, meta, inside, plan, mnt, used, lag, nlag>>
  BY Zenon DEF HandleState
<1>2. TypeOK /\ x \in Types \ {"TRIM"} /\ x # "REPLAYDONE" BY Zenon, Handlers DEF LogInv
<1>3. used' \in 0..LogRoom /\ lag' \in 0..1 /\ nlag' \in 0..MaxLag /\ RoomOK' BY Zenon, <1>1, SameRoom
<1>4. reqhead' \in [Types -> Seq(Threads)] BY Zenon, <1>1, <1>2 DEF TypeOK
<1>5. /\ lt' \in LogStates /\ lt'.pc = lt.pc /\ lt'.st = NewState[x] /\ lt'.i = Index(x) + 1
      /\ lt'.mask = lt.mask /\ lt'.replay_wait = lt.replay_wait
  <2>1. PICK s : s = Cont(x) BY Zenon
  <2>2. PICK v : v = NewState[x] BY Zenon
  <2>3. v \in {"notloaded", "serving", "suspended", "stop"} BY <2>2 DEF NewState
  <2>4. lt' = [s EXCEPT !.st = v] BY Zenon, <1>1, <2>1, <2>2
  <2>5. s \in LogStates /\ s.pc = lt.pc /\ s.i = Index(x) + 1 /\ s.mask = lt.mask
        /\ s.replay_wait = lt.replay_wait
    BY Zenon, <1>2, <2>1, HandlerStates
  <2>6. lt' \in LogStates /\ lt'.st = v /\ lt'.pc = s.pc /\ lt'.i = s.i /\ lt'.mask = s.mask
        /\ lt'.replay_wait = s.replay_wait
    BY Zenon, <2>3, <2>4, <2>5 DEF LogStates
  <2> QED BY Zenon, <2>2, <2>5, <2>6
<1>6. /\ thr' \in [Threads -> ThreadStates] /\ work' \in [Queues -> Seq(Threads \cup {"log"})]
      /\ work'["TRIM"] = work["TRIM"] /\ QueuesOK' /\ SendersOK' /\ PlanOK' /\ WriterOK'
      /\ \A t \in Threads : Replaying(t)' <=> Replaying(t)
  BY Zenon, <1>1, <1>2, QueueAnswered
<1>7. ReplayOwner' BY Zenon, <1>5, <1>6, ReplayKept DEF LogInv
<1>8. PassOK'
  <2>1. /\ Index("RESUME") = 9 /\ Index("SUSPEND") = 8 /\ Index("STOP") = 10
    BY Zenon, Handlers
  <2>2. x = "SUSPEND" \/ x = "RESUME" \/ x = "STOP" BY Zenon
  <2>3. NewState["SUSPEND"] = "suspended" BY Zenon DEF NewState
  <2>4. NewState["RESUME"] # "stop" BY Zenon DEF NewState
  <2>5. /\ lt'.i > 8 /\ lt'.i # 1 /\ (lt'.i <= 9 => lt'.st = "suspended")
        /\ lt'.st = "stop" => lt'.i > 10
    BY <1>5, <2>1, <2>2, <2>3, <2>4
  <2>6. lt.pc = "pass" BY Zenon, <1>1 DEF Current
  <2> QED BY <1>5, <2>1, <2>5, <2>6 DEF LogInv, PassOK
<1>9. TrimOK'
  <2>1. /\ Index("TRIM") = 3 /\ Index(x) > 3 /\ lt.i \in 1..11 /\ lt.pc = "pass"
        /\ lt.i <= 3 => ~("TRIM" \in lt.mask /\ work["TRIM"] # <<>>)
    BY <1>1, <1>2, Served, Handlers
  <2> QED BY <1>5, <1>6, <2>1 DEF LogInv, TrimOK, TrimOnce
<1> QED BY Zenon, <1>1, <1>3, <1>4, <1>5, <1>6, <1>7, <1>8, <1>9, LogStepKeeps

\* A LOAD is the admin thread's, and nobody else runs.
LEMMA LoadAlone ==
    ASSUME LogInv, Current("LOAD")
    PROVE  /\ lt.pc = "pass" /\ lt.i = 1 /\ lt.st = "notloaded" /\ ~lt.replay_wait
           /\ Range(work["LOAD"]) = {Admin} /\ Len(work["LOAD"]) = 1
           /\ \A t \in Threads : ~Replaying(t)
<1>1. /\ TypeOK /\ QueuesOK /\ SendersOK /\ PlanOK /\ ReplayOwner /\ PassOK BY Zenon DEF LogInv
<1>2. "LOAD" \in Types \ {"TRIM"} /\ Index("LOAD") = 1 BY Zenon, Handlers
<1>3. /\ lt.pc = "pass" /\ "LOAD" \in lt.mask /\ work["LOAD"] # <<>> /\ lt.i \in 1..11 /\ lt.i <= 1
  BY Zenon, <1>1, <1>2, Served
<1>4. lt.i = 1 BY <1>3
<1>5. lt.st = "notloaded" BY Zenon, <1>1, <1>3, <1>4 DEF PassOK
<1>6. \A t \in Range(work["LOAD"]) : Waits(t, "LOAD") /\ t = Admin
  BY <1>1, <1>2 DEF QueuesOK, SendersOK, Waits
<1>7. /\ work["LOAD"] \in Seq(Threads \cup {"log"}) /\ IsInjective(work["LOAD"])
  BY Zenon, <1>1, <1>2, QueueTypes DEF QueuesOK
<1>8. Range(work["LOAD"]) = {Admin} /\ Len(work["LOAD"]) = 1
  <2>1. Range(work["LOAD"]) \subseteq {Admin} BY Zenon, <1>6
  <2> QED BY Zenon, <1>3, <1>7, <2>1, SingleQueue
<1>9. Waits(Admin, "LOAD") BY Zenon, <1>6, <1>8
<1>10. plan # <<>> /\ plan[1] = "LOAD" BY Zenon, <1>1, <1>9 DEF SendersOK, Waits
<1>11. 1 \in DOMAIN plan BY Zenon, <1>1, <1>10, PlanHead
<1>12. ~mnt.inited /\ thr[Poll].pc = "out" /\ thr[Bd].pc = "out" BY Zenon, <1>1, <1>10, <1>11 DEF PlanOK
<1>13. \A c \in Clients : thr[c].pc = "idle" BY Zenon, <1>1, <1>12 DEF PlanOK, SendersOK
<1>14. \A t \in Threads : ~Replaying(t)
  <2>1. \A t \in Threads : t \in Clients \/ t = Poll \/ t = Bd \/ t = Admin BY Zenon DEF Threads
  <2>2. ~Replaying(Admin) BY Zenon, <1>9 DEF Waits, Replaying
  <2>3. ~Replaying(Poll) /\ ~Replaying(Bd) BY Zenon, <1>12 DEF Replaying
  <2>4. \A c \in Clients : ~Replaying(c) BY Zenon, <1>13 DEF Replaying
  <2> QED BY Zenon, <2>1, <2>2, <2>3, <2>4
<1>15. ~lt.replay_wait BY Zenon, <1>1, <1>14 DEF ReplayOwner, Replayers
<1> QED BY Zenon, <1>3, <1>4, <1>5, <1>8, <1>14, <1>15

\* The log is loaded, or its entries are handed to the admin thread.
LEMMA HandleLoadKeeps ==
    ASSUME LogInv, HandleLoad
    PROVE  LogInv'
<1>1. Current("LOAD") /\ UNCHANGED <<reqhead, meta, inside, plan, mnt, nlag>> BY Zenon DEF HandleLoad
<1>2. TypeOK /\ "LOAD" \in Types \ {"TRIM"} /\ Index("LOAD") = 1 BY Zenon, Handlers DEF LogInv
<1>3. /\ lt.pc = "pass" /\ lt.i = 1 /\ lt.st = "notloaded" /\ ~lt.replay_wait
      /\ Range(work["LOAD"]) = {Admin} /\ \A t \in Threads : ~Replaying(t)
  BY Zenon, <1>1, LoadAlone
<1>4. reqhead' \in [Types -> Seq(Threads)] BY Zenon, <1>1, <1>2 DEF TypeOK
<1>5. CASE ReplyQueue("LOAD", "error") /\ lt' = Stop /\ UNCHANGED <<used, lag>>
  <2>1. /\ lt' \in LogStates /\ lt'.pc = "gather" /\ lt'.st = "notloaded" /\ lt'.mask = lt.mask
        /\ lt'.replay_wait = lt.replay_wait
    BY Zenon, <1>2, <1>3, <1>5, HandlerStates
  <2>2. /\ thr' \in [Threads -> ThreadStates] /\ work' \in [Queues -> Seq(Threads \cup {"log"})]
        /\ work'["TRIM"] = work["TRIM"] /\ QueuesOK' /\ SendersOK' /\ PlanOK' /\ WriterOK'
        /\ \A t \in Threads : Replaying(t)' <=> Replaying(t)
    BY <1>1, <1>2, <1>5, QueueAnswered
  <2>3. ReplayOwner' BY Zenon, <2>1, <2>2, ReplayKept DEF LogInv
  <2>4. Len(work'["TRIM"]) <= 1 BY Zenon, <2>2 DEF LogInv, TrimOK, TrimOnce
  <2>5. PassOK' /\ TrimOK' BY Zenon, <2>1, <2>4, StopKeeps
  <2>6. used' \in 0..LogRoom /\ lag' \in 0..1 /\ nlag' \in 0..MaxLag /\ RoomOK'
    BY Zenon, <1>1, <1>5, SameRoom
  <2> QED BY Zenon, <1>1, <1>4, <2>1, <2>2, <2>3, <2>5, <2>6, LogStepKeeps
<1>6. CASE /\ used' = used + lag /\ lag' = 0
           /\ ReplyQueue("LOAD", "ok") /\ lt' = [Cont("LOAD") EXCEPT !.st = "serving"]
  <2>1. /\ lt' \in LogStates /\ lt'.pc = lt.pc /\ lt'.st = "serving" /\ lt'.i = 2
        /\ lt'.mask = lt.mask /\ lt'.replay_wait = lt.replay_wait
    <3>1. PICK s : s = Cont("LOAD") BY Zenon
    <3>2. lt' = [s EXCEPT !.st = "serving"] BY Zenon, <1>6, <3>1
    <3>3. s \in LogStates /\ s.pc = lt.pc /\ s.i = 2 /\ s.mask = lt.mask
          /\ s.replay_wait = lt.replay_wait
      BY <1>2, <3>1, HandlerStates
    <3>4. lt' \in LogStates /\ lt'.st = "serving" /\ lt'.pc = s.pc /\ lt'.i = s.i /\ lt'.mask = s.mask
          /\ lt'.replay_wait = s.replay_wait
      BY Zenon, <3>2, <3>3 DEF LogStates
    <3> QED BY Zenon, <3>3, <3>4
  <2>2. /\ thr' \in [Threads -> ThreadStates] /\ work' \in [Queues -> Seq(Threads \cup {"log"})]
        /\ work'["TRIM"] = work["TRIM"] /\ QueuesOK' /\ SendersOK' /\ PlanOK' /\ WriterOK'
        /\ \A t \in Threads : Replaying(t)' <=> Replaying(t)
    BY <1>1, <1>2, <1>6, QueueAnswered
  <2>3. ReplayOwner' BY Zenon, <2>1, <2>2, ReplayKept DEF LogInv
  <2>4. PassOK'
    <3>1. Index("RESUME") = 9 /\ Index("SUSPEND") = 8 BY Handlers
    <3> QED BY <1>3, <2>1, <3>1 DEF LogInv, PassOK
  <2>5. TrimOK'
    <3>1. Index("TRIM") = 3 BY Zenon, Handlers
    <3> QED BY <2>1, <2>2, <3>1 DEF LogInv, TrimOK, TrimOnce
  <2>6. used' \in 0..LogRoom /\ lag' \in 0..1 /\ nlag' \in 0..MaxLag /\ RoomOK'
    BY Zenon, <1>1, <1>6, LagTaken
  <2> QED BY Zenon, <1>1, <1>4, <2>1, <2>2, <2>3, <2>4, <2>5, <2>6, LogStepKeeps
<1>7. CASE /\ used' = used + lag /\ lag' = 0
           /\ ReplyQueue("LOAD", "new") /\ lt' = [Cont("LOAD") EXCEPT !.replay_wait = TRUE]
  <2>1. /\ lt' \in LogStates /\ lt'.pc = lt.pc /\ lt'.st = lt.st /\ lt'.i = 2
        /\ lt'.mask = lt.mask /\ lt'.replay_wait = TRUE
    <3>1. PICK s : s = Cont("LOAD") OBVIOUS
    <3>2. lt' = [s EXCEPT !.replay_wait = TRUE] BY Zenon, <1>7, <3>1
    <3>3. s \in LogStates /\ s.pc = lt.pc /\ s.st = lt.st /\ s.i = 2 /\ s.mask = lt.mask
      BY <1>2, <3>1, HandlerStates
    <3>4. lt' \in LogStates /\ lt'.st = s.st /\ lt'.pc = s.pc /\ lt'.i = s.i /\ lt'.mask = s.mask
          /\ lt'.replay_wait = TRUE
      BY Zenon, <3>2, <3>3 DEF LogStates
    <3> QED BY Zenon, <3>3, <3>4
  <2>2. /\ thr' \in [Threads -> ThreadStates] /\ work' \in [Queues -> Seq(Threads \cup {"log"})]
        /\ work'["TRIM"] = work["TRIM"] /\ QueuesOK' /\ SendersOK' /\ PlanOK' /\ WriterOK'
        /\ \A t \in Threads : t \notin Range(work["LOAD"]) => thr'[t] = thr[t]
        /\ \A t \in Threads : t \in Range(work["LOAD"]) => thr'[t].pc = "got" /\ thr'[t].reply = "new"
    BY Zenon, <1>1, <1>2, <1>7, QueueAnswered
  <2>3. ReplayOwner'
    <3>1. Admin \in Threads BY Zenon, Distinct
    <3>2. \A t \in Threads : Replaying(t)' <=> t = Admin BY ZenonT(40), <1>3, <2>2, <3>1 DEF Replaying
    <3>3. Replayers' = {Admin} BY Zenon, <3>1, <3>2 DEF Replayers
    <3> QED BY Zenon, <2>1, <3>1, <3>3 DEF ReplayOwner
  <2>4. PassOK'
    <3>1. Index("RESUME") = 9 /\ Index("SUSPEND") = 8 BY Handlers
    <3> QED BY <1>3, <2>1, <3>1 DEF LogInv, PassOK
  <2>5. TrimOK'
    <3>1. Index("TRIM") = 3 BY Handlers
    <3> QED BY ZenonT(40), <2>1, <2>2, <3>1 DEF LogInv, TrimOK, TrimOnce
  <2>6. used' \in 0..LogRoom /\ lag' \in 0..1 /\ nlag' \in 0..MaxLag /\ RoomOK'
    BY Zenon, <1>1, <1>7, LagTaken
  <2> QED BY ZenonT(40), <1>1, <1>4, <2>1, <2>2, <2>3, <2>4, <2>5, <2>6, LogStepKeeps
<1> QED BY Zenon, <1>5, <1>6, <1>7 DEF HandleLoad

\* A REPLAYDONE is of the one thread that replays.
LEMMA ReplayerDone ==
    ASSUME LogInv, Current("REPLAYDONE")
    PROVE  /\ lt.pc = "pass" /\ lt.i \in 1..2 /\ lt.replay_wait /\ Len(work["REPLAYDONE"]) = 1
           /\ \E u \in Threads : /\ Range(work["REPLAYDONE"]) = {u}
                                 /\ \A t \in Threads : Replaying(t) <=> t = u
<1>1. /\ TypeOK /\ QueuesOK /\ ReplayOwner BY Zenon DEF LogInv
<1>2. "REPLAYDONE" \in Types \ {"TRIM"} /\ Index("REPLAYDONE") = 2 BY Zenon, Handlers
<1>3. lt.pc = "pass" /\ work["REPLAYDONE"] # <<>> /\ lt.i \in 1..11 /\ lt.i <= 2 BY Zenon, <1>1, <1>2, Served
<1>4. \A t \in Range(work["REPLAYDONE"]) : t \in Threads /\ Replaying(t)
  BY <1>1, <1>2 DEF QueuesOK, Waits, Replaying
<1>5. /\ work["REPLAYDONE"] \in Seq(Threads \cup {"log"}) /\ IsInjective(work["REPLAYDONE"])
  BY Zenon, <1>1, <1>2, QueueTypes DEF QueuesOK
<1>6. Range(work["REPLAYDONE"]) # {} BY Zenon, <1>3, <1>5, EmptyQueue
<1>7. Replayers # {} BY Zenon, <1>4, <1>6 DEF Replayers
<1>8. lt.replay_wait BY Zenon, <1>1, <1>7 DEF ReplayOwner
<1>9. PICK u \in Threads : Replayers = {u} BY Zenon, <1>1, <1>8 DEF ReplayOwner
<1>10. Range(work["REPLAYDONE"]) \subseteq {u} BY Zenon, <1>4, <1>9 DEF Replayers
<1>11. Range(work["REPLAYDONE"]) = {u} /\ Len(work["REPLAYDONE"]) = 1
  BY Zenon, <1>3, <1>5, <1>10, SingleQueue
<1>12. \A t \in Threads : Replaying(t) <=> t = u BY Zenon, <1>9 DEF Replayers
<1>13. lt.i \in 1..2 BY <1>3
<1> QED BY Zenon, <1>3, <1>8, <1>11, <1>12, <1>13

\* The replay is over, for the replayer and for the polls that waited for it.
LEMMA HandleReplaydoneKeeps ==
    ASSUME LogInv, HandleReplaydone
    PROVE  LogInv'
<1>1. Current("REPLAYDONE") /\ UNCHANGED <<reqhead, meta, inside, plan, mnt, used, lag, nlag>>
  BY Zenon DEF HandleReplaydone
<1>2. TypeOK /\ "REPLAYDONE" \in Types /\ Index("REPLAYDONE") = 2 BY Zenon, Handlers DEF LogInv
<1>3. lt.pc = "pass" /\ lt.i \in 1..2 /\ lt.st # "stop" BY Zenon, <1>1, <1>2, ReplayerDone, NotStopped
<1>4. PICK u \in Threads : /\ Range(work["REPLAYDONE"]) = {u}
                           /\ \A t \in Threads : Replaying(t) <=> t = u
  BY Zenon, <1>1, ReplayerDone
<1>5. reqhead' \in [Types -> Seq(Threads)] BY Zenon, <1>1, <1>2 DEF TypeOK
<1>6. PICK X : X = {"REPLAYDONE", "REPLAY_WAIT"} BY Zenon
<1>7. PICK ts : ts = Range(work["REPLAYDONE"]) \cup Range(work["REPLAY_WAIT"]) BY Zenon
<1>8. Clears(X, ts, "ok")
  <2>1. X \subseteq Queues \ {"TRIM"} BY Zenon, <1>2, <1>6 DEF Queues
  <2>2. \A t : t \in ts <=> \E q \in X : t \in Range(work[q]) BY Zenon, <1>6, <1>7
  <2>3. Reply(ts, "ok") BY Zenon, <1>7 DEF HandleReplaydone
  <2>4. work' = [q \in Queues |-> IF q \in X THEN <<>> ELSE work[q]]
    BY Zenon, <1>2, <1>6 DEF HandleReplaydone, TypeOK, Queues
  <2> QED BY ZenonT(40), <1>1, <2>1, <2>2, <2>3, <2>4 DEF Clears
<1>9. /\ thr' \in [Threads -> ThreadStates] /\ work' \in [Queues -> Seq(Threads \cup {"log"})]
      /\ work'["TRIM"] = work["TRIM"] /\ QueuesOK' /\ SendersOK' /\ PlanOK' /\ WriterOK'
      /\ \A t \in Threads : t \notin ts => thr'[t] = thr[t]
      /\ \A t \in Threads : t \in ts => thr'[t].pc = "got" /\ thr'[t].reply = "ok"
  BY <1>8, Cleared
<1>10. /\ lt' \in LogStates /\ lt'.pc = lt.pc /\ lt'.i = 3 /\ lt'.mask = lt.mask
       /\ lt'.replay_wait = FALSE /\ lt'.st = IF lt.st = "notloaded" THEN "serving" ELSE lt.st
  <2>1. PICK s : s = Cont("REPLAYDONE") BY Zenon
  <2>2. s \in LogStates /\ s.pc = lt.pc /\ s.st = lt.st /\ s.i = 3 /\ s.mask = lt.mask
    BY <1>2, <2>1, HandlerStates
  <2>3. PICK v : v = IF s.st = "notloaded" THEN "serving" ELSE s.st BY Zenon
  <2>4. lt' = [s EXCEPT !.replay_wait = FALSE, !.st = v]
    <3>1. s = [pc |-> s.pc, st |-> s.st, i |-> s.i, mask |-> s.mask, replay_wait |-> s.replay_wait,
               space_needed |-> s.space_needed, trim_forced |-> s.trim_forced]
      BY Zenon, <2>2 DEF LogStates
    <3> QED BY Zenon, <2>1, <2>2, <2>3, <3>1 DEF HandleReplaydone
  <2>5. v \in {"notloaded", "serving", "suspended", "stop"} BY Zenon, <2>2, <2>3 DEF LogStates
  <2>6. lt' \in LogStates /\ lt'.st = v /\ lt'.pc = s.pc /\ lt'.i = s.i /\ lt'.mask = s.mask
        /\ lt'.replay_wait = FALSE
    BY Zenon, <2>2, <2>4, <2>5 DEF LogStates
  <2> QED BY Zenon, <2>2, <2>3, <2>6
<1>11. ReplayOwner'
  <2>1. \A t \in Threads : ~Replaying(t)' BY ZenonT(40), <1>4, <1>7, <1>9 DEF Replaying
  <2>2. Replayers' = {} BY Zenon, <2>1 DEF Replayers
  <2> QED BY Zenon, <1>10, <2>2 DEF ReplayOwner
<1>12. PassOK'
  <2>1. Index("RESUME") = 9 /\ Index("SUSPEND") = 8 BY Zenon, Handlers
  <2> QED BY <1>3, <1>10, <2>1 DEF LogInv, PassOK
<1>13. TrimOK'
  <2>1. Index("TRIM") = 3 BY Zenon, Handlers
  <2> QED BY <1>9, <1>10, <2>1 DEF LogInv, TrimOK, TrimOnce
<1>14. used' \in 0..LogRoom /\ lag' \in 0..1 /\ nlag' \in 0..MaxLag /\ RoomOK' BY Zenon, <1>1, SameRoom
<1> QED BY ZenonT(40), <1>1, <1>5, <1>9, <1>10, <1>11, <1>12, <1>13, <1>14, LogStepKeeps

\* A queue is answered and the pass ends.
LEMMA AnsweredStop ==
    ASSUME LogInv, NEW x \in Types \ {"TRIM", "REPLAYDONE"}, NEW r \in {"ok", "again", "error"},
           Current(x), ReplyQueue(x, r), lt' = Stop, UNCHANGED <<reqhead, meta, inside, plan, mnt>>,
           used' \in 0..LogRoom, lag' \in 0..1, nlag' \in 0..MaxLag, RoomOK'
    PROVE  LogInv'
<1>1. /\ lt' \in LogStates /\ lt'.pc = "gather" /\ lt'.st # "stop" /\ lt'.mask = lt.mask
      /\ lt'.replay_wait = lt.replay_wait
  BY Zenon, HandlerStates, NotStopped DEF LogInv
<1>2. /\ thr' \in [Threads -> ThreadStates] /\ work' \in [Queues -> Seq(Threads \cup {"log"})]
      /\ work'["TRIM"] = work["TRIM"] /\ QueuesOK' /\ SendersOK' /\ PlanOK' /\ WriterOK'
      /\ \A t \in Threads : Replaying(t)' <=> Replaying(t)
  BY QueueAnswered
<1>3. ReplayOwner' BY Zenon, <1>1, <1>2, ReplayKept DEF LogInv
<1>4. Len(work'["TRIM"]) <= 1 BY Zenon, <1>2 DEF LogInv, TrimOK, TrimOnce
<1>5. PassOK' /\ TrimOK' BY Zenon, <1>1, <1>4, StopKeeps
<1>6. reqhead' \in [Types -> Seq(Threads)] BY Zenon DEF LogInv, TypeOK
<1> QED BY Zenon, <1>1, <1>2, <1>3, <1>5, <1>6, LogStepKeeps

\* A queue is answered and the pass goes on.
LEMMA AnsweredCont ==
    ASSUME LogInv, NEW x \in Types \ {"TRIM", "REPLAYDONE"}, NEW r \in {"ok", "again", "error"},
           Current(x), ReplyQueue(x, r), lt' = Cont(x),
           UNCHANGED <<reqhead, meta, inside, plan, mnt>>,
           used' \in 0..LogRoom, lag' \in 0..1, nlag' \in 0..MaxLag, RoomOK'
    PROVE  LogInv'
<1>1. /\ lt' \in LogStates /\ lt'.pc = lt.pc /\ lt'.st = lt.st /\ lt'.i = Index(x) + 1
      /\ lt'.mask = lt.mask /\ lt'.replay_wait = lt.replay_wait
  BY Zenon, HandlerStates DEF LogInv
<1>2. /\ thr' \in [Threads -> ThreadStates] /\ work' \in [Queues -> Seq(Threads \cup {"log"})]
      /\ work'["TRIM"] = work["TRIM"] /\ QueuesOK' /\ SendersOK' /\ PlanOK' /\ WriterOK'
      /\ \A t \in Threads : Replaying(t)' <=> Replaying(t)
  BY QueueAnswered
<1>3. ReplayOwner' BY Zenon, <1>1, <1>2, ReplayKept DEF LogInv
<1>4. lt.pc = "pass" BY Zenon DEF Current
<1>5. PassOK' /\ TrimOK' BY ZenonT(40), <1>1, <1>2, <1>4, ContKeeps
<1>6. reqhead' \in [Types -> Seq(Threads)] BY Zenon DEF LogInv, TypeOK
<1> QED BY Zenon, <1>1, <1>2, <1>3, <1>5, <1>6, LogStepKeeps
=============================================================================
