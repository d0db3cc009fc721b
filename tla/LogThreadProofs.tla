-------------------------- MODULE LogThreadProofs --------------------------
(***************************************************************************)
(* The polls, writes and flushes of the log thread, and Gather, keep the    *)
(* inductive invariant of LogThread.  With LogThreadCallers and             *)
(* LogThreadHandlers this proves LogInv, and from it the three safety       *)
(* properties.                                                              *)
(***************************************************************************)
EXTENDS LogThreadHandlers

\* The queues when the first poll gets the new entries.
LEMMA PollQueues ==
    ASSUME LogInv, Current("POLL"), PollNew, reqhead' = reqhead
    PROVE  /\ QueuesOK' /\ work' \in [Queues -> Seq(Threads \cup {"log"})]
           /\ work'["TRIM"] = work["TRIM"]
           /\ thr' \in [Threads -> ThreadStates]
           /\ \E h \in Threads :
                /\ thr[h].pc = "wait"
                /\ thr'[h].pc = "got" /\ thr'[h].reply = "new" /\ thr'[h].req = thr[h].req
                /\ \A t \in Threads : t # h =>
                     \/ thr'[t] = thr[t]
                     \/ /\ thr[t].pc = "wait" /\ thr'[t].pc = "got" /\ thr'[t].reply = "again"
                        /\ thr'[t].req = thr[t].req
<1> DEFINE W == Threads \cup {"log"}
<1>1. TypeOK /\ QueuesOK /\ SendersOK BY Zenon DEF LogInv
<1>2. /\ "POLL" \in Types \ {"TRIM"} /\ "WRITE" \in Types \ {"TRIM"} /\ "TRIM" \in Types
      /\ "POLL" \in Queues \ {"TRIM"} /\ "WRITE" \in Queues \ {"TRIM"}
      /\ "REPLAY_WAIT" \in Queues \ {"TRIM"} /\ "TRIM" \in Queues /\ "REPLAY_WAIT" \notin Types
      /\ "POLL" # "WRITE"
  BY Zenon, Handlers DEF Queues
<1>3. work["POLL"] # <<>> BY Zenon, <1>1, <1>2, Served
<1>4. work["POLL"] \in Seq(W) /\ work["REPLAY_WAIT"] \in Seq(W) /\ \A q \in Queues : work[q] \in Seq(W)
  BY Zenon, <1>1, <1>2, QueueTypes
<1>5. IsInjective(work["POLL"]) /\ IsInjective(work["REPLAY_WAIT"]) BY Zenon, <1>1, <1>2 DEF QueuesOK
<1>6. PICK h : h = Head(work["POLL"]) BY Zenon
<1>7. PICK tl : tl = Tail(work["POLL"]) BY Zenon
<1>8. /\ h \in Range(work["POLL"]) /\ tl \in Seq(W) /\ Range(tl) \subseteq Range(work["POLL"])
      /\ IsInjective(tl) /\ h \notin Range(tl)
  BY Zenon, <1>3, <1>4, <1>5, <1>6, <1>7, TailQueue
<1>9. /\ \A p, q \in Queues \ {"TRIM"} : p # q => Range(work[p]) \cap Range(work[q]) = {}
      /\ \A x \in Types : \A q \in Queues \ {"TRIM"} : Range(reqhead[x]) \cap Range(work[q]) = {}
      /\ \A t \in Range(work["POLL"]) \cup Range(work["WRITE"]) : t \in Threads /\ thr[t].pc = "wait"
  BY Zenon, <1>1, <1>2, Apart
<1>10. PICK rw : rw = work["REPLAY_WAIT"] \o tl BY Zenon
<1>11. rw \in Seq(W) /\ Range(rw) = Range(work["REPLAY_WAIT"]) \cup Range(tl) /\ IsInjective(rw)
  <2>1. Range(work["REPLAY_WAIT"]) \cap Range(work["POLL"]) = {} BY Zenon, <1>2, <1>9
  <2>2. Range(work["REPLAY_WAIT"]) \cap Range(tl) = {} BY Zenon, <1>8, <2>1
  <2> QED BY <1>4, <1>5, <1>8, <1>10, <2>2, ConcatQueues
<1>12. /\ work'["POLL"] = <<>> /\ work'["WRITE"] = <<>> /\ work'["REPLAY_WAIT"] = rw
       /\ \A q \in Queues \ {"POLL", "WRITE", "REPLAY_WAIT"} : work'[q] = work[q]
       /\ work' = [q \in Queues |-> work'[q]]
  <2>1. work' = [work EXCEPT !["POLL"] = <<>>, !["WRITE"] = <<>>, !["REPLAY_WAIT"] = @ \o tl]
    BY Zenon, <1>7 DEF PollNew
  <2> QED BY Zenon, <1>1, <1>2, <1>10, <2>1 DEF TypeOK
<1>13. <<>> \in Seq(W) /\ Range(<<>>) = {} /\ IsInjective(<<>>) BY Zenon, <1>4, EmptyQueue
<1>14. work' \in [Queues -> Seq(W)]
  <2>1. \A q \in Queues : work'[q] \in Seq(W) BY Zenon, <1>4, <1>11, <1>12, <1>13
  <2> QED BY Zenon, <1>12, <2>1
<1>15. PICK ts : ts = {h} \cup Range(work["WRITE"]) BY Zenon
<1>16. h \in Threads /\ h \notin Range(work["WRITE"])
  <2>1. Range(work["POLL"]) \cap Range(work["WRITE"]) = {} BY Zenon, <1>2, <1>9
  <2> QED BY Zenon, <1>8, <1>9, <2>1
<1>17. /\ thr' = [t \in Threads |-> CASE t \in {h} -> Answer(thr[t], "new")
                                      [] t \in Range(work["WRITE"]) -> Answer(thr[t], "again")
                                      [] OTHER -> thr[t]]
  BY <1>6 DEF PollNew
<1>18. /\ thr'[h] = Answer(thr[h], "new")
       /\ \A t \in Threads : t \in Range(work["WRITE"]) => thr'[t] = Answer(thr[t], "again")
       /\ \A t \in Threads : t \notin ts => thr'[t] = thr[t]
  BY Zenon, <1>15, <1>16, <1>17
<1>19. \A t \in Threads : thr[t] \in ThreadStates BY Zenon, <1>1 DEF TypeOK
<1>20. /\ thr'[h] \in ThreadStates
       /\ thr'[h].pc = "got" /\ thr'[h].reply = "new" /\ thr'[h].req = thr[h].req
  BY <1>16, <1>18, <1>19, AnswerState
<1>21. \A t \in Threads : t \in Range(work["WRITE"]) =>
         /\ thr'[t] \in ThreadStates
         /\ thr'[t].pc = "got" /\ thr'[t].reply = "again" /\ thr'[t].req = thr[t].req
  BY <1>18, <1>19, AnswerState
<1>22. thr' \in [Threads -> ThreadStates]
  <2>1. \A t \in Threads : thr'[t] \in ThreadStates BY Zenon, <1>15, <1>18, <1>19, <1>20, <1>21
  <2>2. thr' = [t \in Threads |-> thr'[t]] BY <1>17
  <2> QED BY Zenon, <2>1, <2>2
<1>23. QueuesOK'
  <2>1. \A y \in Types : Range(reqhead[y]) \cap ts = {}
    <3> TAKE y \in Types
    <3>1. /\ Range(reqhead[y]) \cap Range(work["POLL"]) = {}
          /\ Range(reqhead[y]) \cap Range(work["WRITE"]) = {}
      BY Zenon, <1>2, <1>9
    <3> QED BY Zenon, <1>8, <1>15, <3>1
  <2>2. \A q \in Queues \ {"TRIM"} : IsInjective(work'[q])
    <3>1. \A q \in Queues \ {"TRIM"} : IsInjective(work[q]) BY Zenon, <1>1 DEF QueuesOK
    <3> QED BY Zenon, <1>11, <1>12, <1>13, <3>1
  <2>3. Range(rw) \cap ts = {}
    <3>1. /\ Range(work["REPLAY_WAIT"]) \cap Range(work["POLL"]) = {}
          /\ Range(work["REPLAY_WAIT"]) \cap Range(work["WRITE"]) = {}
          /\ Range(work["POLL"]) \cap Range(work["WRITE"]) = {}
      BY Zenon, <1>2, <1>9
    <3> QED BY Zenon, <1>8, <1>11, <1>15, <3>1
  <2>4. \A q \in Queues \ {"TRIM"} : Range(work'[q]) \cap ts = {}
    <3> TAKE q \in Queues \ {"TRIM"}
    <3>1. CASE q \in {"POLL", "WRITE"} BY Zenon, <1>12, <1>13, <3>1
    <3>2. CASE q = "REPLAY_WAIT" BY Zenon, <1>12, <2>3, <3>2
    <3>3. CASE q \notin {"POLL", "WRITE", "REPLAY_WAIT"}
      <4>1. Range(work[q]) \cap Range(work["POLL"]) = {} /\ Range(work[q]) \cap Range(work["WRITE"]) = {}
        BY Zenon, <1>2, <1>9, <3>3
      <4> QED BY Zenon, <1>8, <1>12, <1>15, <3>3, <4>1
    <3> QED BY Zenon, <3>1, <3>2, <3>3
  <2>5. \A y \in Types \ {"TRIM"} : Range(work'[y]) \subseteq Range(work[y])
    <3>1. \A y \in Types : y \in Queues BY Zenon DEF Queues
    <3> QED BY Zenon, <1>2, <1>12, <1>13, <3>1
  <2>6. Range(work'["REPLAY_WAIT"]) \subseteq Range(work["REPLAY_WAIT"]) \cup Range(work["POLL"])
    BY Zenon, <1>8, <1>11, <1>12
  <2>7. Range(work'["REPLAY_WAIT"]) \cap Range(work'["POLL"]) = {} BY Zenon, <1>12, <1>13
  <2>8. \A q \in Queues \ {"TRIM"} : IsInjective(work'[q]) /\ Range(work'[q]) \cap ts = {} BY Zenon, <2>2, <2>4
  <2>9. \A t \in Threads : t \notin ts => thr'[t] = thr[t] BY Zenon, <1>18
  <2> QED BY Zenon, <1>1, <2>1, <2>5, <2>6, <2>7, <2>8, <2>9, Answering
<1>24. work'["TRIM"] = work["TRIM"] BY Zenon, <1>2, <1>12
<1>25. \A t \in Threads : t # h => \/ thr'[t] = thr[t]
                                   \/ /\ thr[t].pc = "wait" /\ thr'[t].pc = "got"
                                      /\ thr'[t].reply = "again" /\ thr'[t].req = thr[t].req
  BY Zenon, <1>9, <1>15, <1>18, <1>21
<1>26. thr[h].pc = "wait" BY Zenon, <1>8, <1>9
<1> QED BY ZenonT(40), <1>14, <1>16, <1>20, <1>22, <1>23, <1>24, <1>25, <1>26

\* The polls are answered, or the first of them becomes the replayer.
LEMMA HandlePollKeeps ==
    ASSUME LogInv, HandlePoll
    PROVE  LogInv'
<1>1. Current("POLL") /\ ~lt.replay_wait /\ UNCHANGED <<reqhead, meta, inside, plan, mnt, nlag>>
  BY Zenon DEF HandlePoll
<1>2. TypeOK /\ "POLL" \in Types \ {"TRIM", "REPLAYDONE"} /\ Index("POLL") = 4 BY Zenon, Handlers DEF LogInv
<1>3. CASE ReplyQueue("POLL", "error") /\ lt' = Stop /\ UNCHANGED <<used, lag>>
  <2>1. used' \in 0..LogRoom /\ lag' \in 0..1 /\ nlag' \in 0..MaxLag /\ RoomOK' BY Zenon, <1>1, <1>3, SameRoom
  <2> QED BY Zenon, <1>1, <1>2, <1>3, <2>1, AnsweredStop
<1>4. CASE ReplyQueue("POLL", "ok") /\ lt' = Cont("POLL") /\ UNCHANGED <<used, lag>>
  <2>1. used' \in 0..LogRoom /\ lag' \in 0..1 /\ nlag' \in 0..MaxLag /\ RoomOK' BY Zenon, <1>1, <1>4, SameRoom
  <2> QED BY Zenon, <1>1, <1>2, <1>4, <2>1, AnsweredCont
<1>5. CASE PollNew
  <2>1. /\ QueuesOK' /\ work' \in [Queues -> Seq(Threads \cup {"log"})]
        /\ work'["TRIM"] = work["TRIM"] /\ thr' \in [Threads -> ThreadStates]
    BY Zenon, <1>1, <1>5, PollQueues
  <2>2. PICK h \in Threads :
           /\ thr[h].pc = "wait"
           /\ thr'[h].pc = "got" /\ thr'[h].reply = "new" /\ thr'[h].req = thr[h].req
           /\ \A t \in Threads : t # h =>
                \/ thr'[t] = thr[t]
                \/ /\ thr[t].pc = "wait" /\ thr'[t].pc = "got" /\ thr'[t].reply = "again"
                   /\ thr'[t].req = thr[t].req
    BY Zenon, <1>1, <1>5, PollQueues
  <2>3. SendersOK' /\ PlanOK' /\ WriterOK'
    <3>1. \A t \in Threads : \/ thr'[t] = thr[t]
                             \/ /\ thr[t].pc = "wait" /\ thr'[t].pc = "got"
                                /\ thr'[t].req = thr[t].req
      BY Zenon, <2>2
    <3> QED BY Zenon, <1>1, <3>1, LogFrame DEF LogInv
  <2>4. /\ lt' \in LogStates /\ lt'.pc = lt.pc /\ lt'.st = lt.st /\ lt'.i = Index("POLL") + 1
        /\ lt'.mask = lt.mask /\ lt'.replay_wait = TRUE
    <3>1. PICK s : s = Cont("POLL") BY Zenon
    <3>2. lt' = [s EXCEPT !.replay_wait = TRUE] BY Zenon, <1>5, <3>1 DEF PollNew
    <3>3. s \in LogStates /\ s.pc = lt.pc /\ s.st = lt.st /\ s.i = Index("POLL") + 1 /\ s.mask = lt.mask
      BY Zenon, <1>2, <3>1, HandlerStates
    <3>4. lt' \in LogStates /\ lt'.st = s.st /\ lt'.pc = s.pc /\ lt'.i = s.i /\ lt'.mask = s.mask
          /\ lt'.replay_wait = TRUE
      BY Zenon, <3>2, <3>3 DEF LogStates
    <3> QED BY Zenon, <3>3, <3>4
  <2>5. ReplayOwner'
    <3>1. \A t \in Threads : ~Replaying(t) BY Zenon, <1>1 DEF LogInv, ReplayOwner, Replayers
    <3>2. \A t \in Threads : Replaying(t)' <=> t = h BY Zenon, <2>2, <3>1 DEF Replaying
    <3>3. Replayers' = {h} BY Zenon, <3>2 DEF Replayers
    <3> QED BY Zenon, <2>4, <3>3 DEF ReplayOwner
  <2>6. PassOK' /\ TrimOK'
    <3>1. lt.pc = "pass" BY Zenon, <1>1 DEF Current
    <3> QED BY Zenon, <1>1, <1>2, <2>1, <2>4, <3>1, ContKeeps
  <2>7. used' \in 0..LogRoom /\ lag' \in 0..1 /\ nlag' \in 0..MaxLag /\ RoomOK'
    BY Zenon, <1>1, <1>5, LagTaken DEF PollNew
  <2>8. reqhead' \in [Types -> Seq(Threads)] BY Zenon, <1>1, <1>2 DEF TypeOK
  <2> QED BY ZenonT(40), <1>1, <2>1, <2>3, <2>4, <2>5, <2>6, <2>7, <2>8, LogStepKeeps
<1> QED BY Zenon, <1>3, <1>4, <1>5 DEF HandlePoll

\* A write or a flush is served by a log that is serving, and TRIM is admitted
\* with them: the pass may go back to it.
LEMMA BackKeeps ==
    ASSUME LogInv, NEW x \in {"WRITE", "FLUSH"}, Current(x),
           lt'.pc = lt.pc, lt'.i = 3, lt'.mask = lt.mask, lt'.st = lt.st, Len(work'["TRIM"]) <= 1
    PROVE  PassOK' /\ TrimOK'
<1>1. x \in Types /\ Index(x) <= 8 /\ Index("RESUME") = 9 /\ Index("SUSPEND") = 8 /\ Index("TRIM") = 3
  BY Handlers
<1>2. lt.pc = "pass" /\ x \in lt.mask /\ lt.i \in 1..11 /\ lt.i <= Index(x) /\ Index(x) \in 1..10
  BY Zenon, <1>1, Served DEF LogInv
<1>3. lt.i <= 8 /\ lt.i <= 9 BY <1>1, <1>2
<1>4. lt.st = "serving" BY ZenonT(40), <1>1, <1>2, <1>3 DEF LogInv, PassOK
<1>5. "RESUME" \notin lt.mask BY ZenonT(40), <1>1, <1>2, <1>3, <1>4 DEF LogInv, PassOK
<1>6. PassOK' BY SMTT(30), <1>1, <1>4, <1>5 DEF LogInv, PassOK
<1>7. TrimOK' BY <1>1 DEF TrimOK, TrimOnce
<1> QED BY Zenon, <1>6, <1>7

\* The queues when only that of TRIM changes.
LEMMA TrimQueued ==
    ASSUME LogInv, NEW s \in Seq(Threads \cup {"log"}), work' = [work EXCEPT !["TRIM"] = s],
           UNCHANGED <<reqhead, thr>>
    PROVE  /\ QueuesOK' /\ work' \in [Queues -> Seq(Threads \cup {"log"})]
           /\ work'["TRIM"] = s
<1>1. /\ TypeOK /\ QueuesOK /\ SendersOK /\ "TRIM" \in Queues
      /\ \A q \in Queues : work[q] \in Seq(Threads \cup {"log"})
  BY Zenon, Handlers, QueueTypes DEF LogInv
<1>2. /\ \A q \in Queues \ {"TRIM"} : work'[q] = work[q]
      /\ work'["TRIM"] = s
      /\ work' = [q \in Queues |-> work'[q]]
  BY Zenon, <1>1 DEF TypeOK
<1>3. work' \in [Queues -> Seq(Threads \cup {"log"})]
  <2>1. \A q \in Queues : work'[q] \in Seq(Threads \cup {"log"}) BY Zenon, <1>1, <1>2
  <2> QED BY Zenon, <1>2, <2>1
<1>4. QueuesOK'
  <2>1. \A q \in Queues \ {"TRIM"} : IsInjective(work'[q]) BY Zenon, <1>1, <1>2 DEF QueuesOK
  <2>2. Range(reqhead["TRIM"]) = {} BY Zenon, <1>1, NoTrimSent
  <2>3. \A x \in Types \ {"TRIM"} : work'[x] = work[x] BY Zenon, <1>1, <1>2, QueueTypes
  <2>4. work'["REPLAY_WAIT"] = work["REPLAY_WAIT"] /\ work'["POLL"] = work["POLL"]
    BY Zenon, <1>1, <1>2, Handlers, QueueTypes
  <2>5. \A x \in Types : /\ \A t \in Range(reqhead[x]) : Waits(t, x)
                         /\ IsInjective(reqhead[x])
                         /\ Range(reqhead[x]) \cap Range(work'[x]) = {}
    BY Zenon, <1>1, <2>2, <2>3 DEF QueuesOK
  <2> QED BY <1>1, <2>1, <2>3, <2>4, <2>5 DEF QueuesOK, Waits
<1> QED BY Zenon, <1>2, <1>3, <1>4

\* The queue of a TRIM that is queued while there is none.
LEMMA OneTrim ==
    /\ <<"log">> \in Seq(Threads \cup {"log"}) /\ Len(<<"log">>) <= 1
    /\ Append(<<>>, "log") = <<"log">> /\ <<"log">> \o <<>> = <<"log">>
<1>1. <<"log">> \in Seq(Threads \cup {"log"}) OBVIOUS
<1>2. Len(<<"log">>) <= 1 OBVIOUS
<1>3. Append(<<>>, "log") = <<"log">> OBVIOUS
<1>4. <<"log">> \o <<>> = <<"log">> BY Zenon, <1>1, ConcatNone
<1> QED BY Zenon, <1>1, <1>2, <1>3, <1>4

\* A write asks for room.
LEMMA NeedSpaceKeeps ==
    ASSUME LogInv, Current("WRITE"), ~lt.replay_wait, NeedSpace,
           UNCHANGED <<reqhead, meta, inside, plan, mnt>>
    PROVE  LogInv'
<1>1. UNCHANGED <<thr, used, lag, nlag>> BY Zenon DEF NeedSpace
<1>2. work["TRIM"] = <<>> BY Zenon, TrimDone
<1>3. work' = [work EXCEPT !["TRIM"] = <<"log">>] BY Zenon, <1>2, OneTrim DEF NeedSpace
<1>4. QueuesOK' /\ work' \in [Queues -> Seq(Threads \cup {"log"})] /\ work'["TRIM"] = <<"log">>
  BY Zenon, <1>1, <1>3, OneTrim, TrimQueued
<1>5. SendersOK' /\ PlanOK' /\ WriterOK' BY Zenon, <1>1, LogFrame DEF LogInv
<1>6. /\ lt' \in LogStates /\ lt'.pc = lt.pc /\ lt'.st = lt.st /\ lt'.i = 3
      /\ lt'.mask = lt.mask /\ lt'.replay_wait = lt.replay_wait
  <2>1. PICK s : s = Back BY Zenon
  <2>2. lt' = [s EXCEPT !.space_needed = TRUE] BY Zenon, <2>1 DEF NeedSpace
  <2>3. s \in LogStates /\ s.pc = lt.pc /\ s.st = lt.st /\ s.i = 3 /\ s.mask = lt.mask
        /\ s.replay_wait = lt.replay_wait
    BY Zenon, <2>1, HandlerStates DEF LogInv
  <2>4. lt' \in LogStates /\ lt'.st = s.st /\ lt'.pc = s.pc /\ lt'.i = s.i /\ lt'.mask = s.mask
        /\ lt'.replay_wait = s.replay_wait
    BY Zenon, <2>2, <2>3 DEF LogStates
  <2> QED BY Zenon, <2>3, <2>4
<1>7. ReplayOwner'
  <2>1. \A t \in Threads : Replaying(t)' <=> Replaying(t) BY Zenon, <1>1 DEF Replaying
  <2> QED BY Zenon, <1>6, <2>1, ReplayKept DEF LogInv
<1>8. PassOK' /\ TrimOK'
  <2>1. Len(work'["TRIM"]) <= 1 BY Zenon, <1>4, OneTrim
  <2> QED BY Zenon, <1>6, <2>1, BackKeeps
<1>9. used' \in 0..LogRoom /\ lag' \in 0..1 /\ nlag' \in 0..MaxLag /\ RoomOK' BY Zenon, <1>1, SameRoom
<1>10. reqhead' \in [Types -> Seq(Threads)] /\ thr' \in [Threads -> ThreadStates]
  BY Zenon, <1>1 DEF LogInv, TypeOK
<1> QED BY Zenon, <1>4, <1>5, <1>6, <1>7, <1>8, <1>9, <1>10, LogStepKeeps

\* The log has room for one transaction more.
LEMMA MoreUsed ==
    ASSUME NEW R \in Nat, NEW n \in 0..R, n # R
    PROVE  n + 1 \in 0..R /\ n + 1 <= R /\ n + 1 + 0 <= R
OBVIOUS

\* A transaction is committed.
LEMMA CommitKeeps ==
    ASSUME LogInv, Current("WRITE"), ~lt.replay_wait, used # LogRoom, Commit,
           UNCHANGED <<reqhead, meta, inside, plan, mnt>>
    PROVE  LogInv'
<1>1. "WRITE" \in Types /\ "POLL" \in Types /\ TypeOK BY Zenon, Handlers DEF LogInv
<1>2. PICK X : X = {"WRITE", "POLL"} BY Zenon
<1>3. PICK ts : ts = Range(work["WRITE"]) \cup Range(work["POLL"]) BY Zenon
<1>4. Clears(X, ts, "ok")
  <2>1. X \subseteq Queues \ {"TRIM"} BY Zenon, <1>1, <1>2 DEF Queues
  <2>2. \A t : t \in ts <=> \E q \in X : t \in Range(work[q]) BY Zenon, <1>2, <1>3
  <2>3. Reply(ts, "ok") BY Zenon, <1>3 DEF Commit
  <2>4. work' = [q \in Queues |-> IF q \in X THEN <<>> ELSE work[q]]
    BY Zenon, <1>1, <1>2 DEF Commit, TypeOK, Queues
  <2> QED BY Zenon, <2>1, <2>2, <2>3, <2>4 DEF Clears
<1>5. "REPLAYDONE" \notin X BY Zenon, <1>2
<1>6. /\ thr' \in [Threads -> ThreadStates] /\ work' \in [Queues -> Seq(Threads \cup {"log"})]
      /\ work'["TRIM"] = work["TRIM"] /\ QueuesOK' /\ SendersOK' /\ PlanOK' /\ WriterOK'
      /\ \A t \in Threads : Replaying(t)' <=> Replaying(t)
  BY Zenon, <1>4, <1>5, Cleared
<1>7. /\ lt' \in LogStates /\ lt'.pc = lt.pc /\ lt'.st = lt.st /\ lt'.i = Index("WRITE") + 1
      /\ lt'.mask = lt.mask /\ lt'.replay_wait = lt.replay_wait
  BY Zenon, <1>1, HandlerStates DEF Commit
<1>8. ReplayOwner' BY Zenon, <1>6, <1>7, ReplayKept DEF LogInv
<1>9. PassOK' /\ TrimOK'
  <2>1. lt.pc = "pass" BY Zenon DEF Current
  <2> QED BY Zenon, <1>1, <1>6, <1>7, <2>1, ContKeeps
<1>10. used' \in 0..LogRoom /\ lag' \in 0..1 /\ nlag' \in 0..MaxLag /\ RoomOK'
  <2>1. used' = used + 1 /\ lag' = 0 /\ nlag' = nlag BY Zenon DEF Commit
  <2>2. LogRoom \in Nat /\ used \in 0..LogRoom /\ nlag \in 0..MaxLag
    BY Zenon, <1>1, LogThreadAssumption DEF TypeOK
  <2>3. used + 1 \in 0..LogRoom /\ used + 1 + 0 <= LogRoom BY Zenon, <2>2, MoreUsed
  <2>4. used' \in 0..LogRoom /\ nlag' \in 0..MaxLag BY Zenon, <2>1, <2>2, <2>3
  <2>5. lag' \in 0..1 BY <2>1
  <2>6. used' + lag' <= LogRoom BY Zenon, <2>1, <2>3
  <2> QED BY Zenon, <2>4, <2>5, <2>6 DEF RoomOK
<1>11. reqhead' \in [Types -> Seq(Threads)] BY Zenon, <1>1 DEF TypeOK
<1> QED BY Zenon, <1>6, <1>7, <1>8, <1>9, <1>10, <1>11, LogStepKeeps

\* A commit fails, and may have landed.
LEMMA CommitFailsKeeps ==
    ASSUME LogInv, Current("WRITE"), used # LogRoom, CommitFails,
           UNCHANGED <<reqhead, meta, inside, plan, mnt>>
    PROVE  LogInv'
<1>1. ReplyQueue("WRITE", "error") /\ lt' = Stop /\ used' = used BY Zenon DEF CommitFails
<1>2. "WRITE" \in Types \ {"TRIM", "REPLAYDONE"} BY Zenon, Handlers
<1>3. used' \in 0..LogRoom /\ lag' \in 0..1 /\ nlag' \in 0..MaxLag /\ RoomOK'
  <2>1. CASE UNCHANGED <<lag, nlag>> BY Zenon, <1>1, <2>1, SameRoom
  <2>2. CASE nlag < MaxLag /\ lag' = 1 /\ nlag' = nlag + 1
    <3>1. /\ LogRoom \in Nat /\ MaxLag \in Nat /\ used \in 0..LogRoom /\ nlag \in 0..MaxLag
      BY Zenon, LogThreadAssumption DEF LogInv, TypeOK
    <3>2. used + 1 <= LogRoom BY Zenon, <3>1, MoreUsed
    <3>3. nlag # MaxLag BY <2>2, <3>1
    <3>4. nlag + 1 \in 0..MaxLag BY Zenon, <3>1, <3>3, MoreUsed
    <3>5. used' \in 0..LogRoom /\ nlag' \in 0..MaxLag BY Zenon, <1>1, <2>2, <3>1, <3>4
    <3>6. lag' \in 0..1 BY <2>2
    <3>7. used' + lag' <= LogRoom BY Zenon, <1>1, <2>2, <3>2
    <3> QED BY Zenon, <3>5, <3>6, <3>7 DEF RoomOK
  <2> QED BY Zenon, <2>1, <2>2 DEF CommitFails
<1> QED BY Zenon, <1>1, <1>2, <1>3, AnsweredStop

\* The handler of write transactions.
LEMMA HandleWriteKeeps ==
    ASSUME LogInv, HandleWrite
    PROVE  LogInv'
<1>1. Current("WRITE") /\ UNCHANGED <<reqhead, meta, inside, plan, mnt>> BY Zenon DEF HandleWrite
<1>2. CASE lt.replay_wait
  <2>1. lt' = Cont("WRITE") /\ ReplyQueue("WRITE", "again") /\ UNCHANGED <<used, lag, nlag>>
    BY Zenon, <1>2 DEF HandleWrite
  <2>2. "WRITE" \in Types \ {"TRIM", "REPLAYDONE"} BY Zenon, Handlers
  <2>3. used' \in 0..LogRoom /\ lag' \in 0..1 /\ nlag' \in 0..MaxLag /\ RoomOK' BY Zenon, <2>1, SameRoom
  <2> QED BY Zenon, <1>1, <2>1, <2>2, <2>3, AnsweredCont
<1>3. CASE ~lt.replay_wait /\ used = LogRoom
  <2>1. NeedSpace BY Zenon, <1>3 DEF HandleWrite
  <2> QED BY Zenon, <1>1, <1>3, <2>1, NeedSpaceKeeps
<1>4. CASE ~lt.replay_wait /\ used # LogRoom
  <2>1. Commit \/ CommitFails BY Zenon, <1>4 DEF HandleWrite
  <2> QED BY Zenon, <1>1, <1>4, <2>1, CommitKeeps, CommitFailsKeeps
<1> QED BY Zenon, <1>2, <1>3, <1>4

\* The first flush is answered.
LEMMA FlushAnswered ==
    ASSUME LogInv, Current("FLUSH"), NEW r \in {"nodata", "again"}, Reply({Head(work["FLUSH"])}, r),
           UNCHANGED <<reqhead, meta, inside, plan, mnt>>,
           work'["FLUSH"] = Tail(work["FLUSH"]),
           \A q \in Queues \ {"FLUSH", "TRIM"} : work'[q] = work[q]
    PROVE  /\ QueuesOK' /\ SendersOK' /\ PlanOK' /\ WriterOK'
           /\ thr' \in [Threads -> ThreadStates]
           /\ work'["FLUSH"] \in Seq(Threads \cup {"log"})
           /\ \A t \in Threads : Replaying(t)' <=> Replaying(t)
<1>1. TypeOK /\ QueuesOK /\ SendersOK BY Zenon DEF LogInv
<1>2. /\ "FLUSH" \in Types \ {"TRIM"} /\ "FLUSH" \in Queues \ {"TRIM"} /\ "POLL" \in Queues \ {"TRIM", "FLUSH"}
      /\ "REPLAY_WAIT" \in Queues \ {"TRIM", "FLUSH"} /\ Types \subseteq Queues
  BY Zenon, Handlers DEF Queues
<1>3. work["FLUSH"] # <<>> /\ work["FLUSH"] \in Seq(Threads \cup {"log"}) /\ IsInjective(work["FLUSH"])
  BY Zenon, <1>1, <1>2, Served, QueueTypes DEF QueuesOK
<1>4. PICK h : h = Head(work["FLUSH"]) BY Zenon
<1>5. PICK ts : ts = {h} BY Zenon
<1>6. /\ h \in Range(work["FLUSH"]) /\ work'["FLUSH"] \in Seq(Threads \cup {"log"})
      /\ Range(work'["FLUSH"]) \subseteq Range(work["FLUSH"])
      /\ IsInjective(work'["FLUSH"]) /\ h \notin Range(work'["FLUSH"])
  BY <1>3, <1>4, TailQueue
<1>7. /\ \A p, q \in Queues \ {"TRIM"} : p # q => Range(work[p]) \cap Range(work[q]) = {}
      /\ \A x \in Types : \A q \in Queues \ {"TRIM"} : Range(reqhead[x]) \cap Range(work[q]) = {}
      /\ h \in Threads /\ thr[h].pc = "wait" /\ thr[h].req = "FLUSH"
  BY ZenonT(40), <1>1, <1>2, <1>6, Apart
<1>8. r \in {"ok", "again", "new", "error", "nodata"} /\ r # "new" BY Zenon
<1>9. Reply(ts, r) BY Zenon, <1>4, <1>5
<1>10. /\ thr' \in [Threads -> ThreadStates]
       /\ \A t \in Threads : t \notin ts => thr'[t] = thr[t]
       /\ \A t \in Threads : t \in ts => /\ thr'[t].pc = "got" /\ thr'[t].reply = r
                                         /\ thr'[t].req = thr[t].req
  BY <1>1, <1>8, <1>9, Replied
<1>11. QueuesOK'
  <2>1. \A y \in Types : Range(reqhead[y]) \cap ts = {}
    <3> TAKE y \in Types
    <3>1. Range(reqhead[y]) \cap Range(work["FLUSH"]) = {} BY Zenon, <1>2, <1>7
    <3> QED BY Zenon, <1>5, <1>6, <3>1
  <2>2. \A q \in Queues \ {"TRIM"} : IsInjective(work'[q])
    <3>1. \A q \in Queues \ {"TRIM"} : IsInjective(work[q]) BY Zenon, <1>1 DEF QueuesOK
    <3> QED BY Zenon, <1>6, <3>1
  <2>3. \A q \in Queues \ {"TRIM"} : Range(work'[q]) \cap ts = {}
    <3> TAKE q \in Queues \ {"TRIM"}
    <3>1. CASE q = "FLUSH" BY Zenon, <1>5, <1>6, <3>1
    <3>2. CASE q # "FLUSH"
      <4>1. Range(work[q]) \cap Range(work["FLUSH"]) = {} BY Zenon, <1>2, <1>7, <3>2
      <4> QED BY Zenon, <1>5, <1>6, <3>2, <4>1
    <3> QED BY Zenon, <3>1, <3>2
  <2>4. \A y \in Types \ {"TRIM"} : Range(work'[y]) \subseteq Range(work[y])
    <3> TAKE y \in Types \ {"TRIM"}
    <3>1. CASE y = "FLUSH" BY Zenon, <1>6, <3>1
    <3>2. CASE y # "FLUSH" BY Zenon, <1>2, <3>2
    <3> QED BY Zenon, <3>1, <3>2
  <2>5. work'["REPLAY_WAIT"] = work["REPLAY_WAIT"] /\ work'["POLL"] = work["POLL"] BY Zenon, <1>2
  <2>6. Range(work'["REPLAY_WAIT"]) \subseteq Range(work["REPLAY_WAIT"]) \cup Range(work["POLL"]) BY Zenon, <2>5
  <2>7. Range(work'["REPLAY_WAIT"]) \cap Range(work'["POLL"]) = {}
    <3>1. Range(work["REPLAY_WAIT"]) \cap Range(work["POLL"]) = {} BY Zenon, <1>1 DEF QueuesOK
    <3> QED BY Zenon, <2>5, <3>1
  <2>8. \A q \in Queues \ {"TRIM"} : IsInjective(work'[q]) /\ Range(work'[q]) \cap ts = {} BY Zenon, <2>2, <2>3
  <2>9. \A t \in Threads : t \notin ts => thr'[t] = thr[t] BY Zenon, <1>10
  <2> QED BY Zenon, <1>1, <2>1, <2>4, <2>6, <2>7, <2>8, <2>9, Answering
<1>12. SendersOK' /\ PlanOK' /\ WriterOK'
  <2>1. \A t \in Threads : \/ thr'[t] = thr[t]
                           \/ /\ thr[t].pc = "wait" /\ thr'[t].pc = "got"
                              /\ thr'[t].req = thr[t].req
    BY Zenon, <1>5, <1>7, <1>10
  <2> QED BY Zenon, <2>1, LogFrame DEF LogInv
<1>13. \A t \in Threads : Replaying(t)' <=> Replaying(t)
  <2>1. ~Replaying(h) BY Zenon, <1>7 DEF Replaying
  <2>2. ~Replaying(h)' BY Zenon, <1>5, <1>7, <1>8, <1>10 DEF Replaying
  <2>3. \A t \in Threads : t # h => (Replaying(t)' <=> Replaying(t)) BY Zenon, <1>5, <1>10 DEF Replaying
  <2> QED BY Zenon, <2>1, <2>2, <2>3
<1> QED BY Zenon, <1>6, <1>10, <1>11, <1>12, <1>13

\* A flush asks for a trim, unless the log is empty.
LEMMA HandleFlushKeeps ==
    ASSUME LogInv, HandleFlush
    PROVE  LogInv'
<1>1. /\ Current("FLUSH") /\ ~lt.replay_wait
      /\ UNCHANGED <<reqhead, meta, inside, plan, mnt, used, lag, nlag>>
  BY Zenon DEF HandleFlush
<1>2. TypeOK /\ "FLUSH" \in Types /\ "FLUSH" \in Queues /\ "TRIM" \in Queues /\ lt.pc = "pass"
  BY Zenon, <1>1, Handlers DEF LogInv, Queues, Current
<1>3. used' \in 0..LogRoom /\ lag' \in 0..1 /\ nlag' \in 0..MaxLag /\ RoomOK' BY Zenon, <1>1, SameRoom
<1>4. reqhead' \in [Types -> Seq(Threads)] BY Zenon, <1>1, <1>2 DEF TypeOK
<1>5. \A q \in Queues : work[q] \in Seq(Threads \cup {"log"}) BY Zenon, <1>2, QueueTypes
<1>6. CASE used = 0
  <2>1. /\ Reply({Head(work["FLUSH"])}, "nodata") /\ lt' = Cont("FLUSH")
        /\ work' = [work EXCEPT !["FLUSH"] = Tail(@)]
    BY Zenon, <1>6 DEF HandleFlush
  <2>2. /\ work'["FLUSH"] = Tail(work["FLUSH"]) /\ work' = [q \in Queues |-> work'[q]]
        /\ \A q \in Queues \ {"FLUSH"} : work'[q] = work[q]
    BY Zenon, <1>2, <2>1 DEF TypeOK
  <2>3. /\ QueuesOK' /\ SendersOK' /\ PlanOK' /\ WriterOK' /\ thr' \in [Threads -> ThreadStates]
        /\ work'["FLUSH"] \in Seq(Threads \cup {"log"})
        /\ \A t \in Threads : Replaying(t)' <=> Replaying(t)
    BY Zenon, <1>1, <2>1, <2>2, FlushAnswered
  <2>4. work' \in [Queues -> Seq(Threads \cup {"log"})]
    <3>1. \A q \in Queues : work'[q] \in Seq(Threads \cup {"log"}) BY Zenon, <1>5, <2>2, <2>3
    <3> QED BY Zenon, <2>2, <3>1
  <2>5. /\ lt' \in LogStates /\ lt'.pc = lt.pc /\ lt'.st = lt.st /\ lt'.i = Index("FLUSH") + 1
        /\ lt'.mask = lt.mask /\ lt'.replay_wait = lt.replay_wait
    BY Zenon, <1>2, <2>1, HandlerStates
  <2>6. ReplayOwner' BY Zenon, <2>3, <2>5, ReplayKept DEF LogInv
  <2>7. work'["TRIM"] = work["TRIM"] BY Zenon, <1>2, <2>2
  <2>8. PassOK' /\ TrimOK' BY Zenon, <1>1, <1>2, <2>5, <2>7, ContKeeps
  <2> QED BY ZenonT(40), <1>1, <1>3, <1>4, <2>3, <2>4, <2>5, <2>6, <2>8, LogStepKeeps
<1>7. CASE used # 0
  <2>1. /\ Reply({Head(work["FLUSH"])}, "again") /\ lt' = [Back EXCEPT !.trim_forced = TRUE]
        /\ work' = [work EXCEPT !["FLUSH"] = Tail(@), !["TRIM"] = <<"log">> \o @]
    BY Zenon, <1>7 DEF HandleFlush
  <2>2. work["TRIM"] = <<>> BY Zenon, <1>1, TrimDone
  <2>3. /\ work'["FLUSH"] = Tail(work["FLUSH"]) /\ work' = [q \in Queues |-> work'[q]]
        /\ work'["TRIM"] = <<"log">> \o work["TRIM"]
        /\ \A q \in Queues \ {"FLUSH", "TRIM"} : work'[q] = work[q]
    BY Zenon, <1>2, <2>1 DEF TypeOK
  <2>4. work'["TRIM"] = <<"log">> BY Zenon, <2>2, <2>3, OneTrim
  <2>5. /\ QueuesOK' /\ SendersOK' /\ PlanOK' /\ WriterOK' /\ thr' \in [Threads -> ThreadStates]
        /\ work'["FLUSH"] \in Seq(Threads \cup {"log"})
        /\ \A t \in Threads : Replaying(t)' <=> Replaying(t)
    BY Zenon, <1>1, <2>1, <2>3, FlushAnswered
  <2>6. work' \in [Queues -> Seq(Threads \cup {"log"})]
    <3>1. \A q \in Queues : work'[q] \in Seq(Threads \cup {"log"}) BY Zenon, <1>5, <2>3, <2>4, <2>5, OneTrim
    <3> QED BY Zenon, <2>3, <3>1
  <2>7. /\ lt' \in LogStates /\ lt'.pc = lt.pc /\ lt'.st = lt.st /\ lt'.i = 3
        /\ lt'.mask = lt.mask /\ lt'.replay_wait = lt.replay_wait
    <3>1. PICK s : s = Back OBVIOUS
    <3>2. lt' = [s EXCEPT !.trim_forced = TRUE] BY Zenon, <2>1, <3>1
    <3>3. s \in LogStates /\ s.pc = lt.pc /\ s.st = lt.st /\ s.i = 3 /\ s.mask = lt.mask
          /\ s.replay_wait = lt.replay_wait
      BY Zenon, <1>2, <3>1, HandlerStates
    <3>4. lt' \in LogStates /\ lt'.st = s.st /\ lt'.pc = s.pc /\ lt'.i = s.i /\ lt'.mask = s.mask
          /\ lt'.replay_wait = s.replay_wait
      BY Zenon, <3>2, <3>3 DEF LogStates
    <3> QED BY Zenon, <3>3, <3>4
  <2>8. ReplayOwner' BY ZenonT(40), <2>5, <2>7, ReplayKept DEF LogInv
  <2>9. PassOK' /\ TrimOK'
    <3>1. Len(work'["TRIM"]) <= 1 BY Zenon, <2>4, OneTrim
    <3> QED BY Zenon, <1>1, <2>7, <3>1, BackKeeps
  <2> QED BY ZenonT(40), <1>1, <1>3, <1>4, <2>5, <2>6, <2>7, <2>8, <2>9, LogStepKeeps
<1> QED BY Zenon, <1>6, <1>7

\* The new requests are sorted into the queues.
LEMMA GatherKeeps ==
    ASSUME LogInv, Gather
    PROVE  LogInv'
<1> DEFINE W == Threads \cup {"log"}
           q == [x \in Queues |-> IF x \in Types THEN work[x] \o reqhead[x] ELSE work[x]]
<1>1. TypeOK /\ QueuesOK /\ SendersOK /\ lt \in LogStates BY Zenon DEF LogInv, TypeOK
<1>2. UNCHANGED <<thr, meta, inside, plan, mnt, used, lag, nlag>> /\ reqhead' = [x \in Types |-> <<>>]
  BY Zenon DEF Gather
<1>3. /\ \A x \in Queues : work[x] \in Seq(W)
      /\ \A x \in Types : reqhead[x] \in Seq(W)
      /\ Types \subseteq Queues /\ "REPLAY_WAIT" \in Queues /\ "REPLAY_WAIT" \notin Types
      /\ "TRIM" \in Types /\ "POLL" \in Types /\ \A x \in Queues : x \notin Types => x = "REPLAY_WAIT"
  <2>1. Threads \subseteq W BY Zenon
  <2>2. \A x \in Types : reqhead[x] \in Seq(Threads) BY Zenon, <1>1, QueueTypes
  <2>3. \A s \in Seq(Threads) : s \in Seq(W)
    <3> TAKE s \in Seq(Threads)
    <3>1. \A i \in 1..Len(s) : s[i] \in W OBVIOUS
    <3> QED BY <3>1
  <2> QED BY Zenon, <1>1, <2>2, <2>3, Handlers, QueueTypes DEF Queues
<1>q. /\ \A x \in Types : q[x] = work[x] \o reqhead[x]
      /\ q["REPLAY_WAIT"] = work["REPLAY_WAIT"]
      /\ q = [x \in Queues |-> q[x]]
  BY Zenon, <1>3
<1>w. work' = q \/ (q["TRIM"] = <<>> /\ work' = [q EXCEPT !["TRIM"] = Append(@, "log")])
  BY Zenon DEF Gather, AutoTrim
<1> HIDE DEF q
<1>4. /\ \A x \in Types : q[x] \in Seq(W) /\ Range(q[x]) = Range(work[x]) \cup Range(reqhead[x])
      /\ \A x \in Types \ {"TRIM"} : IsInjective(q[x])
  <2>1. ASSUME NEW x \in Types
        PROVE  /\ q[x] \in Seq(W) /\ Range(q[x]) = Range(work[x]) \cup Range(reqhead[x])
               /\ x # "TRIM" => IsInjective(q[x])
    <3>1. PICK s : s = work[x] BY Zenon
    <3>2. PICK r : r = reqhead[x] BY Zenon
    <3>3. s \in Seq(W) /\ r \in Seq(W) /\ q[x] = s \o r BY Zenon, <1>3, <1>q, <3>1, <3>2
    <3>4. x # "TRIM" => IsInjective(s) /\ IsInjective(r) /\ Range(s) \cap Range(r) = {}
      BY ZenonT(40), <1>1, <1>3, <3>1, <3>2 DEF QueuesOK
    <3>5. /\ s \o r \in Seq(W) /\ Range(s \o r) = Range(s) \cup Range(r)
          /\ x # "TRIM" => IsInjective(s \o r)
      <4> HIDE DEF W
      <4> QED BY <3>3, <3>4, ConcatQueues
    <3> QED BY Zenon, <3>1, <3>2, <3>3, <3>5
  <2> QED BY Zenon, <2>1
<1>5. q["TRIM"] = work["TRIM"]
  <2>1. reqhead["TRIM"] = <<>> BY Zenon, <1>1, NoTrimSent
  <2>2. work["TRIM"] \in Seq(W) BY Zenon, <1>3
  <2> QED BY Zenon, <1>3, <1>q, <2>1, <2>2, ConcatNone
<1>6. /\ work' = [x \in Queues |-> work'[x]]
      /\ \A x \in Queues \ {"TRIM"} : work'[x] = q[x]
      /\ work'["TRIM"] \in Seq(W) /\ Len(work'["TRIM"]) <= 1
  <2>1. Len(work["TRIM"]) <= 1 /\ work["TRIM"] \in Seq(W) BY Zenon, <1>3 DEF LogInv, TrimOK, TrimOnce
  <2>3. CASE work' = q BY ZenonT(40), <1>5, <1>q, <2>1, <2>3
  <2>4. CASE q["TRIM"] = <<>> /\ work' = [q EXCEPT !["TRIM"] = Append(@, "log")]
    <3>1. work'["TRIM"] = Append(<<>>, "log") BY ZenonT(40), <1>3, <1>q, <2>4
    <3>2. work'["TRIM"] = <<"log">> BY Zenon, <3>1, OneTrim
    <3>3. /\ work' = [x \in Queues |-> work'[x]]
          /\ \A x \in Queues \ {"TRIM"} : work'[x] = q[x]
      BY Zenon, <1>3, <1>q, <2>4
    <3> QED BY Zenon, <3>2, <3>3, OneTrim
  <2> QED BY ZenonT(40), <1>w, <2>3, <2>4
<1>7. work' \in [Queues -> Seq(W)]
  <2>1. \A x \in Queues : work'[x] \in Seq(W) BY Zenon, <1>3, <1>q, <1>4, <1>6
  <2> QED BY Zenon, <1>6, <2>1
<1>8. \A x \in Types : reqhead'[x] = <<>> /\ Range(reqhead'[x]) = {} /\ IsInjective(reqhead'[x])
  <2>1. Range(<<>>) = {} /\ IsInjective(<<>>) BY Zenon, <1>3, EmptyQueue
  <2> QED BY Zenon, <1>2, <2>1
<1>9. reqhead' \in [Types -> Seq(Threads)]
  <2>1. <<>> \in Seq(Threads) OBVIOUS
  <2> QED BY Zenon, <1>2, <2>1
<1>10. QueuesOK'
  <2>1. \A t, x : Waits(t, x)' <=> Waits(t, x) BY Zenon, <1>2 DEF Waits
  <2>2. \A x \in Types \ {"TRIM"} : work'[x] = q[x] BY Zenon, <1>3, <1>6
  <2>3. \A x \in Types \ {"TRIM"} : \A t \in Range(work'[x]) : Waits(t, x)
    BY Zenon, <1>1, <1>4, <2>2 DEF QueuesOK
  <2>4. work'["REPLAY_WAIT"] = work["REPLAY_WAIT"] BY Zenon, <1>3, <1>q, <1>6
  <2>5. \A x \in Queues \ {"TRIM"} : IsInjective(work'[x])
    <3>1. IsInjective(work["REPLAY_WAIT"]) BY Zenon, <1>1, <1>3 DEF QueuesOK
    <3> QED BY Zenon, <1>3, <1>4, <2>2, <2>4, <3>1
  <2>6. \A t \in Range(work'["REPLAY_WAIT"]) : /\ Waits(t, "POLL")
                                               /\ t \notin Range(work'["POLL"])
                                               /\ t \notin Range(reqhead'["POLL"])
    <3>1. Range(work'["POLL"]) = Range(work["POLL"]) \cup Range(reqhead["POLL"])
      BY Zenon, <1>3, <1>4, <2>2
    <3>2. \A t \in Range(work["REPLAY_WAIT"]) : /\ Waits(t, "POLL")
                                                /\ t \notin Range(work["POLL"])
                                                /\ t \notin Range(reqhead["POLL"])
      BY Zenon, <1>1 DEF QueuesOK
    <3> QED BY Zenon, <1>3, <1>8, <2>4, <3>1, <3>2
  <2>7. \A x \in Types : /\ \A t \in Range(reqhead'[x]) : Waits(t, x)
                         /\ IsInjective(reqhead'[x])
                         /\ Range(reqhead'[x]) \cap Range(work'[x]) = {}
    BY Zenon, <1>8
  <2> QED BY Zenon, <2>1, <2>3, <2>5, <2>6, <2>7 DEF QueuesOK
<1>11. SendersOK' /\ PlanOK' /\ WriterOK' BY Zenon, <1>2, LogFrame DEF LogInv
<1>12. /\ lt' \in LogStates /\ lt'.pc = "pass" /\ lt'.i = 1 /\ lt'.mask = Mask(lt.st, mnt.mode)
       /\ lt'.st = lt.st /\ lt'.replay_wait = lt.replay_wait
  <2>1. PICK m : m = Mask(lt.st, mnt.mode) BY Zenon
  <2>2. lt' = [lt EXCEPT !.pc = "pass", !.i = 1, !.mask = m] BY Zenon, <2>1 DEF Gather
  <2>3. m \in SUBSET Types
    <3>1. Mask(lt.st, mnt.mode) \subseteq {"LOAD", "REPLAYDONE", "TRIM", "POLL", "RESET", "WRITE", "FLUSH",
                                           "SUSPEND", "RESUME", "STOP"}
      BY Zenon DEF Mask
    <3> QED BY Zenon, <2>1, <3>1, Handlers
  <2>4. 1 \in 1..Len(Order) + 1 BY Handlers
  <2>5. /\ lt' \in LogStates /\ lt'.pc = "pass" /\ lt'.i = 1 /\ lt'.mask = m
        /\ lt'.st = lt.st /\ lt'.replay_wait = lt.replay_wait
    BY Zenon, <1>1, <2>2, <2>3, <2>4 DEF LogStates
  <2> QED BY Zenon, <2>1, <2>5
<1>13. ReplayOwner'
  <2>1. \A t \in Threads : Replaying(t)' <=> Replaying(t) BY Zenon, <1>2 DEF Replaying
  <2> QED BY ZenonT(40), <1>12, <2>1, ReplayKept DEF LogInv
<1>14. PassOK'
  <2>1. lt.st \in {"notloaded", "serving", "suspended"}
    <3>1. lt.pc = "gather" BY Zenon DEF Gather
    <3> QED BY ZenonT(40), <1>1, <3>1 DEF LogStates, LogInv, PassOK
  <2> QED BY <1>12, <2>1 DEF PassOK, Mask
<1>15. TrimOK'
  <2>1. Index("TRIM") = 3 BY Handlers
  <2> QED BY <1>6, <1>12, <2>1 DEF TrimOK, TrimOnce
<1>16. used' \in 0..LogRoom /\ lag' \in 0..1 /\ nlag' \in 0..MaxLag /\ RoomOK' BY Zenon, <1>2, SameRoom
<1>17. thr' \in [Threads -> ThreadStates] BY Zenon, <1>1, <1>2 DEF TypeOK
<1> QED BY ZenonT(40), <1>2, <1>7, <1>9, <1>10, <1>11, <1>12, <1>13, <1>14, <1>15, <1>16, <1>17, LogStepKeeps

\* Every step of the log thread keeps the invariant.
LEMMA LogStepInv ==
    ASSUME LogInv, LogStep
    PROVE  LogInv'
<1>1. \A x : x \in DOMAIN NewState <=> x \in {"SUSPEND", "RESUME", "STOP"} BY Zenon DEF NewState
<1>2. ASSUME NEW x \in DOMAIN NewState, HandleState(x) PROVE LogInv'
  BY Zenon, <1>1, <1>2, HandleStateKeeps
<1> QED BY ZenonT(40), <1>2, GatherKeeps, EndPassKeeps, HandleLoadKeeps, HandleReplaydoneKeeps, TrimOkKeeps,
           TrimFailsKeeps, PostponeKeeps, HandlePollKeeps, HandleTryResetLockKeeps,
           HandleWriteKeeps, HandleFlushKeeps
        DEF LogStep

\* A step that changes nothing keeps it too.
LEMMA LogStutters ==
    ASSUME LogInv, UNCHANGED vars
    PROVE  LogInv'
<1>1. UNCHANGED <<lt, reqhead, work, thr, meta, inside, plan, mnt, used, lag, nlag>> BY Zenon DEF vars
<1>2. QueuesOK' BY Zenon, <1>1, QueuesKept DEF LogInv
<1>3. SendersOK' /\ PlanOK' /\ WriterOK' BY Zenon, <1>1, LogFrame DEF LogInv
<1>4. \A t \in Threads : Replaying(t)' <=> Replaying(t) BY Zenon, <1>1 DEF Replaying
<1>5. ReplayOwner' BY ZenonT(40), <1>1, <1>4, ReplayKept DEF LogInv
<1>6. PassOK' /\ TrimOK' /\ RoomOK' BY ZenonT(40), <1>1 DEF LogInv, PassOK, TrimOK, TrimOnce, RoomOK
<1>7. TypeOK' BY Zenon, <1>1 DEF LogInv, TypeOK
<1> QED BY Zenon, <1>2, <1>3, <1>5, <1>6, <1>7 DEF LogInv

\* The inductive invariant of the log thread, the threads that send it requests
\* and the admin thread, for any number of clients and any room of the log.
THEOREM LogInvariant == Spec => []LogInv
<1>1. Init => LogInv
  <2>1. Init => Fresh
    <3>1. 0 \in 0..LogRoom /\ 0 \in 0..MaxLag BY LogThreadAssumption
    <3> QED BY Zenon, <3>1 DEF Init, Fresh
  <2> QED BY Zenon, <2>1, FreshInv
<1>2. LogInv /\ [Next]_vars => LogInv'
  <2> SUFFICES ASSUME LogInv, [Next]_vars PROVE LogInv' BY Zenon
  <2>1. ASSUME NEW c \in Clients, BeginCall(c) PROVE LogInv' BY Zenon, <2>1, BeginCallKeeps
  <2>2. ASSUME NEW c \in Clients, ReadMeta(c) PROVE LogInv' BY Zenon, <2>2, ReadMetaKeeps
  <2>3. ASSUME NEW t \in Threads, LockMeta(t) PROVE LogInv' BY Zenon, <2>3, LockMetaKeeps
  <2>4. ASSUME NEW t \in Threads, Replay(t) PROVE LogInv' BY Zenon, <2>4, ReplayKeeps
  <2>5. ASSUME NEW t \in Threads, TakeReply(t) PROVE LogInv' BY <2>5, TakeReplyKeeps
  <2>6. CASE BeginPoll BY Zenon, <2>6, BeginPollKeeps
  <2>7. CASE BeginDiscard BY Zenon, <2>7, BeginDiscardKeeps
  <2>8. CASE AdminBegin BY <2>8, AdminBeginKeeps
  <2>9. CASE AdminRequest BY SMTT(30), <2>9, AdminRequestKeeps
  <2>10. CASE AdminThreads BY <2>10, AdminThreadsKeeps
  <2>11. CASE AdminMount BY <2>11, AdminMountKeeps
  <2>12. CASE AdminReply BY <2>12, AdminReplyKeeps
  <2>13. CASE Restart BY <2>13, RestartKeeps
  <2>14. CASE NewEntries BY <2>14, NewEntriesKeeps
  <2>15. CASE LogStep BY <2>15, LogStepInv
  <2>16. CASE UNCHANGED vars BY Zenon, <2>16, LogStutters
  <2> QED BY ZenonT(40), <2>1, <2>2, <2>3, <2>4, <2>5, <2>6, <2>7, <2>8, <2>9, <2>10, <2>11, <2>12, <2>13,
             <2>14, <2>15, <2>16
          DEF Next
<1> QED BY <1>1, <1>2, PTL DEF Spec

\* At most one write transaction is ever with the log thread, whatever the number of
\* clients: what the assertions of pfs_log_handle_write count on.
THEOREM OneWriterAlways == Spec => []OneWriter
<1>1. LogInv => OneWriter
  <2> SUFFICES ASSUME LogInv PROVE OneWriter BY Zenon
  <2>1. Outstanding("WRITE") \subseteq {meta} BY Zenon DEF LogInv, WriterOK, Outstanding, Waits
  <2> QED BY Zenon, <2>1 DEF OneWriter
<1> QED BY <1>1, LogInvariant, PTL

\* The trim request is never queued twice, and the log thread waits for a replay
\* exactly while one thread replays.
THEOREM OnceEachAlways == Spec => []OnceEach
<1>1. LogInv => OnceEach
  <2> SUFFICES ASSUME LogInv PROVE OnceEach OBVIOUS
  <2>1. TrimOnce BY Zenon DEF LogInv, TrimOK
  <2>2. ReplayOwner BY Zenon DEF LogInv
  <2> QED BY Zenon, <2>1, <2>2 DEF OnceEach
<1> QED BY <1>1, LogInvariant, PTL

\* Every handler finds the log in the state it asserts, although the mask was computed
\* before the handlers that ran first in the pass.
THEOREM HandlerAssertsAlways == Spec => []HandlerAsserts
<1>1. LogInv => HandlerAsserts
  <2> SUFFICES ASSUME LogInv, NEW x \in Types, Current(x)
               PROVE  CASE x = "LOAD" -> lt.st = "notloaded" /\ ~lt.replay_wait /\ Len(work[x]) = 1
                        [] x = "REPLAYDONE" -> lt.replay_wait /\ Len(work[x]) = 1
                        [] x = "RESUME" -> lt.st = "suspended"
                        [] x = "STOP" -> TRUE
                        [] OTHER -> lt.st = "serving"
    BY Zenon DEF HandlerAsserts
  <2>1. CASE x = "LOAD" BY Zenon, <2>1, LoadAlone
  <2>2. CASE x = "REPLAYDONE" BY Zenon, <2>2, ReplayerDone
  <2>3. /\ lt.pc = "pass" /\ x \in lt.mask /\ lt.i \in 1..11 /\ Index(x) \in 1..10 /\ lt.i <= Index(x)
    BY Zenon, Served DEF LogInv
  <2>4. CASE x = "RESUME" BY ZenonT(40), <2>3, <2>4 DEF LogInv, PassOK
  <2>5. CASE x = "STOP" BY Zenon, <2>5
  <2>6. CASE x \notin {"LOAD", "REPLAYDONE", "RESUME", "STOP"}
    <3>1. x \in {"TRIM", "POLL", "RESET", "WRITE", "FLUSH", "SUSPEND"} BY Zenon, <2>6, Handlers
    <3>2. Index(x) <= 8 /\ Index("SUSPEND") = 8 BY <3>1, Handlers
    <3>3. lt.i <= Index("SUSPEND") BY <2>3, <3>2
    <3>4. lt.st = "serving" BY ZenonT(40), <2>3, <3>1, <3>3 DEF LogInv, PassOK
    <3> QED BY Zenon, <2>6, <3>4
  <2> QED BY Zenon, <2>1, <2>2, <2>4, <2>5, <2>6
<1> QED BY <1>1, LogInvariant, PTL
=============================================================================
