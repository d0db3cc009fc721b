----------------------------- MODULE LogThread -----------------------------
(***************************************************************************)
(* The log thread of a mount (pfs_core/pfs_log.cc), the threads that send   *)
(* it requests and the locks they hold meanwhile.                           *)
(*                                                                          *)
(* A request is queued on log_reqhead and its sender sleeps until it is     *)
(* answered.  The log thread runs in passes: it sorts the new requests into *)
(* queues by type and handles the types its state admits in the order of    *)
(* log_req_handlers; what it leaves stays for the next pass.  When it finds *)
(* log entries it does not know it hands them to a sender to replay, and    *)
(* waits (LOGF_REPLAY_WAIT) for that sender's REPLAYDONE.                   *)
(*                                                                          *)
(* What the log holds is the module Journal; here `used' counts the         *)
(* transactions in it and `lag' those on disk beyond log_leader.            *)
(***************************************************************************)
EXTENDS Integers, Sequences, Functions

CONSTANTS Clients,    \* threads that call the file API
          Plans,      \* what the admin thread does: a subset of AllPlans
          LogRoom,    \* transactions the log has room for
          MaxLag,     \* bound on how often log entries appear from elsewhere
          LostReplies,\* whether a commit may land and still fail
          Faults      \* whether reads, commits and trims may fail

VARIABLES lt,       \* the log thread: place, state, flags
          reqhead,  \* log_reqhead, by type: the log thread takes the whole list and sorts it
          work,     \* work_req[1..], by type
          thr,      \* the other threads
          meta,     \* holder of mnt_meta_rwlock as a writer
          inside,   \* clients that hold the mount entry's lock as readers
          plan,     \* what the admin thread has still to do under the entry's write lock
          mnt,      \* mode and status of the mount
          used, lag, nlag

vars == <<lt, reqhead, work, thr, meta, inside, plan, mnt, used, lag, nlag>>

Poll == "poll"     \* pfs_poll_thread_entry
Bd == "bd"         \* pfs_bd_thread_entry
Admin == "admin"   \* the thread in pfs_mount, pfs_umount, pfs_remount_*, pfs_mount_release
Threads == Clients \cup {Poll, Bd, Admin}
Unowned == "nobody"

\* The order of log_req_handlers.
Order == <<"LOAD", "REPLAYDONE", "TRIM", "POLL", "RESET", "WRITE", "FLUSH",
           "SUSPEND", "RESUME", "STOP">>
Types == Range(Order)
Index(x) == CHOOSE i \in DOMAIN Order : Order[i] = x

\* The private queue of polls that wait for the replay of others.
Queues == Types \cup {"REPLAY_WAIT"}

\* Mutant: pfs_umount does not stop the poll thread.
PlanOf_PollsOn ==
          [mount   |-> <<"LOAD", "start", "inited">>,
           release |-> <<"RESET">>,
           demote  |-> <<"stop_bd", "SUSPEND", "reload_ro", "RESUME", "inited">>,
           promote |-> <<"stop_bd", "stop_poll", "SUSPEND", "reload_rw", "RESUME",
                         "start", "POLL", "inited">>,
           umount  |-> <<"stop_bd", "STOP", "join">>]

\* pfs_mount, pfs_mount_release, pfs_remount_ro, pfs_remount_rw and pfs_umount
\* as far as they use the log thread.
PlanOf == [mount   |-> <<"LOAD", "start", "inited">>,
           release |-> <<"RESET">>,
           demote  |-> <<"stop_bd", "SUSPEND", "reload_ro", "RESUME", "inited">>,
           promote |-> <<"stop_bd", "stop_poll", "SUSPEND", "reload_rw", "RESUME",
                         "start", "POLL", "inited">>,
           umount  |-> <<"stop_bd", "stop_poll", "STOP", "join">>]
AllPlans == DOMAIN PlanOf \ {"mount"}

ASSUME LogThreadAssumption ==
    /\ Clients \cap {Poll, Bd, Admin, Unowned} = {}
    /\ Plans \subseteq AllPlans
    /\ LogRoom \in Nat \ {0} /\ MaxLag \in Nat
    /\ {LostReplies, Faults} \subseteq BOOLEAN

Steps == {"start", "inited", "stop_bd", "reload_ro", "stop_poll", "reload_rw", "join"}

LogStates == [pc : {"off", "gather", "pass"},
              st : {"notloaded", "serving", "suspended", "stop"},
              i : 1..Len(Order) + 1, mask : SUBSET Types,
              replay_wait : BOOLEAN, space_needed : BOOLEAN, trim_forced : BOOLEAN]
ThreadStates == [pc : {"out", "start", "idle", "lock", "wait", "got", "rlock", "replay", "read"},
                 req : Types \cup {"none"},
                 reply : {"none", "ok", "again", "new", "error", "nodata"}]

TypeOK ==
    /\ lt \in LogStates
    /\ reqhead \in [Types -> Seq(Threads)]
    /\ work \in [Queues -> Seq(Threads \cup {"log"})]
    /\ thr \in [Threads -> ThreadStates]
    /\ meta \in Threads \cup {Unowned}
    /\ inside \subseteq Clients
    /\ plan \in Seq(Types \cup Steps)
    /\ mnt \in [mode : {"ro", "rw"}, inited : BOOLEAN]
    /\ used \in 0..LogRoom /\ lag \in 0..1 /\ nlag \in 0..MaxLag

Off == [pc |-> "off", st |-> "notloaded", i |-> 1, mask |-> {},
        replay_wait |-> FALSE, space_needed |-> FALSE, trim_forced |-> FALSE]
Thread(pc) == [pc |-> pc, req |-> "none", reply |-> "none"]

\* A mount has just started the log thread.
Init == /\ lt = [Off EXCEPT !.pc = "gather"]
        /\ reqhead = [x \in Types |-> <<>>]
        /\ work = [q \in Queues |-> <<>>]
        /\ thr = [t \in Threads |-> IF t \in {Poll, Bd} THEN Thread("out") ELSE Thread("idle")]
        /\ meta = Unowned
        /\ inside = {}
        /\ plan = PlanOf.mount
        /\ mnt \in [mode : {"ro", "rw"}, inited : {FALSE}]
        /\ used = 0 /\ lag = 0 /\ nlag = 0

----------------------------------------------------------------------------
(* The threads that send requests *)

Become(t, state) == thr' = [thr EXCEPT ![t] = state]

\* pfs_log_request_impl up to its wait.
Send(t, type) ==
    /\ reqhead' = [reqhead EXCEPT ![type] = Append(@, t)]
    /\ Become(t, [pc |-> "wait", req |-> type, reply |-> "none"])

\* A client calls the API: a write transaction, a read, which polls first unless
\* the log header has not changed, or a flush of the log.  It holds the mount
\* entry until it is done.
BeginCall(c) ==
    /\ thr[c].pc = "idle" /\ mnt.inited /\ plan = <<>>
    /\ inside' = inside \cup {c}
    /\ \/ /\ mnt.mode = "rw"
          /\ Become(c, Thread("lock"))
          /\ UNCHANGED reqhead
       \/ Send(c, "POLL")
       \/ Become(c, Thread("read")) /\ UNCHANGED reqhead
       \/ mnt.mode = "rw" /\ Send(c, "FLUSH")
    /\ UNCHANGED <<lt, work, meta, plan, mnt, used, lag, nlag>>

\* pfs_poll_thread_entry and pfs_bd_thread_entry do not hold the mount entry.
\* They wait for the mount to be inited once, when they start.
Ready(t) == thr[t].pc = "idle" \/ (thr[t].pc = "start" /\ mnt.inited)

BeginPoll ==
    /\ Ready(Poll)
    /\ Send(Poll, "POLL")
    /\ UNCHANGED <<lt, work, meta, inside, plan, mnt, used, lag, nlag>>

BeginDiscard ==
    /\ Ready(Bd)
    /\ Become(Bd, Thread("lock"))
    /\ UNCHANGED <<lt, reqhead, work, meta, inside, plan, mnt, used, lag, nlag>>

\* Mutant: a write transaction takes the lock as a reader.
LockMeta_Shared(t) ==
    /\ \/ thr[t].pc = "lock" /\ Send(t, "WRITE")
       \/ thr[t].pc = "rlock" /\ Become(t, Thread("replay")) /\ UNCHANGED reqhead
    /\ UNCHANGED <<lt, work, meta, inside, plan, mnt, used, lag, nlag>>

\* pfs_meta_lock of a write or replay transaction.  A write transaction changes
\* the metadata and is submitted with the lock held.  The lock is nothing
\* while the mount is not inited.
LockMeta(t) ==
    /\ IF mnt.inited THEN meta = Unowned /\ meta' = t ELSE UNCHANGED meta
    /\ \/ thr[t].pc = "lock" /\ Send(t, "WRITE")
       \/ thr[t].pc = "rlock" /\ Become(t, Thread("replay")) /\ UNCHANGED reqhead
    /\ UNCHANGED <<lt, work, inside, plan, mnt, used, lag, nlag>>

UnlockMeta(t) == meta' = IF meta = t THEN Unowned ELSE meta

\* pfs_txlist_replay
Replay(t) ==
    /\ thr[t].pc = "replay"
    /\ UnlockMeta(t)
    /\ Send(t, "REPLAYDONE")
    /\ UNCHANGED <<lt, work, inside, plan, mnt, used, lag, nlag>>

\* The call is over, or the thread goes back to its loop.
Finish(t) ==
    /\ Become(t, Thread("idle"))
    /\ inside' = inside \ {t}

\* What a sender other than the admin thread does with its answer.  -EAGAIN
\* makes the API call start over, which is another BeginCall.
TakeReply(t) ==
    /\ t # Admin /\ thr[t].pc = "got"
    /\ UnlockMeta(t)
    /\ CASE thr[t].reply = "new" -> Become(t, Thread("rlock")) /\ UNCHANGED inside
         [] t \in Clients /\ thr[t].req \in {"POLL", "REPLAYDONE"} /\ thr[t].reply = "ok" ->
              Become(t, Thread("read")) /\ UNCHANGED inside
         [] OTHER -> Finish(t)
    /\ UNCHANGED <<lt, reqhead, work, plan, mnt, used, lag, nlag>>

\* A synced client reads metadata under the lock.
ReadMeta(c) ==
    /\ thr[c].pc = "read" /\ meta = Unowned
    /\ Finish(c)
    /\ UNCHANGED <<lt, reqhead, work, meta, plan, mnt, used, lag, nlag>>

----------------------------------------------------------------------------
(* The admin thread *)

\* A plan starts when the write lock of the mount entry is free.
AdminBegin ==
    /\ plan = <<>> /\ inside = {} /\ lt.pc # "off"
    /\ \E p \in Plans :
         /\ p \in {"release", "demote"} => mnt.mode = "rw"
         /\ p = "promote" => mnt.mode = "ro"
         /\ plan' = PlanOf[p]
    /\ UNCHANGED <<lt, reqhead, work, thr, meta, inside, mnt, used, lag, nlag>>

\* pfs_leader_load takes the leader record from the disk.
Reload(mode) ==
    /\ mnt' = [mode |-> mode, inited |-> FALSE]
    /\ used' = used + lag
    /\ lag' = 0

\* pfs_bd_stop, pfs_poll_stop: join a thread that is between two rounds.
StopThread(t) ==
    /\ thr[t].pc \in {"out", "start", "idle"}
    /\ Become(t, Thread("out"))

AtStep(s) == plan # <<>> /\ thr[Admin].pc = "idle" /\ Head(plan) = s

AdminRequest ==
    /\ \E x \in Types : AtStep(x) /\ Send(Admin, x)
    /\ UNCHANGED <<lt, work, meta, inside, plan, mnt, used, lag, nlag>>

AdminThreads ==
    /\ \/ AtStep("stop_bd") /\ StopThread(Bd)
       \/ AtStep("stop_poll") /\ StopThread(Poll)
       \/ /\ AtStep("start")
          /\ thr' = [thr EXCEPT ![Poll] = Thread("start"),
                                ![Bd] = IF mnt.mode = "rw" THEN Thread("start") ELSE @]
    /\ plan' = Tail(plan)
    /\ UNCHANGED <<lt, reqhead, work, meta, inside, mnt, used, lag, nlag>>

\* pfs_remount_rw keeps the mount read-only when it does not get the lease,
\* and then does without the sync at its end.
AdminMount ==
    /\ \/ AtStep("reload_ro") /\ Reload("ro") /\ plan' = Tail(plan)
       \/ AtStep("reload_rw") /\ Reload("rw") /\ plan' = Tail(plan)
       \/ AtStep("reload_rw") /\ Reload("ro") /\ plan' = <<"RESUME", "start", "inited">>
       \/ /\ AtStep("inited")
          /\ mnt' = [mnt EXCEPT !.inited = TRUE]
          /\ plan' = Tail(plan)
          /\ UNCHANGED <<used, lag>>
    /\ UNCHANGED <<lt, reqhead, work, thr, meta, inside, nlag>>

\* A failed load stops the log thread again (finish_mount in pfs_mount).
AdminReply ==
    /\ thr[Admin].pc = "got"
    /\ IF thr[Admin].reply = "new"
       THEN Become(Admin, Thread("rlock")) /\ UNCHANGED plan
       ELSE /\ thr[Admin].reply = "error" => thr[Admin].req = "LOAD"
            /\ Become(Admin, Thread("idle"))
            /\ plan' = IF thr[Admin].reply = "error" THEN <<"STOP", "join">> ELSE Tail(plan)
    /\ UNCHANGED <<lt, reqhead, work, meta, inside, mnt, used, lag, nlag>>

\* The end of pfs_log_stop, and a later mount of the same disk.  A failed sync
\* in pfs_remount_rw exits the process; the next one mounts it.
Restart ==
    /\ \/ AtStep("join") /\ lt.pc = "off"
       \/ thr[Admin].pc = "got" /\ thr[Admin].reply = "error" /\ thr[Admin].req = "POLL"
    /\ lt' = [Off EXCEPT !.pc = "gather"]
    /\ reqhead' = [x \in Types |-> <<>>]
    /\ work' = [q \in Queues |-> <<>>]
    /\ thr' = [t \in Threads |-> IF t \in {Poll, Bd} THEN Thread("out") ELSE Thread("idle")]
    /\ meta' = Unowned /\ inside' = {}
    /\ plan' = PlanOf.mount
    /\ \E mode \in {"ro", "rw"} : Reload(mode)
    /\ UNCHANGED nlag

\* The disk gets log entries of the host that has it mounted for writing.
NewEntries ==
    /\ mnt.mode = "ro" /\ lag = 0 /\ nlag < MaxLag
    /\ lag' = 1 /\ nlag' = nlag + 1
    /\ used' \in {used, 0} /\ used' < LogRoom
    /\ UNCHANGED <<lt, reqhead, work, thr, meta, inside, plan, mnt>>

----------------------------------------------------------------------------
(* The log thread *)

\* Mutant: TRIM is queued without looking whether it already is.
AutoTrim_Again(mask, q) == "TRIM" \in mask /\ used > 0

\* The log thread may queue its own TRIM: a matter of the clock and of how
\* full the trim groups are.
AutoTrim(mask, q) == "TRIM" \in mask /\ q["TRIM"] = <<>> /\ used > 0

\* Mutant: a suspended log thread still polls.
Mask_Suspended(st, mode) ==
    CASE st = "notloaded" -> {"LOAD", "STOP", "REPLAYDONE"}
      [] st = "serving" -> {"POLL", "STOP", "REPLAYDONE", "SUSPEND", "RESET"} \cup
                           (IF mode = "rw" THEN {"TRIM", "WRITE", "FLUSH"} ELSE {})
      [] OTHER -> {"RESUME", "POLL"}

\* The reqmask of pfs_log_thread_entry.
Mask(st, mode) ==
    CASE st = "notloaded" -> {"LOAD", "STOP", "REPLAYDONE"}
      [] st = "serving" -> {"POLL", "STOP", "REPLAYDONE", "SUSPEND", "RESET"} \cup
                           (IF mode = "rw" THEN {"TRIM", "WRITE", "FLUSH"} ELSE {})
      [] OTHER -> {"RESUME"}

\* pfs_log_thread_entry up to pfs_log_handle_req.
Gather ==
    /\ lt.pc = "gather"
    /\ LET mask == Mask(lt.st, mnt.mode)
           q == [x \in Queues |-> IF x \in Types THEN work[x] \o reqhead[x] ELSE work[x]]
       IN  /\ \/ work' = q
              \/ AutoTrim(mask, q) /\ work' = [q EXCEPT !["TRIM"] = Append(@, "log")]
           /\ lt' = [lt EXCEPT !.pc = "pass", !.i = 1, !.mask = mask]
    /\ reqhead' = [x \in Types |-> <<>>]
    /\ UNCHANGED <<thr, meta, inside, plan, mnt, used, lag, nlag>>

\* The next request queue pfs_log_handle_req serves.
Pending(x) == x \in lt.mask /\ work[x] # <<>> /\ Index(x) >= lt.i
Current(x) == /\ lt.pc = "pass" /\ Pending(x)
              /\ \A y \in Types : Pending(y) => Index(x) <= Index(y)

\* What a handler returns: go on to the next type, end the pass, or go back
\* to TRIM.
Cont(x) == [lt EXCEPT !.i = Index(x) + 1]
Stop == [lt EXCEPT !.pc = "gather"]
Back == [lt EXCEPT !.i = Index("TRIM")]

\* pfs_log_reply and pfs_log_reply_queue
Answer(state, r) == [state EXCEPT !.pc = "got", !.reply = r]
Reply(ts, r) == thr' = [t \in Threads |-> IF t \in ts THEN Answer(thr[t], r) ELSE thr[t]]
ReplyQueue(x, r) == Reply(Range(work[x]), r) /\ work' = [work EXCEPT ![x] = <<>>]

HandleLoad ==
    /\ Current("LOAD")
    /\ \/ Faults /\ ReplyQueue("LOAD", "error") /\ lt' = Stop /\ UNCHANGED <<used, lag>>
       \/ /\ used' = used + lag /\ lag' = 0
          /\ IF used' = 0
             THEN ReplyQueue("LOAD", "ok") /\ lt' = [Cont("LOAD") EXCEPT !.st = "serving"]
             ELSE ReplyQueue("LOAD", "new") /\ lt' = [Cont("LOAD") EXCEPT !.replay_wait = TRUE]
    /\ UNCHANGED <<reqhead, meta, inside, plan, mnt, nlag>>

\* The replayer is done: so are the polls that waited for it.
HandleReplaydone ==
    /\ Current("REPLAYDONE")
    /\ Reply(Range(work["REPLAYDONE"]) \cup Range(work["REPLAY_WAIT"]), "ok")
    /\ work' = [work EXCEPT !["REPLAYDONE"] = <<>>, !["REPLAY_WAIT"] = <<>>]
    /\ lt' = [Cont("REPLAYDONE") EXCEPT !.replay_wait = FALSE,
                  !.st = IF @ = "notloaded" THEN "serving" ELSE @]
    /\ UNCHANGED <<reqhead, meta, inside, plan, mnt, used, lag, nlag>>

\* pfs_log_trim frees the wait group, or nothing.  A forced trim fills the wait
\* group first if it can have the metadata lock, one for space without it.  The
\* leader record it writes has the head this host knows.
TrimOk ==
    /\ Current("TRIM") /\ ~lt.replay_wait
    /\ \/ used' \in 0..used - 1 /\ lag' = 0
       \/ /\ IF lt.trim_forced THEN meta # Unowned \/ used = 0 ELSE ~lt.space_needed \/ used = 0
          /\ UNCHANGED <<used, lag>>
    /\ lt' = [Cont("TRIM") EXCEPT !.trim_forced = FALSE,
                  !.space_needed = lt.trim_forced /\ lt.space_needed]
    /\ work' = [work EXCEPT !["TRIM"] = Tail(@)]
    /\ UNCHANGED <<reqhead, thr, meta, inside, plan, mnt, nlag>>

TrimFails ==
    /\ Current("TRIM") /\ ~lt.replay_wait /\ Faults
    /\ lt' = [Stop EXCEPT !.trim_forced = FALSE,
                  !.space_needed = lt.trim_forced /\ lt.space_needed]
    /\ work' = [work EXCEPT !["TRIM"] = Tail(@)]
    /\ UNCHANGED <<reqhead, thr, meta, inside, plan, mnt, used, lag, nlag>>

\* TRIM, POLL and FLUSH requests stay where they are while a replay goes on.
Postpone ==
    /\ lt.replay_wait
    /\ \E x \in {"TRIM", "POLL", "FLUSH"} : Current(x) /\ lt' = Cont(x)
    /\ UNCHANGED <<reqhead, work, thr, meta, inside, plan, mnt, used, lag, nlag>>

\* New entries go to the first poll; the others wait for its replay, and writes
\* fail so that their senders unlock the metadata.
PollNew ==
    /\ LET first == {Head(work["POLL"])} IN
       thr' = [t \in Threads |->
                 CASE t \in first -> Answer(thr[t], "new")
                   [] t \in Range(work["WRITE"]) -> Answer(thr[t], "again")
                   [] OTHER -> thr[t]]
    /\ work' = [work EXCEPT !["POLL"] = <<>>, !["WRITE"] = <<>>,
                            !["REPLAY_WAIT"] = @ \o Tail(work["POLL"])]
    /\ lt' = [Cont("POLL") EXCEPT !.replay_wait = TRUE]
    /\ used' = used + lag /\ lag' = 0

\* Mutant: a poll does not look whether a replay goes on.
HandlePoll_InReplay ==
    /\ Current("POLL")
    /\ \/ lag = 0 /\ ReplyQueue("POLL", "ok") /\ lt' = Cont("POLL") /\ UNCHANGED <<used, lag>>
       \/ lag > 0 /\ PollNew
    /\ UNCHANGED <<reqhead, meta, inside, plan, mnt, nlag>>

HandlePoll ==
    /\ Current("POLL") /\ ~lt.replay_wait
    /\ \/ Faults /\ ReplyQueue("POLL", "error") /\ lt' = Stop /\ UNCHANGED <<used, lag>>
       \/ lag = 0 /\ ReplyQueue("POLL", "ok") /\ lt' = Cont("POLL") /\ UNCHANGED <<used, lag>>
       \/ lag > 0 /\ PollNew
    /\ UNCHANGED <<reqhead, meta, inside, plan, mnt, nlag>>

\* LOG_TRY_RESET_LOCK, without the host id it changes.
HandleTryResetLock ==
    /\ Current("RESET")
    /\ IF lt.replay_wait
       THEN lt' = Stop /\ UNCHANGED <<work, thr>>
       ELSE lt' = Cont("RESET") /\ ReplyQueue("RESET", "ok")
    /\ UNCHANGED <<reqhead, meta, inside, plan, mnt, used, lag, nlag>>

\* A commit that fails for good, or lands and is reported failed.
CommitFails ==
    /\ ReplyQueue("WRITE", "error") /\ lt' = Stop
    /\ UNCHANGED used
    /\ \/ Faults /\ UNCHANGED <<lag, nlag>>
       \/ LostReplies /\ nlag < MaxLag /\ lag' = 1 /\ nlag' = nlag + 1

Commit ==
    /\ Reply(Range(work["WRITE"]) \cup Range(work["POLL"]), "ok")
    /\ work' = [work EXCEPT !["WRITE"] = <<>>, !["POLL"] = <<>>]
    /\ lt' = Cont("WRITE")
    /\ used' = used + 1 /\ lag' = 0 /\ UNCHANGED nlag

NeedSpace ==
    /\ lt' = [Back EXCEPT !.space_needed = TRUE]
    /\ work' = [work EXCEPT !["TRIM"] = Append(@, "log")]
    /\ UNCHANGED <<thr, used, lag, nlag>>

\* Mutant: a write that meets a replay stays queued.
HandleWrite_Waits ==
    /\ Current("WRITE")
    /\ CASE lt.replay_wait -> lt' = Cont("WRITE") /\ UNCHANGED <<work, thr, used, lag, nlag>>
         [] ~lt.replay_wait /\ used = LogRoom -> NeedSpace
         [] OTHER -> Commit \/ CommitFails
    /\ UNCHANGED <<reqhead, meta, inside, plan, mnt>>

\* Mutant: a write is committed without looking for room.
HandleWrite_NoRoom ==
    /\ Current("WRITE")
    /\ IF lt.replay_wait
       THEN lt' = Cont("WRITE") /\ ReplyQueue("WRITE", "again") /\ UNCHANGED <<used, lag, nlag>>
       ELSE Commit \/ CommitFails
    /\ UNCHANGED <<reqhead, meta, inside, plan, mnt>>

HandleWrite ==
    /\ Current("WRITE")
    /\ CASE lt.replay_wait ->
              lt' = Cont("WRITE") /\ ReplyQueue("WRITE", "again") /\ UNCHANGED <<used, lag, nlag>>
         [] ~lt.replay_wait /\ used = LogRoom -> NeedSpace
         [] OTHER -> Commit \/ CommitFails
    /\ UNCHANGED <<reqhead, meta, inside, plan, mnt>>

HandleFlush ==
    /\ Current("FLUSH") /\ ~lt.replay_wait
    /\ Reply({Head(work["FLUSH"])}, IF used = 0 THEN "nodata" ELSE "again")
    /\ IF used = 0
       THEN lt' = Cont("FLUSH") /\ work' = [work EXCEPT !["FLUSH"] = Tail(@)]
       ELSE /\ lt' = [Back EXCEPT !.trim_forced = TRUE]
            /\ work' = [work EXCEPT !["FLUSH"] = Tail(@), !["TRIM"] = <<"log">> \o @]
    /\ UNCHANGED <<reqhead, meta, inside, plan, mnt, used, lag, nlag>>

\* SUSPEND, RESUME and STOP only change the state.
NewState == [SUSPEND |-> "suspended", RESUME |-> "serving", STOP |-> "stop"]
HandleState(x) ==
    /\ Current(x)
    /\ lt' = [Cont(x) EXCEPT !.st = NewState[x]]
    /\ ReplyQueue(x, "ok")
    /\ UNCHANGED <<reqhead, meta, inside, plan, mnt, used, lag, nlag>>

EndPass ==
    /\ lt.pc = "pass" /\ \A x \in Types : ~Pending(x)
    /\ lt' = [lt EXCEPT !.pc = IF lt.st = "stop" THEN "off" ELSE "gather"]
    /\ UNCHANGED <<reqhead, work, thr, meta, inside, plan, mnt, used, lag, nlag>>

LogStep ==
    \/ Gather \/ EndPass \/ HandleLoad \/ HandleReplaydone \/ TrimOk \/ TrimFails
    \/ Postpone \/ HandlePoll \/ HandleTryResetLock \/ HandleWrite \/ HandleFlush
    \/ \E x \in DOMAIN NewState : HandleState(x)

Next == \/ \E c \in Clients : BeginCall(c) \/ ReadMeta(c)
        \/ \E t \in Threads : LockMeta(t) \/ Replay(t) \/ TakeReply(t)
        \/ BeginPoll \/ BeginDiscard
        \/ AdminBegin \/ AdminRequest \/ AdminThreads \/ AdminMount \/ AdminReply \/ Restart
        \/ NewEntries
        \/ LogStep

Spec == Init /\ [][Next]_vars

\* Every thread that can go on does; a trim does not fail for ever; and whoever
\* keeps finding the metadata lock free gets it in the end.
Fairness ==
    /\ WF_vars(LogStep) /\ SF_vars(TrimOk)
    /\ \A t \in Threads : SF_vars(LockMeta(t)) /\ WF_vars(Replay(t)) /\ WF_vars(TakeReply(t))
    /\ \A c \in Clients : SF_vars(ReadMeta(c))
    /\ WF_vars(AdminRequest) /\ WF_vars(AdminMount) /\ WF_vars(AdminReply)
    /\ SF_vars(AdminThreads) /\ WF_vars(Restart)

FairSpec == Spec /\ Fairness

----------------------------------------------------------------------------
(* Properties *)

Outstanding(x) == {t \in Threads : thr[t].pc = "wait" /\ thr[t].req = x}

\* At most one write transaction is with the log thread: the handlers count on
\* it (the assertions that work_req[LOG_WRITE] is empty once its first request
\* is removed), and only the senders' metadata lock provides it.
OneWriter == \A s, t \in Outstanding("WRITE") : s = t

\* The trim request is one object (log_trimreq) put into a list from four
\* places; it is never in the list twice.
TrimOnce == Len(work["TRIM"]) <= 1

Replaying(t) == \/ thr[t].pc = "got" /\ thr[t].reply = "new"
                \/ thr[t].pc \in {"rlock", "replay"}
                \/ thr[t].pc = "wait" /\ thr[t].req = "REPLAYDONE"
Replayers == {t \in Threads : Replaying(t)}

\* The log thread waits for a replay exactly while one thread has entries to
\* replay, so no two threads apply log entries at once and no REPLAYDONE comes
\* that pfs_log_handle_replaydone does not expect.
ReplayOwner == IF lt.replay_wait THEN \E t \in Threads : Replayers = {t} ELSE Replayers = {}

\* One replay and one trim at a time: the two facts above.
OnceEach == TrimOnce /\ ReplayOwner

\* When a handler runs the log is still in the state the handler asserts,
\* although the mask was computed before the handlers that ran first.
HandlerAsserts ==
    \A x \in Types : Current(x) =>
        CASE x = "LOAD" -> lt.st = "notloaded" /\ ~lt.replay_wait /\ Len(work[x]) = 1
          [] x = "REPLAYDONE" -> lt.replay_wait /\ Len(work[x]) = 1
          [] x = "RESUME" -> lt.st = "suspended"
          [] x = "STOP" -> TRUE
          [] OTHER -> lt.st = "serving"

\* The log thread ends with nothing queued, as it asserts before it returns.
StopClean == lt.pc = "off" => /\ \A x \in Types : reqhead[x] = <<>>
                               /\ \A q \in Queues : work[q] = <<>>

----------------------------------------------------------------------------
(* The inductive invariant *)

Waits(t, x) == t \in Threads /\ thr[t].pc = "wait" /\ thr[t].req = x

\* Only senders that wait are queued, once, under the type they sent; a poll may
\* have been moved to those that wait for a replay.  TRIM is the log thread's own.
QueuesOK ==
    /\ \A x \in Types : /\ \A t \in Range(reqhead[x]) : Waits(t, x)
                        /\ IsInjective(reqhead[x])
                        /\ Range(reqhead[x]) \cap Range(work[x]) = {}
    /\ \A x \in Types \ {"TRIM"} : \A t \in Range(work[x]) : Waits(t, x)
    /\ \A q \in Queues \ {"TRIM"} : IsInjective(work[q])
    /\ \A t \in Range(work["REPLAY_WAIT"]) : /\ Waits(t, "POLL")
                                             /\ t \notin Range(work["POLL"])
                                             /\ t \notin Range(reqhead["POLL"])

\* Who sends what, and that a client in a call holds the mount entry.
SendersOK ==
    /\ \A t \in Threads : /\ thr[t].req # "TRIM"
                          /\ thr[t].req \in {"LOAD", "RESET", "SUSPEND", "RESUME", "STOP"} =>
                                t = Admin
                          /\ thr[t].pc = "lock" => t \in Clients \cup {Bd}
    /\ \A c \in Clients : thr[c].pc # "idle" => c \in inside
    /\ thr[Admin].pc # "idle" => plan # <<>> /\ plan[1] \in Types
    /\ Waits(Admin, "LOAD") => plan[1] = "LOAD"

\* Step s comes before step k of the plan.
Before(k, s) == \E j \in 1..k-1 : plan[j] = s

\* While a plan is under way no client is in a call.  A mount loads its log before
\* anybody else runs.  It is reloaded with the discard thread stopped, which does not
\* begin before the mount is inited, and no thread is started that runs.
PlanOK ==
    /\ plan # <<>> \/ ~mnt.inited => inside = {}
    /\ ~mnt.inited => thr[Bd].pc \in {"out", "start"}
    /\ \A k \in DOMAIN plan :
         /\ plan[k] \notin {"TRIM", "WRITE", "FLUSH", "REPLAYDONE"}
         /\ plan[k] = "LOAD" => /\ k = 1 /\ ~mnt.inited
                                /\ thr[Poll].pc = "out" /\ thr[Bd].pc = "out"
         /\ plan[k] \in {"reload_ro", "reload_rw", "start"} =>
              ~Before(k, "start") /\ (thr[Bd].pc = "out" \/ Before(k, "stop_bd"))
         /\ plan[k] \in {"reload_rw", "start"} => thr[Poll].pc = "out" \/ Before(k, "stop_poll")

\* A write transaction that is with the log thread has the metadata lock.
WriterOK == \A t \in Threads : Waits(t, "WRITE") => meta = t

\* The state the handlers that are still to come were admitted for.
PassOK ==
    /\ lt.mask \cap {"WRITE", "FLUSH"} # {} => "TRIM" \in lt.mask
    /\ lt.st = "stop" => lt.pc = "off" \/ (lt.pc = "pass" /\ lt.i > Index("STOP"))
    /\ lt.pc = "pass" =>
         /\ "LOAD" \in lt.mask /\ lt.i = 1 => lt.st = "notloaded"
         /\ "RESUME" \in lt.mask /\ lt.i <= Index("RESUME") => lt.st = "suspended"
         /\ /\ lt.mask \cap {"TRIM", "POLL", "RESET", "WRITE", "FLUSH", "SUSPEND"} # {}
            /\ lt.i <= Index("SUSPEND")
            => lt.st = "serving"

\* Once a pass is beyond TRIM, the trim request was handled, unless a replay
\* postponed it.
TrimOK ==
    /\ TrimOnce
    /\ lt.pc = "pass" /\ lt.i > Index("TRIM") /\ "TRIM" \in lt.mask /\ ~lt.replay_wait =>
         work["TRIM"] = <<>>

RoomOK == used + lag <= LogRoom

\* What the proofs of OneWriter, OnceEach and HandlerAsserts are built on.
LogInv == /\ TypeOK /\ QueuesOK /\ SendersOK /\ PlanOK /\ WriterOK /\ ReplayOwner
          /\ PassOK /\ TrimOK /\ RoomOK

----------------------------------------------------------------------------
\* Every request to the log thread is answered, whatever the thread that sent
\* it holds meanwhile.
Answered == \A t \in Threads : thr[t].pc = "wait" ~> thr[t].pc # "wait"

=============================================================================
