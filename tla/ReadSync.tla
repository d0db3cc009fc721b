------------------------------ MODULE ReadSync ------------------------------
(***************************************************************************)
(* pfs_mount_sync, which every read on a read-only mount and the poll       *)
(* thread begin with: the grouped check of the log header                   *)
(* (pfs_work_groups.h and pfs_group_log_header_checker in pfs_log.h), then  *)
(* LOG_POLL, the replay of what it returns and LOG_REPLAYDONE. The writer   *)
(* is another host, which advances the head on the disk at any moment.      *)
(***************************************************************************)
EXTENDS Integers, FiniteSets, TLC

CONSTANTS
    Threads,      \* threads of pfsd that read, the poll thread among them
    Groups,       \* metadata_check_concurrency work groups; {} is 0: no checker
    MaxCommits    \* bound: commits of the other host

VARIABLES
    head_lsn,     \* the leader record on the disk
    log_lsn,      \* log_leader.head_lsn: what the log thread polled
    replay_wait,  \* the log thread waits for LOG_REPLAYDONE
    last_head_lsn,\* of the checker
    applied,      \* how far this host's metadata is replayed
    group,        \* [Groups -> WorkGroup]
    rthr          \* [Threads -> a call of pfs_mount_sync]

rsvars == <<head_lsn, log_lsn, replay_wait, last_head_lsn, applied, group, rthr>>

NoLsn == -1                                     \* std::nullopt: the read failed
RIdle == [pc |-> "idle", start |-> 0, g |-> 0, lsn |-> NoLsn, told |-> {}, joined |-> FALSE,
          unsynced |-> FALSE, excused |-> FALSE]
RGo(t, r) == rthr' = [rthr EXCEPT ![t] = r]
Return(t, excused) == RGo(t, [RIdle EXCEPT !.unsynced = applied < rthr[t].start,
                                           !.excused = excused])

Commit ==
    /\ head_lsn < MaxCommits
    /\ head_lsn' = head_lsn + 1
    /\ UNCHANGED <<log_lsn, replay_wait, last_head_lsn, applied, group, rthr>>

\* GroupedWorkRunner::run: AccessSpreader picks a group by the CPU the thread is on
SyncBegin(t) ==
    /\ rthr[t].pc = "idle"
    /\ \/ /\ Groups = {}
          /\ RGo(t, [RIdle EXCEPT !.pc = "poll", !.start = head_lsn])
       \/ \E g \in Groups : RGo(t, [RIdle EXCEPT !.pc = "enter", !.start = head_lsn, !.g = g])
    /\ UNCHANGED <<head_lsn, log_lsn, replay_wait, last_head_lsn, applied, group>>

(***************************************************************************)
(* WorkGroup. counter_ only tells a waiter that it moved, so the waiters    *)
(* still to be told are kept instead of the count.                          *)
(***************************************************************************)
wait_or_run_Late(t) ==
    /\ group' = group
    /\ IF group[rthr[t].g].in_progress
       THEN RGo(t, [rthr[t] EXCEPT !.pc = "wait"])
       ELSE RGo(t, [rthr[t] EXCEPT !.pc = "read"])
wait_or_run(t) ==
    LET g == rthr[t].g
    IN  IF group[g].in_progress
        THEN /\ group' = [group EXCEPT ![g].waiters = @ \union {t}]
             /\ RGo(t, [rthr[t] EXCEPT !.pc = "wait"])
        ELSE /\ group' = [group EXCEPT ![g].in_progress = TRUE]
             /\ RGo(t, [rthr[t] EXCEPT !.pc = "read"])
Enter(t) ==
    /\ rthr[t].pc = "enter"
    /\ wait_or_run(t)
    /\ UNCHANGED <<head_lsn, log_lsn, replay_wait, last_head_lsn, applied>>

read_leader(t) ==
    /\ rthr[t].pc = "read"
    /\ \E x \in {head_lsn, NoLsn} : RGo(t, [rthr[t] EXCEPT !.pc = "ran", !.lsn = x])
    /\ UNCHANGED <<head_lsn, log_lsn, replay_wait, last_head_lsn, applied, group>>

\* result_ and counter_ change under the mutex, then cv_.notify_all
Told_KeepWaiting(w, lsn) == [w EXCEPT !.result = lsn]
Told(w, lsn) == [w EXCEPT !.result = lsn, !.waiters = {}]
Ran(t) ==
    LET g == rthr[t].g
    IN  /\ rthr[t].pc = "ran"
        /\ group' = [group EXCEPT ![g] = [Told(@, rthr[t].lsn) EXCEPT !.in_progress = FALSE]]
        /\ RGo(t, [rthr[t] EXCEPT !.pc = "notify", !.told = {g}])
        /\ UNCHANGED <<head_lsn, log_lsn, replay_wait, last_head_lsn, applied>>

\* the other groups, one by one, are given the result, each unless its mutex is taken
notify_all(t) ==
    /\ rthr[t].pc = "notify"
    /\ \/ \E g \in Groups \ rthr[t].told :
             /\ \A x \in Groups \ rthr[t].told : g <= x
             /\ group' \in {group, [group EXCEPT ![g] = Told(@, rthr[t].lsn)]}
             /\ RGo(t, [rthr[t] EXCEPT !.told = @ \union {g}])
       \/ /\ rthr[t].told = Groups
          /\ RGo(t, [rthr[t] EXCEPT !.pc = "compare"])
          /\ UNCHANGED group
    /\ UNCHANGED <<head_lsn, log_lsn, replay_wait, last_head_lsn, applied>>

Woken(t) ==
    /\ rthr[t].pc = "wait" /\ t \notin group[rthr[t].g].waiters
    /\ RGo(t, [rthr[t] EXCEPT !.pc = "compare", !.joined = TRUE, !.lsn = group[rthr[t].g].result])
    /\ UNCHANGED <<head_lsn, log_lsn, replay_wait, last_head_lsn, applied, group>>

(***************************************************************************)
(* log_head_lsn_changed and the rest of pfs_mount_sync.                    *)
(***************************************************************************)
log_head_lsn_changed_Failed(lsn) == lsn # NoLsn /\ lsn # last_head_lsn
log_head_lsn_changed(lsn) == lsn = NoLsn \/ lsn # last_head_lsn

Compare(t) ==
    /\ rthr[t].pc = "compare"
    /\ IF log_head_lsn_changed(rthr[t].lsn) THEN RGo(t, [rthr[t] EXCEPT !.pc = "poll"])
       ELSE Return(t, rthr[t].joined \/ replay_wait)
    /\ UNCHANGED <<head_lsn, log_lsn, replay_wait, last_head_lsn, applied, group>>

\* LOG_POLL is put off while a replay is in progress
PollReady_Always == TRUE
PollReady == ~replay_wait

\* LOG_POLL reads the leader; it may fail
pfs_log_poll(t) ==
    /\ rthr[t].pc = "poll" /\ PollReady
    /\ \/ /\ log_lsn' = head_lsn
          /\ last_head_lsn' = IF Groups = {} THEN last_head_lsn ELSE head_lsn
          /\ replay_wait' = (head_lsn > log_lsn)
          /\ IF head_lsn > log_lsn THEN RGo(t, [rthr[t] EXCEPT !.pc = "replay"])
             ELSE Return(t, FALSE)
       \/ /\ RGo(t, RIdle)                             \* an error, passed on to the caller
          /\ UNCHANGED <<log_lsn, last_head_lsn, replay_wait>>
    /\ UNCHANGED <<head_lsn, applied, group>>

\* under the meta lock
pfs_txlist_replay(t) ==
    /\ rthr[t].pc = "replay"
    /\ applied' = log_lsn
    /\ RGo(t, [rthr[t] EXCEPT !.pc = "replaydone"])
    /\ UNCHANGED <<head_lsn, log_lsn, replay_wait, last_head_lsn, group>>

pfs_log_handle_replaydone(t) ==
    /\ rthr[t].pc = "replaydone"
    /\ replay_wait' = FALSE
    /\ Return(t, FALSE)
    /\ UNCHANGED <<head_lsn, log_lsn, last_head_lsn, applied, group>>

RsInit ==
    /\ head_lsn = 0 /\ log_lsn = 0 /\ last_head_lsn = 0 /\ applied = 0
    /\ replay_wait = FALSE
    /\ group = [g \in Groups |-> [in_progress |-> FALSE, result |-> NoLsn, waiters |-> {}]]
    /\ rthr = [t \in Threads |-> RIdle]

SyncStep(t) ==
    \/ Enter(t) \/ read_leader(t) \/ Ran(t) \/ notify_all(t) \/ Woken(t) \/ Compare(t)
    \/ pfs_log_poll(t) \/ pfs_txlist_replay(t) \/ pfs_log_handle_replaydone(t)

RsNext == Commit \/ \E t \in Threads : SyncBegin(t) \/ SyncStep(t)

RsSpec == RsInit /\ [][RsNext]_rsvars

\* a thread inside pfs_mount_sync runs when it can; the log thread serves LOG_POLL in
\* turn, so a request is served although others keep coming
RsFairness == \A t \in Threads : WF_rsvars(SyncStep(t)) /\ SF_rsvars(pfs_log_poll(t))
RsFairSpec == RsSpec /\ RsFairness

(***************************************************************************)
(* Properties.                                                             *)
(***************************************************************************)
\* "no more than "size" callback calls will be in progress at the same time": each
\* group has at most one thread that reads the header, and it knows of it.
OneReaderPerGroup ==
    \A g \in Groups :
        Cardinality({t \in Threads : rthr[t].pc \in {"read", "ran"} /\ rthr[t].g = g})
            = IF group[g].in_progress THEN 1 ELSE 0

\* A call that found the header itself unchanged, joining no read of another thread
\* and with no replay pending, returns with all metadata applied that was committed
\* before the call; so does every call that polls.
SyncedUnlessExcused == \A t \in Threads : rthr[t].unsynced => rthr[t].excused

\* Every call returns: a waiter of a group is told by the thread that reads or by
\* another group's, and the replay that holds back LOG_POLL ends.
SyncReturns == \A t \in Threads : rthr[t].pc = "enter" ~> rthr[t].pc = "idle"

\* "For a read operation, we first sync the all meta data by pfs_mount_sync": after it
\* returned, whatever was committed before the call is applied.
SyncedReads == \A t \in Threads : ~rthr[t].unsynced
=============================================================================
