------------------------------ MODULE RWLease ------------------------------
(***************************************************************************)
(* The RW lease of pfs_core/pfs_paxos.cc.  Every host owns one sector of    *)
(* the paxos file.  A host that wants to mount read-write writes a PREPARE  *)
(* record into its sector, looks at the other sectors (verify), writes an   *)
(* RW record, looks again (conflict check), and arms a kill timer.  From    *)
(* then on the log thread renews the record; if it cannot, the kill timer   *)
(* ends the process before any other host may take the lease over.          *)
(*                                                                          *)
(* Time.  `now' counts ticks of real time, TicksPerSecond to the second.    *)
(* LEASE_CLOCK (CLOCK_BOOTTIME) counts real time, so a reading of it is     *)
(* `now'.  A reading of CLOCK_REALTIME is the real time plus an offset of   *)
(* at most ClockSkewMax seconds, chosen afresh at every reading: hosts      *)
(* differ, drift and are stepped, within the bound that                     *)
(* paxos_clock_skew_max states.  Records hold whole seconds.                *)
(***************************************************************************)
EXTENDS Integers, FiniteSets

CONSTANTS NumHosts,        \* mnt_num_hosts: host ids are 1..NumHosts
          LeaseDuration,   \* paxos_lease_duration, in seconds
          ClockSkewMax,    \* paxos_clock_skew_max, in seconds
          TicksPerSecond,  \* resolution of the model's time
          MaxTime,         \* bound on `now'
          MaxGen,          \* bound on mnt_host_generation
          MaxCorrupt,      \* bound on the number of sectors corrupted
          ReadFaults,      \* whether a sector read may fail
          WriteFaults      \* whether a sector write may fail

ASSUME ConstantsAssumption ==
    /\ NumHosts \in Nat /\ NumHosts >= 2
    /\ LeaseDuration \in Nat
    /\ ClockSkewMax \in Nat
    /\ TicksPerSecond \in Nat \ {0}
    /\ MaxTime \in Nat
    /\ MaxGen \in Nat
    /\ MaxCorrupt \in Nat
    /\ ReadFaults \in BOOLEAN
    /\ WriteFaults \in BOOLEAN

VARIABLES now,       \* real time, in ticks
          sector,    \* the host sectors of the paxos file
          mnt,       \* each host's pfs_mount_t and the locals of its lease code
          ncorrupt   \* how many sectors have been corrupted so far

vars == <<now, sector, mnt, ncorrupt>>

Hosts == 1..NumHosts

Duration == LeaseDuration * TicksPerSecond
Skew == ClockSkewMax * TicksPerSecond

----------------------------------------------------------------------------
(* Sectors and records *)

Empty == [st |-> "empty"]

\* A sector whose magic or checksum is wrong.  `raw' stands for its bytes; two
\* corruptions never leave the same bytes.
Corrupt(n) == [st |-> "corrupt", raw |-> n]

\* What a read returns when the device fails: no bytes at all.
Unreadable == [st |-> "unreadable"]

Record(flag, ts, gen, mbal, bal) ==
    [st |-> "ok", fl |-> flag, ts |-> ts, gen |-> gen, mbal |-> mbal, bal |-> bal]

Records == [st : {"ok"}, fl : {"PREPARE", "RW"}, ts : Nat, gen : Nat,
            mbal : Nat, bal : Nat]

Sectors == {Empty} \cup Records \cup [st : {"corrupt"}, raw : Nat]

\* pfs_host_record_read: the sector as it is, or an I/O error.
HostRecordRead(g) == {sector[g]} \cup {r \in {Unreadable} : ReadFaults}

----------------------------------------------------------------------------
(* Clocks *)

Seconds(t) == t \div TicksPerSecond

\* The readings CLOCK_REALTIME can give at real times t1..t2.
RealtimeBetween(t1, t2) == Seconds(t1)..Seconds(t2 + Skew)
Realtime == RealtimeBetween(now, now)

\* Mutant: the skew is forgotten.
LeaseExpiryAge_NoSkew == LeaseDuration + 1

LeaseExpiryAge == LeaseDuration + ClockSkewMax + 1

\* A record counts as live until it is LeaseExpiryAge old by the reader's
\* clock; one from the future is live.
HostRecordLive(ts, clk) == clk - ts < LeaseExpiryAge

\* Whether a record written with this issue time may have expired for others.
LeaseWriteExpired(issue) == now - issue >= Duration

\* pfs_ballot_generate
Ballot(h) == mnt[h].gen * NumHosts + h

----------------------------------------------------------------------------
(* The state of a host *)

PCs == {"idle", "scan_bad", "watch_bad", "round_bad", "check", "wait_read",
        "wait_poll", "recheck", "read_own", "prepare", "prepare_write",
        "verify", "acquire", "acquire_write", "prepare_expiry", "conflict",
        "rw_expiry", "watchdog_open", "held", "renew_write", "clear"}

\* Not mounted read-write and not trying to be: the state of a fresh process.
Idle == [pc |-> "idle", pos |-> 0, clk |-> 0, bad |-> {}, dead |-> {},
         blocker |-> 0, ts |-> 0, gen |-> 0, issue |-> 0, wt |-> 0, pi |-> 0,
         deadline |-> 0]

BadSectors == [host : Hosts, unreadable : BOOLEAN, switches : Nat, raw : Nat,
               since : Nat]

Mounts == [pc : PCs,
           pos : Nat,                    \* next sector of the scan, 0 before it
           clk : Nat,                    \* clock reading the scan works with
           bad : SUBSET BadSectors,      \* sectors under watch
           dead : SUBSET (Hosts \X Nat), \* lease_dead_set_t: host and bytes
           blocker : {0} \cup Hosts,     \* freshest live RW host, or 0
           ts : Nat,                     \* its timestamp (freshest_ts, initial_ts)
           gen : Nat,                    \* mnt_host_generation
           issue : Nat,                  \* LEASE_CLOCK read for the next write
           wt : Nat,                     \* mnt_lease_write_time
           pi : Nat,                     \* prepare_issue
           deadline : Nat]               \* of the kill timer

TypeOK == /\ now \in Nat
          /\ sector \in [Hosts -> Sectors]
          /\ mnt \in [Hosts -> Mounts]
          /\ ncorrupt \in Nat
          /\ \A h \in Hosts : mnt[h].pc \in {"wait_read", "wait_poll"}
                                => mnt[h].blocker \in Hosts

\* The kill timer is armed exactly while mnt_rw_lease_held is true and the log
\* thread runs: paxos_watchdog_open precedes the assignment and
\* paxos_watchdog_close is the first thing pfs_leader_unload does.
Armed(h) == mnt[h].pc \in {"held", "renew_write"}

Init == /\ now = 0
        /\ sector = [h \in Hosts |-> Empty]
        /\ mnt = [h \in Hosts |-> Idle]
        /\ ncorrupt = 0

\* Host h goes on in state m.
Become(h, m) == mnt' = [mnt EXCEPT ![h] = m]

Goto(h, label) == Become(h, [mnt[h] EXCEPT !.pc = label])

\* pfs_leader_load or pfs_leader_unload returns, or the process ends.
Leave(h) == Become(h, Idle)

\* What is left to do is to clear the host's own sector.
GiveUp(h) == Become(h, [Idle EXCEPT !.pc = "clear"])

\* The sector a scan reads after `p': every scan skips the host's own.
NextPos(h, p) == IF p + 1 = h THEN p + 2 ELSE p + 1

Scanning(h) == mnt[h].pos \in Hosts

\* A scan begins: its clock is read next.
BeginScan(h, label) == Become(h, [mnt[h] EXCEPT !.pc = label, !.pos = 0, !.clk = 0])

\* On to the next sector, or past the last one to the next phase.
Advance(h, label) ==
    LET p == NextPos(h, mnt[h].pos)
    IN  IF p \in Hosts
        THEN Become(h, [mnt[h] EXCEPT !.pos = p])
        ELSE Become(h, [mnt[h] EXCEPT !.pc = label, !.pos = 0, !.clk = 0])

----------------------------------------------------------------------------
(* pfs_rw_lease_wait_bad_sectors: a corrupt sector that keeps its bytes for  *)
(* a whole window belongs to a dead writer; everything else fails closed.    *)

\* pfs_leader_load of a writable mount starts.
LeaderLoad(h) ==
    /\ mnt[h].pc = "idle"
    /\ Become(h, [mnt[h] EXCEPT !.pc = "scan_bad", !.pos = NextPos(h, 0)])
    /\ UNCHANGED <<now, sector, ncorrupt>>

RawOf(r) == IF r.st = "corrupt" THEN r.raw ELSE 0
IsBad(r) == r.st \in {"corrupt", "unreadable"}

\* The entry for a sector just read.  `since' is read after the sector is.
WatchEntry(g, r, switches) ==
    [host |-> g, unreadable |-> r.st = "unreadable", switches |-> switches,
     raw |-> RawOf(r), since |-> now]

ScanBadSector(h) ==
    /\ mnt[h].pc = "scan_bad" /\ Scanning(h)
    /\ \E r \in HostRecordRead(mnt[h].pos) :
         LET p == NextPos(h, mnt[h].pos)
         IN  Become(h, [mnt[h] EXCEPT
               !.pc = IF p \in Hosts THEN @ ELSE "watch_bad",
               !.pos = IF p \in Hosts THEN p ELSE 0,
               !.bad = IF IsBad(r) THEN @ \cup {WatchEntry(mnt[h].pos, r, 0)} ELSE @])
    /\ UNCHANGED <<now, sector, ncorrupt>>

\* The watch ends when no bad sector is left, and the pre-lease check begins.
WatchBadSectors(h) ==
    /\ mnt[h].pc = "watch_bad"
    /\ IF mnt[h].bad = {}
       THEN BeginScan(h, "check")
       ELSE Become(h, [mnt[h] EXCEPT !.pc = "round_bad", !.pos = 1, !.clk = now])
    /\ UNCHANGED <<now, sector, ncorrupt>>

\* The sectors this round has still to read, and the one it reads next.
Todo(h) == {e \in mnt[h].bad : e.host >= mnt[h].pos}
NextBad(h) == {e \in Todo(h) : \A f \in Todo(h) : e.host <= f.host}

MaxSwitches == 2

\* The watch of a sector, in seconds.
BadWindow == LeaseDuration + ClockSkewMax + 1
WindowOver(h, e) == mnt[h].clk - e.since >= BadWindow * TicksPerSecond

\* What the watch makes of entry e when its sector reads r: the entry is
\* dropped, the load fails, the window starts over because the sector turned
\* from corrupt to unreadable or back, the watch goes on, or the writer is dead.
JudgeBad(h, e, r) ==
    IF ~ IsBad(r) THEN "gone"
    ELSE IF ~ (e.unreadable <=> r.st = "unreadable")
    THEN IF e.switches + 1 > MaxSwitches THEN "busy" ELSE "restart"
    ELSE IF r.st = "corrupt" /\ r.raw # e.raw THEN "busy"
    ELSE IF ~ WindowOver(h, e) THEN "keep"
    ELSE IF e.unreadable THEN "busy" ELSE "dead"

ApplyVerdict(h, e, r) ==
    LET verdict == JudgeBad(h, e, r)
        rest == mnt[h].bad \ {e}
    IN  IF verdict = "busy" THEN Leave(h)
        ELSE Become(h, [mnt[h] EXCEPT
               !.pos = e.host + 1,
               !.bad = CASE verdict = "keep" -> @
                         [] verdict = "restart" ->
                              rest \cup {WatchEntry(e.host, r, e.switches + 1)}
                         [] OTHER -> rest,
               !.dead = IF verdict = "dead" THEN @ \cup {<<e.host, e.raw>>} ELSE @])

RoundBadSector(h) ==
    /\ mnt[h].pc = "round_bad"
    /\ \E e \in NextBad(h) : \E r \in HostRecordRead(e.host) : ApplyVerdict(h, e, r)
    /\ UNCHANGED <<now, sector, ncorrupt>>

RoundBadDone(h) ==
    /\ mnt[h].pc = "round_bad" /\ Todo(h) = {}
    /\ Become(h, [mnt[h] EXCEPT !.pc = "watch_bad", !.pos = 0, !.clk = 0])
    /\ UNCHANGED <<now, sector, ncorrupt>>

----------------------------------------------------------------------------
(* The scans of pfs_rw_lease_check, verify_prepare and check_conflict        *)

ScanPCs == {"check", "recheck", "verify", "conflict"}

\* Each of them reads CLOCK_REALTIME before its first sector.
ScanClock(h) ==
    /\ mnt[h].pc \in ScanPCs /\ mnt[h].pos = 0
    /\ \E clk \in Realtime :
         Become(h, [mnt[h] EXCEPT !.pos = NextPos(h, 0), !.clk = clk])
    /\ UNCHANGED <<now, sector, ncorrupt>>

\* lease_sector_dead: only the very bytes that were watched are ignored.
LeaseSectorDead(h, g, r) == r.st = "corrupt" /\ <<g, r.raw>> \in mnt[h].dead

\* A read no scan looks behind: it fails closed.
Refuses(h, g, r) == IsBad(r) /\ ~ LeaseSectorDead(h, g, r)

Live(h, r) == r.st = "ok" /\ HostRecordLive(r.ts, mnt[h].clk)
LiveRW(h, r) == Live(h, r) /\ r.fl = "RW"

\* One sector of pfs_rw_lease_check: remember the freshest live RW host.
CheckSector(h) ==
    /\ mnt[h].pc \in {"check", "recheck"} /\ Scanning(h)
    /\ \E r \in HostRecordRead(mnt[h].pos) :
         IF Refuses(h, mnt[h].pos, r) THEN Leave(h)
         ELSE IF LiveRW(h, r) /\ (mnt[h].blocker = 0 \/ r.ts > mnt[h].ts)
         THEN Become(h, [mnt[h] EXCEPT !.pos = NextPos(h, @),
                                 !.blocker = mnt[h].pos, !.ts = r.ts])
         ELSE Become(h, [mnt[h] EXCEPT !.pos = NextPos(h, @)])
    /\ UNCHANGED <<now, sector, ncorrupt>>

\* Mutant: the blocker is forgotten before the wait for it.
CheckDone_ForgetsBlocker(h) ==
    /\ mnt[h].pc \in {"check", "recheck"} /\ mnt[h].pos > NumHosts
    /\ IF mnt[h].blocker # 0 /\ mnt[h].pc = "recheck" THEN Leave(h)
       ELSE Become(h, [mnt[h] EXCEPT !.pc = IF mnt[h].blocker = 0
                                         THEN "read_own" ELSE "wait_read",
                               !.pos = 0, !.clk = 0, !.ts = 0, !.blocker = 0])
    /\ UNCHANGED <<now, sector, ncorrupt>>

\* A blocker is waited for once; the re-check after the wait just fails.
CheckDone(h) ==
    /\ mnt[h].pc \in {"check", "recheck"} /\ mnt[h].pos > NumHosts
    /\ IF mnt[h].blocker # 0 /\ mnt[h].pc = "recheck" THEN Leave(h)
       ELSE Become(h, [mnt[h] EXCEPT !.pc = IF mnt[h].blocker = 0
                                         THEN "read_own" ELSE "wait_read",
                               !.pos = 0, !.clk = 0, !.ts = 0])
    /\ UNCHANGED <<now, sector, ncorrupt>>

Recheck(h) == Become(h, [mnt[h] EXCEPT !.pc = "recheck", !.blocker = 0,
                                 !.ts = 0, !.pos = 0, !.clk = 0])

\* pfs_rw_lease_wait_and_check: remember the timestamp of the blocker.
WaitRead(h) ==
    /\ mnt[h].pc = "wait_read"
    /\ \E r \in HostRecordRead(mnt[h].blocker) :
         IF r.st = "ok" /\ r.fl = "RW"
         THEN Become(h, [mnt[h] EXCEPT !.pc = "wait_poll", !.ts = r.ts])
         ELSE Recheck(h)
    /\ UNCHANGED <<now, sector, ncorrupt>>

\* One poll.  The clock is read first; the poll that finds the sector as it
\* was and the record live changes nothing.
WaitPoll(h) ==
    /\ mnt[h].pc = "wait_poll"
    /\ \E r \in HostRecordRead(mnt[h].blocker), clk \in Realtime :
         IF r.st # "ok" THEN Recheck(h)
         ELSE IF r.ts # mnt[h].ts THEN Leave(h)
         ELSE /\ ~ HostRecordLive(mnt[h].ts, clk)
              /\ Recheck(h)
    /\ UNCHANGED <<now, sector, ncorrupt>>

----------------------------------------------------------------------------
(* Acquisition: prepare, verify, acquire, check for conflicts, arm           *)

\* The generation follows that of the old record, if there is one.
ReadOwn(h) ==
    /\ mnt[h].pc = "read_own"
    /\ \E r \in HostRecordRead(h) :
         LET gen == IF r.st = "ok" THEN r.gen + 1 ELSE 1
         IN  /\ gen <= MaxGen
             /\ Become(h, [mnt[h] EXCEPT !.pc = "prepare", !.gen = gen])
    /\ UNCHANGED <<now, sector, ncorrupt>>

\* pfs_rw_lease_prepare, _acquire and _renew read LEASE_CLOCK, then
\* CLOCK_REALTIME, then write.  This is the first reading; the write below
\* picks the second from the readings possible since.
WritePhases == {<<"prepare", "prepare_write">>, <<"acquire", "acquire_write">>,
                <<"held", "renew_write">>}

StampWrite(h) ==
    /\ \E w \in WritePhases :
         /\ mnt[h].pc = w[1]
         /\ Become(h, [mnt[h] EXCEPT !.pc = w[2], !.issue = now])
    /\ UNCHANGED <<now, sector, ncorrupt>>

LeaseTimestamps(h) == RealtimeBetween(mnt[h].issue, now)

PrepareRecord(h, ts) == Record("PREPARE", ts, mnt[h].gen, Ballot(h), 0)
RWRecord(h, ts) == Record("RW", ts, mnt[h].gen, Ballot(h), Ballot(h))

Put(h, rec) == sector' = [sector EXCEPT ![h] = rec]

\* A write that fails may have reached the disk all the same.
FailedPut(h, rec) == WriteFaults /\ (Put(h, rec) \/ UNCHANGED sector)

PrepareWrite(h) ==
    /\ mnt[h].pc = "prepare_write"
    /\ \E ts \in LeaseTimestamps(h) :
         \/ /\ Put(h, PrepareRecord(h, ts))
            /\ Become(h, [mnt[h] EXCEPT !.pc = "verify", !.pos = 0, !.clk = 0,
                            !.issue = 0, !.wt = mnt[h].issue, !.pi = mnt[h].issue])
         \/ FailedPut(h, PrepareRecord(h, ts)) /\ GiveUp(h)
    /\ UNCHANGED <<now, ncorrupt>>

\* A live RW record stops us whatever its ballot, a PREPARE one that is not
\* below ours.
VerifyYields(h, r) == Live(h, r) /\ (r.fl = "RW" \/ r.mbal >= Ballot(h))

VerifySector(h) ==
    /\ mnt[h].pc = "verify" /\ Scanning(h)
    /\ \E r \in HostRecordRead(mnt[h].pos) :
         IF Refuses(h, mnt[h].pos, r) \/ VerifyYields(h, r)
         THEN GiveUp(h)
         ELSE Advance(h, "acquire")
    /\ UNCHANGED <<now, sector, ncorrupt>>

\* A failed write of the RW record is not cleared: the record, if it is there,
\* is never renewed and expires.
AcquireWrite(h) ==
    /\ mnt[h].pc = "acquire_write"
    /\ \E ts \in LeaseTimestamps(h) :
         \/ /\ Put(h, RWRecord(h, ts))
            /\ Become(h, [mnt[h] EXCEPT !.pc = "prepare_expiry", !.issue = 0,
                                  !.wt = mnt[h].issue])
         \/ FailedPut(h, RWRecord(h, ts)) /\ Leave(h)
    /\ UNCHANGED <<now, ncorrupt>>

\* The RW record had to land while the PREPARE record was live for everyone.
PrepareExpiry(h) ==
    /\ mnt[h].pc = "prepare_expiry"
    /\ IF LeaseWriteExpired(mnt[h].pi) THEN GiveUp(h) ELSE BeginScan(h, "conflict")
    /\ UNCHANGED <<now, sector, ncorrupt>>

ConflictYields(h, r) ==
    Live(h, r) /\ (IF r.fl = "RW" THEN r.bal ELSE r.mbal) > Ballot(h)

ConflictSector(h) ==
    /\ mnt[h].pc = "conflict" /\ Scanning(h)
    /\ \E r \in HostRecordRead(mnt[h].pos) :
         IF Refuses(h, mnt[h].pos, r) \/ ConflictYields(h, r)
         THEN GiveUp(h)
         ELSE Advance(h, "rw_expiry")
    /\ UNCHANGED <<now, sector, ncorrupt>>

RWExpiry(h) ==
    /\ mnt[h].pc = "rw_expiry"
    /\ IF LeaseWriteExpired(mnt[h].wt) THEN GiveUp(h) ELSE Goto(h, "watchdog_open")
    /\ UNCHANGED <<now, sector, ncorrupt>>

\* Mutant: a deadline counted from the arming.
KillDeadline_FromNow(wt) == now + Duration

\* paxos_kill_timer_arm: an absolute deadline.
KillDeadline(wt) == wt + Duration

\* The timer cannot be set up, its deadline is past and it fires at once, or it
\* is armed and the lease is held.
WatchdogOpen(h) ==
    /\ mnt[h].pc = "watchdog_open"
    /\ \/ GiveUp(h)
       \/ KillDeadline(mnt[h].wt) <= now /\ Leave(h)
       \/ /\ KillDeadline(mnt[h].wt) > now
          /\ Become(h, [mnt[h] EXCEPT !.pc = "held", !.dead = {}, !.pi = 0,
                                !.deadline = KillDeadline(mnt[h].wt)])
    /\ UNCHANGED <<now, sector, ncorrupt>>

----------------------------------------------------------------------------
(* Renewal, release, fencing and the environment                             *)

\* Mutant: the timer is re-armed even when the write failed.
RenewWrite_PetsOnFailure(h) ==
    /\ mnt[h].pc = "renew_write"
    /\ \E ts \in LeaseTimestamps(h) :
         /\ Put(h, RWRecord(h, ts)) \/ FailedPut(h, RWRecord(h, ts))
         /\ Become(h, [mnt[h] EXCEPT !.pc = "held", !.wt = mnt[h].issue,
                            !.issue = 0, !.deadline = KillDeadline(mnt[h].issue)])
    /\ UNCHANGED <<now, ncorrupt>>

\* pfs_rw_lease_renew and paxos_watchdog_pet in the log thread.  When the write
\* or the re-arming fails the earlier deadline stands.
RenewWrite(h) ==
    /\ mnt[h].pc = "renew_write"
    /\ \E ts \in LeaseTimestamps(h) :
         \/ /\ Put(h, RWRecord(h, ts))
            /\ \E deadline \in {mnt[h].deadline, KillDeadline(mnt[h].issue)} :
                 Become(h, [mnt[h] EXCEPT !.pc = "held", !.wt = mnt[h].issue,
                                    !.issue = 0, !.deadline = deadline])
         \/ /\ FailedPut(h, RWRecord(h, ts))
            /\ Become(h, [mnt[h] EXCEPT !.pc = "held", !.issue = 0])
    /\ UNCHANGED <<now, ncorrupt>>

\* pfs_leader_unload: the log thread is stopped or suspended by then; disarm.
LeaderUnload(h) ==
    /\ mnt[h].pc = "held"
    /\ GiveUp(h)
    /\ UNCHANGED <<now, sector, ncorrupt>>

\* pfs_host_record_clear.  Its failure is only logged.
HostRecordClear(h) ==
    /\ mnt[h].pc = "clear"
    /\ Put(h, Empty) \/ FailedPut(h, Empty)
    /\ Leave(h)
    /\ UNCHANGED <<now, ncorrupt>>

\* The kill timer fires: SIGUSR2, whose handler sends SIGKILL.
Kill(h) ==
    /\ Armed(h) /\ now >= mnt[h].deadline
    /\ Leave(h)
    /\ UNCHANGED <<now, sector, ncorrupt>>

\* The process dies at any point; the log thread's abort() is one such point.
Crash(h) ==
    /\ mnt[h].pc # "idle"
    /\ Leave(h)
    /\ UNCHANGED <<now, sector, ncorrupt>>

\* Something writes garbage over a sector, or tears a write.
CorruptSector(h) ==
    /\ ncorrupt < MaxCorrupt
    /\ ncorrupt' = ncorrupt + 1
    /\ Put(h, Corrupt(ncorrupt'))
    /\ UNCHANGED <<now, mnt>>

\* Time passes, but not beyond the deadline of an armed timer: it fires first.
Tick ==
    /\ now < MaxTime
    /\ \A h \in Hosts : Armed(h) => now < mnt[h].deadline
    /\ now' = now + 1
    /\ UNCHANGED <<sector, mnt, ncorrupt>>

WaitBad(h) == LeaderLoad(h) \/ ScanBadSector(h) \/ WatchBadSectors(h)
              \/ RoundBadSector(h) \/ RoundBadDone(h)
Check(h) == ScanClock(h) \/ CheckSector(h) \/ CheckDone(h) \/ WaitRead(h)
            \/ WaitPoll(h)
Acquire(h) == ReadOwn(h) \/ StampWrite(h) \/ PrepareWrite(h) \/ VerifySector(h)
              \/ AcquireWrite(h) \/ PrepareExpiry(h)
              \/ ConflictSector(h) \/ RWExpiry(h)
              \/ WatchdogOpen(h)
Hold(h) == RenewWrite(h) \/ LeaderUnload(h) \/ HostRecordClear(h)

Next == \/ Tick
        \/ \E h \in Hosts : WaitBad(h) \/ Check(h) \/ Acquire(h) \/ Hold(h)
                            \/ Kill(h) \/ Crash(h) \/ CorruptSector(h)

Spec == Init /\ [][Next]_vars

----------------------------------------------------------------------------
(* Properties *)

\* At most one host holds the RW lease: the promise of pfs_leader_load, which
\* returns success for a writable mount only to the single writer.
MutualExclusion ==
    \A a, b \in Hosts : Armed(a) /\ Armed(b) => a = b

\* While a host holds the lease, every other host that reads its sector, by
\* whatever clock reading the skew bound allows, finds a live RW record, or
\* bytes it has not watched and so refuses: no scan ever passes over a holder.
HolderVisible ==
    \A h \in Hosts : Armed(h) =>
        \/ /\ sector[h].st = "ok" /\ sector[h].fl = "RW"
           /\ \A clk \in Realtime : HostRecordLive(sector[h].ts, clk)
        \/ /\ sector[h].st = "corrupt"
           /\ \A g \in Hosts : <<h, sector[h].raw>> \notin mnt[g].dead

----------------------------------------------------------------------------
(* The inductive invariant behind them *)

PreparedPCs == {"verify", "acquire", "acquire_write", "prepare_expiry",
                "conflict", "rw_expiry", "watchdog_open", "held", "renew_write"}

\* The host's PREPARE record has landed and it has not given up.
Prepared(h) == mnt[h].pc \in PreparedPCs
HasRW(h) == mnt[h].pc \in PreparedPCs \ {"verify", "acquire", "acquire_write"}

\* The host's verify (conflict) scan has read sector g and gone on.
VerifiedPast(h, g) == \/ mnt[h].pc = "verify" /\ mnt[h].pos > g
                      \/ mnt[h].pc \in PreparedPCs \ {"verify"}
ConflictPast(h, g) == \/ mnt[h].pc = "conflict" /\ mnt[h].pos > g
                      \/ mnt[h].pc \in {"rw_expiry", "watchdog_open", "held",
                                        "renew_write"}

\* The write whose age the host checks next, and whether it still passes: a
\* prepared host that is not in time can no longer become or stay the holder.
LastIssue(h) == IF mnt[h].pc \in {"verify", "acquire", "acquire_write", "prepare_expiry"}
                THEN mnt[h].pi ELSE mnt[h].wt
InTime(h) == Prepared(h) /\ now <= LastIssue(h) + Duration

\* Readings never run ahead of the clock by more than the skew, and the kill
\* timer fires no later than LeaseDuration after the last write.
ClocksOK(h) ==
    /\ mnt[h].pc \in ScanPCs => mnt[h].clk * TicksPerSecond <= now + Skew
    /\ mnt[h].pc = "round_bad" => mnt[h].clk <= now
    /\ mnt[h].pc = "prepare_write" => mnt[h].issue <= now
    /\ mnt[h].pc \in {"acquire_write", "renew_write"} =>
         mnt[h].wt <= mnt[h].issue /\ mnt[h].issue <= now
    /\ Prepared(h) => mnt[h].wt <= now
    /\ Prepared(h) /\ ~ Armed(h) => mnt[h].pi <= mnt[h].wt
    /\ Armed(h) => now <= mnt[h].deadline /\ mnt[h].deadline <= mnt[h].wt + Duration

\* A prepared host's sector holds its record, no older than its last write, or
\* has been corrupted.
SectorOK(h) ==
    Prepared(h) =>
      \/ sector[h].st = "corrupt"
      \/ /\ sector[h].st = "ok"
         /\ mnt[h].wt < sector[h].ts * TicksPerSecond + TicksPerSecond
         /\ sector[h].mbal = Ballot(h)
         /\ sector[h].fl = IF HasRW(h) THEN "RW" ELSE "PREPARE"
         /\ HasRW(h) => sector[h].bal = Ballot(h)

\* Bytes seen once never come back after the sector changed.
RawOK(h) ==
    /\ sector[h].st = "corrupt" => sector[h].raw <= ncorrupt
    /\ \A e \in mnt[h].bad : e.raw <= ncorrupt /\ e.since <= now
    /\ \A d \in mnt[h].dead : d[2] <= ncorrupt

\* The last write into a corrupt sector under watch came before the watch.
WatchOK(h, g) ==
    Prepared(g) /\ sector[g].st = "corrupt" =>
      \A e \in mnt[h].bad :
        e.host = g /\ ~ e.unreadable /\ e.raw = sector[g].raw
          => mnt[g].wt <= e.since

\* A writer judged dead is out of time.
DeadOK(h, g) ==
    InTime(g) /\ sector[g].st = "corrupt"
      => <<g, sector[g].raw>> \notin mnt[h].dead

\* Of two hosts in time, the one that got past the other's RW record in its
\* verify scan and let that host past its own record has the lower ballot.
BallotOK(a, b) ==
    a # b /\ InTime(a) /\ InTime(b) /\ VerifiedPast(b, a) /\ ConflictPast(a, b)
      => Ballot(b) < Ballot(a)

\* The inductive invariant: no record, watch or verdict outlives what it says
\* about its writer, so two hosts in time are ordered by their ballots.
LeaseInv ==
    /\ TypeOK
    /\ \A h \in Hosts : ClocksOK(h) /\ SectorOK(h) /\ RawOK(h)
    /\ \A h, g \in Hosts : WatchOK(h, g) /\ DeadOK(h, g) /\ BallotOK(h, g)

=============================================================================
