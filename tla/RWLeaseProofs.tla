--------------------------- MODULE RWLeaseProofs ----------------------------
(***************************************************************************)
(* The RW lease, for every number of hosts, lease duration, skew bound, clock *)
(* resolution and every bound of the model: arithmetic of the clocks, typing, *)
(* what a step keeps by what it does to the host that takes it; the steps of *)
(* a load that read sectors (the watch of bad sectors, the pre-lease check *)
(* and the wait, the verify and conflict scans); the steps that write them; *)
(* the theorems.                                                           *)
(***************************************************************************)
EXTENDS RWLease, TLAPS

----------------------------------------------------------------------------
(* Arithmetic of the clocks *)

\* Durations in ticks are natural numbers.
LEMMA TicksType ==
    /\ TicksPerSecond \in Nat /\ TicksPerSecond >= 1
    /\ Duration \in Nat /\ Skew \in Nat
BY ConstantsAssumption DEF Duration, Skew

\* Truncation to whole seconds loses less than a second.
LEMMA SecondsBounds ==
    ASSUME NEW t \in Nat
    PROVE  /\ Seconds(t) \in Nat
           /\ Seconds(t) * TicksPerSecond <= t
           /\ t < Seconds(t) * TicksPerSecond + TicksPerSecond
BY TicksType DEF Seconds

\* A number of seconds in ticks is a natural number.
LEMMA TicksOf ==
    ASSUME NEW a \in Nat
    PROVE  a * TicksPerSecond \in Nat /\ TicksPerSecond \in Nat
BY TicksType

\* Multiplication preserves order.
LEMMA MulMono ==
    ASSUME NEW a \in Int, NEW b \in Int, NEW k \in Nat, a <= b
    PROVE  a * k <= b * k
OBVIOUS

\* A CLOCK_REALTIME reading taken between t1 and t2 is at most the skew ahead
\* of t2 and, truncation apart, not behind t1.
LEMMA RealtimeBounds ==
    ASSUME NEW t1 \in Nat, NEW t2 \in Nat, NEW x \in RealtimeBetween(t1, t2)
    PROVE  /\ x \in Nat
           /\ x * TicksPerSecond <= t2 + Skew
           /\ t1 < x * TicksPerSecond + TicksPerSecond
<1> DEFINE lo == Seconds(t1)
           hi == Seconds(t2 + Skew)
<1>1. t2 + Skew \in Nat
  BY TicksType
<1>2. lo \in Nat /\ hi \in Nat
  BY Zenon, <1>1, SecondsBounds
<1>3. x \in Nat /\ lo <= x /\ x <= hi
  BY <1>2 DEF RealtimeBetween
<1>4. hi * TicksPerSecond <= t2 + Skew
  BY Zenon, <1>1, SecondsBounds
<1>5. t1 < lo * TicksPerSecond + TicksPerSecond
  BY Zenon, SecondsBounds
<1>6. x * TicksPerSecond <= hi * TicksPerSecond
  BY <1>2, <1>3, TicksType, MulMono
<1>7. lo * TicksPerSecond <= x * TicksPerSecond
  BY <1>2, <1>3, TicksType, MulMono
<1> HIDE DEF lo, hi
<1>8. QED
  BY <1>2, <1>3, <1>4, <1>5, <1>6, <1>7, TicksType

\* A record that a reader no longer counts as live was written more than
\* LeaseDuration ago, whatever the clocks of writer and reader showed: the
\* reason for the skew and the extra second in lease_expiry_age.
LEMMA ExpiredMeansLate ==
    ASSUME NEW ts \in Nat, NEW clk \in Nat, NEW t \in Nat, NEW w \in Nat,
           ~ HostRecordLive(ts, clk),
           clk * TicksPerSecond <= t + Skew,
           w < ts * TicksPerSecond + TicksPerSecond
    PROVE  w + Duration < t
<1> DEFINE K == TicksPerSecond
<1>1. ts + (LeaseDuration + ClockSkewMax + 1) <= clk
  BY ConstantsAssumption DEF HostRecordLive, LeaseExpiryAge
<1>2. (ts + (LeaseDuration + ClockSkewMax + 1)) * K <= clk * K
  BY <1>1, MulMono, ConstantsAssumption
<1>3. (ts + (LeaseDuration + ClockSkewMax + 1)) * K = ts * K + Duration + Skew + K
  BY ConstantsAssumption DEF Duration, Skew
<1>4. ts * K \in Nat /\ clk * K \in Nat
  BY TicksType
<1>5. QED
  BY <1>2, <1>3, <1>4, TicksType

\* Two hosts never use the same ballot.
LEMMA BallotsDiffer ==
    ASSUME NEW a \in Hosts, NEW b \in Hosts, a # b,
           NEW ga \in Nat, NEW gb \in Nat
    PROVE  ga * NumHosts + a # gb * NumHosts + b
<1>1. NumHosts \in Nat /\ a \in 1..NumHosts /\ b \in 1..NumHosts
  BY Zenon, ConstantsAssumption DEF Hosts
<1>2. CASE ga = gb
  BY <1>1, <1>2
<1>3. CASE ga + 1 <= gb
  <2>1. (ga + 1) * NumHosts <= gb * NumHosts
    BY <1>1, <1>3, MulMono
  <2>2. (ga + 1) * NumHosts = ga * NumHosts + NumHosts
    BY <1>1
  <2>3. ga * NumHosts \in Nat /\ gb * NumHosts \in Nat
    BY <1>1
  <2>4. QED
    BY <1>1, <2>1, <2>2, <2>3
<1>4. CASE gb + 1 <= ga
  <2>1. (gb + 1) * NumHosts <= ga * NumHosts
    BY <1>1, <1>4, MulMono
  <2>2. (gb + 1) * NumHosts = gb * NumHosts + NumHosts
    BY <1>1
  <2>3. ga * NumHosts \in Nat /\ gb * NumHosts \in Nat
    BY <1>1
  <2>4. QED
    BY <1>1, <2>1, <2>2, <2>3
<1>5. QED
  BY <1>2, <1>3, <1>4

----------------------------------------------------------------------------
(* Typing *)

\* What a sector read returns: the sector, or an error without content.
LEMMA ReadType ==
    ASSUME TypeOK, NEW g \in Hosts, NEW r \in HostRecordRead(g)
    PROVE  \/ r = sector[g] /\ r \in Sectors
           \/ r = Unreadable
BY Zenon DEF TypeOK, HostRecordRead

\* The fields of what was read have their types.
LEMMA ReadFields ==
    ASSUME TypeOK, NEW g \in Hosts, NEW r \in HostRecordRead(g)
    PROVE  /\ r.st \in {"empty", "ok", "corrupt", "unreadable"}
           /\ r.st = "ok" => r.ts \in Nat /\ r.gen \in Nat /\ r.mbal \in Nat /\ r.bal \in Nat
           /\ r.st = "corrupt" => r.raw \in Nat
           /\ r.st # "unreadable" => r = sector[g]
BY ReadType DEF Sectors, Empty, Records, Unreadable

\* Ballots are natural numbers.
LEMMA BallotType ==
    ASSUME TypeOK, NEW h \in Hosts
    PROVE  Ballot(h) \in Nat
<1>1. mnt[h].gen \in Nat /\ NumHosts \in Nat /\ h \in Nat
  BY ConstantsAssumption DEF TypeOK, Mounts, Hosts
<1>2. QED
  BY <1>1 DEF Ballot

\* Record constructors build records.
LEMMA RecordType ==
    ASSUME TypeOK, NEW h \in Hosts, NEW ts \in Nat
    PROVE  /\ PrepareRecord(h, ts) \in Sectors
           /\ RWRecord(h, ts) \in Sectors
<1>1. mnt[h].gen \in Nat
  BY Zenon DEF TypeOK, Mounts
<1>2. QED
  BY Zenon, <1>1, BallotType DEF PrepareRecord, RWRecord, Record, Records, Sectors

\* Host ids and scan positions are natural numbers.
LEMMA PosType ==
    /\ Hosts \subseteq Nat
    /\ \A h \in Hosts : \A p \in Nat : NextPos(h, p) \in Nat
BY ConstantsAssumption DEF Hosts, NextPos

\* A watch entry has the type of one and dates from now.
LEMMA WatchEntryType ==
    ASSUME TypeOK, NEW g \in Hosts, NEW r \in HostRecordRead(g), NEW n \in Nat
    PROVE  /\ WatchEntry(g, r, n) \in BadSectors
           /\ WatchEntry(g, r, n).since = now
           /\ WatchEntry(g, r, n).raw = IF r.st = "corrupt" THEN r.raw ELSE 0
<1>1. RawOf(r) \in Nat
  BY Zenon, ReadFields DEF RawOf
<1>2. (r.st = "unreadable") \in BOOLEAN
  BY Zenon
<1>3. QED
  BY Zenon, <1>1, <1>2 DEF WatchEntry, BadSectors, TypeOK, RawOf

\* A host's state has its type, and so have its bad sectors.
LEMMA MountType ==
    ASSUME TypeOK, NEW h \in Hosts
    PROVE  /\ mnt[h] \in Mounts
           /\ mnt[h].bad \subseteq BadSectors
           /\ mnt[h].clk \in Nat /\ mnt[h].wt \in Nat /\ mnt[h].pi \in Nat
           /\ mnt[h].issue \in Nat /\ mnt[h].deadline \in Nat /\ mnt[h].pos \in Nat
BY Zenon DEF TypeOK, Mounts

\* Both resting states are states of a host.
LEMMA RestType ==
    /\ Idle \in Mounts /\ Idle.pc = "idle" /\ Idle.bad = {} /\ Idle.dead = {}
    /\ [Idle EXCEPT !.pc = "clear"] \in Mounts
    /\ [Idle EXCEPT !.pc = "clear"].pc = "clear"
    /\ [Idle EXCEPT !.pc = "clear"].bad = {}
    /\ [Idle EXCEPT !.pc = "clear"].dead = {}
BY DEF Idle, Mounts, PCs

----------------------------------------------------------------------------
(* Steps by what they do to the host that takes them *)

\* What Become leaves alone.
LEMMA BecomeFacts ==
    ASSUME TypeOK, NEW h \in Hosts, NEW m, Become(h, m)
    PROVE  /\ mnt'[h] = m
           /\ \A g \in Hosts \ {h} : mnt'[g] = mnt[g]
BY Zenon DEF TypeOK, Become

\* A step after which host h is not prepared keeps the invariant if its clock
\* readings are honest and what it added to its watch list and its dead set is.
LEMMA QuietStep ==
    ASSUME LeaseInv, NEW h \in Hosts, NEW m \in Mounts, Become(h, m),
           UNCHANGED <<now, ncorrupt>>,
           \/ UNCHANGED sector
           \/ \E rec \in Sectors : rec.st # "corrupt" /\ Put(h, rec),
           m.pc \notin PreparedPCs,
           m.pc \in {"wait_read", "wait_poll"} => m.blocker \in Hosts,
           m.pc \in ScanPCs => m.clk * TicksPerSecond <= now + Skew,
           m.pc = "round_bad" => m.clk <= now,
           m.pc = "prepare_write" => m.issue <= now,
           \A e \in m.bad : e \in mnt[h].bad \/ (e.raw <= ncorrupt /\ e.since = now),
           \A d \in m.dead : \/ d \in mnt[h].dead
                             \/ /\ d[2] <= ncorrupt
                                /\ \A g \in Hosts :
                                     sector[g].st = "corrupt" /\ d = <<g, sector[g].raw>>
                                       => ~ InTime(g)
    PROVE  LeaseInv'
<1>1. /\ TypeOK
      /\ mnt'[h] = m
      /\ \A g \in Hosts \ {h} : mnt'[g] = mnt[g] /\ sector'[g] = sector[g]
      /\ sector'[h] = sector[h] \/ sector'[h].st # "corrupt"
      /\ sector' \in [Hosts -> Sectors]
      /\ mnt' \in [Hosts -> Mounts]
  BY BecomeFacts DEF LeaseInv, TypeOK, Put, Become
<1>2. TypeOK'
  BY Zenon, <1>1 DEF TypeOK
<1>3. ~ Prepared(h)' /\ ~ Armed(h)' /\ ~ InTime(h)'
  BY Zenon, <1>1 DEF Prepared, Armed, InTime, PreparedPCs
<1>4. \A g \in Hosts \ {h} : /\ Prepared(g)' = Prepared(g)
                             /\ HasRW(g)' = HasRW(g)
                             /\ InTime(g)' = InTime(g)
                             /\ Ballot(g)' = Ballot(g)
                             /\ ClocksOK(g)' = ClocksOK(g)
  BY <1>1 DEF Prepared, HasRW, InTime, Ballot, LastIssue, ClocksOK, Armed
<1>5. \A g \in Hosts : ClocksOK(g)'
  BY <1>1, <1>3, <1>4 DEF LeaseInv, ClocksOK, PreparedPCs, Armed
<1>6. \A g \in Hosts : SectorOK(g)'
  BY <1>1, <1>3, <1>4 DEF LeaseInv, SectorOK
<1>7. \A g \in Hosts : RawOK(g)'
  BY <1>1 DEF LeaseInv, RawOK, TypeOK
<1>8. ASSUME NEW f \in Hosts, NEW g \in Hosts PROVE WatchOK(f, g)'
  <2>1. CASE g = h
    BY Zenon, <1>3, <2>1 DEF WatchOK
  <2>2. CASE g # h /\ f # h
    BY ZenonT(40), <1>1, <1>4, <2>2 DEF LeaseInv, WatchOK
  <2>3. CASE g # h /\ f = h
    <3>1. Prepared(g) => mnt[g].wt <= now
      BY Zenon DEF LeaseInv, ClocksOK
    <3>2. QED
      BY <1>1, <1>4, <2>3, <3>1 DEF LeaseInv, WatchOK
  <2>4. QED
    BY Zenon, <2>1, <2>2, <2>3
<1>9. ASSUME NEW f \in Hosts, NEW g \in Hosts PROVE DeadOK(f, g)'
  <2>1. CASE g = h
    BY Zenon, <1>3, <2>1 DEF DeadOK
  <2>2. CASE g # h /\ f # h
    BY ZenonT(40), <1>1, <1>4, <2>2 DEF LeaseInv, DeadOK
  <2>3. CASE g # h /\ f = h
    BY <1>1, <1>4, <2>3 DEF LeaseInv, DeadOK
  <2>4. QED
    BY <2>1, <2>2, <2>3
<1>10. ASSUME NEW f \in Hosts, NEW g \in Hosts PROVE BallotOK(f, g)'
  <2>1. CASE f = h \/ g = h
    BY Zenon, <1>3, <2>1 DEF BallotOK
  <2>2. CASE f # h /\ g # h
    BY <1>1, <1>4, <2>2 DEF LeaseInv, BallotOK, VerifiedPast, ConflictPast
  <2>3. QED
    BY Zenon, <2>1, <2>2
<1>11. QED
  BY Zenon, <1>2, <1>5, <1>6, <1>7, <1>8, <1>9, <1>10 DEF LeaseInv

\* A step after which host h is prepared keeps the invariant if its own record
\* and clocks are right and it is in order with every other host.
LEMMA PreparedStep ==
    ASSUME LeaseInv, NEW h \in Hosts, NEW m \in Mounts, Become(h, m),
           UNCHANGED <<now, ncorrupt>>,
           \/ UNCHANGED sector
           \/ \E rec \in Sectors : rec.st = "ok" /\ Put(h, rec),
           m.pc \in PreparedPCs,
           m.bad \subseteq mnt[h].bad, m.dead \subseteq mnt[h].dead,
           ClocksOK(h)', SectorOK(h)',
           sector'[h].st = "corrupt" => /\ Prepared(h)
                                        /\ m.wt = mnt[h].wt
                                        /\ InTime(h)' => InTime(h),
           \A g \in Hosts \ {h} : BallotOK(h, g)' /\ BallotOK(g, h)'
    PROVE  LeaseInv'
<1>1. /\ TypeOK
      /\ mnt'[h] = m
      /\ \A g \in Hosts \ {h} : mnt'[g] = mnt[g] /\ sector'[g] = sector[g]
      /\ sector' = sector \/ sector'[h].st = "ok"
      /\ sector' \in [Hosts -> Sectors]
      /\ mnt' \in [Hosts -> Mounts]
  BY BecomeFacts DEF LeaseInv, TypeOK, Put, Become
<1>2. TypeOK'
  <2>1. m.pc \notin {"wait_read", "wait_poll"}
    BY ZenonT(40) DEF PreparedPCs
  <2>2. QED
    BY Zenon, <1>1, <2>1 DEF TypeOK
<1>4. \A g \in Hosts \ {h} : /\ Prepared(g)' = Prepared(g)
                             /\ HasRW(g)' = HasRW(g)
                             /\ InTime(g)' = InTime(g)
                             /\ Ballot(g)' = Ballot(g)
                             /\ ClocksOK(g)' = ClocksOK(g)
  BY <1>1 DEF Prepared, HasRW, InTime, Ballot, LastIssue, ClocksOK, Armed
<1>5. \A g \in Hosts : ClocksOK(g)'
  BY Zenon, <1>4 DEF LeaseInv
<1>6. \A g \in Hosts : SectorOK(g)'
  BY SMTT(30), <1>1, <1>4 DEF LeaseInv, SectorOK
<1>7. \A g \in Hosts : RawOK(g)'
  BY <1>1 DEF LeaseInv, RawOK
<1>8. ASSUME NEW f \in Hosts, NEW g \in Hosts PROVE WatchOK(f, g)'
  <2>1. mnt'[f].bad \subseteq mnt[f].bad
    BY ZenonT(40), <1>1
  <2>2. CASE g = h
    BY SMTT(30), <1>1, <2>1, <2>2 DEF LeaseInv, WatchOK
  <2>3. CASE g # h
    BY SMTT(30), <1>1, <1>4, <2>1, <2>3 DEF LeaseInv, WatchOK
  <2>4. QED
    BY Zenon, <2>2, <2>3
<1>9. ASSUME NEW f \in Hosts, NEW g \in Hosts PROVE DeadOK(f, g)'
  <2>1. mnt'[f].dead \subseteq mnt[f].dead
    BY Zenon, <1>1
  <2>2. CASE g = h
    BY Zenon, <1>1, <2>1, <2>2 DEF LeaseInv, DeadOK
  <2>3. CASE g # h
    BY Zenon, <1>1, <1>4, <2>1, <2>3 DEF LeaseInv, DeadOK
  <2>4. QED
    BY <2>2, <2>3
<1>10. ASSUME NEW f \in Hosts, NEW g \in Hosts PROVE BallotOK(f, g)'
  <2>1. CASE f = g
    BY Zenon, <2>1 DEF BallotOK
  <2>2. CASE f # g /\ (f = h \/ g = h)
    BY Zenon, <2>2
  <2>3. CASE f # h /\ g # h
    BY <1>1, <1>4, <2>3 DEF LeaseInv, BallotOK, VerifiedPast, ConflictPast
  <2>4. QED
    BY Zenon, <2>1, <2>2, <2>3
<1>11. QED
  BY Zenon, <1>2, <1>5, <1>6, <1>7, <1>8, <1>9, <1>10 DEF LeaseInv

\* The order with the other hosts is kept by a step of h that lets it pass no
\* further sector and that it can only take in time.
LEMMA BallotKept ==
    ASSUME LeaseInv, NEW h \in Hosts, NEW m \in Mounts, Become(h, m),
           now' = now, m.gen = mnt[h].gen,
           InTime(h)' => InTime(h),
           \A g \in Hosts \ {h} : /\ VerifiedPast(h, g)' => VerifiedPast(h, g)
                                  /\ ConflictPast(h, g)' => ConflictPast(h, g)
    PROVE  \A g \in Hosts \ {h} : BallotOK(h, g)' /\ BallotOK(g, h)'
<1> TAKE g \in Hosts \ {h}
<1>1. TypeOK /\ mnt'[h] = m /\ mnt'[g] = mnt[g]
  BY Zenon, BecomeFacts DEF LeaseInv
<1>2. /\ InTime(g)' = InTime(g)
      /\ VerifiedPast(g, h)' = VerifiedPast(g, h)
      /\ ConflictPast(g, h)' = ConflictPast(g, h)
      /\ Ballot(g)' = Ballot(g) /\ Ballot(h)' = Ballot(h)
  BY Zenon, <1>1 DEF InTime, Prepared, LastIssue, VerifiedPast, ConflictPast, Ballot
<1>3. QED
  BY Zenon, <1>2 DEF LeaseInv, BallotOK

\* Steps that end at rest: an error return, a release, a crash, a kill.
LEMMA RestStep ==
    ASSUME LeaseInv, NEW h \in Hosts, Leave(h) \/ GiveUp(h),
           UNCHANGED <<now, ncorrupt>>,
           \/ UNCHANGED sector
           \/ \E rec \in Sectors : rec.st # "corrupt" /\ Put(h, rec)
    PROVE  LeaseInv'
<1>1. CASE Leave(h)
  BY Zenon, <1>1, RestType, QuietStep DEF Leave, PreparedPCs, ScanPCs
<1>2. CASE GiveUp(h)
  BY <1>2, RestType, QuietStep, ZenonT(60) DEF GiveUp, PreparedPCs, ScanPCs
<1>3. QED
  BY Zenon, <1>1, <1>2

----------------------------------------------------------------------------
(* The steps that no scan has a part in *)

\* Release, fencing and crashes end at rest.
LEMMA EndStep ==
    ASSUME LeaseInv, NEW h \in Hosts,
           LeaderUnload(h) \/ HostRecordClear(h) \/ Kill(h) \/ Crash(h)
    PROVE  LeaseInv'
<1>1. Empty \in Sectors /\ Empty.st # "corrupt"
  BY Zenon DEF Empty, Sectors
<1>2. QED
  BY Zenon, <1>1, RestStep DEF LeaderUnload, HostRecordClear, Kill, Crash, FailedPut

\* Fresh garbage in a sector: nobody has watched these bytes.
LEMMA CorruptStep ==
    ASSUME LeaseInv, NEW h \in Hosts, CorruptSector(h)
    PROVE  LeaseInv'
<1>1. /\ TypeOK /\ ncorrupt \in Nat /\ ncorrupt' = ncorrupt + 1
      /\ now' = now /\ mnt' = mnt
      /\ sector'[h] = [st |-> "corrupt", raw |-> ncorrupt + 1]
      /\ \A g \in Hosts \ {h} : sector'[g] = sector[g]
      /\ sector' \in [Hosts -> Sectors]
  BY DEF LeaseInv, TypeOK, CorruptSector, Put, Corrupt, Sectors
<1>2. sector'[h].st = "corrupt" /\ sector'[h].raw = ncorrupt + 1
  BY <1>1
<1>3. TypeOK'
  BY <1>1 DEF TypeOK
<1>4. \A g \in Hosts : /\ Prepared(g)' = Prepared(g) /\ HasRW(g)' = HasRW(g)
                       /\ InTime(g)' = InTime(g) /\ Ballot(g)' = Ballot(g)
                       /\ ClocksOK(g)' = ClocksOK(g)
  BY <1>1 DEF Prepared, HasRW, InTime, Ballot, LastIssue, ClocksOK, Armed
<1>5. \A g \in Hosts : SectorOK(g)'
  BY <1>1, <1>2, <1>4 DEF LeaseInv, SectorOK
<1>6. \A g \in Hosts : /\ sector[g].st = "corrupt" => sector[g].raw \in Nat
                       /\ \A e \in mnt[g].bad : e.raw \in Nat
                       /\ \A d \in mnt[g].dead : d[2] \in Nat
  BY <1>1 DEF TypeOK, Sectors, Empty, Records, Mounts, BadSectors
<1>7. \A g \in Hosts : RawOK(g)'
  <2> TAKE g \in Hosts
  <2>1. RawOK(g)
    BY Zenon DEF LeaseInv
  <2>2. (sector[g].st = "corrupt" => sector[g].raw <= ncorrupt)'
    BY <1>1, <1>2, <1>6, <2>1 DEF RawOK
  <2>3. (\A e \in mnt[g].bad : e.raw <= ncorrupt /\ e.since <= now)'
    BY <1>1, <1>6, <2>1 DEF RawOK
  <2>4. (\A d \in mnt[g].dead : d[2] <= ncorrupt)'
    BY <1>1, <1>6, <2>1 DEF RawOK
  <2>5. QED
    BY Zenon, <2>2, <2>3, <2>4 DEF RawOK
<1>8. ASSUME NEW f \in Hosts, NEW g \in Hosts PROVE WatchOK(f, g)'
  <2>1. CASE g = h
    <3>1. \A e \in mnt[f].bad : e.raw # ncorrupt + 1
      BY <1>1, <1>6 DEF LeaseInv, RawOK
    <3>2. QED
      BY Zenon, <1>1, <1>2, <2>1, <3>1 DEF WatchOK
  <2>2. CASE g # h
    BY Zenon, <1>1, <1>4, <2>2 DEF LeaseInv, WatchOK
  <2>3. QED
    BY Zenon, <2>1, <2>2
<1>9. ASSUME NEW f \in Hosts, NEW g \in Hosts PROVE DeadOK(f, g)'
  <2>1. CASE g = h
    <3>1. \A d \in mnt[f].dead : d[2] # ncorrupt + 1
      BY <1>1, <1>6 DEF LeaseInv, RawOK
    <3>2. QED
      BY ZenonT(40), <1>1, <1>2, <2>1, <3>1 DEF DeadOK
  <2>2. CASE g # h
    BY Zenon, <1>1, <1>4, <2>2 DEF LeaseInv, DeadOK
  <2>3. QED
    BY <2>1, <2>2
<1>10. \A f, g \in Hosts : BallotOK(f, g)'
  BY <1>1, <1>4 DEF LeaseInv, BallotOK, VerifiedPast, ConflictPast
<1>11. QED
  BY Zenon, <1>3, <1>4, <1>5, <1>7, <1>8, <1>9, <1>10 DEF LeaseInv

\* Time passes: hosts only fall out of time, and no holder passes its deadline.
LEMMA TickStep ==
    ASSUME LeaseInv, Tick
    PROVE  LeaseInv'
<1>1. /\ TypeOK /\ now \in Nat /\ now' = now + 1
      /\ sector' = sector /\ mnt' = mnt /\ ncorrupt' = ncorrupt
  BY Zenon DEF LeaseInv, TypeOK, Tick
<1>2. TypeOK'
  BY <1>1 DEF TypeOK
<1>3. \A g \in Hosts : /\ Prepared(g)' = Prepared(g) /\ HasRW(g)' = HasRW(g)
                       /\ Armed(g)' = Armed(g) /\ Ballot(g)' = Ballot(g)
                       /\ LastIssue(g)' = LastIssue(g) /\ SectorOK(g)' = SectorOK(g)
  BY <1>1 DEF Prepared, HasRW, Ballot, LastIssue, Armed, SectorOK
<1>4. ASSUME NEW g \in Hosts PROVE ClocksOK(g)' /\ RawOK(g)' /\ (InTime(g)' => InTime(g))
  <2>1. /\ mnt[g] \in Mounts /\ mnt[g].clk \in Nat /\ mnt[g].wt \in Nat
        /\ mnt[g].pi \in Nat /\ mnt[g].issue \in Nat /\ mnt[g].deadline \in Nat
    BY Zenon, <1>1, MountType
  <2>2. \A e \in mnt[g].bad : e.since \in Nat
    BY Zenon, <2>1 DEF Mounts, BadSectors
  <2>3. Armed(g) => now < mnt[g].deadline
    BY Zenon DEF Tick
  <2>4. mnt[g].clk * TicksPerSecond \in Nat
    BY Zenon, <2>1, TicksOf
  <2>5. ClocksOK(g)'
    BY SMTT(30), <1>1, <1>3, <2>1, <2>3, <2>4, TicksType DEF LeaseInv, ClocksOK
  <2>6. RawOK(g)'
    BY <1>1, <2>2 DEF LeaseInv, RawOK
  <2>7. InTime(g)' => InTime(g)
    <3>1. LastIssue(g) \in Nat
      BY Zenon, <2>1 DEF LastIssue
    <3>2. QED
      BY <1>1, <1>3, <3>1, TicksType DEF InTime
  <2>8. QED
    BY Zenon, <2>5, <2>6, <2>7
<1>5. ASSUME NEW f \in Hosts, NEW g \in Hosts
      PROVE  WatchOK(f, g)' /\ DeadOK(f, g)' /\ BallotOK(f, g)'
  <2>1. WatchOK(f, g) /\ DeadOK(f, g) /\ BallotOK(f, g)
    BY Zenon DEF LeaseInv
  <2>2. WatchOK(f, g)'
    BY Zenon, <1>1, <1>3, <2>1 DEF WatchOK
  <2>3. DeadOK(f, g)'
    BY Zenon, <1>1, <1>4, <2>1 DEF DeadOK
  <2>4. BallotOK(f, g)'
    BY Zenon, <1>1, <1>3, <1>4, <2>1 DEF BallotOK, VerifiedPast, ConflictPast
  <2>5. QED
    BY Zenon, <2>2, <2>3, <2>4
<1>6. QED
  BY Zenon, <1>2, <1>3, <1>4, <1>5 DEF LeaseInv

----------------------------------------------------------------------------
(* The phases of a load *)

\* Watching the bad sectors: what is added to the watch list was seen now, and
\* a writer is judged dead only after a window in which it would have fenced
\* itself.
LEMMA WaitBadStep ==
    ASSUME LeaseInv, NEW h \in Hosts, WaitBad(h)
    PROVE  LeaseInv'
<1>0. TypeOK /\ mnt[h] \in Mounts /\ RawOK(h) /\ ClocksOK(h)
  BY Zenon, MountType DEF LeaseInv
<1>1. CASE LeaderLoad(h)
  <2> DEFINE m == [mnt[h] EXCEPT !.pc = "scan_bad", !.pos = NextPos(h, 0)]
  <2>1. m \in Mounts /\ m.pc = "scan_bad" /\ m.bad = mnt[h].bad /\ m.dead = mnt[h].dead
    BY <1>0, PosType, ZenonT(60) DEF Mounts, PCs
  <2>2. Become(h, m) /\ UNCHANGED <<now, sector, ncorrupt>>
    BY Zenon, <1>1 DEF LeaderLoad
  <2> HIDE DEF m
  <2>3. QED
    BY Zenon, <2>1, <2>2, QuietStep DEF PreparedPCs, ScanPCs
<1>2. CASE ScanBadSector(h)
  <2>1. PICK r \in HostRecordRead(mnt[h].pos) : ScanBadSector(h)!2!(r)
    BY <1>2, ZenonT(60) DEF ScanBadSector
  <2> DEFINE p == NextPos(h, mnt[h].pos)
             w == WatchEntry(mnt[h].pos, r, 0)
             m == [mnt[h] EXCEPT
                     !.pc = IF p \in Hosts THEN @ ELSE "watch_bad",
                     !.pos = IF p \in Hosts THEN p ELSE 0,
                     !.bad = IF IsBad(r) THEN @ \cup {w} ELSE @]
  <2>2. mnt[h].pos \in Hosts /\ mnt[h].pc = "scan_bad"
    BY Zenon, <1>2 DEF ScanBadSector, Scanning
  <2>3. w \in BadSectors /\ w.since = now /\ w.raw <= ncorrupt
    <3>1. r.st = "corrupt" => r.raw <= ncorrupt
      BY <1>0, <2>2, ReadFields DEF LeaseInv, RawOK
    <3>2. QED
      BY <1>0, <2>2, <3>1, WatchEntryType DEF TypeOK
  <2>4. p \in Nat
    BY Zenon, <2>2, PosType
  <2>5. Become(h, m) /\ UNCHANGED <<now, sector, ncorrupt>>
    BY Zenon, <1>2, <2>1 DEF ScanBadSector
  <2> HIDE DEF p, w
  <2>6. /\ m \in Mounts /\ m.pc \in {"scan_bad", "watch_bad"}
        /\ m.bad \subseteq mnt[h].bad \cup {w} /\ m.dead = mnt[h].dead
    BY <1>0, <2>2, <2>3, <2>4, ZenonT(60) DEF Mounts, PCs
  <2> HIDE DEF m
  <2>7. QED
    BY Zenon, <2>3, <2>5, <2>6, QuietStep DEF PreparedPCs, ScanPCs
<1>3. CASE WatchBadSectors(h)
  <2> DEFINE m1 == [mnt[h] EXCEPT !.pc = "check", !.pos = 0, !.clk = 0]
             m2 == [mnt[h] EXCEPT !.pc = "round_bad", !.pos = 1, !.clk = now]
  <2>1. now \in Nat
    BY Zenon, <1>0 DEF TypeOK
  <2>2. /\ m1 \in Mounts /\ m1.pc = "check" /\ m1.clk = 0
        /\ m1.bad = mnt[h].bad /\ m1.dead = mnt[h].dead
    BY <1>0, ZenonT(60) DEF Mounts, PCs
  <2>3. /\ m2 \in Mounts /\ m2.pc = "round_bad" /\ m2.clk = now
        /\ m2.bad = mnt[h].bad /\ m2.dead = mnt[h].dead
    BY <1>0, <2>1, ZenonT(60) DEF Mounts, PCs
  <2>4. (Become(h, m1) \/ Become(h, m2)) /\ UNCHANGED <<now, sector, ncorrupt>>
    BY Zenon, <1>3 DEF WatchBadSectors, BeginScan
  <2>5. 0 * TicksPerSecond <= now + Skew
    BY <2>1, TicksType
  <2> HIDE DEF m1, m2
  <2>6. CASE Become(h, m1)
    BY Zenon, <2>2, <2>4, <2>5, <2>6, QuietStep DEF PreparedPCs, ScanPCs
  <2>7. CASE Become(h, m2)
    BY <2>1, <2>3, <2>4, <2>7, QuietStep DEF PreparedPCs, ScanPCs
  <2>8. QED
    BY Zenon, <2>4, <2>6, <2>7
<1>4. CASE RoundBadSector(h)
  <2>1. PICK e \in NextBad(h) :
          \E r \in HostRecordRead(e.host) : ApplyVerdict(h, e, r)
    BY Zenon, <1>4 DEF RoundBadSector
  <2>2. PICK r \in HostRecordRead(e.host) : ApplyVerdict(h, e, r)
    BY Zenon, <2>1
  <2>3. e \in mnt[h].bad /\ e \in BadSectors
    BY Zenon, <1>0, MountType DEF NextBad, Todo
  <2>4. /\ e.host \in Hosts /\ e.switches + 1 \in Nat /\ e.host + 1 \in Nat
        /\ e.raw \in Nat /\ e.since \in Nat
    <3>1. e.host \in Hosts /\ e.switches \in Nat /\ e.raw \in Nat /\ e.since \in Nat
      BY Zenon, <2>3 DEF BadSectors
    <3>2. e.host \in Nat
      BY <3>1, PosType, ZenonT(60)
    <3>3. QED
      BY <3>1, <3>2
  <2>5. mnt[h].pc = "round_bad" /\ UNCHANGED <<now, sector, ncorrupt>>
    BY Zenon, <1>4 DEF RoundBadSector
  <2>6. CASE JudgeBad(h, e, r) = "busy"
    BY Zenon, <2>2, <2>5, <2>6, RestStep DEF ApplyVerdict
  <2>7. CASE JudgeBad(h, e, r) \in {"keep", "gone", "restart", "dead"}
    <3> DEFINE verdict == JudgeBad(h, e, r)
               rest == mnt[h].bad \ {e}
               w == WatchEntry(e.host, r, e.switches + 1)
               d == <<e.host, e.raw>>
               m == [mnt[h] EXCEPT
                       !.pos = e.host + 1,
                       !.bad = CASE verdict = "keep" -> @
                                 [] verdict = "restart" -> rest \cup {w}
                                 [] OTHER -> rest,
                       !.dead = IF verdict = "dead" THEN @ \cup {d} ELSE @]
    <3>1. Become(h, m)
      BY Zenon, <2>2, <2>7 DEF ApplyVerdict
    <3>2. w \in BadSectors /\ w.since = now /\ w.raw <= ncorrupt
      <4>1. r.st = "corrupt" => r.raw <= ncorrupt
        BY <1>0, <2>4, ReadFields DEF LeaseInv, RawOK
      <4>2. QED
        BY <1>0, <2>4, <4>1, WatchEntryType DEF TypeOK
    <3>3. d \in Hosts \X Nat /\ d[2] <= ncorrupt
      BY Zenon, <1>0, <2>3, <2>4 DEF RawOK
    <3>4. ASSUME verdict = "dead", NEW g \in Hosts,
                 sector[g].st = "corrupt", d = <<g, sector[g].raw>>
          PROVE  ~ InTime(g)
      <4>1. ~ e.unreadable /\ e.host = g /\ e.raw = sector[g].raw
        BY Zenon, <2>4, <3>4 DEF JudgeBad
      <4>2. WindowOver(h, e)
        BY Zenon, <3>4 DEF JudgeBad
      <4>3. mnt[h].clk \in Nat /\ mnt[h].clk <= now /\ now \in Nat
        BY Zenon, <1>0, <2>5, MountType DEF ClocksOK, TypeOK
      <4>4. BadWindow * TicksPerSecond = Duration + Skew + TicksPerSecond
        BY ConstantsAssumption DEF BadWindow, Duration, Skew
      <4>5. e.since + Duration < now
        BY <2>4, <4>2, <4>3, <4>4, TicksType DEF WindowOver
      <4>6. Prepared(g) => mnt[g].wt <= e.since
        BY ZenonT(40), <2>3, <3>4, <4>1 DEF LeaseInv, WatchOK
      <4>7. Prepared(g) => LastIssue(g) <= mnt[g].wt
        BY <1>0, MountType DEF LeaseInv, ClocksOK, LastIssue, Armed
      <4>8. mnt[g].wt \in Nat /\ LastIssue(g) \in Nat
        BY Zenon, <1>0, MountType DEF LastIssue
      <4>9. QED
        BY <2>4, <4>3, <4>5, <4>6, <4>7, <4>8, TicksType DEF InTime
    <3> HIDE DEF w, d, verdict
    <3>5. /\ m \in Mounts /\ m.pc = "round_bad" /\ m.clk = mnt[h].clk
          /\ m.bad \subseteq mnt[h].bad \cup {w}
          /\ m.dead = mnt[h].dead \/ (verdict = "dead" /\ m.dead = mnt[h].dead \cup {d})
      BY <1>0, <2>4, <2>5, <2>7, <3>2, <3>3, ZenonT(60) DEF Mounts, PCs, verdict
    <3> HIDE DEF m
    <3>6. m.clk <= now
      BY Zenon, <1>0, <2>5, <3>5 DEF ClocksOK
    <3>7. QED
      BY Zenon, <2>5, <3>1, <3>2, <3>3, <3>4, <3>5, <3>6, QuietStep DEF PreparedPCs, ScanPCs
  <2>8. JudgeBad(h, e, r) \in {"busy", "keep", "gone", "restart", "dead"}
    <3>1. r.st \in {"empty", "ok", "corrupt", "unreadable"} /\ e.unreadable \in BOOLEAN
      BY Zenon, <1>0, <2>3, <2>4, ReadFields DEF BadSectors
    <3>2. QED
      BY Zenon, <3>1 DEF JudgeBad, IsBad, MaxSwitches
  <2>9. QED
    BY Zenon, <2>6, <2>7, <2>8
<1>5. CASE RoundBadDone(h)
  <2> DEFINE m == [mnt[h] EXCEPT !.pc = "watch_bad", !.pos = 0, !.clk = 0]
  <2>1. m \in Mounts /\ m.pc = "watch_bad" /\ m.bad = mnt[h].bad /\ m.dead = mnt[h].dead
    BY <1>0, ZenonT(60) DEF Mounts, PCs
  <2>2. Become(h, m) /\ UNCHANGED <<now, sector, ncorrupt>>
    BY Zenon, <1>5 DEF RoundBadDone
  <2> HIDE DEF m
  <2>3. QED
    BY Zenon, <2>1, <2>2, QuietStep DEF PreparedPCs, ScanPCs
<1>6. QED
  BY Zenon, <1>1, <1>2, <1>3, <1>4, <1>5 DEF WaitBad

\* The pre-lease check and the wait: only clock readings enter the invariant.
LEMMA CheckStep ==
    ASSUME LeaseInv, NEW h \in Hosts, Check(h), mnt[h].pc \notin {"verify", "conflict"}
    PROVE  LeaseInv'
<1>0. TypeOK /\ mnt[h] \in Mounts /\ ClocksOK(h) /\ now \in Nat
  BY Zenon, MountType DEF LeaseInv, TypeOK
<1>z. 0 * TicksPerSecond <= now + Skew
  BY <1>0, TicksType
<1>1. CASE ScanClock(h)
  <2>1. PICK clk \in Realtime :
          Become(h, [mnt[h] EXCEPT !.pos = NextPos(h, 0), !.clk = clk])
    BY <1>1, ZenonT(60) DEF ScanClock
  <2>2. clk \in Nat /\ clk * TicksPerSecond <= now + Skew
    BY Zenon, <1>0, RealtimeBounds DEF Realtime
  <2>3. mnt[h].pc \in {"check", "recheck"} /\ UNCHANGED <<now, sector, ncorrupt>>
    BY Zenon, <1>1 DEF ScanClock, ScanPCs
  <2> DEFINE m == [mnt[h] EXCEPT !.pos = NextPos(h, 0), !.clk = clk]
  <2>4. /\ m \in Mounts /\ m.pc = mnt[h].pc /\ m.clk = clk
        /\ m.bad = mnt[h].bad /\ m.dead = mnt[h].dead
    BY <1>0, <2>2, PosType, ZenonT(60) DEF Mounts, PCs
  <2> HIDE DEF m
  <2>5. QED
    BY <2>1, <2>2, <2>3, <2>4, QuietStep, ZenonT(60) DEF PreparedPCs, ScanPCs, m
<1>2. CASE CheckSector(h)
  <2>1. PICK r \in HostRecordRead(mnt[h].pos) : CheckSector(h)!2!(r)
    BY <1>2, ZenonT(60) DEF CheckSector
  <2>2. /\ mnt[h].pos \in Hosts /\ mnt[h].pc \in {"check", "recheck"}
        /\ UNCHANGED <<now, sector, ncorrupt>>
    BY Zenon, <1>2 DEF CheckSector, Scanning
  <2>3. NextPos(h, mnt[h].pos) \in Nat
    BY <2>2, PosType, ZenonT(60)
  <2> DEFINE m1 == [mnt[h] EXCEPT !.pos = NextPos(h, @),
                                  !.blocker = mnt[h].pos, !.ts = r.ts]
             m2 == [mnt[h] EXCEPT !.pos = NextPos(h, @)]
  <2>4. CASE Leave(h)
    BY Zenon, <2>2, <2>4, RestStep
  <2>5. CASE Become(h, m1) /\ r.st = "ok"
    <3>1. r.ts \in Nat
      BY Zenon, <1>0, <2>2, <2>5, ReadFields
    <3>2. /\ m1 \in Mounts /\ m1.pc = mnt[h].pc /\ m1.clk = mnt[h].clk
          /\ m1.bad = mnt[h].bad /\ m1.dead = mnt[h].dead
      BY <1>0, <2>2, <2>3, <3>1, ZenonT(60) DEF Mounts, PCs
    <3> HIDE DEF m1
    <3>3. QED
      BY Zenon, <1>0, <2>2, <2>5, <3>2, QuietStep DEF PreparedPCs, ScanPCs, ClocksOK
  <2>6. CASE Become(h, m2)
    <3>1. /\ m2 \in Mounts /\ m2.pc = mnt[h].pc /\ m2.clk = mnt[h].clk
          /\ m2.bad = mnt[h].bad /\ m2.dead = mnt[h].dead
      BY <1>0, <2>2, <2>3 DEF Mounts, PCs
    <3> HIDE DEF m2
    <3>2. QED
      BY Zenon, <1>0, <2>2, <2>6, <3>1, QuietStep DEF PreparedPCs, ScanPCs, ClocksOK
  <2>7. QED
    BY Zenon, <2>1, <2>4, <2>5, <2>6 DEF LiveRW, Live
<1>3. CASE CheckDone(h)
  <2> DEFINE m == [mnt[h] EXCEPT !.pc = IF mnt[h].blocker = 0
                                        THEN "read_own" ELSE "wait_read",
                                 !.pos = 0, !.clk = 0, !.ts = 0]
  <2>1. UNCHANGED <<now, sector, ncorrupt>>
    BY Zenon, <1>3 DEF CheckDone
  <2>2. CASE Leave(h)
    BY Zenon, <2>1, <2>2, RestStep
  <2>3. CASE Become(h, m)
    <3>1. /\ m \in Mounts /\ m.pc \in {"read_own", "wait_read"}
          /\ m.pc = "wait_read" => m.blocker \in Hosts
          /\ m.bad = mnt[h].bad /\ m.dead = mnt[h].dead
      BY <1>0, ZenonT(60) DEF Mounts, PCs
    <3> HIDE DEF m
    <3>2. QED
      BY Zenon, <2>1, <2>3, <3>1, QuietStep DEF PreparedPCs, ScanPCs
  <2>4. QED
    BY Zenon, <1>3, <2>2, <2>3 DEF CheckDone
<1>4. ASSUME Recheck(h), UNCHANGED <<now, sector, ncorrupt>> PROVE LeaseInv'
  <2> DEFINE m == [mnt[h] EXCEPT !.pc = "recheck", !.blocker = 0,
                                 !.ts = 0, !.pos = 0, !.clk = 0]
  <2>1. /\ m \in Mounts /\ m.pc = "recheck" /\ m.clk = 0
        /\ m.bad = mnt[h].bad /\ m.dead = mnt[h].dead
    BY <1>0, ZenonT(60) DEF Mounts, PCs
  <2>2. Become(h, m)
    BY Zenon, <1>4 DEF Recheck
  <2> HIDE DEF m
  <2>3. QED
    BY Zenon, <1>4, <1>z, <2>1, <2>2, QuietStep DEF PreparedPCs, ScanPCs
<1>5. CASE WaitRead(h)
  <2>1. PICK r \in HostRecordRead(mnt[h].blocker) : WaitRead(h)!2!(r)
    BY <1>5, ZenonT(60) DEF WaitRead
  <2>2. /\ mnt[h].blocker \in Hosts /\ mnt[h].pc = "wait_read"
        /\ UNCHANGED <<now, sector, ncorrupt>>
    BY Zenon, <1>0, <1>5 DEF WaitRead, TypeOK
  <2> DEFINE m == [mnt[h] EXCEPT !.pc = "wait_poll", !.ts = r.ts]
  <2>3. CASE Become(h, m) /\ r.st = "ok"
    <3>1. r.ts \in Nat
      BY Zenon, <1>0, <2>2, <2>3, ReadFields
    <3>2. /\ m \in Mounts /\ m.pc = "wait_poll" /\ m.blocker = mnt[h].blocker
          /\ m.bad = mnt[h].bad /\ m.dead = mnt[h].dead
      BY <1>0, <3>1, ZenonT(60) DEF Mounts, PCs
    <3> HIDE DEF m
    <3>3. QED
      BY Zenon, <2>2, <2>3, <3>2, QuietStep DEF PreparedPCs, ScanPCs
  <2>4. QED
    BY Zenon, <1>4, <2>1, <2>2, <2>3
<1>6. CASE WaitPoll(h)
  <2>1. (Recheck(h) \/ Leave(h)) /\ UNCHANGED <<now, sector, ncorrupt>>
    BY Zenon, <1>6 DEF WaitPoll
  <2>2. QED
    BY Zenon, <1>4, <2>1, RestStep
<1>7. QED
  BY Zenon, <1>1, <1>2, <1>3, <1>5, <1>6 DEF Check

\* The clock reading at the start of a verify or conflict scan: no sector is
\* passed yet.
LEMMA ScanClockStep ==
    ASSUME LeaseInv, NEW h \in Hosts, ScanClock(h), mnt[h].pc \in {"verify", "conflict"}
    PROVE  LeaseInv'
<1>0. TypeOK /\ mnt[h] \in Mounts /\ ClocksOK(h) /\ SectorOK(h) /\ now \in Nat
  BY Zenon, MountType DEF LeaseInv, TypeOK
<1>1. PICK clk \in Realtime :
        Become(h, [mnt[h] EXCEPT !.pos = NextPos(h, 0), !.clk = clk])
  BY ZenonT(60) DEF ScanClock
<1>2. clk \in Nat /\ clk * TicksPerSecond <= now + Skew
  BY Zenon, <1>0, RealtimeBounds DEF Realtime
<1>3. UNCHANGED <<now, sector, ncorrupt>>
  BY Zenon DEF ScanClock
<1> DEFINE m == [mnt[h] EXCEPT !.pos = NextPos(h, 0), !.clk = clk]
<1>4. /\ m \in Mounts /\ m.pc = mnt[h].pc /\ m.clk = clk /\ m.pos = NextPos(h, 0)
      /\ m.bad = mnt[h].bad /\ m.dead = mnt[h].dead
      /\ m.wt = mnt[h].wt /\ m.pi = mnt[h].pi /\ m.gen = mnt[h].gen
  BY <1>0, <1>2, PosType, ZenonT(60) DEF Mounts, PCs
<1> HIDE DEF m
<1>5. Become(h, m)
  BY Zenon, <1>1 DEF m
<1>6. mnt'[h] = m
  BY Zenon, <1>0, <1>5, BecomeFacts
<1>7. ClocksOK(h)' /\ SectorOK(h)'
  BY Zenon, <1>0, <1>2, <1>3, <1>4, <1>6
  DEF ClocksOK, SectorOK, Prepared, PreparedPCs, Armed, HasRW, Ballot
<1>8. InTime(h)' = InTime(h) /\ Prepared(h)
  BY Zenon, <1>3, <1>4, <1>6 DEF InTime, Prepared, LastIssue, PreparedPCs
<1>9. \A g \in Hosts \ {h} : ~ (NextPos(h, 0) > g)
  BY ConstantsAssumption DEF Hosts, NextPos
<1>10. \A g \in Hosts \ {h} : /\ VerifiedPast(h, g)' => VerifiedPast(h, g)
                              /\ ConflictPast(h, g)' => ConflictPast(h, g)
  BY Zenon, <1>4, <1>6, <1>9 DEF VerifiedPast, ConflictPast
<1>11. \A g \in Hosts \ {h} : BallotOK(h, g)' /\ BallotOK(g, h)'
  BY Zenon, <1>3, <1>4, <1>5, <1>8, <1>10, BallotKept
<1>12. m.pc \in PreparedPCs
  BY Zenon, <1>4 DEF PreparedPCs
<1>13. QED
  BY Zenon, <1>3, <1>4, <1>5, <1>7, <1>8, <1>11, <1>12, PreparedStep

\* A scan that goes on past sector p has read every sector up to p.
LEMMA AdvancePast ==
    ASSUME NEW h \in Hosts, NEW p \in Hosts, NEW g \in Hosts \ {h},
           NextPos(h, p) > g \/ NextPos(h, p) \notin Hosts
    PROVE  g <= p
BY ConstantsAssumption DEF Hosts, NextPos

\* A sector read that neither refuses nor yields: the writer of an RW record,
\* or of a record with a higher ballot, is out of time.
LEMMA PassedOver ==
    ASSUME LeaseInv, NEW h \in Hosts, NEW g \in Hosts, NEW r \in HostRecordRead(g),
           mnt[h].pc \in {"verify", "conflict"},
           ~ Refuses(h, g, r), InTime(g)
    PROVE  /\ r = sector[g] /\ r.st = "ok" /\ Live(h, r)
           /\ r.mbal = Ballot(g)
           /\ HasRW(g) => r.fl = "RW" /\ r.bal = Ballot(g)
           /\ ~ HasRW(g) => r.fl = "PREPARE"
<1>1. /\ TypeOK /\ ClocksOK(h) /\ SectorOK(g) /\ DeadOK(h, g) /\ ClocksOK(g)
      /\ now \in Nat /\ mnt[h].clk \in Nat /\ mnt[g].wt \in Nat /\ Prepared(g)
  BY Zenon, MountType DEF LeaseInv, TypeOK, InTime
<1>2. r.st \in {"empty", "ok", "corrupt", "unreadable"}
  BY Zenon, <1>1, ReadFields
<1>3. r.st # "unreadable"
  BY Zenon DEF Refuses, IsBad, LeaseSectorDead
<1>4. r = sector[g]
  BY Zenon, <1>1, <1>3, ReadFields
<1>5. r.st # "corrupt"
  BY Zenon, <1>1, <1>4 DEF Refuses, IsBad, LeaseSectorDead, DeadOK
<1>6. /\ r.st = "ok" /\ r.ts \in Nat
      /\ mnt[g].wt < r.ts * TicksPerSecond + TicksPerSecond
      /\ r.mbal = Ballot(g)
      /\ HasRW(g) => r.fl = "RW" /\ r.bal = Ballot(g)
      /\ ~ HasRW(g) => r.fl = "PREPARE"
  BY Zenon, <1>1, <1>4, <1>5, ReadFields DEF SectorOK
<1>7. mnt[h].clk * TicksPerSecond <= now + Skew
  BY ZenonT(40), <1>1 DEF ClocksOK, ScanPCs
<1>8. LastIssue(g) <= mnt[g].wt /\ LastIssue(g) \in Nat
  BY <1>1, MountType DEF ClocksOK, LastIssue, Armed
<1>9. ~ (mnt[g].wt + Duration < now)
  BY <1>1, <1>8, TicksType DEF InTime
<1>10. HostRecordLive(r.ts, mnt[h].clk)
  BY Zenon, <1>1, <1>6, <1>7, <1>9, ExpiredMeansLate
<1>11. QED
  BY Zenon, <1>4, <1>6, <1>10 DEF Live

\* A sector of the verify scan.  A host that passed our sector in its conflict
\* scan has its RW record on disk, so the scan does not get past it.
LEMMA VerifySectorStep ==
    ASSUME LeaseInv, NEW h \in Hosts, VerifySector(h)
    PROVE  LeaseInv'
<1>0. TypeOK /\ mnt[h] \in Mounts /\ ClocksOK(h) /\ SectorOK(h) /\ now \in Nat
  BY Zenon, MountType DEF LeaseInv, TypeOK
<1>1. /\ mnt[h].pc = "verify" /\ mnt[h].pos \in Hosts
      /\ UNCHANGED <<now, sector, ncorrupt>>
  BY Zenon DEF VerifySector, Scanning
<1>2. CASE GiveUp(h)
  BY Zenon, <1>1, <1>2, RestStep
<1>3. ASSUME NEW r \in HostRecordRead(mnt[h].pos),
             ~ Refuses(h, mnt[h].pos, r), ~ VerifyYields(h, r), Advance(h, "acquire")
      PROVE  LeaseInv'
  <2> DEFINE p == NextPos(h, mnt[h].pos)
             m == IF p \in Hosts THEN [mnt[h] EXCEPT !.pos = p]
                  ELSE [mnt[h] EXCEPT !.pc = "acquire", !.pos = 0, !.clk = 0]
  <2>1. Become(h, m)
    BY Zenon, <1>3 DEF Advance
  <2>2. p \in Nat
    BY <1>1, PosType, ZenonT(60)
  <2>3. /\ m \in Mounts
        /\ \/ m.pc = "verify" /\ m.pos = p /\ m.clk = mnt[h].clk
           \/ m.pc = "acquire" /\ p \notin Hosts
        /\ m.bad = mnt[h].bad /\ m.dead = mnt[h].dead
        /\ m.wt = mnt[h].wt /\ m.pi = mnt[h].pi /\ m.gen = mnt[h].gen
    BY <1>0, <1>1, <2>2, ZenonT(60) DEF Mounts, PCs
  <2> HIDE DEF m, p
  <2>4. mnt'[h] = m
    BY Zenon, <1>0, <2>1, BecomeFacts
  <2>5. ClocksOK(h)' /\ SectorOK(h)'
    BY Zenon, <1>0, <1>1, <2>3, <2>4
    DEF ClocksOK, SectorOK, Prepared, PreparedPCs, Armed, HasRW, Ballot, ScanPCs
  <2>6. InTime(h)' = InTime(h) /\ Prepared(h) /\ Ballot(h)' = Ballot(h)
    BY Zenon, <1>1, <2>3, <2>4 DEF InTime, Prepared, LastIssue, PreparedPCs, Ballot
  <2>7. ASSUME NEW g \in Hosts \ {h} PROVE BallotOK(h, g)' /\ BallotOK(g, h)'
    <3>1. mnt'[g] = mnt[g]
      BY Zenon, <1>0, <2>1, BecomeFacts
    <3>2. /\ InTime(g)' = InTime(g) /\ Ballot(g)' = Ballot(g)
          /\ VerifiedPast(g, h)' = VerifiedPast(g, h)
          /\ ConflictPast(g, h)' = ConflictPast(g, h)
      BY Zenon, <1>1, <3>1 DEF InTime, Prepared, LastIssue, VerifiedPast, ConflictPast, Ballot
    <3>3. mnt[h].pos \in Nat /\ g \in Nat
      BY <1>1, PosType, ZenonT(60)
    <3>4. ~ ConflictPast(h, g)'
      BY Zenon, <2>3, <2>4 DEF ConflictPast
    <3>5. VerifiedPast(h, g)' => VerifiedPast(h, g) \/ g = mnt[h].pos
      <4>1. VerifiedPast(h, g)' => p > g \/ p \notin Hosts
        BY Zenon, <2>3, <2>4 DEF VerifiedPast
      <4>2. VerifiedPast(h, g)' => g <= mnt[h].pos
        BY Zenon, <1>1, <4>1, AdvancePast DEF p
      <4>3. QED
        BY <1>1, <3>3, <4>2 DEF VerifiedPast
    <3>6. ASSUME g = mnt[h].pos, InTime(g) PROVE ~ ConflictPast(g, h)
      <4>1. Live(h, r) /\ (HasRW(g) => r.fl = "RW")
        BY <1>1, <1>3, <3>6, PassedOver
      <4>2. ~ HasRW(g)
        BY Zenon, <1>3, <4>1 DEF VerifyYields
      <4>3. QED
        BY Zenon, <4>2 DEF HasRW, ConflictPast, PreparedPCs
    <3>7. QED
      BY Zenon, <2>6, <3>2, <3>4, <3>5, <3>6 DEF LeaseInv, BallotOK
  <2>8. m.pc \in PreparedPCs
    BY Zenon, <2>3 DEF PreparedPCs
  <2>9. QED
    BY Zenon, <1>1, <2>1, <2>3, <2>5, <2>6, <2>7, <2>8, PreparedStep
<1>4. QED
  BY Zenon, <1>2, <1>3 DEF VerifySector

\* A sector of the conflict scan.  A host that verified past our sector has its
\* PREPARE record on disk, so the scan sees its ballot.
LEMMA ConflictSectorStep ==
    ASSUME LeaseInv, NEW h \in Hosts, ConflictSector(h)
    PROVE  LeaseInv'
<1>0. TypeOK /\ mnt[h] \in Mounts /\ ClocksOK(h) /\ SectorOK(h) /\ now \in Nat
  BY MountType DEF LeaseInv, TypeOK
<1>1. /\ mnt[h].pc = "conflict" /\ mnt[h].pos \in Hosts
      /\ UNCHANGED <<now, sector, ncorrupt>>
  BY Zenon DEF ConflictSector, Scanning
<1>2. CASE GiveUp(h)
  BY Zenon, <1>1, <1>2, RestStep
<1>3. ASSUME NEW r \in HostRecordRead(mnt[h].pos),
             ~ Refuses(h, mnt[h].pos, r), ~ ConflictYields(h, r), Advance(h, "rw_expiry")
      PROVE  LeaseInv'
  <2> DEFINE p == NextPos(h, mnt[h].pos)
             m == IF p \in Hosts THEN [mnt[h] EXCEPT !.pos = p]
                  ELSE [mnt[h] EXCEPT !.pc = "rw_expiry", !.pos = 0, !.clk = 0]
  <2>1. Become(h, m)
    BY Zenon, <1>3 DEF Advance
  <2>2. p \in Nat
    BY Zenon, <1>1, PosType
  <2>3. /\ m \in Mounts
        /\ \/ m.pc = "conflict" /\ m.pos = p /\ m.clk = mnt[h].clk
           \/ m.pc = "rw_expiry" /\ p \notin Hosts
        /\ m.bad = mnt[h].bad /\ m.dead = mnt[h].dead
        /\ m.wt = mnt[h].wt /\ m.pi = mnt[h].pi /\ m.gen = mnt[h].gen
    BY <1>0, <1>1, <2>2, ZenonT(60) DEF Mounts, PCs
  <2> HIDE DEF m, p
  <2>4. mnt'[h] = m
    BY <1>0, <2>1, BecomeFacts
  <2>5. ClocksOK(h)' /\ SectorOK(h)'
    BY Zenon, <1>0, <1>1, <2>3, <2>4
    DEF ClocksOK, SectorOK, Prepared, PreparedPCs, Armed, HasRW, Ballot, ScanPCs
  <2>6. InTime(h)' = InTime(h) /\ Prepared(h) /\ Ballot(h)' = Ballot(h)
    BY Zenon, <1>1, <2>3, <2>4 DEF InTime, Prepared, LastIssue, PreparedPCs, Ballot
  <2>7. ASSUME NEW g \in Hosts \ {h} PROVE BallotOK(h, g)' /\ BallotOK(g, h)'
    <3>1. mnt'[g] = mnt[g]
      BY <1>0, <2>1, BecomeFacts
    <3>2. /\ InTime(g)' = InTime(g) /\ Ballot(g)' = Ballot(g)
          /\ VerifiedPast(g, h)' = VerifiedPast(g, h)
          /\ ConflictPast(g, h)' = ConflictPast(g, h)
      BY Zenon, <1>1, <3>1 DEF InTime, Prepared, LastIssue, VerifiedPast, ConflictPast, Ballot
    <3>3. mnt[h].pos \in Nat /\ g \in Nat
      BY Zenon, <1>1, PosType
    <3>4. VerifiedPast(h, g)' = VerifiedPast(h, g)
      BY Zenon, <1>1, <2>3, <2>4 DEF VerifiedPast, PreparedPCs
    <3>5. ConflictPast(h, g)' => ConflictPast(h, g) \/ g = mnt[h].pos
      <4>1. ConflictPast(h, g)' => p > g \/ p \notin Hosts
        BY Zenon, <2>3, <2>4 DEF ConflictPast
      <4>2. ConflictPast(h, g)' => g <= mnt[h].pos
        BY Zenon, <1>1, <4>1, AdvancePast DEF p
      <4>3. QED
        BY <1>1, <3>3, <4>2 DEF ConflictPast
    <3>6. ASSUME g = mnt[h].pos, InTime(g) PROVE Ballot(g) < Ballot(h)
      <4>1. /\ Live(h, r) /\ r.mbal = Ballot(g)
            /\ HasRW(g) => r.bal = Ballot(g) /\ r.fl = "RW"
            /\ ~ HasRW(g) => r.fl = "PREPARE"
        BY <1>1, <1>3, <3>6, PassedOver
      <4>2. Ballot(g) \in Nat /\ Ballot(h) \in Nat
        BY Zenon, <1>0, BallotType
      <4>3. ~ (Ballot(g) > Ballot(h))
        BY Zenon, <1>3, <4>1 DEF ConflictYields
      <4>4. mnt[g].gen \in Nat /\ mnt[h].gen \in Nat
        BY Zenon, <1>0 DEF TypeOK, Mounts
      <4>5. Ballot(g) # Ballot(h)
        BY Zenon, <4>4, BallotsDiffer DEF Ballot
      <4>6. QED
        BY <4>2, <4>3, <4>5
    <3>7. QED
      BY Zenon, <2>6, <3>2, <3>4, <3>5, <3>6 DEF LeaseInv, BallotOK
  <2>8. m.pc \in PreparedPCs
    BY Zenon, <2>3 DEF PreparedPCs
  <2>9. QED
    BY Zenon, <1>1, <2>1, <2>3, <2>5, <2>6, <2>7, <2>8, PreparedStep
<1>4. QED
  BY Zenon, <1>2, <1>3 DEF ConflictSector

\* The writes: a record that lands carries the host's ballot and a timestamp
\* that is not behind the LEASE_CLOCK reading taken before it.
LEMMA TimestampBound ==
    ASSUME TypeOK, NEW h \in Hosts, NEW ts \in LeaseTimestamps(h)
    PROVE  /\ ts \in Nat
           /\ mnt[h].issue < ts * TicksPerSecond + TicksPerSecond
<1>1. mnt[h].issue \in Nat /\ now \in Nat
  BY Zenon, MountType DEF TypeOK
<1>2. QED
  BY Zenon, <1>1, RealtimeBounds DEF LeaseTimestamps

\* The fields of the records the host writes.
LEMMA RecordFields ==
    ASSUME TypeOK, NEW h \in Hosts, NEW ts \in Nat
    PROVE  /\ PrepareRecord(h, ts) \in Sectors /\ RWRecord(h, ts) \in Sectors
           /\ PrepareRecord(h, ts).st = "ok" /\ RWRecord(h, ts).st = "ok"
           /\ PrepareRecord(h, ts).fl = "PREPARE" /\ RWRecord(h, ts).fl = "RW"
           /\ PrepareRecord(h, ts).ts = ts /\ RWRecord(h, ts).ts = ts
           /\ PrepareRecord(h, ts).mbal = Ballot(h)
           /\ RWRecord(h, ts).mbal = Ballot(h) /\ RWRecord(h, ts).bal = Ballot(h)
BY Zenon, RecordType DEF PrepareRecord, RWRecord, Record

\* Reading the own sector and stamping a write.
LEMMA ReadOwnStep ==
    ASSUME LeaseInv, NEW h \in Hosts, ReadOwn(h)
    PROVE  LeaseInv'
<1>0. /\ TypeOK /\ mnt[h] \in Mounts /\ ClocksOK(h) /\ SectorOK(h) /\ now \in Nat
      /\ mnt[h].wt \in Nat /\ mnt[h].pi \in Nat /\ mnt[h].issue \in Nat
      /\ mnt[h].deadline \in Nat
  BY Zenon, MountType DEF LeaseInv, TypeOK
<1>1. PICK r \in HostRecordRead(h) : ReadOwn(h)!2!(r)
  BY ZenonT(60) DEF ReadOwn
<1> DEFINE gen == IF r.st = "ok" THEN r.gen + 1 ELSE 1
           m == [mnt[h] EXCEPT !.pc = "prepare", !.gen = gen]
<1>2. Become(h, m) /\ UNCHANGED <<now, sector, ncorrupt>>
  BY Zenon, <1>1 DEF ReadOwn
<1>3. gen \in Nat
  BY <1>0, ReadFields
<1> HIDE DEF gen
<1>4. m \in Mounts /\ m.pc = "prepare" /\ m.bad = mnt[h].bad /\ m.dead = mnt[h].dead
  BY <1>0, <1>3, ZenonT(60) DEF Mounts, PCs
<1> HIDE DEF m
<1>5. QED
  BY Zenon, <1>2, <1>4, QuietStep DEF PreparedPCs, ScanPCs

\* LEASE_CLOCK is read before a write.
LEMMA StampWriteStep ==
    ASSUME LeaseInv, NEW h \in Hosts, StampWrite(h)
    PROVE  LeaseInv'
<1>0. /\ TypeOK /\ mnt[h] \in Mounts /\ ClocksOK(h) /\ SectorOK(h) /\ now \in Nat
      /\ mnt[h].wt \in Nat /\ mnt[h].pi \in Nat /\ mnt[h].issue \in Nat
      /\ mnt[h].deadline \in Nat
  BY MountType DEF LeaseInv, TypeOK
<1>1. PICK w \in WritePhases :
        mnt[h].pc = w[1] /\ Become(h, [mnt[h] EXCEPT !.pc = w[2], !.issue = now])
  BY ZenonT(60) DEF StampWrite
<1>2. UNCHANGED <<now, sector, ncorrupt>>
  BY Zenon DEF StampWrite
<1> DEFINE m == [mnt[h] EXCEPT !.pc = w[2], !.issue = now]
<1>3. \/ mnt[h].pc = "prepare" /\ w[2] = "prepare_write"
      \/ mnt[h].pc = "acquire" /\ w[2] = "acquire_write"
      \/ mnt[h].pc = "held" /\ w[2] = "renew_write"
  BY <1>1 DEF WritePhases
<1>4. /\ m \in Mounts /\ m.pc = w[2] /\ m.issue = now
      /\ m.bad = mnt[h].bad /\ m.dead = mnt[h].dead /\ m.deadline = mnt[h].deadline
      /\ m.wt = mnt[h].wt /\ m.pi = mnt[h].pi /\ m.gen = mnt[h].gen
  BY <1>0, <1>3, ZenonT(60) DEF Mounts, PCs
<1> HIDE DEF m
<1>5. Become(h, m) /\ mnt'[h] = m
  BY <1>0, <1>1, BecomeFacts DEF m
<1>6. CASE mnt[h].pc = "prepare"
  BY <1>0, <1>2, <1>3, <1>4, <1>5, <1>6, QuietStep DEF PreparedPCs, ScanPCs
<1>7. CASE mnt[h].pc # "prepare"
  <2>1. ClocksOK(h)' /\ SectorOK(h)'
    BY <1>0, <1>2, <1>3, <1>4, <1>5, <1>7
    DEF ClocksOK, SectorOK, Prepared, PreparedPCs, Armed, HasRW, Ballot, ScanPCs
  <2>2. InTime(h)' = InTime(h) /\ Prepared(h) /\ m.pc \in PreparedPCs
    BY Zenon, <1>2, <1>3, <1>4, <1>5, <1>7 DEF InTime, Prepared, LastIssue, PreparedPCs
  <2>3. \A g \in Hosts \ {h} : /\ VerifiedPast(h, g)' => VerifiedPast(h, g)
                               /\ ConflictPast(h, g)' => ConflictPast(h, g)
    BY Zenon, <1>3, <1>4, <1>5, <1>7 DEF VerifiedPast, ConflictPast, PreparedPCs
  <2>4. \A g \in Hosts \ {h} : BallotOK(h, g)' /\ BallotOK(g, h)'
    BY Zenon, <1>2, <1>4, <1>5, <2>2, <2>3, BallotKept
  <2>5. QED
    BY ZenonT(40), <1>2, <1>4, <1>5, <2>1, <2>2, <2>4, PreparedStep
<1>8. QED
  BY Zenon, <1>6, <1>7

\* The PREPARE record lands, or the write fails and the host gives up.
LEMMA PrepareWriteStep ==
    ASSUME LeaseInv, NEW h \in Hosts, PrepareWrite(h)
    PROVE  LeaseInv'
<1>0. /\ TypeOK /\ mnt[h] \in Mounts /\ ClocksOK(h) /\ SectorOK(h) /\ now \in Nat
      /\ mnt[h].wt \in Nat /\ mnt[h].pi \in Nat /\ mnt[h].issue \in Nat
      /\ mnt[h].deadline \in Nat
  BY MountType DEF LeaseInv, TypeOK
<1>1. mnt[h].pc = "prepare_write" /\ UNCHANGED <<now, ncorrupt>>
  BY Zenon DEF PrepareWrite
<1> DEFINE m == [mnt[h] EXCEPT !.pc = "verify", !.pos = 0, !.clk = 0,
                       !.issue = 0, !.wt = mnt[h].issue, !.pi = mnt[h].issue]
<1>2. /\ m \in Mounts /\ m.pc = "verify" /\ m.bad = mnt[h].bad /\ m.dead = mnt[h].dead
      /\ m.wt = mnt[h].issue /\ m.pi = mnt[h].issue /\ m.gen = mnt[h].gen
      /\ m.clk = 0 /\ m.pos = 0
  BY <1>0, ZenonT(60) DEF Mounts, PCs
<1>3. PICK ts \in LeaseTimestamps(h) :
        \/ Put(h, PrepareRecord(h, ts)) /\ Become(h, m)
        \/ FailedPut(h, PrepareRecord(h, ts)) /\ GiveUp(h)
  BY Zenon DEF PrepareWrite
<1>4. ts \in Nat /\ mnt[h].issue < ts * TicksPerSecond + TicksPerSecond
  BY Zenon, <1>0, TimestampBound
<1>5. CASE FailedPut(h, PrepareRecord(h, ts)) /\ GiveUp(h)
  BY Zenon, <1>0, <1>1, <1>4, <1>5, RecordFields, RestStep DEF FailedPut
<1> HIDE DEF m
<1>6. CASE Put(h, PrepareRecord(h, ts)) /\ Become(h, m)
  <2>1. mnt'[h] = m /\ sector'[h] = PrepareRecord(h, ts)
    BY Zenon, <1>0, <1>6, BecomeFacts DEF Put, TypeOK
  <2>2. Ballot(h)' = Ballot(h)
    BY ZenonT(40), <1>2, <2>1 DEF Ballot
  <2>3. SectorOK(h)'
    BY <1>0, <1>2, <1>4, <2>1, <2>2, RecordFields
    DEF SectorOK, Prepared, PreparedPCs, HasRW
  <2>4. ClocksOK(h)'
    BY <1>0, <1>1, <1>2, <2>1, TicksType
    DEF ClocksOK, Prepared, PreparedPCs, Armed, ScanPCs
  <2>5. \A g \in Hosts \ {h} : BallotOK(h, g)' /\ BallotOK(g, h)'
    <3>1. \A g \in Hosts : ~ (0 > g)
      BY PosType
    <3>2. QED
      BY Zenon, <1>2, <2>1, <3>1 DEF BallotOK, VerifiedPast, ConflictPast
  <2>6. sector'[h].st = "ok"
    BY <1>0, <1>4, <2>1, RecordFields
  <2>7. /\ \E rec \in Sectors : rec.st = "ok" /\ Put(h, rec)
        /\ m.pc \in PreparedPCs /\ m.bad \subseteq mnt[h].bad /\ m.dead \subseteq mnt[h].dead
    BY ZenonT(40), <1>0, <1>2, <1>4, <1>6, RecordFields DEF PreparedPCs
  <2>8. sector'[h].st # "corrupt"
    BY Zenon, <2>6
  <2>9. QED
    BY Zenon, <1>1, <1>2, <1>6, <2>3, <2>4, <2>5, <2>7, <2>8, PreparedStep
<1>7. QED
  BY Zenon, <1>3, <1>5, <1>6

\* The RW record lands, or the write fails and the load with it.
LEMMA AcquireWriteStep ==
    ASSUME LeaseInv, NEW h \in Hosts, AcquireWrite(h)
    PROVE  LeaseInv'
<1>0. /\ TypeOK /\ mnt[h] \in Mounts /\ ClocksOK(h) /\ SectorOK(h) /\ now \in Nat
      /\ mnt[h].wt \in Nat /\ mnt[h].pi \in Nat /\ mnt[h].issue \in Nat
      /\ mnt[h].deadline \in Nat
  BY MountType DEF LeaseInv, TypeOK
<1>1. mnt[h].pc = "acquire_write" /\ UNCHANGED <<now, ncorrupt>>
  BY Zenon DEF AcquireWrite
<1> DEFINE m == [mnt[h] EXCEPT !.pc = "prepare_expiry", !.issue = 0,
                               !.wt = mnt[h].issue]
<1>2. /\ m \in Mounts /\ m.pc = "prepare_expiry"
      /\ m.bad = mnt[h].bad /\ m.dead = mnt[h].dead
      /\ m.wt = mnt[h].issue /\ m.pi = mnt[h].pi /\ m.gen = mnt[h].gen
  BY <1>0, ZenonT(60) DEF Mounts, PCs
<1>3. PICK ts \in LeaseTimestamps(h) :
        \/ Put(h, RWRecord(h, ts)) /\ Become(h, m)
        \/ FailedPut(h, RWRecord(h, ts)) /\ Leave(h)
  BY Zenon DEF AcquireWrite
<1>4. ts \in Nat /\ mnt[h].issue < ts * TicksPerSecond + TicksPerSecond
  BY <1>0, TimestampBound
<1>5. CASE FailedPut(h, RWRecord(h, ts)) /\ Leave(h)
  BY Zenon, <1>0, <1>1, <1>4, <1>5, RecordFields, RestStep DEF FailedPut
<1> HIDE DEF m
<1>6. CASE Put(h, RWRecord(h, ts)) /\ Become(h, m)
  <2>1. mnt'[h] = m /\ sector'[h] = RWRecord(h, ts)
    BY <1>0, <1>6, BecomeFacts DEF Put, TypeOK
  <2>2. Ballot(h)' = Ballot(h)
    BY ZenonT(40), <1>2, <2>1 DEF Ballot
  <2>3. SectorOK(h)'
    BY SMTT(30), <1>0, <1>2, <1>4, <2>1, <2>2, RecordFields
    DEF SectorOK, Prepared, PreparedPCs, HasRW
  <2>4. ClocksOK(h)'
    BY <1>0, <1>1, <1>2, <2>1
    DEF ClocksOK, Prepared, PreparedPCs, Armed, ScanPCs
  <2>5. InTime(h)' => InTime(h)
    BY Zenon, <1>1, <1>2, <2>1 DEF InTime, Prepared, LastIssue, PreparedPCs
  <2>6. \A g \in Hosts \ {h} : /\ VerifiedPast(h, g)' => VerifiedPast(h, g)
                               /\ ConflictPast(h, g)' => ConflictPast(h, g)
    BY Zenon, <1>1, <1>2, <2>1 DEF VerifiedPast, ConflictPast, PreparedPCs
  <2>7. \A g \in Hosts \ {h} : BallotOK(h, g)' /\ BallotOK(g, h)'
    BY ZenonT(40), <1>1, <1>2, <1>6, <2>5, <2>6, BallotKept
  <2>8. sector'[h].st = "ok"
    BY <1>0, <1>4, <2>1, RecordFields
  <2>9. /\ \E rec \in Sectors : rec.st = "ok" /\ Put(h, rec)
        /\ m.pc \in PreparedPCs /\ m.bad \subseteq mnt[h].bad /\ m.dead \subseteq mnt[h].dead
    BY ZenonT(40), <1>0, <1>2, <1>4, <1>6, RecordFields DEF PreparedPCs
  <2>10. sector'[h].st # "corrupt"
    BY Zenon, <2>8
  <2>11. QED
    BY Zenon, <1>1, <1>2, <1>6, <2>3, <2>4, <2>7, <2>9, <2>10, PreparedStep
<1>7. QED
  BY <1>3, <1>5, <1>6

\* The two expiry checks: a host that passes is in time.
LEMMA ExpiryStep ==
    ASSUME LeaseInv, NEW h \in Hosts, PrepareExpiry(h) \/ RWExpiry(h)
    PROVE  LeaseInv'
<1>0. /\ TypeOK /\ mnt[h] \in Mounts /\ ClocksOK(h) /\ SectorOK(h) /\ now \in Nat
      /\ mnt[h].wt \in Nat /\ mnt[h].pi \in Nat /\ mnt[h].issue \in Nat
      /\ mnt[h].deadline \in Nat
  BY Zenon, MountType DEF LeaseInv, TypeOK
<1>1. UNCHANGED <<now, sector, ncorrupt>>
  BY Zenon DEF PrepareExpiry, RWExpiry
<1>2. CASE GiveUp(h)
  BY Zenon, <1>1, <1>2, RestStep
<1>3. CASE PrepareExpiry(h) /\ ~ LeaseWriteExpired(mnt[h].pi)
  <2> DEFINE m == [mnt[h] EXCEPT !.pc = "conflict", !.pos = 0, !.clk = 0]
  <2>1. mnt[h].pc = "prepare_expiry" /\ Become(h, m)
    BY Zenon, <1>3 DEF PrepareExpiry, BeginScan
  <2>2. /\ m \in Mounts /\ m.pc = "conflict" /\ m.clk = 0 /\ m.pos = 0
        /\ m.bad = mnt[h].bad /\ m.dead = mnt[h].dead
        /\ m.wt = mnt[h].wt /\ m.pi = mnt[h].pi /\ m.gen = mnt[h].gen
    BY <1>0, ZenonT(60) DEF Mounts, PCs
  <2> HIDE DEF m
  <2>3. mnt'[h] = m
    BY Zenon, <1>0, <2>1, BecomeFacts
  <2>4. ClocksOK(h)' /\ SectorOK(h)'
    BY <1>0, <1>1, <2>1, <2>2, <2>3, TicksType
    DEF ClocksOK, SectorOK, Prepared, PreparedPCs, Armed, HasRW, Ballot, ScanPCs
  <2>5. InTime(h) /\ Prepared(h)
    BY <1>0, <1>3, <2>1, TicksType
    DEF InTime, Prepared, LastIssue, PreparedPCs, LeaseWriteExpired
  <2>6. \A g \in Hosts \ {h} : /\ VerifiedPast(h, g)' => VerifiedPast(h, g)
                               /\ ConflictPast(h, g)' => ConflictPast(h, g)
    <3>1. \A g \in Hosts : ~ (0 > g)
      BY PosType
    <3>2. QED
      BY Zenon, <2>1, <2>2, <2>3, <3>1 DEF VerifiedPast, ConflictPast, PreparedPCs
  <2>7. \A g \in Hosts \ {h} : BallotOK(h, g)' /\ BallotOK(g, h)'
    BY Zenon, <1>1, <2>1, <2>2, <2>5, <2>6, BallotKept
  <2>8. QED
    BY Zenon, <1>1, <2>1, <2>2, <2>4, <2>5, <2>7, PreparedStep DEF PreparedPCs
<1>4. CASE RWExpiry(h) /\ ~ LeaseWriteExpired(mnt[h].wt)
  <2> DEFINE m == [mnt[h] EXCEPT !.pc = "watchdog_open"]
  <2>1. mnt[h].pc = "rw_expiry" /\ Become(h, m)
    BY Zenon, <1>4 DEF RWExpiry, Goto
  <2>2. /\ m \in Mounts /\ m.pc = "watchdog_open"
        /\ m.bad = mnt[h].bad /\ m.dead = mnt[h].dead
        /\ m.wt = mnt[h].wt /\ m.pi = mnt[h].pi /\ m.gen = mnt[h].gen
    BY <1>0 DEF Mounts, PCs
  <2> HIDE DEF m
  <2>3. mnt'[h] = m
    BY Zenon, <1>0, <2>1, BecomeFacts
  <2>4. ClocksOK(h)' /\ SectorOK(h)'
    BY Zenon, <1>0, <1>1, <2>1, <2>2, <2>3
    DEF ClocksOK, SectorOK, Prepared, PreparedPCs, Armed, HasRW, Ballot, ScanPCs
  <2>5. InTime(h)' = InTime(h) /\ Prepared(h)
    BY Zenon, <1>1, <2>1, <2>2, <2>3 DEF InTime, Prepared, LastIssue, PreparedPCs
  <2>6. \A g \in Hosts \ {h} : /\ VerifiedPast(h, g)' => VerifiedPast(h, g)
                               /\ ConflictPast(h, g)' => ConflictPast(h, g)
    BY Zenon, <2>1, <2>2, <2>3 DEF VerifiedPast, ConflictPast, PreparedPCs
  <2>7. \A g \in Hosts \ {h} : BallotOK(h, g)' /\ BallotOK(g, h)'
    BY Zenon, <1>1, <2>1, <2>2, <2>5, <2>6, BallotKept
  <2>8. QED
    BY Zenon, <1>1, <2>1, <2>2, <2>4, <2>5, <2>7, PreparedStep DEF PreparedPCs
<1>5. QED
  BY Zenon, <1>2, <1>3, <1>4 DEF PrepareExpiry, RWExpiry

\* Arming the kill timer makes the host the holder.
LEMMA WatchdogOpenStep ==
    ASSUME LeaseInv, NEW h \in Hosts, WatchdogOpen(h)
    PROVE  LeaseInv'
<1>0. /\ TypeOK /\ mnt[h] \in Mounts /\ ClocksOK(h) /\ SectorOK(h) /\ now \in Nat
      /\ mnt[h].wt \in Nat /\ mnt[h].pi \in Nat /\ mnt[h].issue \in Nat
      /\ mnt[h].deadline \in Nat
  BY MountType DEF LeaseInv, TypeOK
<1>1. mnt[h].pc = "watchdog_open" /\ UNCHANGED <<now, sector, ncorrupt>>
  BY Zenon DEF WatchdogOpen
<1>2. CASE GiveUp(h) \/ Leave(h)
  BY Zenon, <1>1, <1>2, RestStep
<1> DEFINE dl == KillDeadline(mnt[h].wt)
           m == [mnt[h] EXCEPT !.pc = "held", !.dead = {}, !.pi = 0, !.deadline = dl]
<1>3. CASE dl > now /\ Become(h, m)
  <2>1. dl \in Nat /\ dl = mnt[h].wt + Duration
    BY <1>0, TicksType DEF KillDeadline
  <2> HIDE DEF dl
  <2>2. /\ m \in Mounts /\ m.pc = "held" /\ m.deadline = dl
        /\ m.bad = mnt[h].bad /\ m.dead = {}
        /\ m.wt = mnt[h].wt /\ m.gen = mnt[h].gen
    BY <1>0, <2>1, ZenonT(60) DEF Mounts, PCs
  <2> HIDE DEF m
  <2>3. mnt'[h] = m
    BY Zenon, <1>0, <1>3, BecomeFacts
  <2>4. ClocksOK(h)' /\ SectorOK(h)'
    BY <1>0, <1>1, <1>3, <2>1, <2>2, <2>3
    DEF ClocksOK, SectorOK, Prepared, PreparedPCs, Armed, HasRW, Ballot, ScanPCs
  <2>5. InTime(h)' = InTime(h) /\ Prepared(h)
    BY Zenon, <1>1, <2>2, <2>3 DEF InTime, Prepared, LastIssue, PreparedPCs
  <2>6. \A g \in Hosts \ {h} : /\ VerifiedPast(h, g)' => VerifiedPast(h, g)
                               /\ ConflictPast(h, g)' => ConflictPast(h, g)
    BY Zenon, <1>1, <2>2, <2>3 DEF VerifiedPast, ConflictPast, PreparedPCs
  <2>7. \A g \in Hosts \ {h} : BallotOK(h, g)' /\ BallotOK(g, h)'
    BY Zenon, <1>1, <1>3, <2>2, <2>5, <2>6, BallotKept
  <2>8. QED
    BY Zenon, <1>1, <1>3, <2>2, <2>4, <2>5, <2>7, PreparedStep DEF PreparedPCs
<1>4. QED
  BY Zenon, <1>2, <1>3 DEF WatchdogOpen

----------------------------------------------------------------------------
(* Renewal, release, fencing and the environment *)

\* A holder that stays one keeps the invariant.
LEMMA HolderStep ==
    ASSUME LeaseInv, NEW h \in Hosts, NEW m \in Mounts, Become(h, m),
           UNCHANGED <<now, ncorrupt>>,
           mnt[h].pc = "renew_write", m.pc = "held",
           m.bad = mnt[h].bad, m.dead = mnt[h].dead, m.gen = mnt[h].gen,
           \/ UNCHANGED sector /\ m.wt = mnt[h].wt
           \/ \E ts \in LeaseTimestamps(h) :
                Put(h, RWRecord(h, ts)) /\ m.wt \in {mnt[h].wt, mnt[h].issue},
           now <= m.deadline /\ m.deadline <= m.wt + Duration
    PROVE  LeaseInv'
<1>0. /\ TypeOK /\ mnt[h] \in Mounts /\ ClocksOK(h) /\ SectorOK(h) /\ now \in Nat
      /\ mnt[h].wt \in Nat /\ mnt[h].pi \in Nat /\ mnt[h].issue \in Nat
      /\ mnt[h].deadline \in Nat
  BY Zenon, MountType DEF LeaseInv, TypeOK
<1>1. mnt'[h] = m /\ m.wt \in Nat /\ Ballot(h)' = Ballot(h)
  BY <1>0, BecomeFacts DEF Mounts, Ballot
<1>2. mnt[h].wt <= mnt[h].issue /\ mnt[h].issue <= now /\ mnt[h].wt <= now
  BY Zenon, <1>0 DEF ClocksOK, Prepared, PreparedPCs
<1>3. ClocksOK(h)'
  BY Zenon, <1>0, <1>1, <1>2 DEF ClocksOK, Prepared, PreparedPCs, Armed, ScanPCs
<1>4. InTime(h)
  <2>1. now <= mnt[h].wt + Duration
    BY <1>0, TicksType DEF ClocksOK, Armed
  <2>2. QED
    BY Zenon, <2>1 DEF InTime, LastIssue, Prepared, PreparedPCs
<1>5. \A g \in Hosts \ {h} : /\ VerifiedPast(h, g)' => VerifiedPast(h, g)
                             /\ ConflictPast(h, g)' => ConflictPast(h, g)
  BY Zenon, <1>1 DEF VerifiedPast, ConflictPast, PreparedPCs
<1>6. \A g \in Hosts \ {h} : BallotOK(h, g)' /\ BallotOK(g, h)'
  BY Zenon, <1>4, <1>5, BallotKept
<1>7. CASE UNCHANGED sector /\ m.wt = mnt[h].wt
  <2>1. SectorOK(h)'
    BY Zenon, <1>0, <1>1, <1>7 DEF SectorOK, Prepared, PreparedPCs, HasRW
  <2>2. QED
    BY Zenon, <1>3, <1>4, <1>6, <1>7, <2>1, PreparedStep DEF PreparedPCs, InTime
<1>8. ASSUME NEW ts \in LeaseTimestamps(h),
             Put(h, RWRecord(h, ts)) /\ m.wt \in {mnt[h].wt, mnt[h].issue}
      PROVE  LeaseInv'
  <2>1. ts \in Nat /\ mnt[h].issue < ts * TicksPerSecond + TicksPerSecond
    BY Zenon, <1>0, TimestampBound
  <2>2. sector'[h] = RWRecord(h, ts)
    BY ZenonT(40), <1>0, <1>8 DEF Put, TypeOK
  <2>3. m.wt < ts * TicksPerSecond + TicksPerSecond
    <3>1. ts * TicksPerSecond \in Nat /\ TicksPerSecond \in Nat
      BY Zenon, <2>1, TicksOf
    <3>2. QED
      BY <1>0, <1>2, <1>8, <2>1, <3>1
  <2>4. SectorOK(h)'
    BY SMTT(30), <1>0, <1>1, <2>1, <2>2, <2>3, RecordFields
    DEF SectorOK, Prepared, PreparedPCs, HasRW
  <2>5. sector'[h].st = "ok"
    BY <1>0, <2>1, <2>2, RecordFields
  <2>6. /\ \E rec \in Sectors : rec.st = "ok" /\ Put(h, rec)
        /\ m.pc \in PreparedPCs /\ m.bad \subseteq mnt[h].bad /\ m.dead \subseteq mnt[h].dead
    BY ZenonT(40), <1>0, <1>8, <2>1, RecordFields DEF PreparedPCs
  <2>7. sector'[h].st # "corrupt"
    BY Zenon, <2>5
  <2>8. QED
    BY Zenon, <1>3, <1>6, <2>4, <2>6, <2>7, PreparedStep
<1>9. QED
  BY Zenon, <1>7, <1>8

\* Renewal: the record and the deadline move together, or the deadline stands.
LEMMA RenewWriteStep ==
    ASSUME LeaseInv, NEW h \in Hosts, RenewWrite(h)
    PROVE  LeaseInv'
<1>0. /\ TypeOK /\ mnt[h] \in Mounts /\ ClocksOK(h) /\ SectorOK(h) /\ now \in Nat
      /\ mnt[h].wt \in Nat /\ mnt[h].pi \in Nat /\ mnt[h].issue \in Nat
      /\ mnt[h].deadline \in Nat
  BY MountType DEF LeaseInv, TypeOK
<1>1. mnt[h].pc = "renew_write" /\ UNCHANGED <<now, ncorrupt>>
  BY Zenon DEF RenewWrite
<1>2. PICK ts \in LeaseTimestamps(h) :
        \/ /\ Put(h, RWRecord(h, ts))
           /\ \E deadline \in {mnt[h].deadline, KillDeadline(mnt[h].issue)} :
                Become(h, [mnt[h] EXCEPT !.pc = "held", !.wt = mnt[h].issue,
                                   !.issue = 0, !.deadline = deadline])
        \/ /\ FailedPut(h, RWRecord(h, ts))
           /\ Become(h, [mnt[h] EXCEPT !.pc = "held", !.issue = 0])
  BY Zenon DEF RenewWrite
<1>3. /\ now <= mnt[h].deadline /\ mnt[h].deadline <= mnt[h].wt + Duration
      /\ mnt[h].wt <= mnt[h].issue /\ mnt[h].issue <= now
  BY Zenon, <1>0, <1>1 DEF ClocksOK, Armed, Prepared, PreparedPCs
<1>4. ASSUME Put(h, RWRecord(h, ts)),
             NEW deadline \in {mnt[h].deadline, KillDeadline(mnt[h].issue)},
             Become(h, [mnt[h] EXCEPT !.pc = "held", !.wt = mnt[h].issue,
                                !.issue = 0, !.deadline = deadline])
      PROVE  LeaseInv'
  <2> DEFINE m == [mnt[h] EXCEPT !.pc = "held", !.wt = mnt[h].issue,
                           !.issue = 0, !.deadline = deadline]
  <2>1. deadline \in Nat /\ now <= deadline /\ deadline <= mnt[h].issue + Duration
    BY <1>0, <1>3, TicksType DEF KillDeadline
  <2>2. /\ m \in Mounts /\ m.pc = "held" /\ m.deadline = deadline
        /\ m.bad = mnt[h].bad /\ m.dead = mnt[h].dead
        /\ m.wt = mnt[h].issue /\ m.gen = mnt[h].gen
    BY <1>0, <2>1, ZenonT(60) DEF Mounts, PCs
  <2>3. Become(h, m)
    BY Zenon, <1>4
  <2> HIDE DEF m
  <2>4. QED
    BY Zenon, <1>1, <1>4, <2>1, <2>2, <2>3, HolderStep
<1>5. CASE /\ FailedPut(h, RWRecord(h, ts))
           /\ Become(h, [mnt[h] EXCEPT !.pc = "held", !.issue = 0])
  <2> DEFINE m == [mnt[h] EXCEPT !.pc = "held", !.issue = 0]
  <2>1. /\ m \in Mounts /\ m.pc = "held" /\ m.deadline = mnt[h].deadline
        /\ m.bad = mnt[h].bad /\ m.dead = mnt[h].dead
        /\ m.wt = mnt[h].wt /\ m.gen = mnt[h].gen
    BY <1>0, ZenonT(60) DEF Mounts, PCs
  <2>2. Become(h, m)
    BY Zenon, <1>5
  <2> HIDE DEF m
  <2>3. QED
    BY Zenon, <1>1, <1>3, <1>5, <2>1, <2>2, HolderStep DEF FailedPut
<1>6. QED
  BY Zenon, <1>2, <1>4, <1>5

----------------------------------------------------------------------------
(* The theorems *)

\* The invariant holds of fresh processes and an empty paxos file.
LEMMA InitInv == Init => LeaseInv
<1> SUFFICES ASSUME Init PROVE LeaseInv
  BY Zenon
<1>1. /\ \A h \in Hosts : mnt[h] = Idle /\ sector[h] = Empty
      /\ Empty.st = "empty" /\ Idle.pc = "idle" /\ Idle.bad = {} /\ Idle.dead = {}
  BY Zenon DEF Init, Idle, Empty
<1>2. TypeOK
  BY Zenon, <1>1, RestType DEF Init, TypeOK, Sectors
<1>3. \A h \in Hosts : ~ Prepared(h) /\ ~ Armed(h) /\ ~ InTime(h)
  BY Zenon, <1>1 DEF Prepared, PreparedPCs, Armed, InTime
<1>4. \A h \in Hosts : ClocksOK(h) /\ SectorOK(h) /\ RawOK(h)
  BY Zenon, <1>1, <1>3 DEF ClocksOK, SectorOK, RawOK, ScanPCs
<1>5. \A h, g \in Hosts : WatchOK(h, g) /\ DeadOK(h, g) /\ BallotOK(h, g)
  BY Zenon, <1>1, <1>3 DEF WatchOK, DeadOK, BallotOK
<1>6. QED
  BY Zenon, <1>2, <1>4, <1>5 DEF LeaseInv

\* Every step of every host, of the clock and of the disk keeps it.
LEMMA NextInv == LeaseInv /\ [Next]_vars => LeaseInv'
<1> SUFFICES ASSUME LeaseInv, [Next]_vars PROVE LeaseInv'
  BY Zenon
<1>1. CASE Tick
  BY Zenon, <1>1, TickStep
<1>2. ASSUME NEW h \in Hosts, WaitBad(h) PROVE LeaseInv'
  BY Zenon, <1>2, WaitBadStep
<1>3. ASSUME NEW h \in Hosts, Check(h) PROVE LeaseInv'
  <2>1. CASE ScanClock(h) /\ mnt[h].pc \in {"verify", "conflict"}
    BY Zenon, <2>1, ScanClockStep
  <2>2. CASE ~ (ScanClock(h) /\ mnt[h].pc \in {"verify", "conflict"})
    <3>1. mnt[h].pc \notin {"verify", "conflict"}
      BY <1>3, <2>2, ZenonT(60) DEF Check, CheckSector, CheckDone, WaitRead, WaitPoll
    <3>2. QED
      BY Zenon, <1>3, <3>1, CheckStep
  <2>3. QED
    BY Zenon, <2>1, <2>2
<1>4. ASSUME NEW h \in Hosts, Acquire(h) PROVE LeaseInv'
  BY Zenon, <1>4, ReadOwnStep, StampWriteStep, PrepareWriteStep, VerifySectorStep,
     AcquireWriteStep, ExpiryStep, ConflictSectorStep, WatchdogOpenStep
  DEF Acquire
<1>5. ASSUME NEW h \in Hosts, Hold(h) \/ Kill(h) \/ Crash(h) PROVE LeaseInv'
  BY Zenon, <1>5, RenewWriteStep, EndStep DEF Hold
<1>6. ASSUME NEW h \in Hosts, CorruptSector(h) PROVE LeaseInv'
  BY <1>6, CorruptStep
<1>7. CASE UNCHANGED vars
  <2>1. now' = now /\ sector' = sector /\ mnt' = mnt /\ ncorrupt' = ncorrupt
    BY Zenon, <1>7 DEF vars
  <2>2. \A h \in Hosts : /\ ClocksOK(h)' = ClocksOK(h) /\ SectorOK(h)' = SectorOK(h)
                         /\ RawOK(h)' = RawOK(h)
    <3>1. \A h \in Hosts : ClocksOK(h)' = ClocksOK(h)
      BY SMTT(30), <2>1 DEF ClocksOK, Prepared, Armed
    <3>2. \A h \in Hosts : SectorOK(h)' = SectorOK(h)
      BY <2>1 DEF SectorOK, Prepared, HasRW, Ballot
    <3>3. \A h \in Hosts : RawOK(h)' = RawOK(h)
      BY <2>1 DEF RawOK, Prepared
    <3>4. QED
      BY Zenon, <3>1, <3>2, <3>3
  <2>3. \A h, g \in Hosts : /\ WatchOK(h, g)' = WatchOK(h, g)
                            /\ DeadOK(h, g)' = DeadOK(h, g)
                            /\ BallotOK(h, g)' = BallotOK(h, g)
    BY <2>1 DEF WatchOK, DeadOK, BallotOK, Prepared, InTime, LastIssue,
                VerifiedPast, ConflictPast, Ballot
  <2>4. TypeOK'
    BY Zenon, <2>1 DEF LeaseInv, TypeOK
  <2>5. QED
    BY Zenon, <2>2, <2>3, <2>4 DEF LeaseInv
<1>8. QED
  BY Zenon, <1>1, <1>2, <1>3, <1>4, <1>5, <1>6, <1>7 DEF Next

\* Every reachable state of the lease protocol satisfies the inductive
\* invariant.
THEOREM InvariantHolds == Spec => []LeaseInv
BY InitInv, NextInv, PTL DEF Spec

\* The sectors, the mounts and their lease state always have their types.
THEOREM TypeCorrect == Spec => []TypeOK
<1>1. LeaseInv => TypeOK
  BY Zenon DEF LeaseInv
<1>2. QED
  BY <1>1, InvariantHolds, PTL

\* A holder is in time and has scanned every other sector twice.
LEMMA HolderFacts ==
    ASSUME LeaseInv, NEW h \in Hosts, Armed(h)
    PROVE  /\ InTime(h) /\ now <= mnt[h].wt + Duration
           /\ \A g \in Hosts : VerifiedPast(h, g) /\ ConflictPast(h, g)
<1>1. /\ now \in Nat /\ mnt[h].wt \in Nat /\ mnt[h].deadline \in Nat
      /\ now <= mnt[h].deadline /\ mnt[h].deadline <= mnt[h].wt + Duration
  BY Zenon, MountType DEF LeaseInv, ClocksOK, TypeOK
<1>2. now <= mnt[h].wt + Duration
  BY <1>1, TicksType
<1>3. QED
  BY Zenon, <1>2 DEF InTime, Prepared, LastIssue, Armed, PreparedPCs, VerifiedPast, ConflictPast

\* pfs_leader_load never makes two hosts the RW holder at once, for any number
\* of hosts, lease duration and clock skew within paxos_clock_skew_max, with
\* crashes, failing reads and writes, and corrupted sectors.
THEOREM SingleWriter == Spec => []MutualExclusion
<1>1. LeaseInv => MutualExclusion
  <2> SUFFICES ASSUME LeaseInv, NEW a \in Hosts, NEW b \in Hosts,
                      Armed(a), Armed(b), a # b
               PROVE  FALSE
    BY Zenon DEF MutualExclusion
  <2>1. Ballot(a) < Ballot(b) /\ Ballot(b) < Ballot(a)
    BY Zenon, HolderFacts DEF LeaseInv, BallotOK
  <2>2. QED
    BY <2>1, BallotType DEF LeaseInv
<1>2. QED
  BY <1>1, InvariantHolds, PTL

\* No scan of another host ever takes a holder's sector for free: its record
\* is live by every clock, or its bytes are none that were judged dead.
THEOREM HolderSeen == Spec => []HolderVisible
<1>1. LeaseInv => HolderVisible
  <2> SUFFICES ASSUME LeaseInv, NEW h \in Hosts, Armed(h)
               PROVE  \/ /\ sector[h].st = "ok" /\ sector[h].fl = "RW"
                         /\ \A clk \in Realtime : HostRecordLive(sector[h].ts, clk)
                      \/ /\ sector[h].st = "corrupt"
                         /\ \A g \in Hosts : <<h, sector[h].raw>> \notin mnt[g].dead
    BY Zenon DEF HolderVisible
  <2>1. InTime(h) /\ now <= mnt[h].wt + Duration
    BY Zenon, HolderFacts
  <2>2. CASE sector[h].st = "corrupt"
    BY Zenon, <2>1, <2>2 DEF LeaseInv, DeadOK
  <2>3. CASE sector[h].st # "corrupt"
    <3>1. /\ sector[h].st = "ok" /\ sector[h].fl = "RW"
          /\ mnt[h].wt < sector[h].ts * TicksPerSecond + TicksPerSecond
      BY Zenon, <2>3 DEF LeaseInv, SectorOK, Prepared, PreparedPCs, HasRW, Armed
    <3>2. sector[h].ts \in Nat /\ now \in Nat /\ mnt[h].wt \in Nat
      <4>1. TypeOK /\ sector[h] \in Sectors /\ now \in Nat
        BY Zenon DEF LeaseInv, TypeOK
      <4>2. mnt[h].wt \in Nat
        BY Zenon, <4>1, MountType
      <4>3. sector[h].ts \in Nat
        BY <3>1, <4>1 DEF Sectors, Empty, Records
      <4>4. QED
        BY Zenon, <4>1, <4>2, <4>3
    <3>3. ASSUME NEW clk \in Realtime PROVE HostRecordLive(sector[h].ts, clk)
      <4>1. clk \in Nat /\ clk * TicksPerSecond <= now + Skew
        BY Zenon, <3>2, <3>3, RealtimeBounds DEF Realtime
      <4>2. SUFFICES ASSUME ~ HostRecordLive(sector[h].ts, clk) PROVE FALSE
        BY Zenon
      <4>3. mnt[h].wt + Duration < now
        BY Zenon, <3>1, <3>2, <4>1, <4>2, ExpiredMeansLate
      <4>4. QED
        BY <2>1, <3>2, <4>3, TicksType
    <3>4. QED
      BY Zenon, <3>1, <3>3
  <2>4. QED
    BY Zenon, <2>2, <2>3
<1>2. QED
  BY <1>1, InvariantHolds, PTL

=============================================================================
