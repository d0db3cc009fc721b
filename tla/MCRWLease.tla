----------------------------- MODULE MCRWLease -----------------------------
(***************************************************************************)
(* Instances of RWLease, and of FileData for one thread in a file of two    *)
(* blocks, with every failure and with crashes. TLC explores one of them at *)
(* a time: "part" says which; the lease stays in its initial state then, or *)
(* the variables of the file are Off.                                       *)
(***************************************************************************)
EXTENDS RWLease

CONSTANTS Writer, NoThread, FFaults, MaxLen  \* FileData

VARIABLES part, fphy, fin, fdat, fmeta, fthr, facked

Data == INSTANCE FileData WITH Threads <- {Writer}, NBlk <- 2, BS <- 2, Devs <- {1, 2}

datavars == <<fphy, fin, fdat, fmeta, fthr, facked>>

Off == "off"
NoData == fphy = Off /\ fin = Off /\ fdat = Off /\ fmeta = Off /\ fthr = Off /\ facked = Off

PartsInit ==
    /\ part \in {"lease", "data"} /\ Init
    /\ IF part = "data" THEN Data!FInit ELSE NoData
\* Bounds: the sector of the last host is corrupted, in the first second, and where it is
\* no record is stamped ahead of time.
EarlyCorruption ==
    /\ ncorrupt' # ncorrupt => now = 0 /\ \A h \in Hosts \ {NumHosts} : sector'[h] = sector[h]
    /\ ncorrupt' > 0 => \A h \in Hosts : sector'[h].st = "ok" => sector'[h].ts <= now'
\* the thread need not call again
PartsNext ==
    \/ part = "lease" /\ Next /\ EarlyCorruption /\ UNCHANGED <<part, datavars>>
    \/ part = "data" /\ (Data!FNext \/ UNCHANGED datavars) /\ UNCHANGED <<part, vars>>
PartsSpec == PartsInit /\ [][PartsNext]_<<part, vars, datavars>>

\* Properties of FileData in two blocks: no read sees what a block held before it was
\* allocated, and what a write acknowledged stays in the file; nor does a barrier stay.
WideFileSound == part = "data" => Data!HolesHideStale /\ Data!AckedWritesStay /\ Data!BarriersLifted
=============================================================================
