----------------------------- MODULE MCJournal -----------------------------
(***************************************************************************)
(* The journal (Journal) and the device it and all else is written to       *)
(* (DevIo). TLC explores one of them at a time: "part" says which, and the  *)
(* other stays in its initial state.                                        *)
(***************************************************************************)
EXTENDS Journal, TLC

CONSTANTS o1, o2,
          Parts,                                                     \* parts explored
          NCells, SectSize, FragSize, disk_iodepth, DISK_NR_EVENTS,  \* DevIo
          disk_batch_submit_thold, IoFaults, MaxEpochs

VARIABLES part, disk, dacked, devs_epoch, ioq, dth, broken

OneObj == {o1}
TwoObjs == {o1, o2}
Nobody == {}
Host1 == {1}
Host2 == {2}

\* One thread's transfer is long enough not to wait for its aligned fragments, and ends
\* inside a sector; the other's is a part of a sector of its own.
DevTransfers == [t \in {"t1", "t2"} |-> IF t = "t1" THEN {<<2, 5>>} ELSE {<<1, 1>>}]
Dev == INSTANCE DevIo WITH Threads <- {"t1", "t2"}, Transfers <- DevTransfers

devvars == <<disk, dacked, devs_epoch, ioq, dth, broken>>

JournalInit == part \in Parts /\ Init /\ Dev!DInit
JournalNext == \/ part = "journal" /\ Next /\ UNCHANGED <<part, devvars>>
               \/ part = "dev" /\ Dev!DNext /\ UNCHANGED <<part, vars>>
JournalSpec == JournalInit /\ [][JournalNext]_<<part, vars, devvars>>

\* DevIo: an acknowledged write is on the disk, an error of any fragment is reported, and
\* a transfer leaves nothing of its own in the queues.
IoSound == Dev!AckedOnDisk /\ Dev!ErrorsReported /\ Dev!QueuesDrained
=============================================================================
