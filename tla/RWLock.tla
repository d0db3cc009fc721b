------------------------------- MODULE RWLock -------------------------------
(***************************************************************************)
(* What a reader-writer lock with upgrade and downgrade promises its users: *)
(* a writer is alone.  DCLCRWLock is shown to implement it.                 *)
(***************************************************************************)
CONSTANT Threads

VARIABLES readers, writers

Init == readers = {} /\ writers = {}

LockShared(t) == /\ writers = {} /\ t \notin readers
                 /\ readers' = readers \cup {t}
                 /\ UNCHANGED writers

UnlockShared(t) == /\ t \in readers
                   /\ readers' = readers \ {t}
                   /\ UNCHANGED writers

Lock(t) == /\ writers = {} /\ readers = {}
           /\ writers' = {t}
           /\ UNCHANGED readers

Unlock(t) == /\ t \in writers
             /\ writers' = {}
             /\ UNCHANGED readers

Upgrade(t) == /\ writers = {} /\ readers = {t}
              /\ readers' = {} /\ writers' = {t}

Downgrade(t) == /\ writers = {t} /\ readers = {}
                /\ readers' = {t} /\ writers' = {}

Next == \E t \in Threads : \/ LockShared(t) \/ UnlockShared(t) \/ Lock(t) \/ Unlock(t)
                           \/ Upgrade(t) \/ Downgrade(t)

Spec == Init /\ [][Next]_<<readers, writers>>
=============================================================================
