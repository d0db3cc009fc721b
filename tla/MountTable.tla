----------------------------- MODULE MountTable -----------------------------
(***************************************************************************)
(* The mount table of pfs_mount.cc: pfs_mount, pfs_umount and the calls     *)
(* that borrow a mount (pfs_get_mount ... pfs_put_mount), with the          *)
(* reader-writer lock of each entry, and directory streams, which outlive   *)
(* the mount they were opened on.                                           *)
(***************************************************************************)
EXTENDS Integers, FiniteSets

CONSTANTS
    Callers,
    PbdNames,        \* names of devices
    PFS_MAX_NMOUNT,  \* entries of the table
    Addrs,           \* addresses of pfs_mount_t objects: malloc reuses them
    MaxEpoch,        \* bound: mounts of one entry
    Nobody

VARIABLES
    mount_entry,     \* [entry -> [mnt, epoch, wr, rd]]
    mobj,            \* [Addrs -> the object there: name, epoch, live]
    mdir,            \* [Callers -> an open directory stream]
    mount_mutex,     \* are pfs_mount and pfs_umount called under a mutex, as pfsd does?
    mthr             \* [Callers -> a call in progress]

ASSUME MountTableAssumption ==
    PFS_MAX_NMOUNT \in Nat \ {0} /\ 0 \notin Addrs /\ Nobody \notin Callers

mtvars == <<mount_entry, mobj, mdir, mount_mutex, mthr>>

Entry == 1..PFS_MAX_NMOUNT
NoMnt == 0
NoDir == [id |-> 0, mnt |-> NoMnt, epoch |-> 0, birth |-> 0]
MIdle == [pc |-> "idle", name |-> "", i |-> 1, bad |-> FALSE]
MGo(t, r) == mthr' = [mthr EXCEPT ![t] = r]

rdlock(i) == mount_entry[i].wr = Nobody
wrlock_PastReaders(i) == mount_entry[i].wr = Nobody
wrlock(i) == mount_entry[i].wr = Nobody /\ mount_entry[i].rd = {}
isfree(i, name) == mount_entry[i].mnt = NoMnt
hasname(i, name) == mount_entry[i].mnt # NoMnt /\ mobj[mount_entry[i].mnt].name = name
Cond(kind, i, name) == IF kind = "free" THEN isfree(i, name) ELSE hasname(i, name)

\* mountentry_find_iter looks at the entry the call is at, under its read lock:
\* it is the one, or the search goes on to the next entry, or to r after the last
Found(t, kind) == rdlock(mthr[t].i) /\ Cond(kind, mthr[t].i, mthr[t].name)
find_iter(t, kind, r) ==
    /\ rdlock(mthr[t].i) /\ ~Cond(kind, mthr[t].i, mthr[t].name)
    /\ MGo(t, IF mthr[t].i < PFS_MAX_NMOUNT THEN [mthr[t] EXCEPT !.i = @ + 1] ELSE r)
    /\ UNCHANGED <<mount_entry, mobj, mdir>>

\* the write lock of an entry found under its read lock, which was given up: the
\* condition is tested again, and the search starts over if it no longer holds
Upgrade_Trusting(t, kind) == TRUE
Upgrade(t, kind) == Cond(kind, mthr[t].i, mthr[t].name)

MStep(t, pc) == MGo(t, [mthr[t] EXCEPT !.pc = pc, !.i = 1]) /\ UNCHANGED <<mount_entry, mobj, mdir>>
At(t, pc) == MGo(t, [mthr[t] EXCEPT !.pc = pc]) /\ UNCHANGED <<mount_entry, mobj, mdir>>

Changing == {"check", "free", "wrfree", "create", "post", "posting", "uget", "ufini", "ufind",
             "uwr", "destroy"}
ChangesTable(x) == mthr[x].pc \in Changing
Serial(t) == mount_mutex => \A x \in Callers : ~ChangesTable(x)

(***************************************************************************)
(* pfs_mount.                                                              *)
(***************************************************************************)
MountBegin(t) ==
    /\ mthr[t].pc = "idle" /\ Serial(t)
    /\ \E n \in PbdNames : MGo(t, [MIdle EXCEPT !.pc = "check", !.name = n])
    /\ UNCHANGED <<mount_entry, mobj, mdir>>

\* the name must not be mounted; no lock is kept
MountCheck(t) ==
    /\ mthr[t].pc = "check"
    /\ \/ Found(t, "name") /\ At(t, "idle")                                  \* EEXIST
       \/ find_iter(t, "name", [mthr[t] EXCEPT !.pc = "free", !.i = 1])

MountFree(t) ==
    /\ mthr[t].pc = "free"
    /\ \/ Found(t, "free") /\ At(t, "wrfree")
       \/ find_iter(t, "free", MIdle)                                       \* EUSERS

MountLock(t) ==
    LET i == mthr[t].i
    IN  /\ mthr[t].pc = "wrfree" /\ wrlock(i)
        /\ IF Upgrade(t, "free")
           THEN /\ mount_entry' = [mount_entry EXCEPT ![i].wr = t]
                /\ MGo(t, [mthr[t] EXCEPT !.pc = "create"])
                /\ UNCHANGED <<mobj, mdir>>
           ELSE MStep(t, "free")

\* pfs_create_mount makes an object at an address that no mount has, mountentry_init
\* puts it into the entry; mountentry_fini and pfs_destroy_mount undo that
pfs_create_mount(a, name) == [name |-> name, epoch |-> 0, live |-> TRUE, birth |-> mobj[a].birth + 1]
pfs_destroy_mount(m) == [m EXCEPT !.live = FALSE]
mountentry_init(me, a) == [me EXCEPT !.mnt = a, !.epoch = @ + 1]
mountentry_fini(me) == [me EXCEPT !.mnt = NoMnt, !.epoch = @ + 1]
mountentry_wrunlock(me) == [me EXCEPT !.wr = Nobody]

\* pfs_create_mount ... mountentry_init, or an error: -EAGAIN mounts anew
MountCreate(t) ==
    LET r == mthr[t]
        i == r.i
        e == mount_entry[i].epoch + 1
    IN  /\ r.pc = "create"
        /\ \/ /\ e < MaxEpoch
              /\ \E a \in {x \in Addrs : ~mobj[x].live} :
                    /\ mobj' = [mobj EXCEPT ![a] = [pfs_create_mount(a, r.name) EXCEPT !.epoch = e]]
                    /\ mount_entry' = [mount_entry EXCEPT
                                          ![i] = mountentry_wrunlock(mountentry_init(@, a))]
              /\ \/ MGo(t, MIdle)                                           \* of a tool
                 \/ MGo(t, [r EXCEPT !.pc = "post", !.i = 1])
           \/ /\ mount_entry' = [mount_entry EXCEPT ![i] = mountentry_wrunlock(@)]
              /\ \/ MGo(t, MIdle)
                 \/ MGo(t, [r EXCEPT !.pc = "check", !.i = 1])
              /\ UNCHANGED mobj
        /\ UNCHANGED mdir

Borrowed(t, i, pc) ==
    /\ mount_entry' = [mount_entry EXCEPT ![i].rd = @ \union {t}]
    /\ MGo(t, [mthr[t] EXCEPT !.pc = pc, !.i = i])
    /\ UNCHANGED <<mobj, mdir>>

\* orphans are reclaimed and the admin thread is started on the borrowed mount
MountPost(t) ==
    /\ mthr[t].pc = "post"
    /\ \/ Found(t, "name") /\ Borrowed(t, mthr[t].i, "posting")
       \/ find_iter(t, "name", MIdle)

(***************************************************************************)
(* pfs_umount: admin_fini on the borrowed mount, then the entry is locked. *)
(***************************************************************************)
UmountBegin(t) ==
    /\ mthr[t].pc = "idle" /\ Serial(t)
    /\ \E n \in PbdNames : MGo(t, [MIdle EXCEPT !.pc = "uget", !.name = n])
    /\ UNCHANGED <<mount_entry, mobj, mdir>>

UmountAdmin(t) ==
    /\ mthr[t].pc = "uget"
    /\ \/ Found(t, "name") /\ Borrowed(t, mthr[t].i, "ufini")
       \/ find_iter(t, "name", MIdle)                                       \* EINVAL

UmountFind(t) ==
    /\ mthr[t].pc = "ufind"
    /\ \/ Found(t, "name") /\ At(t, "uwr")
       \/ find_iter(t, "name", MIdle)                                       \* ENODEV

UmountLock(t) ==
    LET i == mthr[t].i
    IN  /\ mthr[t].pc = "uwr" /\ wrlock(i)
        /\ IF Upgrade(t, "name")
           THEN /\ mount_entry' = [mount_entry EXCEPT ![i].wr = t]
                /\ MGo(t, [mthr[t] EXCEPT !.pc = "destroy"])
                /\ UNCHANGED <<mobj, mdir>>
           ELSE MStep(t, "ufind")

\* the threads of the mount are stopped, it is destroyed, and the entry is free
UmountDestroy(t) ==
    LET i == mthr[t].i
    IN  /\ mthr[t].pc = "destroy"
        /\ mobj' = [mobj EXCEPT ![mount_entry[i].mnt] = pfs_destroy_mount(@)]
        /\ mount_entry' = [mount_entry EXCEPT ![i] = mountentry_wrunlock(mountentry_fini(@))]
        /\ MGo(t, MIdle)
        /\ UNCHANGED mdir

(***************************************************************************)
(* Calls on a mount.                                                       *)
(***************************************************************************)
pfs_get_mount(t) ==
    \/ /\ mthr[t].pc = "idle"
       /\ \E n \in PbdNames : MGo(t, [MIdle EXCEPT !.pc = "get", !.name = n])
       /\ UNCHANGED <<mount_entry, mobj, mdir>>
    \/ /\ mthr[t].pc = "get"
       /\ \/ Found(t, "name") /\ Borrowed(t, mthr[t].i, "using")
          \/ find_iter(t, "name", MIdle)

\* opendir keeps the mount's address and epoch in the stream
pfs_dir_open(t) ==
    LET e == mount_entry[mthr[t].i]
    IN  /\ mthr[t].pc = "using"
        /\ mdir' = [mdir EXCEPT ![t] = [id |-> mthr[t].i, mnt |-> e.mnt, epoch |-> e.epoch,
                                        birth |-> mobj[e.mnt].birth]]
        /\ UNCHANGED <<mount_entry, mobj, mthr>>

\* readdir and closedir find the mount by the number in the stream
pfs_get_mount_byid(t) ==
    LET i == mdir[t].id
    IN  /\ mthr[t].pc = "idle" /\ i # 0 /\ rdlock(i)
        /\ IF isfree(i, "") THEN UNCHANGED <<mount_entry, mobj, mdir, mthr>>
           ELSE Borrowed(t, i, "readdir")

pfs_dir_isstale_ByAddress(d, i) == mount_entry[i].mnt # d.mnt
pfs_dir_isstale(d, i) == mount_entry[i].mnt # d.mnt \/ mount_entry[i].epoch # d.epoch

pfs_put_mount(t) ==
    LET r == mthr[t]
        m == mount_entry[r.i].mnt
        d == mdir[t]
        wrong == r.pc = "readdir" /\ ~pfs_dir_isstale(d, r.i) /\ mobj[m].birth # d.birth
    IN  /\ r.pc \in {"using", "readdir", "posting", "ufini"}
        /\ mount_entry' = [mount_entry EXCEPT ![r.i].rd = @ \ {t}]
        /\ \/ r.pc # "ufini" /\ MGo(t, [MIdle EXCEPT !.bad = wrong])
           \/ r.pc = "ufini" /\ MGo(t, [r EXCEPT !.pc = "ufind", !.i = 1])
           \/ r.pc = "posting" /\ MGo(t, [r EXCEPT !.pc = "uget", !.i = 1])  \* an error: pfs_umount
        /\ UNCHANGED <<mobj, mdir>>

MtInit ==
    /\ mount_entry = [i \in Entry |-> [mnt |-> NoMnt, epoch |-> 1, wr |-> Nobody, rd |-> {}]]
    /\ mobj = [a \in Addrs |-> [name |-> "", epoch |-> 0, live |-> FALSE, birth |-> 0]]
    /\ mdir = [t \in Callers |-> NoDir]
    /\ mount_mutex \in BOOLEAN
    /\ mthr = [t \in Callers |-> MIdle]

MtNext ==
    /\ UNCHANGED mount_mutex
    /\ \E t \in Callers :
          \/ MountBegin(t) \/ MountCheck(t) \/ MountFree(t) \/ MountLock(t) \/ MountCreate(t)
          \/ MountPost(t) \/ UmountBegin(t) \/ UmountAdmin(t) \/ UmountFind(t) \/ UmountLock(t)
          \/ UmountDestroy(t) \/ pfs_get_mount(t) \/ pfs_dir_open(t) \/ pfs_get_mount_byid(t)
          \/ pfs_put_mount(t)

MtSpec == MtInit /\ [][MtNext]_mtvars

(***************************************************************************)
(* Properties.                                                             *)
(***************************************************************************)
\* A free entry is taken by one mount only, and an entry is freed by one umount only,
\* although the entry is found under its read lock and taken under its write lock.
\* Where the callers serialise mounts and umounts, a device is mounted at most once.
EntryTakenOnce ==
    /\ \A t \in Callers : mthr[t].pc = "create" => isfree(mthr[t].i, "")
    /\ \A t \in Callers : mthr[t].pc = "destroy" => hasname(mthr[t].i, mthr[t].name)
    /\ mount_mutex => \A i, j \in Entry :
          (i # j /\ ~isfree(i, "") /\ ~isfree(j, "")) =>
              mobj[mount_entry[i].mnt].name # mobj[mount_entry[j].mnt].name

\* What a call borrowed between pfs_get_mount and pfs_put_mount is not destroyed
\* under it, and its epoch is the entry's (the assertions of pfs_get_mount_byid and
\* pfs_put_mount).
BorrowedIsLive ==
    \A i \in Entry : mount_entry[i].rd # {} =>
        /\ ~isfree(i, "")
        /\ mobj[mount_entry[i].mnt].live /\ mobj[mount_entry[i].mnt].epoch = mount_entry[i].epoch

\* A directory stream that outlived its mount is told from one of the mount that took
\* over its entry, even when that mount lives at the same address.
StreamIsOfMount == \A t \in Callers : ~mthr[t].bad

\* Two mounts never take one entry, a borrowed mount is not freed, and a directory
\* stream is only used with the mount it was opened on: the three facts above.
TableSound == EntryTakenOnce /\ BorrowedIsLive /\ StreamIsOfMount

(***************************************************************************)
(* The inductive invariant.                                                *)
(***************************************************************************)
EntryStates == [mnt : Addrs \cup {NoMnt}, epoch : Nat, wr : Callers \cup {Nobody},
                rd : SUBSET Callers]
AnyName == PbdNames \cup {""}
MountStates == [name : AnyName, epoch : Nat, live : BOOLEAN, birth : Nat]
StreamStates == [id : Entry \cup {0}, mnt : Addrs \cup {NoMnt}, epoch : Nat, birth : Nat]
HoldsWrite == {"create", "destroy"}
HoldsRead == {"using", "readdir", "posting", "ufini"}
HoldsNone == {"idle", "check", "free", "wrfree", "post", "uget", "ufind", "uwr", "get"}
CallStates == [pc : HoldsWrite \cup HoldsRead \cup HoldsNone, name : AnyName, i : Entry,
               bad : BOOLEAN]

MtTypeOK ==
    /\ mount_entry \in [Entry -> EntryStates]
    /\ mobj \in [Addrs -> MountStates]
    /\ mdir \in [Callers -> StreamStates]
    /\ mount_mutex \in BOOLEAN
    /\ mthr \in [Callers -> CallStates]

\* The lock of an entry is held by the calls that are at a step that needs it.
LocksHeld ==
    /\ \A t \in Callers : \A i \in Entry :
          /\ mount_entry[i].wr = t <=> mthr[t].pc \in HoldsWrite /\ mthr[t].i = i
          /\ t \in mount_entry[i].rd <=> mthr[t].pc \in HoldsRead /\ mthr[t].i = i
    /\ \A i \in Entry : mount_entry[i].wr = Nobody \/ mount_entry[i].rd = {}

\* What a call found still holds while it has the entry locked.
FoundHolds ==
    \A t \in Callers : /\ mthr[t].pc = "create" => isfree(mthr[t].i, "")
                       /\ mthr[t].pc = "destroy" => hasname(mthr[t].i, mthr[t].name)
                       /\ mthr[t].pc \in HoldsRead => ~isfree(mthr[t].i, "")

\* The mounts in the table are live, each in one entry, with its epoch.
MountsLive ==
    /\ \A i \in Entry : ~isfree(i, "") => /\ mobj[mount_entry[i].mnt].live
                                          /\ mobj[mount_entry[i].mnt].epoch = mount_entry[i].epoch
    /\ \A i, j \in Entry : ~isfree(i, "") /\ mount_entry[i].mnt = mount_entry[j].mnt => i = j

\* The epoch of an entry grows with every mount and umount, so that an entry with the epoch
\* of a stream still has the mount the stream was opened on.
StreamsFresh ==
    \A t \in Callers :
       /\ ~mthr[t].bad
       /\ mthr[t].pc = "readdir" => mthr[t].i = mdir[t].id
       /\ mdir[t].id # 0 =>
            LET e == mount_entry[mdir[t].id]
            IN  /\ mdir[t].mnt \in Addrs /\ mdir[t].epoch <= e.epoch
                /\ mdir[t].epoch = e.epoch =>
                      e.mnt = mdir[t].mnt /\ mobj[mdir[t].mnt].birth = mdir[t].birth

\* Under the mutex one call changes the table, and what pfs_mount found of the entries it
\* went past stays so.
OneChange ==
    mount_mutex =>
    /\ \A x, y \in Callers : ChangesTable(x) /\ ChangesTable(y) => x = y
    /\ \A i, j \in Entry : \A n \in AnyName : hasname(i, n) /\ hasname(j, n) => i = j
    /\ \A t \in Callers :
          /\ mthr[t].pc = "check" => \A j \in Entry : j < mthr[t].i => ~hasname(j, mthr[t].name)
          /\ mthr[t].pc \in {"free", "wrfree", "create"} =>
                \A j \in Entry : ~hasname(j, mthr[t].name)

MtInv == MtTypeOK /\ LocksHeld /\ FoundHolds /\ MountsLive /\ StreamsFresh /\ OneChange
=============================================================================
