------------------------------ MODULE FileApi ------------------------------
(***************************************************************************)
(* The file descriptor table of libpfs and the POSIX-like calls that use it *)
(* (pfs_file.cc, pfs_api.cc).  Every public call pfs_x checks its arguments *)
(* and repeats _pfs_x while the result is -EAGAIN.  _pfs_x takes a mount,   *)
(* and a file through its descriptor or its path, runs its body, and puts   *)
(* back what it took.  A call is abstracted to its SHAPE: how it enters,    *)
(* the lock it takes on the file, the mutex around each attempt and the     *)
(* steps of its body.  Calls of one shape behave alike here and are one     *)
(* element of Calls.                                                        *)
(***************************************************************************)
EXTENDS Integers, FiniteSets, FiniteSetsExt, Sequences

CONSTANTS Threads,   \* threads of the process that calls libpfs
          MaxNfd,    \* file_max_nfd, the size of the table
          MaxFiles,  \* addresses pfs_mem_malloc can return for a pfs_file_t
          MaxTries   \* attempts pfs_file_release makes of one file

VARIABLES fdtbl,            \* slot -> an open file, a link or 0
          fdtbl_nopen, fdtbl_free_last,
          file,             \* address -> the pfs_file_t there
          mntref,           \* read locks held on the mount entry
          mtx,              \* unlink_mtx and rename_mtx: their owner or None
          owned,            \* descriptors the program has open
          racing,           \* the program's discipline, see MayUse
          aborted,          \* a PFS_ASSERT has failed
          misclosed,        \* history: pfs_file_release has closed a file it no longer has
          fth               \* the state of each thread

vars == <<fdtbl, fdtbl_nopen, fdtbl_free_last, file, mntref, mtx, owned, racing,
          aborted, misclosed, fth>>
tblvars == <<fdtbl, fdtbl_nopen, fdtbl_free_last>>

Fds   == 0 .. MaxNfd - 1
Files == 1 .. MaxFiles
None  == 0
NoFd  == MaxNfd

(* Encodings of a slot: fdtbl[fd] is 0 (never used), a file pointer or, when *)
(* odd, twice the next free descriptor plus one.                            *)
Fresh   == [is |-> "fresh", at |-> 0]
Link(n) == [is |-> "link", at |-> n]
Open(f) == [is |-> "file", at |-> f]

-----------------------------------------------------------------------------
(* The shapes of the calls.                                                 *)

PathCall(body) == [enter |-> "namei", lock |-> "none", mutex |-> "none", body |-> body]
FileCall(lock, body) == [enter |-> "file", lock |-> lock, mutex |-> "none", body |-> body]
DirCall(body)  == [enter |-> "dir", lock |-> "none", mutex |-> "none", body |-> body]
BareCall(body) == [enter |-> "none", lock |-> "none", mutex |-> "none", body |-> body]
Under(m, call) == [call EXCEPT !.mutex = m]

(* Open the orphan, truncate it, free its inode; then close it and start    *)
(* again after EAGAIN (Closed below).                                        *)
pfs_file_release == <<"r_open", "r_op", "r_op">>

_pfs_truncate    == PathCall(<<"open", "op", "close">>)
_pfs_ftruncate   == FileCall("rd", <<"op">>)
_pfs_open(trunc) == PathCall(IF trunc THEN <<"open", "op", "keep">> ELSE <<"open", "keep">>)
_pfs_close       == FileCall("wr", <<"close_locked">>)
_pfs_read        == FileCall("rd", <<"op">>)
_pfs_write       == FileCall("rd", <<"op", "op">>)
_pfs_pread       == FileCall("rd", <<"op">>)
_pfs_pwrite      == FileCall("rd", <<"op", "op">>)
_pfs_fstat       == FileCall("rd", <<"op">>)
_pfs_stat        == PathCall(<<"open", "op", "close">>)
_pfs_fallocate   == FileCall("rd", <<"op">>)
_pfs_unlink      == PathCall(<<"op">> \o pfs_file_release)
_pfs_lseek       == FileCall("wr", <<"op">>)
_pfs_setxattr    == PathCall(<<"open", "op", "close">>)
_pfs_fmap        == FileCall("rd", <<"op">>)
_pfs_mkdir       == PathCall(<<"op">>)
_pfs_opendir     == PathCall(<<"op">>)
_pfs_readdir     == DirCall(<<"op">>)
_pfs_readdir_r   == DirCall(<<"op">>)
_pfs_readdirplus == DirCall(<<"op">>)
_pfs_closedir    == DirCall(<<"op">>)
_pfs_rmdir       == PathCall(<<"op", "op">>)
(* The target that a rename replaces is released: nothing, a directory's    *)
(* inode or a file.                                                         *)
_pfs_rename(tgt) == PathCall(CASE tgt = "none" -> <<"op">>
                               [] tgt = "dir"  -> <<"op", "op">>
                               [] tgt = "file" -> <<"op">> \o pfs_file_release)
(* Every failure of the lookup is answered ENOENT or EACCES: never retried. *)
_pfs_access      == PathCall(<<"probe">>)
_pfs_du          == PathCall(<<"op">>)
_pfs_fsync       == FileCall("rd", <<"op">>)
_pfs_readlink    == BareCall(<<>>)
_pfs_chmod       == BareCall(<<>>)
_pfs_fchmod      == BareCall(<<>>)
_pfs_chown       == BareCall(<<>>)
_pfs_chdir       == PathCall(<<"op">>)
_pfs_getwd       == BareCall(<<"op">>)
_pfs_getcwd      == BareCall(<<"op">>)

pfs_creat           == {_pfs_open(TRUE)}
pfs_open            == {_pfs_open(TRUE), _pfs_open(FALSE)}
pfs_read            == {_pfs_read}
pfs_write           == {_pfs_write}
pfs_pread           == {_pfs_pread}
pfs_pwrite          == {_pfs_pwrite}
pfs_close           == {_pfs_close}
pfs_truncate        == {_pfs_truncate}
pfs_ftruncate       == {_pfs_ftruncate}
pfs_unlink          == {Under("unlink_mtx", _pfs_unlink)}
pfs_stat            == {_pfs_stat}
pfs_fstat           == {_pfs_fstat}
pfs_posix_fallocate == {_pfs_fallocate}
pfs_fallocate       == {_pfs_fallocate}
pfs_lseek           == {_pfs_lseek}
pfs_setxattr        == {_pfs_setxattr}
pfs_fmap            == {_pfs_fmap}
pfs_mkdir           == {_pfs_mkdir}
pfs_opendir         == {_pfs_opendir}
pfs_readdir         == {_pfs_readdir}
pfs_readdir_r       == {_pfs_readdir_r}
pfs_readdirplus     == {_pfs_readdirplus}
pfs_closedir        == {_pfs_closedir}
pfs_rmdir           == {_pfs_rmdir}
pfs_rename          == {Under("rename_mtx", _pfs_rename(tgt)) : tgt \in {"none", "dir", "file"}}
pfs_chdir           == {_pfs_chdir}
pfs_getwd           == {_pfs_getwd}
pfs_getcwd          == {_pfs_getcwd}
pfs_access          == {_pfs_access}
pfs_fsync           == {_pfs_fsync}
pfs_readlink        == {_pfs_readlink}
pfs_chmod           == {_pfs_chmod}
pfs_fchmod          == {_pfs_fchmod}
pfs_chown           == {_pfs_chown}
pfs_du              == {_pfs_du}

\* the requests that pfsd serves with the calls themselves
pfsd_worker_handle_rename == pfs_rename
pfsd_worker_handle_unlink == pfs_unlink
pfsd_worker_handle_mkdir  == pfs_mkdir
pfsd_worker_handle_rmdir  == pfs_rmdir
pfsd_worker_handle_access == pfs_access

Calls == UNION {pfs_creat, pfs_open, pfs_read, pfs_write, pfs_pread, pfs_pwrite,
                pfs_close, pfs_truncate, pfs_ftruncate, pfs_unlink, pfs_stat,
                pfs_fstat, pfs_posix_fallocate, pfs_fallocate, pfs_lseek,
                pfs_setxattr, pfs_fmap, pfs_mkdir, pfs_opendir, pfs_readdir,
                pfs_readdir_r, pfs_readdirplus, pfs_closedir, pfs_rmdir,
                pfs_rename, pfs_chdir, pfs_getwd, pfs_getcwd, pfs_access,
                pfs_fsync, pfs_readlink, pfs_chmod, pfs_fchmod, pfs_chown, pfs_du,
                pfsd_worker_handle_rename, pfsd_worker_handle_unlink,
                pfsd_worker_handle_mkdir, pfsd_worker_handle_rmdir, pfsd_worker_handle_access}

-----------------------------------------------------------------------------
(* The table.                                                               *)

FreeFile == [alive |-> FALSE, fd |-> NoFd, refcnt |-> 0, rd |-> {}, wr |-> None]
NoCall   == BareCall(<<>>)
Idle     == [pc |-> "idle", call |-> NoCall, i |-> 1, fd |-> NoFd, f |-> None,
             hold |-> "none", mnt |-> FALSE, again |-> FALSE, tries |-> 0]

Init ==
    /\ fdtbl = [fd \in Fds |-> Fresh]
    /\ fdtbl_nopen = 0
    /\ fdtbl_free_last = MaxNfd
    /\ file = [f \in Files |-> FreeFile]
    /\ mntref = 0
    /\ mtx = [m \in {"unlink_mtx", "rename_mtx"} |-> None]
    /\ owned = {}
    /\ racing \in BOOLEAN
    /\ aborted = FALSE
    /\ misclosed = FALSE
    /\ fth = [t \in Threads |-> Idle]

(* The descriptor fd_get hands out, or MaxNfd when there is none: from the  *)
(* part of the table never used while the list of closed ones is empty.     *)
NextFd == IF fdtbl_free_last = MaxNfd THEN fdtbl_nopen ELSE fdtbl_free_last

(* Mutants: the list is not popped; the count is not lowered.               *)
fd_get_NoPop(f) ==
    /\ fdtbl' = [fdtbl EXCEPT ![NextFd] = Open(f)]
    /\ fdtbl_nopen' = fdtbl_nopen + 1
    /\ UNCHANGED fdtbl_free_last
fd_put_NoLink(fd) ==
    /\ fdtbl' = [fdtbl EXCEPT ![fd] = Link(MaxNfd)]
    /\ fdtbl_free_last' = fd
    /\ fdtbl_nopen' = fdtbl_nopen - 1

fd_get(f) ==
    /\ fdtbl' = [fdtbl EXCEPT ![NextFd] = Open(f)]
    /\ fdtbl_nopen' = fdtbl_nopen + 1
    /\ fdtbl_free_last' = IF fdtbl_free_last = MaxNfd THEN MaxNfd
                          ELSE fdtbl[fdtbl_free_last].at

fd_put(fd) ==
    /\ fdtbl' = [fdtbl EXCEPT ![fd] = Link(fdtbl_free_last)]
    /\ fdtbl_free_last' = fd
    /\ fdtbl_nopen' = fdtbl_nopen - 1

(* Mutant: the reference of the closing call is not the only one allowed.   *)
LastRef_Off(f) == file[f].refcnt <= 2
LastRef(f) == file[f].refcnt <= 1

fd_to_file(fd) == IF fdtbl[fd].is = "file" THEN fdtbl[fd].at ELSE None

(* The start of an attempt at a call.                                       *)
Attempt(call, fd) == [Idle EXCEPT !.pc = IF call.mutex = "none" THEN "enter" ELSE "mutex",
                                  !.call = call, !.fd = fd]
Set(t, new) == fth' = [fth EXCEPT ![t] = new]
At(t, pc)   == ~aborted /\ fth[t].pc = pc
Step(t)     == fth[t].call.body[fth[t].i]
Next_(th)   == IF th.i < Len(th.call.body) THEN [th EXCEPT !.i = @ + 1]
               ELSE [th EXCEPT !.pc = IF th.hold = "release" THEN "close" ELSE "put"]

(* Mutant: the error path forgets the file.                                 *)
Failed_NoClose(th, o) == [th EXCEPT !.again = (o = "EAGAIN"), !.pc = "put"]
(* A step of the body has failed: a file opened by the call is closed.      *)
Failed(th, o) == [th EXCEPT !.again = (o = "EAGAIN"),
                            !.pc = IF th.hold \in {"temp", "release"} THEN "close" ELSE "put"]
Outcomes == {"ok", "EAGAIN", "err"}

(* The mutex is released and the public call repeats the attempt after      *)
(* EAGAIN; otherwise it converts the error and returns.                     *)
Return(t, th) ==
    /\ mtx' = [m \in DOMAIN mtx |-> IF m = th.call.mutex THEN None ELSE mtx[m]]
    /\ Set(t, IF th.again
              THEN Attempt(th.call, IF th.call.enter = "file" THEN th.fd ELSE NoFd)
              ELSE Idle)

-----------------------------------------------------------------------------
(* The program.  A careful one uses only descriptors it has open and closes *)
(* one only when none of its threads is using it.  A racing one may use any *)
(* number at any time, closed or closing, but makes no call that opens a    *)
(* file and closes it itself.                                               *)
ClosesItself(call) == \E i \in 1 .. Len(call.body) :
    call.body[i] = "r_open" \/ (call.body[i] = "open" /\ i + 1 <= Len(call.body)
                                /\ call.body[i + 1] # "keep")
Using(fd) == {t \in Threads : fth[t].pc # "idle" /\ fth[t].call.enter = "file" /\ fth[t].fd = fd}
MayUse(call, fd) ==
    IF racing THEN ~ClosesItself(call)
    ELSE call.enter = "file" =>
           /\ fd \in owned
           /\ call = _pfs_close => Using(fd) = {}

Invoke(t) ==
    /\ At(t, "idle")
    /\ \E call \in Calls : \E fd \in IF call.enter = "file" THEN Fds ELSE {NoFd} :
         /\ MayUse(call, fd)
         /\ Set(t, Attempt(call, fd))
         /\ owned' = IF call = _pfs_close THEN owned \ {fd} ELSE owned
    /\ UNCHANGED <<tblvars, file, mntref, mtx, racing, aborted, misclosed>>

(* pfs_unlink and pfs_rename hold a mutex around each attempt.              *)
TakeMutex(t) ==
    LET m == fth[t].call.mutex IN
    /\ At(t, "mutex")
    /\ mtx[m] = None
    /\ mtx' = [mtx EXCEPT ![m] = t]
    /\ Set(t, [fth[t] EXCEPT !.pc = "enter"])
    /\ UNCHANGED <<tblvars, file, mntref, owned, racing, aborted, misclosed>>

Entered(th) == [th EXCEPT !.pc = IF th.call.body = <<>> THEN "put" ELSE "step"]

(* GET_MOUNT_NAMEI: no path or no such mount returns at once.               *)
GetMountNamei(t) ==
    /\ At(t, "enter") /\ fth[t].call.enter = "namei"
    /\ \/ /\ Set(t, [Entered(fth[t]) EXCEPT !.mnt = TRUE])
          /\ mntref' = mntref + 1
          /\ UNCHANGED mtx
       \/ /\ Return(t, fth[t])
          /\ UNCHANGED mntref
    /\ UNCHANGED <<tblvars, file, owned, racing, aborted, misclosed>>

(* GET_MOUNT_DIR; and the calls that take no mount.                         *)
GetMountDir(t) ==
    /\ At(t, "enter") /\ fth[t].call.enter \in {"dir", "none"}
    /\ LET m == fth[t].call.enter = "dir" IN
         /\ Set(t, [Entered(fth[t]) EXCEPT !.mnt = m])
         /\ mntref' = IF m THEN mntref + 1 ELSE mntref
    /\ UNCHANGED <<tblvars, file, mtx, owned, racing, aborted, misclosed>>

(* pfs_file_get under fdtbl_mtx; EBADF for a slot without a file.           *)
FileGet(t) ==
    LET f == fd_to_file(fth[t].fd) IN
    /\ At(t, "enter") /\ fth[t].call.enter = "file"
    /\ IF f = None
       THEN /\ Return(t, fth[t])
            /\ UNCHANGED file
       ELSE /\ Set(t, [fth[t] EXCEPT !.pc = "rwlock", !.f = f, !.hold = "ref"])
            /\ file' = [file EXCEPT ![f].refcnt = @ + 1]
            /\ UNCHANGED mtx
    /\ UNCHANGED <<tblvars, mntref, owned, racing, aborted, misclosed>>

(* FILE_RDLOCK or FILE_WRLOCK after the mutex, then pfs_get_mount_byid.     *)
FileLock(t) ==
    LET f == fth[t].f  w == fth[t].call.lock = "wr" IN
    /\ At(t, "rwlock")
    /\ file[f].wr = None
    /\ w => file[f].rd = {}
    /\ file' = IF w THEN [file EXCEPT ![f].wr = t] ELSE [file EXCEPT ![f].rd = @ \cup {t}]
    /\ Set(t, [Entered(fth[t]) EXCEPT !.mnt = TRUE])
    /\ mntref' = mntref + 1
    /\ UNCHANGED <<tblvars, mtx, owned, racing, aborted, misclosed>>

-----------------------------------------------------------------------------
(* The bodies.                                                              *)

(* A step on the mount or on the file's inode: it succeeds, must be         *)
(* retried or fails.  pfs_access turns every failure into a final answer.   *)
BodyOp(t) ==
    /\ At(t, "step") /\ Step(t) \in {"op", "probe", "r_op"}
    /\ \E o \in Outcomes :
         /\ o = "EAGAIN" => Step(t) # "probe"
         /\ o = "EAGAIN" /\ Step(t) = "r_op" => fth[t].tries < MaxTries
         /\ Set(t, IF o = "ok" THEN Next_(fth[t]) ELSE Failed(fth[t], o))
    /\ UNCHANGED <<tblvars, file, mntref, mtx, owned, racing, aborted, misclosed>>

(* After pfs_file_close: pfs_file_release starts again after EAGAIN.  Its    *)
(* file pointer is not reset, so that it is then of a file already closed.   *)
Releasing(th) == th.i >= 2 /\ th.call.body[2] = "r_open"
Closed(th) == IF Releasing(th) /\ th.again
              THEN [th EXCEPT !.pc = "step", !.i = 2,
                              !.hold = IF th.f = None THEN "none" ELSE "stale"]
              ELSE [th EXCEPT !.pc = "put", !.f = None, !.hold = "none"]

(* pfs_file_open, and pfs_file_open_impl in pfs_file_release: lookup and    *)
(* inode may fail; so does fd_alloc in a full table (EMFILE).  The file is  *)
(* then freed and *filep is not written: a pointer that pfs_file_release    *)
(* kept from its last attempt is closed again.  The ENOENT of an orphan that *)
(* is already gone counts as success.                                       *)
BodyOpen(t) ==
    LET th == fth[t]
        rel == Step(t) = "r_open"
        free == {g \in Files : ~file[g].alive}
        f == Min(free)
    IN
    /\ At(t, "step") /\ Step(t) \in {"open", "r_open"}
    /\ \/ /\ free # {} /\ NextFd < MaxNfd
          /\ fd_get(f)
          /\ file' = [file EXCEPT ![f] = [FreeFile EXCEPT !.alive = TRUE, !.fd = NextFd]]
          /\ Set(t, Next_([th EXCEPT !.fd = NextFd, !.f = f,
                                     !.hold = IF rel THEN "release" ELSE "temp",
                                     !.again = FALSE, !.tries = IF rel THEN @ + 1 ELSE @]))
       \/ \E o \in Outcomes :
          /\ o = "ok" => rel
          /\ o = "EAGAIN" => ~rel \/ th.tries < MaxTries
          /\ LET failed == [th EXCEPT !.again = (o = "EAGAIN"), !.tries = IF rel THEN @ + 1 ELSE @]
             IN Set(t, IF th.f = None THEN Closed(failed) ELSE [failed EXCEPT !.pc = "close"])
          /\ UNCHANGED <<tblvars, file>>
    /\ UNCHANGED <<mntref, mtx, owned, racing, aborted, misclosed>>

(* pfs_open returns the descriptor to the program.                          *)
BodyKeep(t) ==
    /\ At(t, "step") /\ Step(t) = "keep"
    /\ owned' = owned \cup {fth[t].fd}
    /\ Set(t, [fth[t] EXCEPT !.pc = "put", !.f = None, !.hold = "none"])
    /\ UNCHANGED <<tblvars, file, mntref, mtx, racing, aborted, misclosed>>

(* fd_free, of the address the caller has: the slot goes on the list unless *)
(* another thread has a reference, EAGAIN then.  It asserts that the slot   *)
(* still holds this file; the callers that opened the file themselves       *)
(* verify that the result is 0.  Memory that was freed and not given to     *)
(* another file fails the assertion whatever it holds: no slot points to it. *)
fd_free(t) ==
    LET th == fth[t]
        f == th.f
        mine == file[f].alive /\ fdtbl[file[f].fd] = Open(f)
        last == LastRef(f)
    IN
    /\ ~aborted
    /\ th.pc = "close" \/ (th.pc = "step" /\ Step(t) \in {"close", "close_locked"})
    /\ aborted' = (~mine \/ (~last /\ th.hold = "temp"))
    /\ misclosed' = (misclosed \/ th.hold = "stale")
    /\ IF mine /\ last
       THEN /\ fd_put(file[f].fd)
            /\ Set(t, [th EXCEPT !.pc = "destroy"])
       ELSE /\ UNCHANGED tblvars
            /\ Set(t, IF th.hold = "ref" THEN [th EXCEPT !.again = TRUE, !.pc = "put"]
                      ELSE Closed(th))
    /\ UNCHANGED <<file, mntref, mtx, owned, racing>>

(* FILE_UNLOCK of a locked file, then pfs_file_destroy.                     *)
pfs_file_destroy(t) ==
    /\ At(t, "destroy")
    /\ file' = [file EXCEPT ![fth[t].f] = FreeFile]
    /\ Set(t, Closed(fth[t]))
    /\ UNCHANGED <<tblvars, mntref, mtx, owned, racing, aborted, misclosed>>

-----------------------------------------------------------------------------
(* PUT_MOUNT_NAMEI, PUT_MOUNT_FILE and PUT_MOUNT_DIR.                       *)
PutMount(t) ==
    LET th == fth[t] IN
    /\ At(t, "put")
    /\ mntref' = IF th.mnt THEN mntref - 1 ELSE mntref
    /\ IF th.hold = "ref" THEN /\ Set(t, [th EXCEPT !.mnt = FALSE, !.pc = "unlock"])
                               /\ UNCHANGED mtx
       ELSE Return(t, th)
    /\ UNCHANGED <<tblvars, file, owned, racing, aborted, misclosed>>

(* pfs_file_put: the lock first, then the reference under fdtbl_mtx.        *)
FileUnlock(t) ==
    /\ At(t, "unlock")
    /\ file' = [file EXCEPT ![fth[t].f].rd = @ \ {t}, ![fth[t].f].wr = IF @ = t THEN None ELSE @]
    /\ Set(t, [fth[t] EXCEPT !.pc = "unref"])
    /\ UNCHANGED <<tblvars, mntref, mtx, owned, racing, aborted, misclosed>>

FileUnref(t) ==
    /\ At(t, "unref")
    /\ file' = [file EXCEPT ![fth[t].f].refcnt = @ - 1]
    /\ Return(t, fth[t])
    /\ UNCHANGED <<tblvars, mntref, owned, racing, aborted, misclosed>>

Next == \E t \in Threads :
    \/ Invoke(t) \/ TakeMutex(t) \/ GetMountNamei(t) \/ GetMountDir(t) \/ FileGet(t)
    \/ FileLock(t) \/ BodyOp(t) \/ BodyOpen(t) \/ BodyKeep(t)
    \/ fd_free(t) \/ pfs_file_destroy(t) \/ PutMount(t)
    \/ FileUnlock(t) \/ FileUnref(t) 

Spec == Init /\ [][Next]_vars

-----------------------------------------------------------------------------
TypeOK ==
    /\ fdtbl \in [Fds -> {Fresh} \cup {Link(n) : n \in 0 .. MaxNfd} \cup {Open(f) : f \in Files}]
    /\ fdtbl_nopen \in 0 .. MaxNfd /\ fdtbl_free_last \in 0 .. MaxNfd
    /\ \A f \in Files : file[f].refcnt \in 0 .. Cardinality(Threads)
    /\ mntref \in 0 .. Cardinality(Threads)
    /\ owned \subseteq Fds

OpenFds == {fd \in Fds : fdtbl[fd].is = "file"}

(* The closed descriptors reached from fdtbl_free_last in n steps.          *)
Chain[n \in 0 .. MaxNfd] ==
    IF n = 0 THEN fdtbl_free_last
    ELSE IF Chain[n - 1] \in Fds /\ fdtbl[Chain[n - 1]].is = "link" THEN fdtbl[Chain[n - 1]].at
    ELSE MaxNfd
OnList == {Chain[n] : n \in 0 .. MaxNfd} \ {MaxNfd}

(* The list built from closed descriptors ends, holds exactly the slots     *)
(* marked closed, and the never used slots are the tail of the table: what  *)
(* fd_get needs to take descriptor number fdtbl_nopen when the list is empty *)
(* (the layout the comment above fd_set_init describes).                    *)
FdListWellFormed ==
    /\ Chain[MaxNfd] = MaxNfd
    /\ OnList = {fd \in Fds : fdtbl[fd].is = "link"}
    /\ fdtbl_nopen = Cardinality(OpenFds)
    /\ \A a, b \in Fds : a < b /\ fdtbl[a] = Fresh => fdtbl[b] = Fresh

(* A file a call has taken through its descriptor stays allocated and in    *)
(* the table until the call puts it or closes it, whatever other threads    *)
(* close meanwhile; and the reference count is the number of such calls.    *)
Refs(f) == {t \in Threads : fth[t].f = f /\ fth[t].hold = "ref"}
HeldFileIsOpen ==
    /\ \A t \in Threads : fth[t].hold = "ref" /\ fth[t].pc # "destroy" =>
         file[fth[t].f].alive /\ fdtbl[file[fth[t].f].fd] = Open(fth[t].f)
    /\ \A f \in Files : file[f].alive => file[f].refcnt = Cardinality(Refs(f))

(* Calls leak nothing on any path: a thread outside a call holds no mutex,  *)
(* lock or mount reference, and a slot in use belongs to the program or to  *)
(* a call in progress.                                                      *)
NothingLeaks ==
    /\ mntref = Cardinality({t \in Threads : fth[t].mnt})
    /\ \A m \in DOMAIN mtx : mtx[m] # None =>
         fth[mtx[m]].call.mutex = m /\ fth[mtx[m]].pc # "mutex"
    /\ \A f \in Files : file[f].rd \cup ({file[f].wr} \ {None}) \subseteq Refs(f)
    /\ \A fd \in OpenFds : fd \in owned \/ \E t \in Threads :
         fth[t].f = fdtbl[fd].at \/ (fth[t].call = _pfs_close /\ fth[t].fd = fd)

(* The assertions of the calls hold: fd_free finds its file in the slot     *)
(* (pfs_file.cc, "PFS_ASSERT(fdtbl[fd] == file)") and the callers that      *)
(* opened the file get 0 from it.  The one exception is a pfs_file_release  *)
(* that has closed its file, starts again after EAGAIN and cannot open it:  *)
(* it closes the file a second time.                                        *)
NoAssertionFails == aborted => misclosed

(* Calls never wait for each other in a circle, or for a call that is over: *)
(* of any set of threads one waits for nobody in the set, for the mutexes    *)
(* of unlink and rename and for the locks of files.                          *)
WaitsFor(t) ==
    LET f == fth[t].f IN
    CASE fth[t].pc = "mutex"  -> {mtx[fth[t].call.mutex]} \ {None}
      [] fth[t].pc = "rwlock" -> ({file[f].wr} \ {None})
                                 \cup (IF fth[t].call.lock = "wr" THEN file[f].rd ELSE {})
      [] OTHER -> {}
NobodyStuck ==
    /\ \A S \in SUBSET Threads \ {{}} : \E t \in S : WaitsFor(t) \cap S = {}
    /\ \A t \in Threads : \A u \in WaitsFor(t) : fth[u].pc # "idle"

=============================================================================
