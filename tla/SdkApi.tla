------------------------------- MODULE SdkApi -------------------------------
(***************************************************************************)
(* The client library of pfsd (pfs_sdk): its descriptor table with the two  *)
(* locks around it (pfsd_sdk_file.cc) and the pfsd_x calls (pfsd_sdk.cc).   *)
(* A call takes a file by descriptor, a request and perhaps a buffer from   *)
(* shared memory, has pfsd execute the request and gives everything back.   *)
(* It is abstracted to its SHAPE: the lock on the file, the buffer, and the *)
(* kind of its control flow.  Calls of one shape are one element of Calls.  *)
(***************************************************************************)
EXTENDS Integers, FiniteSets, FiniteSetsExt

CONSTANTS Threads,   \* threads of the client process
          MaxNfd,    \* PFSD_MAX_NFD
          MaxFiles,  \* addresses PFSD_CALLOC can return for a pfsd_file_t
          MaxReqs,   \* elements of the request pool
          MaxBufs    \* elements of the buffer pools

VARIABLES sdktbl,      \* fdtbl, fdtbl_nopen, fdtbl_free_last
          fdtbl_lock,  \* fdtbl_rwlock: its readers and its writer
          sfile,       \* address -> the pfsd_file_t there
          reqs, bufs,  \* elements of the pools in use
          chdir_mtx,   \* pfsd_chdir_mtx: its owner or None
          mounted,     \* s_inited
          pathfits,    \* some pool of buffers has elements of PFS_MAX_PATHLEN
          careful,     \* the program never uses a descriptor it is closing
          sowned,      \* descriptors the program has open
          sth          \* the state of each thread

vars == <<sdktbl, fdtbl_lock, sfile, reqs, bufs, chdir_mtx, mounted, pathfits, careful, sowned, sth>>

Fds   == 0 .. MaxNfd - 1
Files == 1 .. MaxFiles
None  == 0
NoFd  == -1

Fresh   == [is |-> "fresh", at |-> 0]
Link(n) == [is |-> "link", at |-> n]
Open(f) == [is |-> "file", at |-> f]

-----------------------------------------------------------------------------
(* Shapes.  kind: "call" sends one request; "early" may return before it    *)
(* does; "none" never does.                                                 *)
Shape(kind, get, buf) == [kind |-> kind, get |-> get, buf |-> buf]
PathRequest == Shape("call", "none", "path")

pfsd_mount_growfs    == Shape("call", "none", "none")
pfsd_rename          == PathRequest
pfsd_open            == Shape("open", "none", "path")
pfsd_creat           == pfsd_open
pfsd_pread           == Shape("early", "rd", "io")
pfsd_read            == pfsd_pread
pfsd_pwrite          == Shape("early", "rd", "io")
pfsd_write           == pfsd_pwrite
pfsd_pread_zc        == Shape("early", "rd", "none")
pfsd_pwrite_zc       == Shape("early", "rd", "none")
pfsd_fallocate       == Shape("call", "rd", "none")
pfsd_posix_fallocate == pfsd_fallocate
pfsd_truncate        == PathRequest
pfsd_ftruncate       == Shape("call", "rd", "path")
pfsd_unlink          == PathRequest
pfsd_stat            == PathRequest
pfsd_fstat           == Shape("call", "rd", "none")
(* SEEK_SET and SEEK_CUR are answered by local_file_lseek.                  *)
pfsd_lseek           == Shape("early", "wr", "none")
pfsd_close           == Shape("close", "wr", "none")
pfsd_chdir           == Shape("chdir", "none", "path")
pfsd_getcwd          == Shape("none", "none", "none")
pfsd_getwd           == pfsd_getcwd
pfsd_mkdir           == PathRequest
pfsd_rmdir           == PathRequest
pfsd_opendir         == PathRequest
(* Answered from the entries of the last request while there are any.       *)
pfsd_readdir_r       == Shape("early", "none", "path")
pfsd_readdir         == pfsd_readdir_r
pfsd_closedir        == Shape("none", "none", "none")
pfsd_access          == PathRequest
pfsd_fsync           == Shape("call", "rd", "none")
pfsd_readlink        == Shape("none", "none", "none")
pfsd_chmod           == Shape("none", "none", "none")
pfsd_fchmod          == Shape("none", "none", "none")
pfsd_chown           == Shape("none", "none", "none")

Calls == {pfsd_mount_growfs, pfsd_rename, pfsd_open, pfsd_creat, pfsd_pread, pfsd_read,
          pfsd_pwrite, pfsd_write, pfsd_pread_zc, pfsd_pwrite_zc, pfsd_fallocate,
          pfsd_posix_fallocate, pfsd_truncate, pfsd_ftruncate, pfsd_unlink, pfsd_stat,
          pfsd_fstat, pfsd_lseek, pfsd_close, pfsd_chdir, pfsd_getcwd, pfsd_getwd,
          pfsd_mkdir, pfsd_rmdir, pfsd_opendir, pfsd_readdir_r, pfsd_readdir,
          pfsd_closedir, pfsd_access, pfsd_fsync, pfsd_readlink, pfsd_chmod,
          pfsd_fchmod, pfsd_chown}

-----------------------------------------------------------------------------
FreeFile == [alive |-> FALSE, fd |-> NoFd, refcnt |-> 0, mutex |-> None, rd |-> {}, wr |-> None]
Idle     == [pc |-> "idle", call |-> pfsd_chmod, fd |-> NoFd, f |-> None, req |-> FALSE, buf |-> FALSE]

(* The process has just mounted, or has opened its first file.              *)
Init ==
    /\ careful \in BOOLEAN /\ pathfits \in BOOLEAN
    /\ sdktbl = [slot |-> [fd \in Fds |-> IF fd = 0 /\ ~careful THEN Open(1) ELSE Fresh],
                 nopen |-> IF careful THEN 0 ELSE 1, free_last |-> -1]
    /\ sfile = [f \in Files |-> [FreeFile EXCEPT !.alive = (f = 1 /\ ~careful),
                                                 !.fd = IF f = 1 /\ ~careful THEN 0 ELSE NoFd]]
    /\ sowned = IF careful THEN {} ELSE {0}
    /\ fdtbl_lock = [rd |-> {}, wr |-> None]
    /\ reqs = 0 /\ bufs = 0
    /\ chdir_mtx = None
    /\ mounted = TRUE
    /\ sth = [t \in Threads |-> Idle]

Set(t, new) == sth' = [sth EXCEPT ![t] = new]
At(t, pc)   == sth[t].pc = pc

NextFd == IF sdktbl.free_last < 0 THEN sdktbl.nopen ELSE sdktbl.free_last

(* The table after fd_get_free(f) and after fd_put_free(fd).                *)
fd_get_free(f) ==
    [slot |-> [sdktbl.slot EXCEPT ![NextFd] = Open(f)],
     nopen |-> sdktbl.nopen + 1,
     free_last |-> IF sdktbl.free_last < 0 THEN -1 ELSE sdktbl.slot[sdktbl.free_last].at]

(* Mutant: the slot is pushed without the rest of the list behind it.       *)
fd_put_free_NoTail(fd) ==
    [slot |-> [sdktbl.slot EXCEPT ![fd] = Link(-1)],
     nopen |-> sdktbl.nopen - 1, free_last |-> fd]
fd_put_free(fd) ==
    [slot |-> [sdktbl.slot EXCEPT ![fd] = Link(sdktbl.free_last)],
     nopen |-> sdktbl.nopen - 1, free_last |-> fd]

fd_to_file(fd) == IF sdktbl.slot[fd].is = "file" THEN sdktbl.slot[fd].at ELSE None

-----------------------------------------------------------------------------
(* The program.  A careful one closes a descriptor only while none of its    *)
(* threads is in a call on it; the other one opens one file and then uses   *)
(* and closes any number at any time.                                       *)

Using(fd) == {t \in Threads : sth[t].pc # "idle" /\ sth[t].call.get # "none" /\ sth[t].fd = fd}
MayUse(call, fd) ==
    IF careful THEN call.get # "none" =>
                      /\ fd \in sowned
                      /\ call = pfsd_close => Using(fd) = {}
    ELSE call.kind # "open"

(* CHECK_MOUNT: nothing is called while the device is not mounted.  The     *)
(* calls that reach neither the table nor pfsd change nothing here.         *)
Invoke(t) ==
    /\ At(t, "idle") /\ mounted
    /\ \E call \in {c \in Calls : c.kind # "none"} :
       \E fd \in IF call.get = "none" THEN {NoFd} ELSE Fds :
         /\ MayUse(call, fd)
         /\ Set(t, [Idle EXCEPT !.call = call, !.fd = fd,
                !.pc = CASE call.get # "none" -> "get"
                         [] call.kind = "open" -> "alloc_fd"
                         [] call.kind = "chdir" -> "chdir"
                         [] OTHER -> "req"])
         /\ sowned' = IF call = pfsd_close THEN sowned \ {fd} ELSE sowned
    /\ UNCHANGED <<sdktbl, fdtbl_lock, sfile, reqs, bufs, chdir_mtx, mounted, pathfits, careful>>

(* pfsd_umount of a program that has closed its files and stopped its       *)
(* threads; pfsd_mount closes what is left in the table (pfsd_sdk_file_init). *)
pfsd_umount ==
    /\ mounted /\ sowned = {} /\ \A t \in Threads : At(t, "idle")
    /\ mounted' = FALSE
    /\ UNCHANGED <<sdktbl, fdtbl_lock, sfile, reqs, bufs, chdir_mtx, pathfits, careful, sowned, sth>>

Closeable == {fd \in Fds : sdktbl.slot[fd].is = "file" /\ sfile[sdktbl.slot[fd].at].refcnt <= 1}
pfsd_sdk_file_init ==
    LET Below(fd) == {g \in Closeable : g < fd}      \* closed before fd
    IN
    /\ ~mounted
    /\ mounted' = TRUE
    /\ sfile' = [f \in Files |-> IF \E fd \in Closeable : sdktbl.slot[fd] = Open(f) THEN FreeFile ELSE sfile[f]]
    /\ sdktbl' = [slot |-> [fd \in Fds |->
                               IF fd \notin Closeable THEN sdktbl.slot[fd]
                               ELSE Link(IF Below(fd) = {} THEN sdktbl.free_last ELSE Max(Below(fd)))],
                  nopen |-> sdktbl.nopen - Cardinality(Closeable),
                  free_last |-> IF Closeable = {} THEN sdktbl.free_last ELSE Max(Closeable)]
    /\ UNCHANGED <<fdtbl_lock, reqs, bufs, chdir_mtx, pathfits, careful, sowned, sth>>

-----------------------------------------------------------------------------
(* pfsd_get_file: the slot under the table's read lock, the reference under *)
(* the file's mutex inside it, then the file's own lock.                    *)
GetFile(t) ==
    LET f == fd_to_file(sth[t].fd) IN
    /\ At(t, "get")
    /\ fdtbl_lock.wr = None
    /\ IF f = None THEN Set(t, Idle) /\ UNCHANGED fdtbl_lock
       ELSE /\ fdtbl_lock' = [fdtbl_lock EXCEPT !.rd = @ \cup {t}]
            /\ Set(t, [sth[t] EXCEPT !.pc = "ref", !.f = f])
    /\ UNCHANGED <<sdktbl, sfile, reqs, bufs, chdir_mtx, mounted, pathfits, careful, sowned>>

GetRef(t) ==
    /\ At(t, "ref")
    /\ sfile[sth[t].f].mutex = None
    /\ sfile' = [sfile EXCEPT ![sth[t].f].refcnt = @ + 1]
    /\ fdtbl_lock' = [fdtbl_lock EXCEPT !.rd = @ \ {t}]
    /\ Set(t, [sth[t] EXCEPT !.pc = "rwlock"])
    /\ UNCHANGED <<sdktbl, reqs, bufs, chdir_mtx, mounted, pathfits, careful, sowned>>

(* Some calls check offset or length, or are answered, before any request.  *)
FileLock(t) ==
    LET f == sth[t].f  w == sth[t].call.get = "wr" IN
    /\ At(t, "rwlock")
    /\ sfile[f].wr = None
    /\ w => sfile[f].rd = {}
    /\ sfile' = IF w THEN [sfile EXCEPT ![f].wr = t] ELSE [sfile EXCEPT ![f].rd = @ \cup {t}]
    /\ \E pc \in CASE sth[t].call.kind = "close" -> {"close"}
                   [] sth[t].call.kind = "early" -> {"req", "put"}
                   [] OTHER -> {"req"} :
         Set(t, [sth[t] EXCEPT !.pc = pc])
    /\ UNCHANGED <<sdktbl, fdtbl_lock, reqs, bufs, chdir_mtx, mounted, pathfits, careful, sowned>>

(* pfsd_put_file: the lock, then the reference.  pfsd_close starts again.   *)
PutFile(t) ==
    /\ At(t, "put")
    /\ sfile' = [sfile EXCEPT ![sth[t].f].rd = @ \ {t}, ![sth[t].f].wr = IF @ = t THEN None ELSE @]
    /\ Set(t, [sth[t] EXCEPT !.pc = "unref"])
    /\ UNCHANGED <<sdktbl, fdtbl_lock, reqs, bufs, chdir_mtx, mounted, pathfits, careful, sowned>>

PutRef(t) ==
    /\ At(t, "unref")
    /\ sfile[sth[t].f].mutex = None
    /\ sfile' = [sfile EXCEPT ![sth[t].f].refcnt = @ - 1]
    /\ Set(t, CASE sth[t].call.kind = "close" -> [sth[t] EXCEPT !.pc = "get", !.f = None]
                 [] sth[t].req -> [sth[t] EXCEPT !.pc = "free", !.f = None]
                 [] OTHER -> Idle)
    /\ UNCHANGED <<sdktbl, fdtbl_lock, reqs, bufs, chdir_mtx, mounted, pathfits, careful, sowned>>

(* pfsd_alloc_file and pfsd_alloc_fd; EMFILE in a full table.               *)
pfsd_alloc_fd(t) ==
    LET f == Min({g \in Files : ~sfile[g].alive}) IN
    /\ At(t, "alloc_fd")
    /\ fdtbl_lock = [rd |-> {}, wr |-> None]
    /\ IF NextFd < MaxNfd
       THEN /\ sdktbl' = fd_get_free(f)
            /\ sfile' = [sfile EXCEPT ![f] = [FreeFile EXCEPT !.alive = TRUE, !.fd = NextFd]]
            /\ Set(t, [sth[t] EXCEPT !.pc = "req", !.fd = NextFd, !.f = f])
       ELSE Set(t, Idle) /\ UNCHANGED <<sdktbl, sfile>>
    /\ UNCHANGED <<fdtbl_lock, reqs, bufs, chdir_mtx, mounted, pathfits, careful, sowned>>

(* Mutant: the reference of the caller is not accounted for.                *)
LastRef_Off(f) == sfile[f].refcnt <= 2
LastRef(f) == sfile[f].refcnt <= 1

(* pfsd_close_file: the mutex of the file is kept while the table's write   *)
(* lock is taken.                                                           *)
CloseFile(t) ==
    LET f == sth[t].f  kind == sth[t].call.kind IN
    /\ At(t, "close")
    /\ sfile[f].mutex = None
    /\ sfile' = IF LastRef(f) THEN [sfile EXCEPT ![f].mutex = t] ELSE sfile
    /\ Set(t, [sth[t] EXCEPT !.pc = IF LastRef(f) THEN "close_fd"
                                    ELSE IF kind = "close" THEN "put" ELSE "free"])
    /\ UNCHANGED <<sdktbl, fdtbl_lock, reqs, bufs, chdir_mtx, mounted, pathfits, careful, sowned>>

CloseFd(t) ==
    LET f == sth[t].f IN
    /\ At(t, "close_fd")
    /\ fdtbl_lock = [rd |-> {}, wr |-> None]
    /\ sdktbl' = fd_put_free(sfile[f].fd)
    /\ sfile' = [sfile EXCEPT ![f] = FreeFile]
    /\ Set(t, IF sth[t].call.kind = "close" THEN Idle ELSE [sth[t] EXCEPT !.pc = "free", !.f = None])
    /\ UNCHANGED <<fdtbl_lock, reqs, bufs, chdir_mtx, mounted, pathfits, careful, sowned>>

-----------------------------------------------------------------------------
(* pfsd_chdir_begin.                                                        *)
ChdirBegin(t) ==
    /\ At(t, "chdir")
    /\ chdir_mtx = None
    /\ chdir_mtx' = t
    /\ Set(t, [sth[t] EXCEPT !.pc = "req"])
    /\ UNCHANGED <<sdktbl, fdtbl_lock, sfile, reqs, bufs, mounted, pathfits, careful, sowned>>

(* pfsd_alloc_req_and_buf waits for a request, then for a buffer; a buffer  *)
(* no pool can hold fails with ENOMEM and the caller undoes what it did.    *)
(* A path is PFS_MAX_PATHLEN long; the data of a read or write is any size. *)
AllocReq(t) ==
    /\ At(t, "req")
    /\ reqs < MaxReqs
    /\ reqs' = reqs + 1
    /\ Set(t, [sth[t] EXCEPT !.req = TRUE, !.pc = IF sth[t].call.buf = "none" THEN "execute" ELSE "buf"])
    /\ UNCHANGED <<sdktbl, fdtbl_lock, sfile, bufs, chdir_mtx, mounted, pathfits, careful, sowned>>

AllocBuf(t) ==
    /\ At(t, "buf") /\ (sth[t].call.buf = "path" => pathfits)
    /\ bufs < MaxBufs
    /\ bufs' = bufs + 1
    /\ Set(t, [sth[t] EXCEPT !.buf = TRUE, !.pc = "execute"])
    /\ UNCHANGED <<sdktbl, fdtbl_lock, sfile, reqs, chdir_mtx, mounted, pathfits, careful, sowned>>

(* pfsd_open frees the file and not its slot; pfsd_chdir keeps the mutex.   *)
AllocFails(t) ==
    LET kind == sth[t].call.kind  f == sth[t].f IN
    /\ At(t, "buf") /\ (sth[t].call.buf = "path" => ~pathfits)
    /\ reqs' = reqs - 1
    /\ sfile' = IF kind = "open" THEN [sfile EXCEPT ![f] = FreeFile] ELSE sfile
    /\ Set(t, IF sth[t].call.get = "none" THEN Idle ELSE [sth[t] EXCEPT !.pc = "put", !.req = FALSE])
    /\ UNCHANGED <<sdktbl, fdtbl_lock, bufs, chdir_mtx, mounted, pathfits, careful, sowned>>

(* Mutant: a failed open keeps its descriptor.                              *)
OpenFailed_NoClose == "free"
OpenFailed == "close"

(* executeRequest and what follows the answer; pfsd_chdir sets the working  *)
(* directory and ends (pfsd_chdir_end).                                     *)
Execute(t) ==
    LET kind == sth[t].call.kind IN
    /\ At(t, "execute")
    /\ \E ok \in BOOLEAN :
         /\ sowned' = IF kind = "open" /\ ok THEN sowned \cup {sth[t].fd} ELSE sowned
         /\ Set(t, CASE kind = "open" /\ ok -> [sth[t] EXCEPT !.pc = "free", !.f = None]
                      [] kind = "open" /\ ~ok -> [sth[t] EXCEPT !.pc = OpenFailed]
                      [] sth[t].call.get # "none" -> [sth[t] EXCEPT !.pc = "put"]
                      [] OTHER -> [sth[t] EXCEPT !.pc = "free"])
    /\ chdir_mtx' = IF kind = "chdir" THEN None ELSE chdir_mtx
    /\ UNCHANGED <<sdktbl, fdtbl_lock, sfile, reqs, bufs, mounted, pathfits, careful>>

(* A call without a buffer gives back only its request.                     *)
FreeBuf(t) == IF sth[t].buf THEN bufs - 1 ELSE bufs
pfsd_free_req_and_buf(t) ==
    /\ At(t, "free")
    /\ reqs' = reqs - 1
    /\ bufs' = FreeBuf(t)
    /\ Set(t, Idle)
    /\ UNCHANGED <<sdktbl, fdtbl_lock, sfile, chdir_mtx, mounted, pathfits, careful, sowned>>

Next ==
    \/ pfsd_umount \/ pfsd_sdk_file_init
    \/ \E t \in Threads :
        \/ Invoke(t) \/ GetFile(t) \/ GetRef(t) \/ FileLock(t) \/ PutFile(t) \/ PutRef(t)
        \/ pfsd_alloc_fd(t) \/ CloseFile(t) \/ CloseFd(t) \/ ChdirBegin(t)
        \/ AllocReq(t) \/ AllocBuf(t) \/ AllocFails(t) \/ Execute(t)
        \/ pfsd_free_req_and_buf(t)

Spec == Init /\ [][Next]_vars

-----------------------------------------------------------------------------
TypeOK ==
    /\ sdktbl.nopen \in 0 .. MaxNfd /\ sdktbl.free_last \in -1 .. MaxNfd - 1
    /\ \A f \in Files : sfile[f].refcnt \in 0 .. Cardinality(Threads)
    /\ reqs \in 0 .. MaxReqs /\ bufs \in 0 .. MaxBufs

OpenFds == {fd \in Fds : sdktbl.slot[fd].is = "file"}
Chain[n \in 0 .. MaxNfd] ==
    IF n = 0 THEN sdktbl.free_last
    ELSE IF Chain[n - 1] \in Fds /\ sdktbl.slot[Chain[n - 1]].is = "link" THEN sdktbl.slot[Chain[n - 1]].at
    ELSE -1

(* The slots of closed descriptors form one list that ends in -1, and with  *)
(* an empty list slot fdtbl_nopen is the first never used: fd_get_free      *)
(* never hands out a descriptor that is in use.                             *)
SlotsAccounted ==
    /\ Chain[MaxNfd] = -1
    /\ {Chain[n] : n \in 0 .. MaxNfd} \ {-1} = {fd \in Fds : sdktbl.slot[fd].is = "link"}
    /\ sdktbl.nopen = Cardinality(OpenFds)
    /\ \A a, b \in Fds : a < b /\ sdktbl.slot[a] = Fresh => sdktbl.slot[b] = Fresh

(* While a call waits for pfsd its file is neither freed nor out of the     *)
(* table, and no other thread waits on a lock inside a freed file; the      *)
(* count is the number of calls between pfsd_get_file and pfsd_put_file.    *)
Held(t) == sth[t].call.get # "none" /\ sth[t].f # None
FileOutlivesCalls ==
    /\ \A t \in Threads : Held(t) => sfile[sth[t].f].alive
    /\ \A f \in Files : sfile[f].alive =>
         /\ sdktbl.slot[sfile[f].fd] = Open(f)
         /\ sfile[f].refcnt = Cardinality({t \in Threads : Held(t) /\ sth[t].f = f /\ ~At(t, "ref")})

(* Requests and buffers come back on every path.                            *)
PoolsBalanced ==
    /\ reqs = Cardinality({t \in Threads : sth[t].req})
    /\ bufs = Cardinality({t \in Threads : sth[t].buf})

(* The chdir mutex and descriptors come back too; when the program has      *)
(* closed its files and unmounts, the table is empty, as pfsd_sdk_file_init *)
(* asserts (PFSD_ASSERT(fdtbl_nopen == 0)).                                 *)
CallsGiveBack ==
    /\ chdir_mtx # None => sth[chdir_mtx].call = pfsd_chdir
    /\ ~mounted => sdktbl.nopen = 0

(* The threads that t waits for; one that gives back what it has is enough  *)
(* only for a buffer or a request.                                          *)
Owner(o)  == {o} \ {None}
Blocked(t, S) ==
    LET f == sth[t].f IN
    CASE At(t, "ref") \/ At(t, "unref") \/ At(t, "close") -> Owner(sfile[f].mutex) \cap S # {}
      [] At(t, "rwlock") -> (Owner(sfile[f].wr) \cup
                             IF sth[t].call.get = "wr" THEN sfile[f].rd ELSE {}) \cap S # {}
      [] At(t, "alloc_fd") \/ At(t, "close_fd") -> fdtbl_lock.rd \cap S # {}
      [] At(t, "chdir") -> Owner(chdir_mtx) \cap S # {}
      [] At(t, "req")   -> reqs = MaxReqs /\ {u \in Threads : sth[u].req} \subseteq S
      [] At(t, "buf")   -> /\ sth[t].call.buf = "path" => pathfits
                           /\ bufs = MaxBufs /\ {u \in Threads : sth[u].buf} \subseteq S
      [] OTHER -> FALSE

(* Threads wait for each other in one way only: pfsd_get_file for the       *)
(* file's mutex inside the table's lock, pfsd_close_file for the table's     *)
(* lock inside the mutex.  A program that closes a descriptor only when it  *)
(* is not in use never meets it.                                            *)
OnlyCloseWedges ==
    \A S \in SUBSET Threads \ {{}} : (\A t \in S : Blocked(t, S)) =>
        ~careful /\ \E t, u \in S : At(t, "ref") /\ At(u, "close_fd") /\ sth[t].f = sth[u].f

=============================================================================
