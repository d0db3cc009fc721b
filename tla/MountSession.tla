---------------------------- MODULE MountSession ----------------------------
(***************************************************************************)
(* Mounting through the daemon.  Client processes take the local lock file *)
(* of the volume (pfs_sdk/pfsd_sdk_mount.cc), open a session with pfsd     *)
(* (ipc/client.h) and ask it to mount; pfsd (ipc/server.h) handles one     *)
(* message at a time and counts, for each host id, the sessions that share *)
(* its one mount of the volume (the end of pfs_core/pfs_mount.cc).         *)
(*                                                                         *)
(* A connection is a pair <<process, number of the mount>>: a process may  *)
(* mount again before the daemon has seen the end of its last connection.  *)
(***************************************************************************)
EXTENDS Integers, Sequences, FiniteSets, FiniteSetsExt

CONSTANTS Procs,       \* client processes
          Hosts,       \* host ids, 1..n
          MaxMounts,   \* bound: mounts a process makes
          MaxCtl       \* bound: later requests of a process: remount, register, unregister

VARIABLES cl,      \* process -> its session object and SDK globals
          flk,     \* region of the lock file -> process that holds it
          inbox,   \* connection -> messages the daemon has not handled
          ctx,     \* connection -> host_id_ of its ClientContext, -1: none
          table,   \* connections whose buffer is in the BufferTable
          mt,      \* the mount and its reference counts
          mkfs     \* is a mkfs running?

msvars == <<cl, flk, inbox, ctx, table, mt, mkfs>>

Conns == Procs \X (1..MaxMounts)
MetaRegion == 0               \* stands for DEFAULT_MAX_HOSTS + 1
Regions == Hosts \cup {MetaRegion}
Unlocked == "nobody"
Conn(c) == <<c, cl[c].n>>

-----------------------------------------------------------------------------
(* The local lock file.  The locks are fcntl record locks: a region is     *)
(* refused only when another process holds it, and closing any descriptor  *)
(* of the file gives back every region the process holds.                  *)
CanLock(c, r) == flk[r] \in {c, Unlocked} /\ ~mkfs
Closed(c) == [r \in Regions |-> IF flk[r] = c THEN Unlocked ELSE flk[r]]

-----------------------------------------------------------------------------
(* The reference counts of the daemon. *)
IncrefFails_Never(m, h, wr) == FALSE
IncrefFails(m, h, wr) == m.refs[h] # 0 /\ (wr \/ m.rw[h])
pfs_host_incref(m, h, wr) ==
    [m EXCEPT !.refs[h] = @ + 1, !.nref = @ + 1,
              !.rw[h] = @ \/ wr, !.nwr = IF wr THEN @ + 1 ELSE @]

pfs_host_decref(m, h) ==
    [m EXCEPT !.refs[h] = @ - 1, !.nref = @ - 1,
              !.rw[h] = FALSE, !.nwr = IF m.rw[h] THEN @ - 1 ELSE @]
CanPromote(m, h) == m.refs[h] = 1 /\ ~m.rw[h]
pfs_host_promot_ref(m, h) == [m EXCEPT !.rw[h] = TRUE, !.nwr = @ + 1]
pfs_host_depromot_ref(m, h) == [m EXCEPT !.rw[h] = FALSE, !.nwr = @ - 1]
pfs_host_get_another_id(m) == Min({h \in Hosts : m.refs[h] > 0})
pfs_host_get_another_wrid(m) == Min({h \in Hosts : m.rw[h]})

Result(m, ok) == [m |-> m, ok |-> ok]

(* pfs_remount_rw: the mount becomes a writer under host h.  Every failure *)
(* that the daemon survives restores the read-only mount.                  *)
pfs_remount_rw(m, h) ==
    {Result([m EXCEPT !.host = h, !.wr = TRUE], TRUE), Result(m, FALSE)}

pfs_mount(m, h, wr) ==
    {Result([m EXCEPT !.up = TRUE, !.host = h, !.wr = wr], TRUE), Result(m, FALSE)}

pfs_mount_acquire(m, h, wr) ==
    LET Counted(m1) ==
          IF IncrefFails(m1, h, wr) THEN {Result(m1, FALSE)}
          ELSE LET m2 == pfs_host_incref(m1, h, wr) IN
               IF wr /\ ~m1.wr
                 THEN {IF r.ok THEN r ELSE Result(pfs_host_decref(r.m, h), FALSE) :
                         r \in pfs_remount_rw(m2, h)}
                 ELSE {Result(m2, TRUE)}
    IN IF m.up THEN Counted(m)
       ELSE UNION {IF r.ok THEN Counted(r.m) ELSE {r} : r \in pfs_mount(m, h, wr)}

Handover_None(m, h) == {m}
Handover_KeepsWr(m, h) ==
    CASE m.nwr # 0 /\ m.host = h -> {[m EXCEPT !.host = pfs_host_get_another_wrid(m)]}
      [] m.nwr = 0 /\ m.nref # 0 /\ m.host = h ->
           {[m EXCEPT !.host = pfs_host_get_another_id(m)]}
      [] m.nref = 0 -> {[m EXCEPT !.up = FALSE, !.wr = FALSE, !.lost = FALSE]}
      [] OTHER -> {m}
\* the mount carries on under another host, or ends with its last session;
\* `lost': LOG_TRY_RESET_LOCK failed and is not tried again
Handover(m, h) ==
    CASE m.nwr # 0 /\ m.host = h ->
           {[m EXCEPT !.host = pfs_host_get_another_wrid(m)], [m EXCEPT !.lost = TRUE]}
      [] m.nwr = 0 /\ m.nref # 0 /\ m.host = h ->
           {[m EXCEPT !.host = pfs_host_get_another_id(m), !.wr = FALSE]}
      [] m.nref = 0 -> {[m EXCEPT !.up = FALSE, !.wr = FALSE, !.lost = FALSE]}
      [] OTHER -> {m}

pfs_mount_release(m, h) ==
    IF ~m.up \/ m.refs[h] = 0 THEN {m} ELSE Handover(pfs_host_decref(m, h), h)

pfs_remount(m, h) ==
    IF ~m.up \/ ~CanPromote(m, h) THEN {Result(m, FALSE)}
    ELSE LET m1 == pfs_host_promot_ref(m, h) IN
         IF m.wr THEN {Result(m1, TRUE)}
         ELSE {IF r.ok THEN r ELSE Result(pfs_host_depromot_ref(r.m, h), FALSE) :
                 r \in pfs_remount_rw(m1, h)}

-----------------------------------------------------------------------------
(* The client.  hello, rem and ack are the Session's serverHelloReceived_, *)
(* remountResult_ and ackReceived_; known is what the last register or     *)
(* unregister call told the program, late says that one timed out.         *)
Idle == [pc |-> "idle", host |-> 0, wr |-> FALSE, n |-> 0, hello |-> "none",
         rem |-> "none", ack |-> FALSE, known |-> FALSE, late |-> FALSE, ctl |-> 0]
Set(c, r) == cl' = [cl EXCEPT ![c] = r]
Connected(c) == cl[c].pc \notin {"idle", "prepare"}

-----------------------------------------------------------------------------
(* The daemon: ClientContext::onBytes and teardown.  A reply is read by the *)
(* client's event loop at once (Session::onBytes), or lost when the client  *)
(* has gone; a reply that is late is modelled by a request that is.         *)
Received(s, m) ==
    CASE m.is = "hello" -> [s EXCEPT !.hello = IF m.ok THEN "ok" ELSE "error"]
      [] m.is = "remount" -> [s EXCEPT !.rem = IF m.ok THEN "ok" ELSE "error"]
      [] OTHER -> [s EXCEPT !.ack = TRUE]

Reply(k, m) ==
    cl' = [c \in Procs |-> IF Connected(c) /\ Conn(c) = k THEN Received(cl[c], m) ELSE cl[c]]
Handled(k, what) ==
    /\ inbox[k] # <<>> /\ Head(inbox[k]).is = what
    /\ inbox' = [inbox EXCEPT ![k] = Tail(@)]
Msg(what, h, wr) == [is |-> what, host |-> h, wr |-> wr]
Answer(what, ok) == [is |-> what, ok |-> ok]

OnClientHello(k) ==
    /\ Handled(k, "hello")
    /\ LET q == Head(inbox[k]) IN
       \E r \in pfs_mount_acquire(mt, q.host, q.wr) :
         /\ mt' = r.m
         /\ ctx' = [ctx EXCEPT ![k] = IF r.ok THEN q.host ELSE -1]
         /\ Reply(k, Answer("hello", r.ok))
    /\ UNCHANGED <<flk, table, mkfs>>

OnRemount(k) ==
    /\ Handled(k, "remount")
    /\ LET q == Head(inbox[k]) IN
       \E r \in pfs_remount(mt, q.host) :
         /\ mt' = r.m
         /\ ctx' = IF r.ok THEN [ctx EXCEPT ![k] = q.host] ELSE ctx
         /\ Reply(k, Answer("remount", r.ok))
    /\ UNCHANGED <<flk, table, mkfs>>

OnRegisterBuffers(k) ==
    /\ Handled(k, "register")
    /\ table' = table \cup {k}
    /\ Reply(k, Answer("ack", TRUE))
    /\ UNCHANGED <<flk, ctx, mt, mkfs>>

OnUnregisterBuffers(k) ==
    /\ Handled(k, "unregister")
    /\ table' = table \ {k}
    /\ Reply(k, Answer("ack", TRUE))
    /\ UNCHANGED <<flk, ctx, mt, mkfs>>

OnEof(k) ==
    /\ Handled(k, "eof")
    /\ \E m \in (IF ctx[k] >= 0 THEN pfs_mount_release(mt, ctx[k]) ELSE {mt}) : mt' = m
    /\ ctx' = [ctx EXCEPT ![k] = -1]
    /\ table' = table \ {k}
    /\ UNCHANGED <<cl, flk, mkfs>>

-----------------------------------------------------------------------------
Send(k, msg) == inbox' = [inbox EXCEPT ![k] = Append(@, msg)]

\* pfs_mount_prepare, for a writer: the region against growfs, then its host's
PrepareMeta(c) ==
    /\ cl[c].pc = "idle" /\ cl[c].n < MaxMounts
    /\ \E h \in Hosts : Set(c, [cl[c] EXCEPT !.pc = "prepare", !.host = h, !.wr = TRUE])
    /\ CanLock(c, MetaRegion)
    /\ flk' = [flk EXCEPT ![MetaRegion] = c]
    /\ UNCHANGED <<inbox, ctx, table, mt, mkfs>>

\* Session::start up to the CLIENT_HELLO
Hello(c, h, wr) ==
    LET n == cl[c].n + 1 IN
    /\ Set(c, [cl[c] EXCEPT !.pc = "hello", !.host = h, !.wr = wr, !.n = n,
                            !.known = FALSE, !.late = FALSE])
    /\ Send(<<c, n>>, Msg("hello", h, wr))

PrepareHost(c) ==
    /\ cl[c].pc = "prepare"
    /\ IF CanLock(c, cl[c].host)
         THEN /\ flk' = [flk EXCEPT ![cl[c].host] = c]
              /\ Hello(c, cl[c].host, TRUE)
         ELSE /\ flk' = Closed(c)
              /\ Set(c, [Idle EXCEPT !.n = cl[c].n, !.hello = cl[c].hello])
              /\ inbox' = inbox
    /\ UNCHANGED <<ctx, table, mt, mkfs>>

MountReadOnly(c) ==
    /\ cl[c].pc = "idle" /\ cl[c].n < MaxMounts
    /\ \E h \in Hosts : Hello(c, h, FALSE)
    /\ UNCHANGED <<flk, ctx, table, mt, mkfs>>

\* Session::shutdown, RESET_CONN and the local locks; the Session object and
\* its hello result stay
Disconnect(c) ==
    /\ Send(Conn(c), Msg("eof", 0, FALSE))
    /\ flk' = Closed(c)
    /\ Set(c, [Idle EXCEPT !.n = cl[c].n, !.hello = cl[c].hello])

SendBuffers(c) ==
    /\ Set(c, [cl[c] EXCEPT !.pc = "buffers", !.ack = FALSE])
    /\ Send(Conn(c), Msg("register", 0, FALSE))
    /\ UNCHANGED flk

GotHello_AnyResult(c) ==
    /\ cl[c].pc = "hello" /\ cl[c].hello # "none"
    /\ SendBuffers(c)
    /\ UNCHANGED <<ctx, table, mt, mkfs>>

GotHello(c) ==
    /\ cl[c].pc = "hello" /\ cl[c].hello # "none"
    /\ IF cl[c].hello = "ok" THEN SendBuffers(c) ELSE Disconnect(c)
    /\ UNCHANGED <<ctx, table, mt, mkfs>>

\* the mount succeeds; pfs_mount_post closes the descriptor of MetaRegion
GotMountAck(c) ==
    /\ cl[c].pc = "buffers" /\ cl[c].ack
    /\ Set(c, [cl[c] EXCEPT !.pc = "mounted", !.known = TRUE])
    /\ flk' = Closed(c)
    /\ UNCHANGED <<inbox, ctx, table, mt, mkfs>>

\* the wait for the hello or the first ack times out; the program unmounts;
\* the process dies
GiveUp(c) ==
    /\ Connected(c)
    /\ Disconnect(c)
    /\ UNCHANGED <<ctx, table, mt, mkfs>>

pfsd_remount(c) ==
    /\ cl[c].pc = "mounted" /\ ~cl[c].wr /\ CanLock(c, cl[c].host) /\ cl[c].ctl < MaxCtl
    /\ flk' = [flk EXCEPT ![cl[c].host] = c]
    /\ Set(c, [cl[c] EXCEPT !.pc = "remount", !.rem = "none", !.ctl = @ + 1])
    /\ Send(Conn(c), Msg("remount", cl[c].host, TRUE))
    /\ UNCHANGED <<ctx, table, mt, mkfs>>

\* the answer, or (with none yet) the timeout
RemountDone(c) ==
    /\ cl[c].pc = "remount"
    /\ Set(c, [cl[c] EXCEPT !.pc = "mounted", !.wr = cl[c].rem = "ok"])
    /\ flk' = IF cl[c].rem = "ok" THEN flk ELSE Closed(c)
    /\ UNCHANGED <<inbox, ctx, table, mt, mkfs>>

ControlSent_KeepAck(c) == cl[c].ack
ControlSent(c) == FALSE
\* sendBuffer and sendUnregisterBuffer
Control(c) ==
    /\ cl[c].pc = "mounted" /\ cl[c].ctl < MaxCtl
    /\ LET what == IF cl[c].known THEN "unregister" ELSE "register" IN
       /\ Send(Conn(c), Msg(what, 0, FALSE))
       /\ Set(c, [cl[c] EXCEPT !.pc = what, !.ack = ControlSent(c), !.ctl = @ + 1])
    /\ UNCHANGED <<flk, ctx, table, mt, mkfs>>

ControlDone(c) ==
    /\ cl[c].pc \in {"register", "unregister"}
    /\ Set(c, IF cl[c].ack THEN [cl[c] EXCEPT !.pc = "mounted", !.known = cl[c].pc = "register"]
              ELSE [cl[c] EXCEPT !.pc = "mounted", !.late = TRUE])
    /\ UNCHANGED <<flk, inbox, ctx, table, mt, mkfs>>

\* mkfs locks the whole file
MkfsBegin ==
    /\ ~mkfs /\ \A r \in Regions : flk[r] = Unlocked
    /\ mkfs' = TRUE
    /\ UNCHANGED <<cl, flk, inbox, ctx, table, mt>>
MkfsEnd ==
    /\ mkfs /\ mkfs' = FALSE
    /\ UNCHANGED <<cl, flk, inbox, ctx, table, mt>>

Init ==
    /\ cl = [c \in Procs |-> Idle]
    /\ flk = [r \in Regions |-> Unlocked]
    /\ inbox = [k \in Conns |-> <<>>]
    /\ ctx = [k \in Conns |-> -1] /\ table = {}
    /\ mt = [up |-> FALSE, host |-> 0, wr |-> FALSE, lost |-> FALSE, nref |-> 0, nwr |-> 0,
             refs |-> [h \in Hosts |-> 0], rw |-> [h \in Hosts |-> FALSE]]
    /\ mkfs = FALSE

Daemon(k) == \/ OnClientHello(k) \/ OnRemount(k) \/ OnRegisterBuffers(k)
             \/ OnUnregisterBuffers(k) \/ OnEof(k)
Client(c) == \/ PrepareMeta(c) \/ PrepareHost(c) \/ MountReadOnly(c)
             \/ GotHello(c) \/ GotMountAck(c) \/ GiveUp(c) \/ pfsd_remount(c)
             \/ RemountDone(c) \/ Control(c) \/ ControlDone(c)
Next == (\E k \in Conns : Daemon(k)) \/ (\E c \in Procs : Client(c)) \/ MkfsBegin \/ MkfsEnd
Spec == Init /\ [][Next]_msvars

-----------------------------------------------------------------------------
(* Properties. *)

(* The daemon's counts are the sessions it has accepted: for each host id   *)
(* and in total; a host that mounted for writing is counted once.          *)
RefsMatchSessions ==
    /\ \A h \in Hosts : mt.refs[h] = Cardinality({k \in Conns : ctx[k] = h})
    /\ mt.nref = Cardinality({k \in Conns : ctx[k] # -1})
    /\ mt.nwr = Cardinality({h \in Hosts : mt.rw[h]})
    /\ \A h \in Hosts : mt.rw[h] => mt.refs[h] = 1

(* The volume is mounted exactly while some session is counted, and (again  *)
(* unless LOG_TRY_RESET_LOCK failed) for writing exactly while some session *)
(* mounted it so.                                                           *)
MountFollowsRefs ==
    /\ mt.up <=> mt.nref > 0
    /\ ~mt.lost => (mt.wr <=> mt.nwr > 0)

(* The mount acts under the host id of a live session, and a writable mount *)
(* under that of a writer, unless LOG_TRY_RESET_LOCK failed.                *)
HostIsLive ==
    (mt.up /\ ~mt.lost) =>
       mt.refs[mt.host] > 0 /\ (mt.wr => mt.rw[mt.host])

Believes(c) == cl[c].pc \in {"buffers", "mounted", "remount", "register", "unregister"}

(* pfsd_mount returns 0 only when the daemon has accepted the session under *)
(* the host id the process asked for.                                       *)
MountAccepted ==
    \A c \in Procs : Believes(c) => ctx[Conn(c)] = cl[c].host

(* What the last register or unregister call returned is what the daemon's  *)
(* buffer table says, as long as no such call has timed out.                *)
BufferAsTold ==
    \A c \in Procs : (cl[c].pc = "mounted" /\ ~cl[c].late) =>
       (cl[c].known <=> Conn(c) \in table)

(* While a process has the volume mounted for writing, its host's region of *)
(* the lock file keeps mkfs out.                                            *)
MkfsExcluded ==
    mkfs => ~\E c \in Procs : cl[c].pc = "mounted" /\ cl[c].wr
=============================================================================
