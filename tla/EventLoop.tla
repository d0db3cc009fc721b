------------------------------ MODULE EventLoop ------------------------------
(***************************************************************************)
(* The control connection of a client: the event loop                      *)
(* (ipc/pfs_event_loop.cc), its socket (ipc/pfs_unix_socket.cc) and the    *)
(* session that starts the loop's thread, runs functions on it and stops   *)
(* it (Session::start and shutdown of ipc/client.h).  The session object   *)
(* lives as long as the process: its flags and the queue of functions      *)
(* survive an unmount.  A message is two units on the wire; a descriptor   *)
(* travels with the first.                                                 *)
(***************************************************************************)
EXTENDS Integers, Sequences, SequencesExt

CONSTANTS Users,        \* threads of the client
          Mounter,      \* the one that mounts and unmounts
          SockBuf,      \* units the kernel buffers
          MaxMsgs,      \* bound: messages sent
          MaxStarts,    \* bound: mounts
          DaemonFails   \* may the daemon be down or die?

VARIABLES lt,        \* the loop's thread
          stop_, pending_, wakeup,     \* EventLoop: flag, queue, eventfd
          flags,     \* connected_, error_, queuesAreReady_
          socket_,   \* the UnixSocket, or NoSock
          wire,      \* kernel and daemon: units sent, input, is the peer there?
          usr,       \* user -> what it does
          starts, posted,
          recvd      \* units the daemon took off the wire

evars == <<lt, stop_, pending_, wakeup, flags, socket_, wire, usr, starts, posted, recvd>>

NoSock == [gen |-> 0, open |-> FALSE, wq |-> <<>>, watchingWrite |-> FALSE]
NoWire == [gen |-> 0, out |-> <<>>, input |-> FALSE, peer |-> FALSE]
NoFn == [fn |-> "none", m |-> 0, user |-> Mounter]
LIdle == [pc |-> "none", batch |-> <<>>, run |-> <<>>]

-----------------------------------------------------------------------------
(* UnixSocket. *)
Units(m, g) == <<[m |-> m, u |-> 1, fd |-> TRUE, gen |-> g], [m |-> m, u |-> 2, fd |-> FALSE, gen |-> g]>>

\* sends until the queue is empty or the kernel's buffer is full, then watches for room
doWrite_Unarmed(s, w) ==
    LET n == IF Len(s.wq) < SockBuf - Len(w.out) THEN Len(s.wq) ELSE SockBuf - Len(w.out)
    IN  <<[s EXCEPT !.wq = SubSeq(@, n + 1, Len(@))], [w EXCEPT !.out = @ \o SubSeq(s.wq, 1, n)]>>
doWrite(s, w) ==
    LET n == IF Len(s.wq) < SockBuf - Len(w.out) THEN Len(s.wq) ELSE SockBuf - Len(w.out)
    IN  IF s.wq # <<>> /\ ~w.peer
        THEN <<[s EXCEPT !.open = FALSE, !.wq = <<>>, !.watchingWrite = FALSE], w>>
        ELSE <<[s EXCEPT !.wq = SubSeq(@, n + 1, Len(@)), !.watchingWrite = n < Len(s.wq)],
               [w EXCEPT !.out = @ \o SubSeq(s.wq, 1, n)]>>

\* a message joins the queue; it is sent at once unless the socket waits for room
writeWithFds_Front(s, w, m) == doWrite([s EXCEPT !.wq = Units(m, s.gen) \o @], w)
writeWithFds(s, w, m) ==
    IF ~s.open THEN <<s, w>>
    ELSE LET q == [s EXCEPT !.wq = @ \o Units(m, s.gen)]
         IN  IF s.watchingWrite THEN <<q, w>> ELSE doWrite(q, w)

-----------------------------------------------------------------------------
(* Session::start and shutdown, runInLoopAndWait. *)
UGo(u, pc) == usr' = [usr EXCEPT ![u].pc = pc]

start ==
    /\ usr[Mounter].pc = "off" /\ starts < MaxStarts
    /\ starts' = starts + 1
    /\ lt' = [LIdle EXCEPT !.pc = "connect"]
    /\ UGo(Mounter, "connecting")
    /\ UNCHANGED <<stop_, pending_, wakeup, flags, socket_, wire, posted, recvd>>

waitEvent ==
    /\ \/ /\ usr[Mounter].pc = "connecting" /\ (flags.connected \/ flags.error)
          /\ UGo(Mounter, IF flags.error THEN "shutdown" ELSE "queues")
       \/ /\ usr[Mounter].pc = "queues" /\ (flags.ready \/ flags.error)
          /\ UGo(Mounter, IF flags.error THEN "shutdown" ELSE "up")
    /\ UNCHANGED <<lt, stop_, pending_, wakeup, flags, socket_, wire, starts, posted, recvd>>

\* queueInLoop pushes under the mutex, then writes the eventfd
queueInLoop(u, fn, pc) ==
    /\ pending_' = Append(pending_, [fn |-> fn, m |-> posted + 1, user |-> u])
    /\ UGo(u, pc)
signal_First(u, from, to) ==
    /\ usr[u].pc = from
    /\ wakeup' = (wakeup \/ Len(pending_) = 1)
    /\ UGo(u, to)
    /\ UNCHANGED <<lt, stop_, pending_, flags, socket_, wire, starts, posted, recvd>>
signal(u, from, to) ==
    /\ usr[u].pc = from
    /\ wakeup' = TRUE
    /\ UGo(u, to)
    /\ UNCHANGED <<lt, stop_, pending_, flags, socket_, wire, starts, posted, recvd>>

runInLoopAndWait(u) ==
    /\ usr[Mounter].pc \notin {"off", "connecting", "queues", "shutdown", "reset", "stopping", "stopped", "join"}
    /\ usr[u].pc = "up" /\ posted < MaxMsgs
    /\ posted' = posted + 1
    /\ queueInLoop(u, "write", "posted")
    /\ UNCHANGED <<lt, stop_, wakeup, flags, socket_, wire, starts, recvd>>

shutdown ==
    /\ usr[Mounter].pc \in {"up", "shutdown"} /\ \A u \in Users \ {Mounter} : usr[u].pc = "up"
    /\ queueInLoop(Mounter, "reset", "reset")
    /\ UNCHANGED <<lt, stop_, wakeup, flags, socket_, wire, starts, posted, recvd>>

terminate_Quiet ==
    /\ usr[Mounter].pc = "stopping"
    /\ stop_' = TRUE
    /\ UGo(Mounter, "join")
    /\ UNCHANGED <<lt, pending_, wakeup, flags, socket_, wire, starts, posted, recvd>>
terminate ==
    /\ usr[Mounter].pc = "stopping"
    /\ stop_' = TRUE
    /\ UGo(Mounter, "stopped")
    /\ UNCHANGED <<lt, pending_, wakeup, flags, socket_, wire, starts, posted, recvd>>

join ==
    /\ usr[Mounter].pc = "join" /\ lt.pc = "done"
    /\ lt' = LIdle
    /\ UGo(Mounter, "off")
    /\ UNCHANGED <<stop_, pending_, wakeup, flags, socket_, wire, starts, posted, recvd>>

-----------------------------------------------------------------------------
(* The thread. *)
LGo(pc) == lt' = [lt EXCEPT !.pc = pc]

\* assigning socket_ destroys the one that an earlier session left
connectUnix ==
    /\ lt.pc = "connect"
    /\ \/ /\ socket_' = [NoSock EXCEPT !.gen = starts, !.open = TRUE]
          /\ wire' = [gen |-> starts, out |-> <<>>, input |-> TRUE, peer |-> TRUE]
          /\ flags' = [flags EXCEPT !.connected = TRUE]
          /\ LGo("enter")
       \/ /\ DaemonFails
          /\ flags' = [flags EXCEPT !.error = TRUE]
          /\ LGo("done")
          /\ UNCHANGED <<socket_, wire>>
    /\ UNCHANGED <<stop_, pending_, wakeup, usr, starts, posted, recvd>>

loopEnter ==
    /\ lt.pc = "enter"
    /\ stop_' = FALSE
    /\ LGo("loop")
    /\ UNCHANGED <<pending_, wakeup, flags, socket_, wire, usr, starts, posted, recvd>>

loopForever ==
    /\ lt.pc = "loop"
    /\ LGo(IF stop_ THEN "done" ELSE "wait")
    /\ flags' = [flags EXCEPT !.ready = @ /\ ~stop_]
    /\ UNCHANGED <<stop_, pending_, wakeup, socket_, wire, usr, starts, posted, recvd>>

SockReady == socket_.open /\ (wire.input \/ ~wire.peer \/ (socket_.watchingWrite /\ Len(wire.out) < SockBuf))
epoll_wait ==
    /\ lt.pc = "wait" /\ (wakeup \/ SockReady)
    /\ \E b \in SetToSeqs((IF wakeup THEN {"eventfd"} ELSE {}) \union (IF SockReady THEN {"socket"} ELSE {})) :
          lt' = [lt EXCEPT !.pc = "dispatch", !.batch = b]
    /\ UNCHANGED <<stop_, pending_, wakeup, flags, socket_, wire, usr, starts, posted, recvd>>

\* an event of a watch that an earlier callback of the batch removed is skipped
IsLive_Any == TRUE
IsLive == socket_.open
Read(s, w) == IF w.input THEN <<s, [w EXCEPT !.input = FALSE]>>
              ELSE IF ~w.peer THEN <<[s EXCEPT !.open = FALSE, !.wq = <<>>, !.watchingWrite = FALSE], w>>
              ELSE <<s, w>>
onEvent ==
    LET r == Read(socket_, wire)
        e == IF r[1].open /\ r[1].watchingWrite THEN doWrite(r[1], r[2]) ELSE r
    IN  /\ lt.pc = "dispatch" /\ lt.batch # <<>> /\ Head(lt.batch) = "socket"
        /\ lt' = [lt EXCEPT !.batch = Tail(@), !.pc = IF IsLive /\ ~socket_.open THEN "crashed" ELSE @]
        /\ IF IsLive /\ socket_.open
           THEN /\ socket_' = e[1] /\ wire' = e[2]
                /\ flags' = [flags EXCEPT !.ready = @ \/ wire.input, !.connected = @ /\ r[1].open]
           ELSE UNCHANGED <<socket_, wire, flags>>
        /\ UNCHANGED <<stop_, pending_, wakeup, usr, starts, posted, recvd>>

onWakeup ==
    /\ lt.pc = "dispatch" /\ lt.batch # <<>> /\ Head(lt.batch) = "eventfd"
    /\ wakeup' = FALSE
    /\ lt' = [lt EXCEPT !.batch = Tail(@), !.pc = "swap"]
    /\ UNCHANGED <<stop_, pending_, flags, socket_, wire, usr, starts, posted, recvd>>

\* the queue is taken as a whole under the mutex
Left_Last(q) == <<Last(q)>>
Left(q) == <<>>
onWakeupSwap ==
    /\ lt.pc = "swap"
    /\ lt' = [lt EXCEPT !.pc = "run", !.run = pending_]
    /\ pending_' = IF pending_ = <<>> THEN <<>> ELSE Left(pending_)
    /\ UNCHANGED <<stop_, wakeup, flags, socket_, wire, usr, starts, posted, recvd>>

\* fn(); a function of runInLoopAndWait wakes its caller
Run ==
    LET f == Head(lt.run)
        r == writeWithFds(socket_, wire, f.m)
        null == f.fn = "write" /\ socket_.gen = 0
    IN  /\ lt.pc = "run" /\ lt.run # <<>>
        /\ lt' = [lt EXCEPT !.run = Tail(@), !.pc = IF null THEN "crashed" ELSE @]
        /\ socket_' = IF f.fn = "reset" THEN NoSock ELSE IF null THEN socket_ ELSE r[1]
        /\ wire' = IF f.fn = "reset" THEN [wire EXCEPT !.input = FALSE]
                   ELSE IF null THEN wire ELSE r[2]
        /\ usr' = IF f.fn = "write" /\ ~null THEN [usr EXCEPT ![f.user].done = TRUE] ELSE usr
        /\ UNCHANGED <<stop_, pending_, wakeup, flags, starts, posted, recvd>>

LoopEnd ==
    /\ \/ lt.pc = "run" /\ lt.run = <<>> /\ LGo("dispatch")
       \/ lt.pc = "dispatch" /\ lt.batch = <<>> /\ LGo("loop")
    /\ UNCHANGED <<stop_, pending_, wakeup, flags, socket_, wire, usr, starts, posted, recvd>>

\* cv.wait of runInLoopAndWait
Waited(u) ==
    /\ usr[u].pc = "waiting" /\ usr[u].done
    /\ usr' = [usr EXCEPT ![u] = [pc |-> "up", done |-> FALSE]]
    /\ UNCHANGED <<lt, stop_, pending_, wakeup, flags, socket_, wire, starts, posted, recvd>>

-----------------------------------------------------------------------------
(* The daemon at the other end. *)
Drain ==
    /\ wire.out # <<>> /\ wire.peer
    /\ recvd' = Append(recvd, Head(wire.out))
    /\ wire' = [wire EXCEPT !.out = Tail(@)]
    /\ UNCHANGED <<lt, stop_, pending_, wakeup, flags, socket_, usr, starts, posted>>

DaemonDies ==
    /\ DaemonFails /\ wire.peer
    /\ wire' = [wire EXCEPT !.peer = FALSE, !.input = FALSE]
    /\ UNCHANGED <<lt, stop_, pending_, wakeup, flags, socket_, usr, starts, posted, recvd>>

EInit ==
    /\ lt = LIdle /\ stop_ = FALSE /\ pending_ = <<>> /\ wakeup = FALSE
    /\ flags = [connected |-> FALSE, error |-> FALSE, ready |-> FALSE]
    /\ socket_ = NoSock /\ wire = NoWire
    /\ usr = [u \in Users |-> [pc |-> IF u = Mounter THEN "off" ELSE "up", done |-> FALSE]]
    /\ starts = 0 /\ posted = 0 /\ recvd = <<>>

Alive == lt.pc # "crashed"
LoopStep == Alive /\ (connectUnix \/ loopEnter \/ loopForever \/ epoll_wait \/ onEvent \/ onWakeup
                      \/ onWakeupSwap \/ Run \/ LoopEnd)
UserStep(u) ==
    /\ Alive
    /\ \/ signal(u, "posted", "waiting") \/ Waited(u)
       \/ u = Mounter /\ (waitEvent \/ signal(u, "reset", "stopping") \/ terminate
                        \/ signal(u, "stopped", "join") \/ join)

ENext == \/ LoopStep
         \/ \E u \in Users : UserStep(u) \/ (Alive /\ runInLoopAndWait(u))
         \/ Alive /\ (start \/ shutdown \/ Drain \/ DaemonDies)

ESpec == EInit /\ [][ENext]_evars
EFairSpec == /\ ESpec /\ WF_evars(LoopStep) /\ \A u \in Users : WF_evars(UserStep(u))
             /\ WF_evars(Alive /\ Drain)

-----------------------------------------------------------------------------
(* Properties. *)
\* The daemon sees whole messages, each at most once, those of one connection in the
\* order they were posted, with the descriptor on the first unit: a socket whose
\* buffer is full in the middle of a message neither repeats nor reorders units.
MessagesWhole ==
    \A i \in 1..Len(recvd) :
        IF recvd[i].u = 1 THEN /\ recvd[i].fd
                               /\ \A j \in 1..(i - 1) : recvd[j].m < recvd[i].m
        ELSE i > 1 /\ recvd[i - 1] = [recvd[i] EXCEPT !.u = 1, !.fd = TRUE]

\* The loop never sleeps in epoll_wait beside a queued function unless the thread that
\* queued it has still to write the eventfd.
WakeupKept ==
    (lt.pc = "wait" /\ pending_ # <<>>) =>
        wakeup \/ \E u \in Users : usr[u].pc \in {"posted", "reset"}

\* No callback runs on a socket that is gone: an event of a batch reaches a closed
\* socket only through a watch that was removed, and a write finds socket_ set.
NoDeadCallback == lt.pc # "crashed"

\* A caller of runInLoopAndWait returns, even when the daemon dies under it.
CallerReturns == \A u \in Users : usr[u].pc = "waiting" ~> usr[u].pc = "up"

\* What waits in the write queue is sent or dropped with the connection: a socket that
\* met a full buffer is told when there is room again, as long as the loop runs.
WritesFlushed == socket_.wq # <<>> ~> (socket_.wq = <<>> \/ stop_)

\* shutdown returns: "Make loopForever() return after the current iteration" of
\* terminate, which the thread's join in shutdown relies on.
ShutdownReturns == usr[Mounter].pc = "join" ~> usr[Mounter].pc = "off"
=============================================================================
