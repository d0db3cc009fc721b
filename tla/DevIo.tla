-------------------------------- MODULE DevIo -------------------------------
(***************************************************************************)
(* Block I/O: pfs_blkio.cc cuts a transfer into fragments and turns the     *)
(* unaligned ones into read-modify-write, pfs_devio.cc queues them on the   *)
(* thread's queue of the device, devio_disk.cc hands them to libaio in      *)
(* batches and collects the completions. The kernel completes what was      *)
(* handed to it in any order.                                               *)
(***************************************************************************)
EXTENDS Integers, Sequences, SequencesExt

CONSTANTS
    Threads,
    NCells, SectSize, FragSize,   \* the device in cells, cells of a sector and of a fragment
    Transfers,                    \* [Threads -> set of <<offset, length>>]
    disk_iodepth, DISK_NR_EVENTS, disk_batch_submit_thold,
    IoFaults,                     \* subset of {"io", "prep", "ioq", "submit"}
    MaxEpochs                     \* bound: times the device is opened

VARIABLES
    disk,      \* [cell -> the thread that wrote it last, "zero" or "junk"]
    dacked,    \* cells of writes that returned success
    devs_epoch,\* d_epoch of the open device
    ioq,       \* [Threads -> [epoch, pending, inflight]]: tls_ioqueue
    dth,       \* [Threads -> a transfer in progress]
    broken     \* io_submit fails with an error other than EAGAIN

dvars == <<disk, dacked, devs_epoch, ioq, dth, broken>>

Cells == 0..(NCells - 1)
Junk == [c \in Cells |-> "junk"]
DFTERR == "dfterr"                              \* PFSDEV_IO_DFTERR: not completed
NoIoq == [epoch |-> 0, pending |-> <<>>, inflight |-> <<>>]
NoIo == [op |-> "none", lo |-> 0, len |-> 0, buf |-> "none", wait |-> FALSE, error |-> DFTERR]
DIdle == [pc |-> "idle", kind |-> "none", off |-> 0, left |-> 0, nowait |-> FALSE, io |-> NoIo,
          albuf |-> Junk, held |-> FALSE, rbuf |-> Junk, err |-> FALSE, hit |-> FALSE,
          range |-> <<0, 0>>, aborted |-> FALSE, ret |-> "none"]
Span(lo, len) == lo..(lo + len - 1)
DGo(t, r) == dth' = [dth EXCEPT ![t] = r]
DSet(t, pc) == DGo(t, [dth[t] EXCEPT !.pc = pc])
Queued(q) == Len(q.pending) + Len(q.inflight)

(***************************************************************************)
(* pfs_blkio_execute.                                                      *)
(***************************************************************************)
pfs_blkio_align(bda, left) ==
    LET sect_off == bda % SectSize
        Least(a, b) == IF a < b THEN a ELSE b
    IN  IF sect_off # 0
        THEN [albda |-> bda - sect_off, allen |-> SectSize, len |-> Least(SectSize - sect_off, left)]
        ELSE LET op == Least(FragSize - (bda % FragSize), left)
             IN  [albda |-> bda, len |-> op,
                  allen |-> ((op + SectSize - 1) \div SectSize) * SectSize]

pfs_blkio_execute(t) ==
    /\ dth[t].pc = "idle"
    /\ \E kind \in {"R", "W"}, r \in Transfers[t] :
          DGo(t, [DIdle EXCEPT !.pc = "segment", !.kind = kind, !.range = r, !.off = r[1],
                               !.left = r[2], !.nowait = r[2] >= 2 * FragSize])
    /\ UNCHANGED <<disk, dacked, devs_epoch, ioq, broken>>

\* one that is not whole sectors goes through albuf and waits for each I/O; an aligned
\* one is read or written in place, with IO_NOWAIT in a long transfer
Waits_Never(t, seg) == ~dth[t].nowait
Waits(t, seg) == ~dth[t].nowait \/ seg.allen # seg.len
Segment(t) ==
    LET r == dth[t]
        seg == pfs_blkio_align(r.off, r.left)
        al == seg.allen # seg.len
    IN  /\ r.pc = "segment"
        /\ IF r.left = 0 THEN DGo(t, [r EXCEPT !.pc = "end"])
           ELSE DGo(t, [r EXCEPT !.pc = "submit", !.held = @ \/ al,
                          !.io = [op |-> IF al THEN "R" ELSE r.kind,
                                  lo |-> seg.albda, len |-> seg.allen,
                                  buf |-> IF al THEN "albuf" ELSE "data",
                                  wait |-> Waits(t, seg), error |-> DFTERR]])
        /\ UNCHANGED <<disk, dacked, devs_epoch, ioq, broken>>

\* after the I/O of a segment: an unaligned write goes on with its second half, an
\* unaligned read copies; r is the thread's record after the I/O
Advanced(t, r) ==
    LET seg == pfs_blkio_align(r.off, r.left)
        mine == Span(r.off, seg.len)
        next == [r EXCEPT !.pc = "segment", !.off = @ + seg.len, !.left = @ - seg.len]
    IN  IF r.io.buf = "albuf" /\ r.io.op = "R" /\ r.kind = "W"
        THEN [r EXCEPT !.pc = "submit", !.io.op = "W",
                       !.albuf = [c \in Cells |-> IF c \in mine THEN t ELSE @[c]]]
        ELSE IF r.io.buf = "albuf" /\ r.io.op = "R"
        THEN [next EXCEPT !.rbuf = [c \in Cells |-> IF c \in mine THEN r.albuf[c] ELSE @[c]]]
        ELSE next

\* albuf is freed before the I/Os still in flight are waited for
End(t) ==
    LET r == dth[t]
    IN  /\ r.pc = "end"
        /\ DGo(t, [r EXCEPT !.pc = IF r.nowait THEN "drain" ELSE "return", !.held = FALSE,
                            !.albuf = Junk])
        /\ UNCHANGED <<disk, dacked, devs_epoch, ioq, broken>>

Return(t) ==
    LET r == dth[t]
    IN  /\ r.pc = "return"
        /\ dacked' = IF r.kind = "W" /\ ~r.err THEN dacked \union Span(r.range[1], r.range[2])
                     ELSE dacked
        /\ DGo(t, [DIdle EXCEPT !.ret =
                      IF r.err THEN "error"
                      ELSE IF r.hit THEN "lost error"
                      ELSE IF r.kind = "R" /\ \E c \in Span(r.range[1], r.range[2]) : r.rbuf[c] = "junk"
                      THEN "unread" ELSE "ok"])
        /\ UNCHANGED <<disk, devs_epoch, ioq, broken>>

(***************************************************************************)
(* pfs_devio.cc: submitting to the thread's queue, waiting on it.          *)
(***************************************************************************)
pfs_diskdev_try_flush_Lazy(q, force) ==
    IF Len(q.pending) < disk_batch_submit_thold THEN q
    ELSE [q EXCEPT !.pending = <<>>, !.inflight = @ \o q.pending]
\* pfs_diskdev_try_flush: the oldest pending I/Os go to the kernel, as many as one
\* batch and the event ring hold; while io_submit fails they stay pending, and the
\* caller is not told
pfs_diskdev_try_flush(q, force) ==
    LET busy == Len(SelectSeq(q.inflight, LAMBDA x : x.error = DFTERR))
        smin == IF DISK_NR_EVENTS < disk_batch_submit_thold THEN DISK_NR_EVENTS
                ELSE disk_batch_submit_thold
        room == IF smin < DISK_NR_EVENTS - busy THEN smin ELSE DISK_NR_EVENTS - busy
        n == IF Len(q.pending) < room THEN Len(q.pending) ELSE room
    IN  IF broken \/ (Len(q.pending) < disk_batch_submit_thold /\ ~force) THEN q
        ELSE [q EXCEPT !.pending = SubSeq(@, n + 1, Len(@)),
                       !.inflight = @ \o SubSeq(q.pending, 1, n)]

\* pfs_tls_get_ioq drops the queue of a device opened earlier under the same number
pfs_tls_get_ioq(t) == ioq[t].epoch = devs_epoch

pfs_diskdev_create_ioq(t) ==
    /\ dth[t].pc = "submit" /\ ~pfs_tls_get_ioq(t)
    /\ \E fails \in ({"ioq"} \intersect IoFaults) \union {"no"} :     \* then pfs_io_destroy asserts
          /\ ioq' = [ioq EXCEPT ![t] = IF fails = "no" THEN [NoIoq EXCEPT !.epoch = devs_epoch] ELSE NoIoq]
          /\ DGo(t, IF fails = "no" THEN dth[t] ELSE [dth[t] EXCEPT !.pc = "aborted", !.aborted = TRUE])
    /\ UNCHANGED <<disk, dacked, devs_epoch, broken>>

pfs_diskdev_need_throttle(q) == Queued(q) >= disk_iodepth

\* the I/O is queued behind the pending ones, and a full batch is flushed
pfs_diskdev_submit_io(q, io) == pfs_diskdev_try_flush([q EXCEPT !.pending = Append(@, io)], FALSE)

pfs_io_submit(t) ==
    LET r == dth[t]
    IN  /\ r.pc = "submit" /\ pfs_tls_get_ioq(t)
        /\ \/ /\ pfs_diskdev_need_throttle(ioq[t])
              /\ DSet(t, "throttle")
              /\ UNCHANGED ioq
           \/ /\ ~pfs_diskdev_need_throttle(ioq[t])
              /\ ioq' = [ioq EXCEPT ![t] = pfs_diskdev_submit_io(ioq[t], r.io)]
              /\ IF r.io.wait THEN DSet(t, "wait") ELSE DGo(t, Advanced(t, r))
           \/ /\ "prep" \in IoFaults /\ ~pfs_diskdev_need_throttle(ioq[t])
              /\ DGo(t, [r EXCEPT !.pc = "end", !.err = TRUE])
              /\ UNCHANGED ioq
        /\ UNCHANGED <<disk, dacked, devs_epoch, broken>>

\* pfs_diskdev_wait_io: the first completed I/O, of its own only or of any, or one
\* more flush (one that hands over nothing is tried again); try_wait sees a completion as soon as DevDone made it.  taken says
\* what the caller does next, by whether the I/O failed.
pfs_diskdev_wait_io(t, own, taken) ==
    LET q == ioq[t]
        ready == {j \in 1..Len(q.inflight) : q.inflight[j].error # DFTERR /\ (own => q.inflight[j].wait)}
        flushed == pfs_diskdev_try_flush(q, TRUE)
    IN  IF ready # {}
        THEN LET j == CHOOSE x \in ready : \A y \in ready : x <= y
             IN  /\ ioq' = [ioq EXCEPT ![t].inflight = RemoveAt(@, j)]
                 /\ DGo(t, taken[q.inflight[j].error = "eio"])
        ELSE flushed # q /\ ioq' = [ioq EXCEPT ![t] = flushed] /\ UNCHANGED dth

\* the error of the I/O that made room is the error of the one that waited for it
Throttled_Quiet(r, e) == [r EXCEPT !.pc = "submit"]
Throttled(r, e) == IF e THEN [r EXCEPT !.pc = "end", !.err = TRUE] ELSE [r EXCEPT !.pc = "submit"]
Throttle(t) ==
    LET taken == [e \in BOOLEAN |-> Throttled(dth[t], e)]
    IN  /\ dth[t].pc = "throttle"
        /\ pfs_diskdev_wait_io(t, FALSE, taken)
        /\ UNCHANGED <<disk, dacked, devs_epoch, broken>>

pfsdev_do_io(t) ==
    LET taken == [e \in BOOLEAN |-> IF e THEN [dth[t] EXCEPT !.pc = "end", !.err = TRUE]
                                     ELSE Advanced(t, dth[t])]
    IN  /\ dth[t].pc = "wait"
        /\ pfs_diskdev_wait_io(t, TRUE, taken)
        /\ UNCHANGED <<disk, dacked, devs_epoch, broken>>

Drained_Once(q) == Len(q.inflight) = 0
Drained(q) == Queued(q) = 0
pfsdev_wait_io(t) ==
    LET taken == [e \in BOOLEAN |-> [dth[t] EXCEPT !.err = @ \/ e]]
    IN  /\ dth[t].pc = "drain"
        /\ IF Drained(ioq[t]) THEN DSet(t, "return") /\ UNCHANGED ioq
           ELSE pfs_diskdev_wait_io(t, FALSE, taken)
        /\ UNCHANGED <<disk, dacked, devs_epoch, broken>>

(***************************************************************************)
(* The kernel, and opening the device anew, which needs every call over.   *)
(***************************************************************************)
DevDone(t) ==
    \E j \in 1..Len(ioq[t].inflight) :
        LET io == ioq[t].inflight[j]
            at == Span(io.lo, io.len)
            r == dth[t]
        IN  /\ io.error = DFTERR
            /\ \/ /\ ioq' = [ioq EXCEPT ![t].inflight[j].error = "ok"]
                  /\ IF io.op = "W"
                     THEN /\ disk' = [c \in Cells |-> IF c \notin at THEN disk[c]
                                                      ELSE IF io.buf = "data" THEN t ELSE r.albuf[c]]
                          /\ UNCHANGED dth
                     ELSE /\ dth' = IF io.buf = "data"
                                    THEN [dth EXCEPT ![t].rbuf = [c \in Cells |-> IF c \in at THEN disk[c] ELSE @[c]]]
                                    ELSE [dth EXCEPT ![t].albuf = [c \in Cells |-> IF c \in at THEN disk[c] ELSE @[c]]]
                          /\ UNCHANGED disk
               \/ /\ "io" \in IoFaults
                  /\ ioq' = [ioq EXCEPT ![t].inflight[j].error = "eio"]
                  /\ dth' = [dth EXCEPT ![t].hit = TRUE]
                  /\ UNCHANGED disk
            /\ UNCHANGED <<dacked, devs_epoch, broken>>

\* io_submit begins to fail while I/Os are pending (in a batch of two or more, one is
\* before the call), or works again
io_submit ==
    /\ "submit" \in IoFaults
    /\ broken \/ \E t \in Threads : ioq[t].pending # <<>>
    /\ broken' = ~broken
    /\ UNCHANGED <<disk, dacked, devs_epoch, ioq, dth>>

pfsdev_open ==
    /\ devs_epoch < MaxEpochs
    /\ \A t \in Threads : dth[t].pc = "idle"
    /\ devs_epoch' = devs_epoch + 1
    /\ UNCHANGED <<disk, dacked, ioq, dth, broken>>

DInit ==
    /\ disk = [c \in Cells |-> "zero"]
    /\ dacked = {}
    /\ devs_epoch = 1
    /\ ioq = [t \in Threads |-> NoIoq]
    /\ dth = [t \in Threads |-> DIdle]
    /\ broken = FALSE

DStep(t) ==
    \/ Segment(t) \/ End(t) \/ Return(t) \/ pfs_diskdev_create_ioq(t) \/ pfs_io_submit(t)
    \/ Throttle(t) \/ pfsdev_do_io(t) \/ pfsdev_wait_io(t) \/ DevDone(t)

DNext == pfsdev_open \/ io_submit \/ \E t \in Threads : pfs_blkio_execute(t) \/ DStep(t)

DSpec == DInit /\ [][DNext]_dvars
DFairSpec == DSpec /\ \A t \in Threads : WF_dvars(DStep(t))

(***************************************************************************)
(* Properties.                                                             *)
(***************************************************************************)
\* What a write acknowledged is on the device, whatever the order of completions and
\* the reads and writes of whole sectors around it: no segment is dropped, no buffer
\* is written after it was freed, no neighbour in the sector brings old cells back.
AckedOnDisk ==
    \A c \in dacked : \E t \in Threads :
        disk[c] = t /\ \E r \in Transfers[t] : c \in Span(r[1], r[2])

\* The error of any I/O of a transfer is the transfer's error, also when it was
\* collected while another I/O was throttled, and a read that succeeds filled all of
\* its buffer.
ErrorsReported == \A t \in Threads : dth[t].ret \notin {"lost error", "unread"}

\* A thread outside a transfer has nothing queued, as pfs_diskdev_destroy_ioq asserts
\* when the device was opened anew, and nothing queued uses an albuf that was freed.
QueuesDrained ==
    \A t \in Threads :
        /\ dth[t].pc = "idle" => Queued(ioq[t]) = 0
        /\ ~dth[t].held => \A q \in {ioq[t].pending, ioq[t].inflight} :
                               \A j \in 1..Len(q) : q[j].buf # "albuf"
        /\ Queued(ioq[t]) <= disk_iodepth

\* A transfer ends if io_submit does not fail for ever: a thread that waits has flushed
\* what it waits for, and what an io_submit that failed left pending is handed over later.
\* (While io_submit fails pfs_diskdev_wait_io goes round, the error reaches no caller.)
TransferEnds ==
    <>[]~broken =>
        \A t \in Threads : dth[t].pc = "segment" ~> dth[t].pc \in {"idle", "aborted"}

\* PFS_ASSERT(io->io_queue != NULL), "each io must be submitted", in pfs_io_destroy.
NoIoAborts == \A t \in Threads : ~dth[t].aborted
=============================================================================
