----------------------------- MODULE PcieStream -----------------------------
(***************************************************************************)
(* A PCIe receive stream from the event bucket to the application: the     *)
(* stream branch of the interrupt handler, usdr_stream_initialize,         *)
(* usdr_stream_wait_or_alloc and usdr_stream_release_or_post of the        *)
(* driver (usdr_pcie_uram.c), and the buffer cache in front of them        *)
(* (pcie_uram_main.c).                                                     *)
(*                                                                         *)
(* Data and description travel apart.  The device fills the DMA buffers in *)
(* turn and sends an event for each; the interrupt handler keeps the event *)
(* in a log (stat_data) and counts it (irq_ev_cnt).  The application takes *)
(* the count, copies that many records from the log, and pairs them with   *)
(* the next buffers.  The loss count of a record sets the stream time.     *)
(***************************************************************************)
EXTENDS Integers, Sequences

CONSTANTS DmaBufs,     \* dma_buffs: buffers of the stream, a power of two
          LogSlots,    \* records stat_data can address
          MaxPackets,  \* bound: packets the device makes
          MaxReinit    \* bound: times the stream is set up again

ASSUME PcieAssumption ==
    /\ DmaBufs \in Nat \ {0} /\ LogSlots \in Nat \ {0}
    /\ MaxPackets \in Nat /\ MaxReinit \in Nat

VARIABLES
    bucket,      \* events the handler has yet to dispatch, oldest first
    irq,         \* the handler: "idle", "stored", "logged"
    stat_data, stat_wptr, stat_rptr,   \* struct event_data_log
    irq_ev_cnt,  \* events not yet taken by the application
    lapped,      \* history: the log lost a record since it was emptied
    buf,         \* the DMA buffers: number of the packet in each
    call,        \* application: "none", "copy" inside the ioctl
    cnt,         \* the count the ioctl took
    bufavail, bno, oob_cache, oob_idx,   \* struct stream_cache_data
    held,        \* buffer the application works on, -1 for none
    oob,         \* record it was given with that buffer
    r_ts, last,  \* stream time in packets, number of the packet given last
    run,         \* "on", "off", "flushed": where the set-up of the stream is
    reinits,     \* times the stream was set up again
    dseq, dlost, \* device: packets made, packets lost since the last event
    dbuf, dfree  \* device: next buffer, buffers it may fill

kernel == <<irq, stat_data, stat_wptr, stat_rptr, irq_ev_cnt, lapped>>
cache == <<call, cnt, bufavail, bno, oob_cache, oob_idx>>
app == <<held, oob, r_ts, last>>
device == <<buf, dseq, dlost, dbuf, dfree>>
conf == <<run, reinits>>

vars == <<bucket, kernel, cache, app, device, conf>>

\* What a buffer's record says when there is none: no packet, no loss.
NoRecord == [seq |-> -1, lost |-> 0]

Init ==
    /\ bucket = << >>
    /\ irq = "idle"
    /\ stat_data = [k \in 0..LogSlots-1 |-> NoRecord]
    /\ stat_wptr = 0 /\ stat_rptr = 0
    /\ irq_ev_cnt = 0
    /\ lapped = FALSE
    /\ buf = [b \in 0..DmaBufs-1 |-> -1]
    /\ call = "none" /\ cnt = 0
    /\ bufavail = 0 /\ bno = 0 /\ oob_cache = << >> /\ oob_idx = 0
    /\ held = -1 /\ oob = NoRecord
    /\ r_ts = 0 /\ last = -1
    /\ run = "on" /\ reinits = 0
    /\ dseq = 0 /\ dlost = 0 /\ dbuf = 0 /\ dfree = DmaBufs

-----------------------------------------------------------------------------
(* The device *)

\* A packet goes to the next buffer, its event follows.
DeviceFill ==
    /\ run = "on"
    /\ dseq < MaxPackets
    /\ dfree > 0
    /\ buf' = [buf EXCEPT ![dbuf] = dseq]
    /\ bucket' = Append(bucket, [seq |-> dseq, lost |-> dlost])
    /\ dseq' = dseq + 1
    /\ dlost' = 0
    /\ dbuf' = (dbuf + 1) % DmaBufs
    /\ dfree' = dfree - 1
    /\ UNCHANGED <<kernel, cache, app, conf>>

\* No buffer is free: the packet is lost, the next event will tell.
DeviceDrop ==
    /\ run = "on"
    /\ dseq < MaxPackets
    /\ dfree = 0
    /\ dseq' = dseq + 1
    /\ dlost' = dlost + 1
    /\ UNCHANGED <<bucket, kernel, cache, app, buf, dbuf, dfree, conf>>

-----------------------------------------------------------------------------
(* The interrupt handler, stream events *)

\* Nothing looks at the read pointer: a full log loses its oldest record.
IrqStore ==
    /\ irq = "idle"
    /\ bucket # << >>
    /\ stat_data' = [stat_data EXCEPT ![stat_wptr % LogSlots] = Head(bucket)]
    /\ lapped' = (lapped \/ stat_wptr - stat_rptr >= LogSlots)
    /\ irq' = "stored"
    /\ UNCHANGED <<bucket, stat_wptr, stat_rptr, irq_ev_cnt, cache, app, device, conf>>

IrqLog ==
    /\ irq = "stored"
    /\ stat_wptr' = stat_wptr + 1
    /\ irq' = "logged"
    /\ UNCHANGED <<bucket, stat_data, stat_rptr, irq_ev_cnt, lapped, cache, app, device, conf>>

\* Defective variant of Counted: a second event before the first was taken is
\* not counted.
CountedOnce == 1

\* atomic_inc(&irq_ev_cnt)
Counted == irq_ev_cnt + 1

IrqCount ==
    /\ irq = "logged"
    /\ irq_ev_cnt' = Counted
    /\ bucket' = Tail(bucket)
    /\ irq' = "idle"
    /\ UNCHANGED <<stat_data, stat_wptr, stat_rptr, lapped, cache, app, device, conf>>

\* The record is complete and the log pointer moved before the event counts.
Irq == IrqStore \/ IrqLog \/ IrqCount

-----------------------------------------------------------------------------
(* The application: pcie_uram_dma_wait_or_alloc over usdr_stream_wait_or_alloc *)

\* Defective variant of Taken: the count is read and not cleared.
TakenKept == irq_ev_cnt

\* atomic_xchg(&irq_ev_cnt, 0)
Taken == 0

\* validate_snoto: the ioctls fail for a stream that is not set up.
Configured == run = "on"

\* The cache is empty: the ioctl takes the whole count.
WaitTake ==
    /\ Configured
    /\ call = "none" /\ held = -1
    /\ bufavail = 0
    /\ irq_ev_cnt > 0
    /\ cnt' = irq_ev_cnt
    /\ irq_ev_cnt' = Taken
    /\ call' = "copy"
    /\ UNCHANGED <<bucket, irq, stat_data, stat_wptr, stat_rptr, lapped, bufavail,
                   bno, oob_cache, oob_idx, app, device, conf>>

\* Defective variant of CopyEnd: copies everything logged.
CopyEndAll == stat_wptr

\* max: no more records than are logged, and no more than were counted
CopyEnd == IF stat_wptr > stat_rptr + cnt THEN stat_rptr + cnt ELSE stat_wptr

\* The records go to the cache, the buffers are available.
WaitCopy ==
    /\ call = "copy"
    /\ oob_cache' = [k \in 1..(CopyEnd - stat_rptr) |->
                        stat_data[(stat_rptr + k - 1) % LogSlots]]
    /\ stat_rptr' = CopyEnd
    /\ bufavail' = cnt
    /\ oob_idx' = 0
    /\ call' = "none"
    /\ UNCHANGED <<bucket, irq, stat_data, stat_wptr, irq_ev_cnt, lapped, cnt, bno,
                   app, device, conf>>

\* _sfetrx4_stream_recv: the stream time moves over the packets that were lost
\* and the packet itself.
StreamTime(lost) == r_ts + lost + 1

\* The next buffer is handed out with the next record, or with zeroes.
TakeBuffer ==
    /\ run = "on"
    /\ call = "none" /\ held = -1
    /\ bufavail > 0
    /\ held' = bno
    /\ oob' = IF oob_idx < Len(oob_cache) THEN oob_cache[oob_idx + 1] ELSE NoRecord
    /\ bno' = (bno + 1) % DmaBufs
    /\ bufavail' = bufavail - 1
    /\ oob_idx' = oob_idx + 1
    /\ last' = buf[bno]
    /\ r_ts' = StreamTime(oob'.lost)
    /\ UNCHANGED <<bucket, kernel, call, cnt, oob_cache, device, conf>>

\* usdr_stream_release_or_post: the write to stream_cnf_base
Credit == dfree + 1

\* recv_dma_release: the device may fill one more buffer.
Release ==
    /\ held # -1
    /\ held' = -1
    /\ dfree' = Credit
    /\ UNCHANGED <<bucket, kernel, cache, oob, r_ts, last, buf, dseq, dlost, dbuf, conf>>

-----------------------------------------------------------------------------
(* Setting the stream up again *)

\* usdr_stream_free: the stream is gone, the log and the count are not.
Unconfigured == "off"

\* The application stops the device; events on their way stay.
Stop ==
    /\ run = "on" /\ reinits < MaxReinit
    /\ call = "none" /\ held = -1
    /\ run' = Unconfigured
    /\ reinits' = reinits + 1
    /\ UNCHANGED <<bucket, kernel, cache, app, device>>

\* Nothing the device sent is still on its way.
Quiet == bucket = << >> /\ irq = "idle"

\* Defective variant of Flushed: records of the old stream stay in the log.
FlushedNot == stat_rptr

\* "Flush non-read events"
Flushed == stat_wptr

\* usdr_stream_initialize.  The device was reset before; Quiet assumes that
\* everything it had sent was handled by then.
ConfFlush ==
    /\ run = "off"
    /\ Quiet
    /\ stat_rptr' = Flushed
    /\ lapped' = FALSE
    /\ run' = "flushed"
    /\ UNCHANGED <<bucket, irq, stat_data, stat_wptr, irq_ev_cnt, cache, app,
                   device, reinits>>

\* Defective variant of Cleared: events of the old stream still count.
ClearedNot == irq_ev_cnt

\* "Clear spurious interrupts"
Cleared == 0

\* The count is cleared; then the cache of the library is reset and the
\* device starts over with buffer 0.
ConfClear ==
    /\ run = "flushed"
    /\ irq_ev_cnt' = Cleared
    /\ bufavail' = 0 /\ bno' = 0 /\ oob_cache' = << >> /\ oob_idx' = 0
    /\ dbuf' = 0 /\ dfree' = DmaBufs
    /\ run' = "on"
    /\ UNCHANGED <<bucket, irq, stat_data, stat_wptr, stat_rptr, lapped, call, cnt,
                   app, buf, dseq, dlost, reinits>>

-----------------------------------------------------------------------------
Device == DeviceFill \/ DeviceDrop
App == WaitTake \/ WaitCopy \/ TakeBuffer \/ Release
Conf == Stop \/ ConfFlush \/ ConfClear

Next == Device \/ Irq \/ App \/ Conf

\* The device streams, interrupts are served, the application keeps receiving.
Fairness ==
    /\ WF_vars(Device) /\ WF_vars(Irq)
    /\ WF_vars(WaitTake) /\ WF_vars(WaitCopy)
    /\ WF_vars(TakeBuffer) /\ WF_vars(Release)

Spec == Init /\ [][Next]_vars

FairSpec == Spec /\ Fairness

-----------------------------------------------------------------------------
(* Properties *)

TypeOK ==
    LET Record == [seq : -1..MaxPackets, lost : 0..MaxPackets] IN
    /\ bucket \in Seq(Record)
    /\ irq \in {"idle", "stored", "logged"}
    /\ stat_data \in [0..LogSlots-1 -> Record]
    /\ stat_wptr \in 0..MaxPackets /\ stat_rptr \in 0..MaxPackets
    /\ irq_ev_cnt \in 0..DmaBufs /\ lapped \in BOOLEAN
    /\ buf \in [0..DmaBufs-1 -> -1..MaxPackets]
    /\ call \in {"none", "copy"} /\ cnt \in 0..DmaBufs
    /\ bufavail \in 0..DmaBufs /\ bno \in 0..DmaBufs-1
    /\ oob_cache \in Seq(Record) /\ oob_idx \in 0..DmaBufs
    /\ held \in -1..DmaBufs-1 /\ oob \in Record
    /\ r_ts \in Nat /\ last \in -1..MaxPackets
    /\ run \in {"on", "off", "flushed"} /\ reinits \in 0..MaxReinit
    /\ dseq \in 0..MaxPackets /\ dlost \in 0..MaxPackets
    /\ dbuf \in 0..DmaBufs-1 /\ dfree \in 0..DmaBufs

\* The record handed out with a buffer is the one the device sent for it,
\* whatever the handler does while the ioctl runs.
OobMatchesBuffer == held # -1 => oob.seq = buf[held]

\* With the 16 records of stat_data for 32 buffers this is so only until the
\* handler stores a record over one that was not copied: that is the one way
\* in which buffer and record come apart, and setting the stream up mends it.
RecordsMatch == ~lapped => OobMatchesBuffer

\* The buffer the application reads is not one the device may fill, and the
\* packet in it stays the one that was handed out.
NoOverwrite == held # -1 => buf[held] = last

\* Every buffer is with the device, on its way to the application, or held by
\* it: none leaks and none is counted twice.
BuffersAccounted ==
    run = "on" =>
        dfree + Len(bucket) + irq_ev_cnt + bufavail
            + (IF call = "copy" THEN cnt ELSE 0)
            + (IF held = -1 THEN 0 ELSE 1) = DmaBufs

Lossy == INSTANCE LossyStream WITH made <- dseq, next <- r_ts

\* Packets come in order and the stream time is the packet's own time, gaps
\* included, until the log loses a record or the stream is set up again.
ImplementsLossyStream ==
    /\ Lossy!Init
    /\ [][reinits' = 0 /\ ~lapped' => Lossy!Next \/ UNCHANGED <<dseq, last, r_ts>>]_vars

\* Everything the device made is handed out or known to be lost, in the end,
\* as long as the log loses no record.  Every filled buffer is handed out then
\* whatever the log loses: the last packet made is the last one given, unless
\* it was dropped.
EventuallyAccounted ==
    <>[](\/ dseq = 0 \/ reinits > 0
         \/ bufavail = 0 /\ irq_ev_cnt = 0 /\ last + 1 + dlost = MaxPackets
              /\ (lapped \/ r_ts = last + 1))

\* The buffers are accounted for: each is in one place, and one that is
\* held keeps its packet.
BuffersSafe == TypeOK /\ NoOverwrite /\ BuffersAccounted

\* The stream is a lossy stream whose losses are known, and no packet is
\* stuck.
PacketsAccounted == ImplementsLossyStream /\ EventuallyAccounted
=============================================================================
