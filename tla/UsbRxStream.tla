---------------------------- MODULE UsbRxStream ----------------------------
(***************************************************************************)
(* A USB receive stream: struct buffers of libusb_generic.c, the RX half   *)
(* of usb_uram_libusb.c and the packet accounting of _sfetrx4_stream_recv. *)
(*                                                                         *)
(* Three actors work on the buffers: the host controller, which fills the  *)
(* posted transfers in order; the IO thread, which runs the completion     *)
(* callback; and the application, which waits for a buffer and releases    *)
(* it.  Slot BufMax is the dummy that takes the data when the application  *)
(* is too slow.  The device numbers its packets; a slot holds the number   *)
(* of its packet and the loss count of its trailer.                        *)
(***************************************************************************)
EXTENDS Integers, Sequences, FiniteSets

CONSTANTS BufMax,      \* buf_max: user buffers of the stream, a power of two
          Transfers,   \* transfers_count: requests kept posted
          MaxPackets,  \* bound: packets the device makes
          MaxDevLoss,  \* bound: of those, packets lost inside the device
          MaxFaults,   \* bound: transfers or submissions that fail
          FaultKinds,  \* how they fail: "retry", "fatal", "submit"
          BurstBits,   \* low 24 bits of trailer word 1, the burst mask: 0 up to
                       \* 8 bursts a packet, not so for more
          LostMod      \* a reader takes the loss count modulo this, 2^24

ASSUME UsbAssumption ==
    /\ BufMax \in Nat \ {0}
    /\ Transfers \in 1..BufMax
    /\ MaxPackets \in Nat /\ MaxDevLoss \in Nat /\ MaxFaults \in Nat
    /\ BurstBits \subseteq Nat
    /\ LostMod \in Nat \ {0}

VARIABLES
    buf_available, bufno_prod, bufno_cons, ready,   \* struct buffers
    stop,          \* buffers.stop
    freed,         \* the buffers and the transfers were freed
    slot,          \* rqueuebuf_ptr: contents of the slots, dummy included
    missed,        \* rx_buffer_missed[0]
    forgotten,     \* history: losses no count tells: the device's in packets
                   \* that were discarded, and those above the low 24 bits
    extra,         \* history: burst masks added to the count of discarded packets
    posted,        \* slots of the transfers at the host controller, in order
    done,          \* completed transfers the IO thread has yet to reap
    io,            \* IO thread: "idle", or "restart" inside the callback
    held,          \* slot the application works on, -1 for none
    r_ts, last,    \* stream time in packets, number of the packet given last
    dseq, dlost,   \* device: packets made, packets lost since the last sent
    faults         \* failures so far

bufs == <<buf_available, bufno_prod, bufno_cons, ready, stop, freed>>
vars == <<bufs, slot, missed, forgotten, extra, posted, done, io, held, r_ts, last,
          dseq, dlost, faults>>

Dummy == BufMax

\* buffers_realloc: a slot holds no packet while buffer_sz of its descriptor is 0.
NoPacket == [seq |-> -1, lost |-> 0]

-----------------------------------------------------------------------------
(* Setting the stream up *)

\* buffers_init: the semaphore of an IN endpoint starts at zero, nothing is
\* announced yet.
NoneReady == 0

\* Every transfer is posted on a slot of its own; Transfers of the user
\* buffers are taken for that.
FirstPosts == [t \in 1..Transfers |-> t - 1]

Init ==
    /\ buf_available = BufMax - Transfers
    /\ bufno_prod = Transfers
    /\ bufno_cons = 0
    /\ ready = NoneReady
    /\ stop = FALSE
    /\ freed = FALSE
    /\ slot = [b \in 0..BufMax |-> NoPacket]
    /\ missed = 0
    /\ forgotten = 0
    /\ extra = 0
    /\ posted = FirstPosts
    /\ done = << >>
    /\ io = "idle"
    /\ held = -1
    /\ r_ts = 0
    /\ last = -1
    /\ dseq = 0
    /\ dlost = 0
    /\ faults = 0

-----------------------------------------------------------------------------
(* The device and the host controller *)

\* The device's own FIFO overflows: the packet is gone, and the trailer of the
\* next one will say so.
DeviceDrop ==
    /\ ~freed
    /\ dseq < MaxPackets
    /\ dlost < MaxDevLoss
    /\ dseq' = dseq + 1
    /\ dlost' = dlost + 1
    /\ UNCHANGED <<bufs, slot, missed, forgotten, extra, posted, done, io, held, r_ts,
                   last, faults>>

\* The oldest posted transfer is filled with the next packet.
HcFill ==
    /\ posted # << >>
    /\ dseq < MaxPackets
    /\ slot' = [slot EXCEPT ![Head(posted)] = [seq |-> dseq, lost |-> dlost]]
    /\ done' = Append(done, [bno |-> Head(posted), status |-> "completed"])
    /\ posted' = Tail(posted)
    /\ dseq' = dseq + 1
    /\ dlost' = 0
    /\ forgotten' = IF Head(posted) = Dummy THEN forgotten + dlost ELSE forgotten
    /\ UNCHANGED <<bufs, missed, extra, io, held, r_ts, last, faults>>

\* The oldest posted transfer fails: an error, a timeout or a runt ("retry"),
\* or a stall, an overflow or a lost device ("fatal").
HcFail ==
    /\ posted # << >>
    /\ faults < MaxFaults
    /\ \E s \in {"retry", "fatal"} \cap FaultKinds :
          done' = Append(done, [bno |-> Head(posted), status |-> s])
    /\ posted' = Tail(posted)
    /\ faults' = faults + 1
    /\ UNCHANGED <<bufs, slot, missed, forgotten, extra, io, held, r_ts, last, dseq, dlost>>

\* A cancelled transfer comes back, some time after it was cancelled.
HcCancel ==
    /\ stop
    /\ posted # << >>
    /\ done' = Append(done, [bno |-> Head(posted), status |-> "fatal"])
    /\ posted' = Tail(posted)
    /\ UNCHANGED <<bufs, slot, missed, forgotten, extra, io, held, r_ts, last, dseq, dlost,
                   faults>>

-----------------------------------------------------------------------------
(* The IO thread: libusb_transfer_buffers_cb *)

\* Defective variant of OnBuffer: the discarded packet itself is not counted.
OnBufferNoCount(b) ==
    IF b < BufMax
    THEN /\ slot' = [slot EXCEPT ![b].lost = @ + missed]
         /\ missed' = 0
         /\ ready' = ready + 1
         /\ UNCHANGED extra
    ELSE UNCHANGED <<slot, missed, ready, extra>>

\* Defective variant of OnBuffer: the count of discarded packets is not reset.
OnBufferNoReset(b) ==
    IF b < BufMax
    THEN /\ slot' = [slot EXCEPT ![b].lost = @ + missed]
         /\ ready' = ready + 1
         /\ UNCHANGED <<missed, extra>>
    ELSE /\ missed' = missed + 1
         /\ UNCHANGED <<slot, ready, extra>>

\* buffers_ready_post
ReadyPost == ready + 1

\* _usb_uram_stream_on_buffer.  A real slot takes over the loss run up so far.
\* For the dummy the code adds the low bits of trailer word 1, the mask of the
\* bursts in the packet; the loss count of the discarded packet, in word 0, is
\* not looked at.
OnBuffer(b) ==
    IF b < BufMax
    THEN /\ slot' = [slot EXCEPT ![b].lost = @ + missed]
         /\ missed' = 0
         /\ ready' = ReadyPost
         /\ UNCHANGED extra
    ELSE \E skipped \in BurstBits :
             /\ missed' = missed + 1 + skipped
             /\ extra' = extra + skipped
             /\ UNCHANGED <<slot, ready>>

\* First half of the callback, up to the label restart.
Callback ==
    /\ io = "idle"
    /\ ~freed
    /\ done # << >>
    /\ done' = Tail(done)
    /\ LET t == Head(done) IN
       \/ /\ stop \/ t.status = "fatal"
          /\ UNCHANGED <<io, slot, missed, ready, extra>>
       \/ /\ ~stop /\ t.status = "retry"
          /\ io' = "restart"
          /\ UNCHANGED <<slot, missed, ready, extra>>
       \/ /\ ~stop /\ t.status = "completed"
          /\ OnBuffer(t.bno)
          /\ io' = "restart"
    /\ UNCHANGED <<buf_available, bufno_prod, bufno_cons, stop, freed, forgotten,
                   posted, held, r_ts, last, dseq, dlost, faults>>

\* Defective variant of ProdGet: takes a slot without asking for a free one.
ProdGetBlind == bufno_prod % BufMax

\* _buffers_prod_get_nolock
ProdGet == IF buf_available = 0 THEN Dummy ELSE bufno_prod % BufMax

\* buffers_available_get: one less, but never below zero
AvailableGet == IF buf_available = 0 THEN 0 ELSE buf_available - 1

\* Second half: the transfer is posted again, on a free slot or the dummy.  A
\* submission that fails leaves the slot and the transfer unused.
Restart ==
    /\ io = "restart"
    /\ io' = "idle"
    /\ buf_available' = AvailableGet
    /\ bufno_prod' = IF ProdGet = Dummy THEN bufno_prod ELSE bufno_prod + 1
    /\ \/ /\ posted' = Append(posted, ProdGet)
          /\ UNCHANGED faults
       \/ /\ "submit" \in FaultKinds
          /\ faults < MaxFaults
          /\ faults' = faults + 1
          /\ UNCHANGED posted
    /\ UNCHANGED <<bufno_cons, ready, stop, freed, slot, missed, forgotten, extra, done, held,
                   r_ts, last, dseq, dlost>>

-----------------------------------------------------------------------------
(* The application *)

\* _sfetrx4_stream_recv: the stream time moves over the packets that were lost,
\* of whose count it takes the low 24 bits, and the packet itself.
StreamTime(lost) == r_ts + (lost % LostMod) + 1

\* usb_uram_recv_dma_wait.  A slot whose descriptor was never completed gives
\* -EIO and is not handed out.
RecvWait ==
    /\ held = -1
    /\ ~stop
    /\ ready > 0
    /\ ready' = ready - 1
    /\ bufno_cons' = bufno_cons + 1
    /\ LET b == bufno_cons % BufMax IN
       \/ /\ slot[b] # NoPacket
          /\ held' = b
          /\ last' = slot[b].seq
          /\ r_ts' = StreamTime(slot[b].lost)
          /\ forgotten' = forgotten + slot[b].lost - (slot[b].lost % LostMod)
       \/ /\ slot[b] = NoPacket
          /\ UNCHANGED <<held, last, r_ts, forgotten>>
    /\ UNCHANGED <<buf_available, bufno_prod, stop, freed, slot, missed, extra,
                   posted, done, io, dseq, dlost, faults>>

\* Defective variant of Released: the credit comes back twice.
ReleasedTwice == buf_available + 2

\* buffers_available_post
Released == buf_available + 1

\* usb_uram_recv_dma_release
RecvRelease ==
    /\ held # -1
    /\ held' = -1
    /\ buf_available' = Released
    /\ UNCHANGED <<bufno_prod, bufno_cons, ready, stop, freed, slot, missed, forgotten, extra,
                   posted, done, io, r_ts, last, dseq, dlost, faults>>

\* buffers_deinit up to the sleep: the flag is set, the transfers cancelled.
DeinitStop ==
    /\ held = -1
    /\ ~stop
    /\ stop' = TRUE
    /\ UNCHANGED <<buf_available, bufno_prod, bufno_cons, ready, freed, slot,
                   missed, forgotten, extra, posted, done, io, held, r_ts, last, dseq, dlost,
                   faults>>

\* The 10 ms are over: buffers and transfers are freed, whoever still uses them.
DeinitFree ==
    /\ stop /\ ~freed
    /\ freed' = TRUE
    /\ UNCHANGED <<buf_available, bufno_prod, bufno_cons, ready, stop, slot,
                   missed, forgotten, extra, posted, done, io, held, r_ts, last, dseq, dlost,
                   faults>>

-----------------------------------------------------------------------------
Device == DeviceDrop \/ HcFill \/ HcFail \/ HcCancel

\* libusb_generic_io_thread
IoThread == Callback \/ Restart

App == RecvWait \/ RecvRelease \/ DeinitStop \/ DeinitFree

Next == Device \/ IoThread \/ App

\* The controller fills what is posted, the IO thread loops over
\* libusb_handle_events, the application keeps calling recv.
Fairness ==
    /\ WF_vars(HcFill) /\ WF_vars(Callback) /\ WF_vars(Restart)
    /\ WF_vars(RecvWait) /\ WF_vars(RecvRelease)

Spec == Init /\ [][Next]_vars

FairSpec == Spec /\ Fairness

-----------------------------------------------------------------------------
(* Properties *)

TypeOK ==
    /\ buf_available \in 0..BufMax
    /\ bufno_prod \in Nat /\ bufno_cons \in Nat
    /\ ready \in 0..BufMax
    /\ stop \in BOOLEAN /\ freed \in BOOLEAN
    /\ \A b \in 0..BufMax : slot[b].seq \in -1..MaxPackets /\ slot[b].lost \in Nat
    /\ missed \in Nat /\ forgotten \in Nat /\ extra \in Nat
    /\ \A i \in DOMAIN posted : posted[i] \in 0..BufMax
    /\ \A i \in DOMAIN done : done[i].bno \in 0..BufMax
    /\ Len(posted) + Len(done) <= Transfers
    /\ io \in {"idle", "restart"}
    /\ held \in -1..BufMax-1
    /\ r_ts \in Nat /\ last \in -1..MaxPackets
    /\ dseq \in 0..MaxPackets /\ dlost \in 0..MaxDevLoss
    /\ faults \in 0..MaxFaults

\* Slots a transfer may still write to, or whose completion is not handled yet.
InFlight == {posted[i] : i \in DOMAIN posted} \cup {done[i].bno : i \in DOMAIN done}

\* Slots that were announced by buffers_ready_post and not yet taken.
Announced == {i % BufMax : i \in bufno_cons..(bufno_cons + ready - 1)}

\* The buffer the application reads is never the target of a transfer, and
\* neither is one that is announced to it: auto-restart only reuses slots that
\* were released.
NoOverwrite ==
    /\ held \notin InFlight
    /\ Announced \cap InFlight = {}
    /\ held \notin Announced

\* buf_available is the number of user buffers that are not in flight, not
\* announced and not held (libusb_generic.h: "number of buffers available for
\* communication"); so none is ever leaked.
NoBufferLeak ==
    io = "idle" /\ ~stop =>
        buf_available = BufMax - Cardinality(InFlight \ {Dummy}) - ready
                               - (IF held = -1 THEN 0 ELSE 1)

\* The same as long as no transfer fails.
AvailableExact == faults = 0 => NoBufferLeak

\* Every packet the device made is in the end handed out, or counted as lost,
\* or is in a count that will be reported, unless the stream closes or fails:
\* none is stuck in a buffer.  The count misses exactly what was forgotten and
\* exceeds it by the masks that were added to it.
EventuallyAccounted ==
    <>[](\/ dseq = 0 \/ stop \/ faults > 0
         \/ r_ts + missed + dlost + forgotten = MaxPackets + extra)

Lossy == INSTANCE LossyStream WITH made <- dseq, next <- r_ts

\* The application gets the packets in order, and the stream time it is given
\* is the packet's own time, so gaps are known exactly: up to the first failing
\* transfer, the first loss that is forgotten, and the first packet of more than
\* 8 bursts that is discarded (its mask is added to the count).
ImplementsLossyStream ==
    /\ Lossy!Init
    /\ [][faults' = 0 /\ forgotten' = 0 /\ extra' = 0 =>
             Lossy!Next \/ UNCHANGED <<dseq, last, r_ts>>]_vars

\* The buffers are accounted for: no slot of the application is written,
\* and the count of free ones is exact until a transfer fails.
BuffersSafe == TypeOK /\ NoOverwrite /\ AvailableExact

\* The stream is a lossy stream whose losses are known, and no packet is
\* stuck.
PacketsAccounted == ImplementsLossyStream /\ EventuallyAccounted
=============================================================================
