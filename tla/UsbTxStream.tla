---------------------------- MODULE UsbTxStream ----------------------------
(***************************************************************************)
(* A USB transmit stream: the OUT side of struct buffers in                *)
(* libusb_generic.c and send_dma_get / send_dma_commit of                  *)
(* usb_uram_libusb.c.                                                      *)
(*                                                                         *)
(* The sender takes the next slot of the ring when a credit is available   *)
(* (buffers_ready_wait, buffers_produce), fills it and commits it.  Commit *)
(* does not trust the pointer it is given: it advances its own index       *)
(* (buffers_consume) and compares.  The completion callback, on the IO     *)
(* thread, gives the credit back.                                          *)
(***************************************************************************)
EXTENDS Integers, Sequences, FiniteSets

CONSTANTS TxBufMax,     \* buffers of the stream, one transfer each
          TxPackets,    \* bound: packets the sender tries to send
          TxMaxFaults   \* bound: failed register reads, submissions, transfers

ASSUME UsbTxAssumption ==
    TxBufMax \in Nat \ {0} /\ TxPackets \in Nat /\ TxMaxFaults \in Nat

VARIABLES
    tx_ready, tx_prod, tx_cons,   \* ready, bufno_prod, bufno_cons of struct buffers
    tx_held,    \* slot the sender fills, -1 for none
    tx_slot,    \* packet in each slot
    tx_posted,  \* slots of the transfers at the host controller, in order
    tx_done,    \* transfers the IO thread has yet to reap
    tried,      \* sends attempted
    committed,  \* packets accepted by commit
    aired,      \* packets the device has received
    rejected,   \* commit has refused a pointer
    tx_faults   \* failures so far

TxVars == <<tx_ready, tx_prod, tx_cons, tx_held, tx_slot, tx_posted, tx_done,
            tried, committed, aired, rejected, tx_faults>>

\* buffers_usb_init for an OUT endpoint: a credit for every buffer
AllReady == TxBufMax

TxInit ==
    /\ tx_ready = AllReady
    /\ tx_prod = 0
    /\ tx_cons = 0
    /\ tx_held = -1
    /\ tx_slot = [b \in 0..TxBufMax-1 |-> 0]
    /\ tx_posted = << >>
    /\ tx_done = << >>
    /\ tried = 0
    /\ committed = 0
    /\ aired = 0
    /\ rejected = FALSE
    /\ tx_faults = 0

\* Defective variant of HasCredit: the sender does not wait.
NoCreditNeeded == TRUE

\* buffers_ready_wait succeeds
HasCredit == tx_ready > 0

\* usb_uram_send_dma_get.  Every tx_stat_rate-th call reads the TX statistics
\* after the slot was taken; if that fails the slot is not handed out.
SendGet ==
    /\ tx_held = -1
    /\ tried < TxPackets
    /\ HasCredit
    /\ tx_ready' = tx_ready - 1
    /\ tx_prod' = tx_prod + 1
    /\ tried' = tried + 1
    /\ \/ /\ tx_held' = tx_prod % TxBufMax
          /\ UNCHANGED tx_faults
       \/ /\ tx_faults < TxMaxFaults
          /\ tx_faults' = tx_faults + 1
          /\ UNCHANGED tx_held
    /\ UNCHANGED <<tx_cons, tx_slot, tx_posted, tx_done, committed, aired, rejected>>

\* Defective variant of CommitSlot: commits the slot taken next.
CommitNextSlot == (tx_cons + 1) % TxBufMax

\* buffers_consume
CommitSlot == tx_cons % TxBufMax

\* usb_uram_send_dma_commit: index first, then the pointer check, then the
\* submission.  Size and oob_size are legal in every caller; those checks come
\* before the index moves.
SendCommit ==
    /\ tx_held # -1
    /\ tx_held' = -1
    /\ tx_cons' = tx_cons + 1
    /\ \/ /\ tx_held # CommitSlot
          /\ rejected' = TRUE
          /\ UNCHANGED <<tx_slot, tx_posted, committed, tx_faults>>
       \/ /\ tx_held = CommitSlot
          /\ tx_slot' = [tx_slot EXCEPT ![tx_held] = committed + 1]
          /\ tx_posted' = Append(tx_posted, tx_held)
          /\ committed' = committed + 1
          /\ UNCHANGED <<rejected, tx_faults>>
       \/ /\ tx_held = CommitSlot
          /\ tx_faults < TxMaxFaults
          /\ tx_faults' = tx_faults + 1
          /\ UNCHANGED <<tx_slot, tx_posted, committed, rejected>>
    /\ UNCHANGED <<tx_ready, tx_prod, tx_done, tried, aired>>

\* The host controller sends the oldest transfer, or fails to.
HcSend ==
    /\ tx_posted # << >>
    /\ tx_posted' = Tail(tx_posted)
    /\ \/ /\ aired' = tx_slot[Head(tx_posted)]
          /\ tx_done' = Append(tx_done, "completed")
          /\ UNCHANGED tx_faults
       \/ /\ tx_faults < TxMaxFaults
          /\ tx_faults' = tx_faults + 1
          /\ tx_done' = Append(tx_done, "failed")
          /\ UNCHANGED aired
    /\ UNCHANGED <<tx_ready, tx_prod, tx_cons, tx_held, tx_slot, tried, committed,
                   rejected>>

\* Defective variant of CreditBack: the completion is not announced.
NoCreditBack(status) == tx_ready

\* Defective variant of CreditBack: announced twice.
TwoCreditsBack(status) == tx_ready + 2

\* libusb_transfer_buffers_cb on an OUT endpoint: the restart label posts
\* nothing there, so a failed transfer takes its credit with it.
CreditBack(status) == IF status = "completed" THEN tx_ready + 1 ELSE tx_ready

TxCallback ==
    /\ tx_done # << >>
    /\ tx_ready' = CreditBack(Head(tx_done))
    /\ tx_done' = Tail(tx_done)
    /\ UNCHANGED <<tx_prod, tx_cons, tx_held, tx_slot, tx_posted, tried, committed,
                   aired, rejected, tx_faults>>

TxNext == SendGet \/ SendCommit \/ HcSend \/ TxCallback

\* The sender always commits what it got; the controller and the IO thread run.
TxFairness == /\ WF_TxVars(SendGet) /\ WF_TxVars(SendCommit)
              /\ WF_TxVars(HcSend) /\ WF_TxVars(TxCallback)

TxSpec == TxInit /\ [][TxNext]_TxVars

TxFairSpec == TxSpec /\ TxFairness

-----------------------------------------------------------------------------
(* Properties                                                              *)

TxTypeOK ==
    /\ tx_ready \in 0..TxBufMax
    /\ tx_prod \in 0..TxPackets /\ tx_cons \in 0..TxPackets
    /\ tx_held \in -1..TxBufMax-1
    /\ tx_slot \in [0..TxBufMax-1 -> 0..TxPackets]
    /\ tx_posted \in Seq(0..TxBufMax-1)
    /\ tx_done \in Seq({"completed", "failed"})
    /\ tried \in 0..TxPackets
    /\ committed \in 0..TxPackets /\ aired \in 0..TxPackets
    /\ rejected \in BOOLEAN
    /\ tx_faults \in 0..TxMaxFaults

\* The sender never fills a slot that a transfer is still reading, and no slot
\* is posted twice, even if transfers fail: credits are given back only for
\* slots the controller is through with.
TxNoOverwrite ==
    /\ \A i \in DOMAIN tx_posted : tx_posted[i] # tx_held
    /\ \A i, j \in DOMAIN tx_posted : tx_posted[i] = tx_posted[j] => i = j

\* What the host controller has yet to send, as packets.
TxInFlight == [i \in DOMAIN tx_posted |-> tx_slot[tx_posted[i]]]

Fifo == INSTANCE BoundedFifo
            WITH Capacity <- TxBufMax, q <- TxInFlight, put <- committed, taken <- aired

\* Up to the first failure the stream is a bounded FIFO from commit to the
\* device: what was committed is sent once, in order and unchanged.
ImplementsFifo ==
    /\ Fifo!Init
    /\ [][tx_faults' = 0 => Fifo!Next \/ UNCHANGED <<tx_posted, committed, aired>>]_TxVars

\* Once it has begun, the sender gets to send everything it wants to, and the
\* device receives it, unless something fails.
EverythingAired == tried > 0 ~> (tx_faults > 0 \/ aired = TxPackets)

\* "USB TX incorrect pointer supplied" is never said of a pointer that
\* send_dma_get handed out, until something has failed: the two indices, which
\* get and commit advance on their own, stay in step.
PointerBelieved == tx_faults = 0 => ~rejected

\* The buffers are accounted for: no slot in flight is filled, and the two
\* indices stay in step until something fails.
TxBuffersSafe == TxTypeOK /\ TxNoOverwrite /\ PointerBelieved

\* The stream is a bounded FIFO until something fails, and empties.
PacketsSent == ImplementsFifo /\ EverythingAired
=============================================================================
