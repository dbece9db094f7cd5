---------------------------- MODULE EventBucket ----------------------------
(***************************************************************************)
(* The event bucket of the PCIe driver (usdr_pcie_uram.c): a page of       *)
(* entries the device writes by DMA and usdr_pcie_irq_bucket_128 reads in  *)
(* the interrupt.                                                          *)
(*                                                                         *)
(* There is no write pointer in memory.  An entry carries a flag that the  *)
(* device toggles on every lap; the handler knows from its own pointer     *)
(* which value means "new", and stops at the first entry that has the      *)
(* other one.  Every AckEvery entries it tells the device how far it got;  *)
(* the device does not write further than one lap ahead of that.           *)
(***************************************************************************)
EXTENDS Integers

CONSTANTS Entries,   \* entries of the page (256)
          AckEvery,  \* entries between two confirmations (32)
          MaxEvents  \* bound: events the device writes

ASSUME BucketAssumption ==
    /\ Entries \in Nat /\ AckEvery \in Nat /\ MaxEvents \in Nat
    /\ AckEvery > 0 /\ Entries > AckEvery
    /\ Entries % AckEvery = 0

VARIABLES
    entry,     \* the page: flag and event of every entry
    rptr,      \* notification_bucket.rptr, of lap and position
    i,         \* the handler's pointer; runs on past the second lap
    pc,        \* the handler: "idle", "scan", "ack"
    do_cnf,    \* confirmation to send, -1 for none
    msi,       \* an interrupt is pending
    wptr,      \* device: events written
    ack,       \* device: last confirmation received
    handled    \* events the handler has dispatched

BucketVars == <<entry, rptr, i, pc, do_cnf, msi, wptr, ack, handled>>

\* Pointers carry one bit more than the position: the lap (i & 0x1ff).
Laps == 2 * Entries

\* The flag an entry has when it was written on the lap of pointer p.
LapFlag(p) == (p \div Entries) % 2

\* init_bucket: the page is filled with ones, the pointers are zero.
BucketInit ==
    /\ entry = [e \in 0..Entries-1 |-> [flag |-> 1, ev |-> 0]]
    /\ rptr = 0
    /\ i = 0
    /\ pc = "idle"
    /\ do_cnf = -1
    /\ msi = FALSE
    /\ wptr = 0
    /\ ack = 0
    /\ handled = 0

\* The device writes event number wptr + 1 and raises its interrupt, unless
\* that would run a whole lap ahead of what was confirmed.
DeviceWrite ==
    /\ wptr < MaxEvents
    /\ (wptr - ack) % Laps < Entries
    /\ entry' = [entry EXCEPT ![wptr % Entries] =
                    [flag |-> LapFlag(wptr), ev |-> wptr + 1]]
    /\ wptr' = wptr + 1
    /\ msi' = TRUE
    /\ UNCHANGED <<rptr, i, pc, do_cnf, ack, handled>>

\* The handler is entered; pending interrupts of the vector merge.
IrqEnter ==
    /\ pc = "idle"
    /\ msi
    /\ msi' = FALSE
    /\ pc' = "scan"
    /\ i' = rptr
    /\ do_cnf' = -1
    /\ UNCHANGED <<entry, rptr, wptr, ack, handled>>

\* Defective variant of IsNew: the flag is not compared.
IsNewAlways(p) == TRUE

\* flags == ((i >> 8) & 1)
IsNew(p) == entry[p % Entries].flag = LapFlag(p)

\* The confirmation for entry p: its position and lap.
Confirmed(p) == p % Laps

\* One round of the loop: the entry is new and is dispatched.
IrqEvent ==
    /\ pc = "scan"
    /\ i < rptr + Entries
    /\ IsNew(i)
    /\ handled' = entry[i % Entries].ev
    /\ do_cnf' = IF i % AckEvery = AckEvery - 1 THEN Confirmed(i) ELSE do_cnf
    /\ i' = i + 1
    /\ UNCHANGED <<entry, rptr, pc, msi, wptr, ack>>

\* Defective variants of Wrapped: no mask, or one that drops the lap bit.
WrappedNot(p) == p

WrappedNoLap(p) == p % Entries

\* b->rptr = i & 0x1ff
Wrapped(p) == p % Laps

\* The loop ends at an old entry, or after one lap.
IrqLeave ==
    /\ pc = "scan"
    /\ i >= rptr + Entries \/ ~IsNew(i)
    /\ rptr' = Wrapped(i)
    /\ pc' = IF do_cnf = -1 THEN "idle" ELSE "ack"
    /\ UNCHANGED <<entry, i, do_cnf, msi, wptr, ack, handled>>

IrqAck ==
    /\ pc = "ack"
    /\ ack' = do_cnf
    /\ pc' = "idle"
    /\ UNCHANGED <<entry, rptr, i, do_cnf, msi, wptr, handled>>

BucketNext == DeviceWrite \/ IrqEnter \/ IrqEvent \/ IrqLeave \/ IrqAck

\* The device writes what it has; a pending interrupt is taken, and the handler
\* runs to its end.
BucketFairness ==
    /\ WF_BucketVars(DeviceWrite)
    /\ WF_BucketVars(IrqEnter) /\ WF_BucketVars(IrqEvent)
    /\ WF_BucketVars(IrqLeave) /\ WF_BucketVars(IrqAck)

BucketSpec == BucketInit /\ [][BucketNext]_BucketVars

BucketFairSpec == BucketSpec /\ BucketFairness

-----------------------------------------------------------------------------
(* Properties                                                              *)

BucketTypeOK ==
    /\ entry \in [0..Entries-1 -> [flag : 0..1, ev : 0..MaxEvents]]
    /\ rptr \in 0..Laps-1
    /\ i \in 0..Laps + Entries
    /\ pc \in {"idle", "scan", "ack"}
    /\ do_cnf \in -1..Laps-1
    /\ msi \in BOOLEAN
    /\ wptr \in 0..MaxEvents
    /\ ack \in 0..Laps-1
    /\ handled \in 0..MaxEvents

\* The events waiting in the page, oldest first.
Waiting == [k \in 1..(wptr - handled) |-> entry[(handled + k - 1) % Entries].ev]

Fifo == INSTANCE BoundedFifo
            WITH Capacity <- Entries, q <- Waiting, put <- wptr, taken <- handled

\* The bucket is a bounded FIFO: the handler dispatches every event once, in
\* the order the device wrote them, although it only sees toggling flags; and
\* the device never overwrites an event that was not dispatched.
ImplementsFifo == Fifo!Spec

\* Once the device has begun, every event is dispatched, and the device never
\* stays blocked: neither a missed interrupt nor a missing confirmation stops
\* the bucket.
EveryEventHandled == wptr > 0 ~> handled = MaxEvents

\* The bucket is a bounded FIFO that empties.
EventsDelivered == []BucketTypeOK /\ ImplementsFifo /\ EveryEventHandled
=============================================================================
