----------------------------- MODULE RingBuffer -----------------------------
(***************************************************************************)
(* The single-producer, single-consumer ring of src/src/lib/common/        *)
(* ring_buffer.c, driven by one producer thread and one consumer thread    *)
(* the way disk_read_thread and disk_write_thread of usdr_dm_create.c      *)
(* drive one: wait for a slot, again after a timeout; use it; post it.     *)
(*                                                                         *)
(* The two counting semaphores, the two free-running unsigned indices and  *)
(* the slots are the state of struct ring_buffer.  sent and got count the  *)
(* posts of either side; packet number n is the n-th one posted.           *)
(***************************************************************************)
EXTENDS Integers, Sequences

CONSTANTS Items,       \* ring_buffer.items
          IdxMod,      \* 2^32 in the code: pidx and cidx are unsigned
          MaxPackets   \* bound on the number of packets a run produces

ASSUME RingAssumption ==
    /\ Items \in Nat \ {0}
    /\ IdxMod \in Nat /\ IdxMod > Items
    /\ MaxPackets \in Nat

ASSUME WidthAssumption == IdxMod % Items = 0

VARIABLES producer, consumer,   \* the semaphores
          pidx, cidx,           \* next index to grant to either side
          slot,                 \* data[], one packet number per slot
          pst, pret,            \* producer thread: where it is, last result
          cst, cret,            \* consumer thread: where it is, last result
          cval,                 \* the packet the consumer took out last
          sent, got             \* packets posted by either side

vars == <<producer, consumer, pidx, cidx, slot,
          pst, pret, cst, cret, cval, sent, got>>

\* What a wait returns when it times out: the largest index.
IDX_TIMEDOUT == IdxMod - 1

\* Defective variant of At: the mask is one bit short.
AtShortMask(idx) == (idx % Items) \div 2

\* items is a power of two, so masking with items - 1 is the remainder.
At(idx) == idx % Items

\* Defective variants of SemPost: a post that counts twice, one that is lost.
SemPostTwice(s) == s + 2

SemPostLost(s) == s

\* ring_buffer_ppost and ring_buffer_cpost post the other side's semaphore.
SemPost(s) == s + 1

\* Defective variant of FreeSlots: one credit too many.
FreeSlotsPlusOne == Items + 1

\* ring_buffer_create gives the producer a credit for every slot.
FreeSlots == Items

Init ==
    /\ producer = FreeSlots
    /\ consumer = 0
    /\ pidx = 0
    /\ cidx = 0
    /\ slot = [i \in 0..Items-1 |-> 0]
    /\ pst = "wait" /\ pret = 0
    /\ cst = "wait" /\ cret = 0
    /\ cval = 0
    /\ sent = 0
    /\ got = 0

-----------------------------------------------------------------------------
\* ring_buffer_pwait: the semaphore is taken and the index handed out.  The
\* caller looks at the result only: IDX_TIMEDOUT makes it go round again.
Pwait ==
    /\ pst = "wait"
    /\ sent < MaxPackets
    /\ producer > 0
    /\ producer' = producer - 1
    /\ pidx' = (pidx + 1) % IdxMod
    /\ pret' = pidx
    /\ pst' = IF pret' = IDX_TIMEDOUT THEN "wait" ELSE "fill"
    /\ UNCHANGED <<consumer, cidx, slot, cst, cret, cval, sent, got>>

\* The semaphore stays at zero for the whole time allowed.
PwaitTimedOut ==
    /\ pst = "wait"
    /\ sent < MaxPackets
    /\ producer = 0
    /\ pret' = IDX_TIMEDOUT
    /\ UNCHANGED <<producer, consumer, pidx, cidx, slot,
                   pst, cst, cret, cval, sent, got>>

Fill ==
    /\ pst = "fill"
    /\ slot' = [slot EXCEPT ![At(pret)] = sent + 1]
    /\ pst' = "post"
    /\ UNCHANGED <<producer, consumer, pidx, cidx,
                   pret, cst, cret, cval, sent, got>>

Ppost ==
    /\ pst = "post"
    /\ consumer' = SemPost(consumer)
    /\ sent' = sent + 1
    /\ pst' = "wait"
    /\ UNCHANGED <<producer, pidx, cidx, slot, pret, cst, cret, cval, got>>

Cwait ==
    /\ cst = "wait"
    /\ consumer > 0
    /\ consumer' = consumer - 1
    /\ cidx' = (cidx + 1) % IdxMod
    /\ cret' = cidx
    /\ cst' = IF cret' = IDX_TIMEDOUT THEN "wait" ELSE "read"
    /\ UNCHANGED <<producer, pidx, slot, pst, pret, cval, sent, got>>

CwaitTimedOut ==
    /\ cst = "wait"
    /\ consumer = 0
    /\ cret' = IDX_TIMEDOUT
    /\ UNCHANGED <<producer, consumer, pidx, cidx, slot,
                   pst, pret, cst, cval, sent, got>>

Read ==
    /\ cst = "read"
    /\ cval' = slot[At(cret)]
    /\ cst' = "post"
    /\ UNCHANGED <<producer, consumer, pidx, cidx, slot,
                   pst, pret, cret, sent, got>>

Cpost ==
    /\ cst = "post"
    /\ producer' = SemPost(producer)
    /\ got' = got + 1
    /\ cst' = "wait"
    /\ UNCHANGED <<consumer, pidx, cidx, slot, pst, pret, cret, cval, sent>>

Produce == Pwait \/ PwaitTimedOut \/ Fill \/ Ppost

Consume == Cwait \/ CwaitTimedOut \/ Read \/ Cpost

Next == Produce \/ Consume

\* Both threads loop until the program stops, so each keeps getting scheduled.
Fairness == /\ WF_vars(Pwait) /\ WF_vars(Fill) /\ WF_vars(Ppost)
            /\ WF_vars(Cwait) /\ WF_vars(Read) /\ WF_vars(Cpost)

Spec == Init /\ [][Next]_vars

FairSpec == Spec /\ Fairness

-----------------------------------------------------------------------------
(* Properties *)

\* Every variable keeps its type: indices fit an unsigned, the semaphores
\* never exceed the number of slots.
TypeOK ==
    /\ producer \in 0..Items
    /\ consumer \in 0..Items
    /\ pidx \in 0..IdxMod-1
    /\ cidx \in 0..IdxMod-1
    /\ slot \in [0..Items-1 -> 0..MaxPackets]
    /\ pst \in {"wait", "fill", "post"}
    /\ pret \in 0..IdxMod-1
    /\ cst \in {"wait", "read", "post"}
    /\ cret \in 0..IdxMod-1
    /\ cval \in 0..MaxPackets
    /\ sent \in 0..MaxPackets
    /\ got \in 0..MaxPackets

\* The two threads never hold the same slot: what ring_buffer_at returns to
\* the producer is not what the consumer is reading, however the semaphore
\* operations of the two interleave.
NoSlotConflict ==
    pst # "wait" /\ cst # "wait" => At(pret) # At(cret)

\* The consumer takes the packets out in the order they were posted, none
\* lost, repeated or overwritten before it was read.
FifoOrder ==
    cst = "post" => cval = got + 1

\* How the semaphores, the indices and the slots hang together: every slot is
\* free, held, or posted exactly once, and a posted slot keeps its packet until
\* the consumer releases it.  Inductive, as long as no index wraps.
RingInv ==
    /\ pidx = sent + (IF pst = "wait" THEN 0 ELSE 1)
    /\ cidx = got + (IF cst = "wait" THEN 0 ELSE 1)
    /\ producer = Items - (pidx - got)
    /\ consumer = sent - cidx
    /\ pst # "wait" => pret = sent /\ sent < MaxPackets
    /\ cst # "wait" => cret = got
    /\ pst = "post" => slot[At(sent)] = sent + 1
    /\ \A i \in 0..MaxPackets : got <= i /\ i < sent => slot[At(i)] = i + 1
    /\ FifoOrder

\* Once the first packet is posted, all of them are posted and taken out in the
\* end: neither thread waits for ever for a post of the other.
EveryPacketArrives == sent > 0 ~> got = MaxPackets

\* The posted and not yet released packets, oldest first: what the ring holds
\* when it is seen as a bounded queue.
Queue == [i \in 1..(sent - got) |-> slot[At(got + i - 1)]]

Fifo == INSTANCE BoundedFifo
            WITH Capacity <- Items, q <- Queue, put <- sent, taken <- got

\* The ring implements a bounded first-in first-out queue: every step of the
\* two threads is a Put at the tail, a Take at the head, or nothing.
ImplementsFifo == Fifo!Spec

\* The ring is a bounded FIFO and every packet gets through.
PacketsDelivered == []TypeOK /\ ImplementsFifo /\ EveryPacketArrives
=============================================================================
