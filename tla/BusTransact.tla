---------------------------- MODULE BusTransact ----------------------------
(***************************************************************************)
(* SPI and I2C transactions of the PCIe driver (usdr_pcie_uram.c), called  *)
(* by threads through pcie_uram_ls_op.                                     *)
(*                                                                         *)
(* A transaction writes a command to a core of the device and sleeps until *)
(* the interrupt handler has counted an event of that core; the answer is  *)
(* what the handler stored last for it.  Neither the ioctl nor the library *)
(* holds a lock, and neither command nor event carries a number.  An I2C   *)
(* command names a slot of the core's slave table; the table is sent along *)
(* when it differs from the one sent last.                                 *)
(***************************************************************************)
EXTENDS I2cLut, Sequences

CONSTANTS Threads,     \* threads that use the buses
          Uses,        \* the cores each thread uses
          Slaves,      \* slaves on the I2C core
          MaxCalls,    \* bound: transactions of each thread
          MaxGiveUps   \* bound: waits that time out or are interrupted

ASSUME BusAssumption ==
    /\ Uses \in [Threads -> SUBSET {"spi", "i2c"}]
    /\ Slaves \subseteq [addr : Nat \ {0}, busn : 0..1]
    /\ MaxCalls \in [Threads -> Nat] /\ MaxGiveUps \in Nat

VARIABLES
    i2cc, i2clut,    \* slave cache and the table sent last
    irq_ev_cnt, rb_ev_data,   \* per core: events not taken, answer stored last
    irq,             \* interrupt handler: "idle", or "stored"
    bucket,          \* events the handler has yet to dispatch
    lut,             \* device: its slave table
    core,            \* device: commands each core has accepted
    pc,              \* thread: "idle", "lookup", "make", "issue", "note",
                     \* "wait", "read"
    op,              \* thread: its transaction
    idx, mylut,      \* thread: slot of its slave, table it found
    calls,           \* transactions of a thread so far
    giveups          \* waits given up so far, per core

cached == <<i2cc, i2clut>>
counted == <<irq_ev_cnt, rb_ev_data>>
device == <<lut, core>>
locals == <<op, idx, mylut>>
vars == <<cached, counted, irq, bucket, device, pc, locals, calls, giveups>>

Cores == {"spi", "i2c"}

\* An SPI transaction always reads back; an I2C one may only write.
Ops == [core : {"spi"}, slave : {NoSlave}, rd : {TRUE}]
         \cup [core : {"i2c"}, slave : Slaves, rd : BOOLEAN]

NoLut == << >>

\* What a thread's locals are set to when it is in no ioctl.
NoOp == [core |-> "spi", slave |-> NoSlave, rd |-> TRUE]

Return(t) ==
    /\ pc' = [pc EXCEPT ![t] = "idle"]
    /\ op' = [op EXCEPT ![t] = NoOp]
    /\ idx' = [idx EXCEPT ![t] = 0]
    /\ mylut' = [mylut EXCEPT ![t] = NoLut]

\* The command is out: a transaction that reads waits, a write returns.
WaitOrReturn(t, waits) ==
    IF waits THEN pc' = [pc EXCEPT ![t] = "wait"] /\ UNCHANGED locals
    ELSE Return(t)

Init ==
    /\ i2cc = EmptyCache /\ i2clut = NoLut
    /\ irq_ev_cnt = [c \in Cores |-> 0] /\ rb_ev_data = [c \in Cores |-> << >>]
    /\ irq = "idle" /\ bucket = << >>
    /\ lut = [s \in Slots |-> NoSlave]
    /\ core = [c \in Cores |-> << >>]
    /\ pc = [t \in Threads |-> "idle"]
    /\ op = [t \in Threads |-> NoOp]
    /\ idx = [t \in Threads |-> 0]
    /\ mylut = [t \in Threads |-> NoLut]
    /\ calls = [t \in Threads |-> 0]
    /\ giveups = [c \in Cores |-> 0]

-----------------------------------------------------------------------------
(* The ioctl PCIE_DRIVER_CLAIM *)

\* The slave cache is forgotten; the device keeps its table.  Done by a process
\* that has just opened the device, so no transaction is under way.
Claim ==
    /\ \A t \in Threads : pc[t] = "idle"
    /\ i2clut # NoLut
    /\ i2cc' = EmptyCache
    /\ i2clut' = NoLut
    /\ UNCHANGED <<counted, irq, bucket, device, pc, locals, calls, giveups>>

-----------------------------------------------------------------------------
(* The ioctls PCIE_DRIVER_SPI32_TRANSACT and PCIE_DRIVER_SI2C_TRANSACT *)

Call(t, o) ==
    /\ pc[t] = "idle"
    /\ calls[t] < MaxCalls[t]
    /\ o.core \in Uses[t]
    /\ calls' = [calls EXCEPT ![t] = @ + 1]
    /\ op' = [op EXCEPT ![t] = o]
    /\ pc' = [pc EXCEPT ![t] = IF o.core = "i2c" THEN "lookup" ELSE "issue"]
    /\ UNCHANGED <<cached, counted, irq, bucket, device, idx, mylut, giveups>>

\* "TODO: Protect i2cc structure"
I2cLookup(t) ==
    /\ pc[t] = "lookup"
    /\ LET u == UpdateLut(i2cc, op[t].slave) IN
       /\ i2cc' = u.cache
       /\ idx' = [idx EXCEPT ![t] = u.idx]
    /\ pc' = [pc EXCEPT ![t] = "make"]
    /\ UNCHANGED <<i2clut, counted, irq, bucket, device, op, mylut, calls,
                   giveups>>

I2cGetLut(t) ==
    /\ pc[t] = "make"
    /\ mylut' = [mylut EXCEPT ![t] = GetLut(i2cc)]
    /\ pc' = [pc EXCEPT ![t] = "issue"]
    /\ UNCHANGED <<cached, counted, irq, bucket, device, op, idx, calls,
                   giveups>>

\* si2c_make_ctrl_reg refuses more bytes than a command holds.  The slave has
\* its slot by then, the core has not been told.
I2cRefuse(t) ==
    /\ pc[t] = "make"
    /\ Return(t)
    /\ UNCHANGED <<cached, counted, irq, bucket, device, calls, giveups>>

\* Defective variant of Waits: also a write waits for the core.
WaitsAlways(o) == TRUE

\* The ioctl waits unless nothing is to be read.
Waits(o) == o.rd

\* The number of a thread's transaction
Id(t) == <<t, calls[t]>>

\* A command as the core accepted it: whose it is, the slave it goes to and the
\* slave it was meant for.
Command(t, slave) == [id |-> Id(t), slave |-> slave, want |-> op[t].slave,
                      rd |-> op[t].rd]

SpiIssue(t) ==
    /\ pc[t] = "issue" /\ op[t].core = "spi"
    /\ core' = [core EXCEPT !["spi"] = Append(@, Command(t, NoSlave))]
    /\ pc' = [pc EXCEPT ![t] = "wait"]
    /\ UNCHANGED <<cached, counted, irq, bucket, lut, locals, calls, giveups>>

\* Defective variant of LutSent: once a table was sent, none is sent again.
LutSentOnce(t) == i2clut # NoLut

\* i2clut[i2cinst] == lut
LutSent(t) == i2clut = mylut[t]

\* One 32-bit write if the core has the table, else a 64-bit write of both.
I2cIssue(t) ==
    /\ pc[t] = "issue" /\ op[t].core = "i2c"
    /\ lut' = IF LutSent(t) THEN lut ELSE mylut[t]
    /\ core' = [core EXCEPT !["i2c"] = Append(@, Command(t, lut'[idx[t]]))]
    /\ IF LutSent(t) THEN WaitOrReturn(t, Waits(op[t]))
       ELSE pc' = [pc EXCEPT ![t] = "note"] /\ UNCHANGED locals
    /\ UNCHANGED <<cached, counted, irq, bucket, calls, giveups>>

\* The table that was sent is remembered.
I2cNote(t) ==
    /\ pc[t] = "note"
    /\ i2clut' = mylut[t]
    /\ WaitOrReturn(t, Waits(op[t]))
    /\ UNCHANGED <<i2cc, counted, irq, bucket, device, calls, giveups>>

\* Defective variant of Taken: the count is looked at and not cleared.
TakenKept(c) == irq_ev_cnt[c]

\* atomic_xchg(&irq_ev_cnt[irq], 0)
Taken(c) == 0

\* "Wait for completion": any event of the core ends the wait.
WaitDone(t) ==
    /\ pc[t] = "wait"
    /\ irq_ev_cnt[op[t].core] > 0
    /\ irq_ev_cnt' = [irq_ev_cnt EXCEPT ![op[t].core] = Taken(op[t].core)]
    /\ pc' = [pc EXCEPT ![t] = "read"]
    /\ UNCHANGED <<cached, rb_ev_data, irq, bucket, device, locals, calls, giveups>>

\* -ETIMEDOUT after HZ, or a signal: the ioctl returns, the command goes on.
GiveUp(t) ==
    /\ pc[t] = "wait"
    /\ irq_ev_cnt[op[t].core] = 0
    /\ giveups["spi"] + giveups["i2c"] < MaxGiveUps
    /\ giveups' = [giveups EXCEPT ![op[t].core] = @ + 1]
    /\ Return(t)
    /\ UNCHANGED <<cached, counted, irq, bucket, device, calls>>

\* The ioctl returns rb_ev_data.
ReadBack(t) ==
    /\ pc[t] = "read"
    /\ Return(t)
    /\ UNCHANGED <<cached, counted, irq, bucket, device, calls, giveups>>

-----------------------------------------------------------------------------
(* The device and the interrupt handler *)

\* A core carries out its commands in turn; one that reads sends an event.
CoreDone(c) ==
    /\ core[c] # << >>
    /\ core' = [core EXCEPT ![c] = Tail(@)]
    /\ bucket' = IF Head(core[c]).rd
                 THEN Append(bucket, [core |-> c, id |-> Head(core[c]).id])
                 ELSE bucket
    /\ UNCHANGED <<cached, counted, irq, lut, pc, locals, calls, giveups>>

\* The handler stores the answer, and counts the event after that.
IrqStore ==
    /\ irq = "idle" /\ bucket # << >>
    /\ rb_ev_data' = [rb_ev_data EXCEPT ![Head(bucket).core] = Head(bucket).id]
    /\ irq' = "stored"
    /\ UNCHANGED <<cached, irq_ev_cnt, bucket, device, pc, locals, calls, giveups>>

IrqCount ==
    /\ irq = "stored"
    /\ irq_ev_cnt' = [irq_ev_cnt EXCEPT ![Head(bucket).core] = @ + 1]
    /\ bucket' = Tail(bucket)
    /\ irq' = "idle"
    /\ UNCHANGED <<cached, rb_ev_data, device, pc, locals, calls, giveups>>

-----------------------------------------------------------------------------
Transaction(t) ==
    \/ I2cLookup(t) \/ I2cGetLut(t) \/ I2cRefuse(t)
    \/ SpiIssue(t) \/ I2cIssue(t) \/ I2cNote(t) \/ WaitDone(t) \/ ReadBack(t)

Device == IrqStore \/ IrqCount \/ \E c \in Cores : CoreDone(c)

Next ==
    \/ Claim \/ Device
    \/ \E t \in Threads : Transaction(t) \/ GiveUp(t) \/ \E o \in Ops : Call(t, o)

\* Threads inside an ioctl are scheduled, the cores work, interrupts are served.
Fairness ==
    /\ \A t \in Threads : WF_vars(Transaction(t))
    /\ \A c \in Cores : WF_vars(CoreDone(c))
    /\ WF_vars(IrqStore) /\ WF_vars(IrqCount)

Spec == Init /\ [][Next]_vars

FairSpec == Spec /\ Fairness

-----------------------------------------------------------------------------
(* Properties *)

TypeOK ==
    /\ i2cc \in [Slots -> [slave : Slaves \cup {NoSlave}, lrui : 0..SlotCount]]
    /\ i2clut \in {NoLut} \cup [Slots -> Slaves \cup {NoSlave}]
    /\ irq_ev_cnt \in [Cores -> Nat]
    /\ irq \in {"idle", "stored"}
    /\ lut \in [Slots -> Slaves \cup {NoSlave}]
    /\ pc \in [Threads -> {"idle", "lookup", "make", "issue", "note", "wait", "read"}]
    /\ op \in [Threads -> Ops]
    /\ idx \in [Threads -> Slots]
    /\ \A t \in Threads : calls[t] \in 0..MaxCalls[t]
    /\ giveups \in [Cores -> 0..MaxGiveUps]

\* The core is used by one thread only.
Owned(c) == \A t, u \in Threads : c \in Uses[t] /\ c \in Uses[u] => t = u

\* The slots in use have different ranks, so si2c_update_lut_idx always finds
\* one slot to give up, and a slave that is used often climbs above the others.
RanksDistinct ==
    Owned("i2c") =>
        \A s, u \in Slots :
            i2cc[s].lrui = i2cc[u].lrui /\ i2cc[s].lrui > 0 => s = u

\* An I2C command reaches the slave it was meant for, whatever slots were
\* reused since the table was sent last, if one thread uses the core.
SlaveReached ==
    Owned("i2c") =>
        \A k \in DOMAIN core["i2c"] : core["i2c"][k].slave = core["i2c"][k].want

\* A transaction returns the answer to its own command, if one thread uses the
\* core and until a wait on it was given up.
OwnAnswer ==
    [][\A t \in Threads :
          /\ pc[t] = "read" /\ pc'[t] = "idle"
          /\ Owned(op[t].core) /\ giveups[op[t].core] = 0
          => rb_ev_data[op[t].core] = Id(t)]_vars

\* Every transaction returns, though no wait may time out after the bound: the
\* event a thread waits for is never taken away or counted too early.
EveryTransactionEnds ==
    (\A c \in Cores : Owned(c)) =>
        \A t \in Threads : pc[t] # "idle" ~> pc[t] = "idle"
=============================================================================
