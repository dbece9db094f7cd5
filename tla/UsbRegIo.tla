------------------------------ MODULE UsbRegIo ------------------------------
(***************************************************************************)
(* Register and bus access over USB (usb_uram_libusb.c and                 *)
(* usb_uram_generic.c): usb_async_regwrite32, usb_async_regread32 and the  *)
(* SPI and I2C transactions of usb_uram_ls_op, called by several threads,  *)
(* and the completion callbacks, run by the IO thread.                     *)
(*                                                                         *)
(* There is one transfer for commands and one for readbacks, each guarded  *)
(* by a semaphore that the caller takes and the callback posts.  A read    *)
(* sends its command, then offers its own buffer for the readback, then    *)
(* waits on one of RbThreads semaphores.  The device answers reads in the  *)
(* order of their commands; nothing in an answer says whose it is.         *)
(*                                                                         *)
(* A bus transaction writes its command to a register and then waits for a *)
(* notification, for which it posts the one notification transfer itself.  *)
(* The callback stores the value of each event it finds and posts the      *)
(* semaphore of that event.  Every bus thread has a core of its own.       *)
(***************************************************************************)
EXTENDS Integers, Sequences, FiniteSetsExt

CONSTANTS Readers, Writers,   \* the threads that read and that write registers
          BusUsers,           \* the threads that read over a bus
          RbThreads,          \* MAX_RB_THREADS
          RegCalls, BusCalls, \* bounds: calls of a register and of a bus thread
          MaxFaults           \* bound: failed submissions and transfers

ASSUME RegIoAssumption ==
    /\ Readers \cap Writers = {} /\ (Readers \cup Writers) \cap BusUsers = {}
    /\ "none" \notin Readers \cup Writers \cup BusUsers
    /\ IsFiniteSet(Readers)
    /\ RbThreads \in Nat \ {0}
    /\ RegCalls \in Nat /\ BusCalls \in Nat /\ MaxFaults \in Nat

Threads == Readers \cup Writers \cup BusUsers

MaxCalls(t) == IF t \in BusUsers THEN BusCalls ELSE RegCalls

VARIABLES
    tr_regout_a, tr_rb_a,   \* semaphores of the two transfers
    rb_valid, rb_valid_idx, \* semaphores that wake the readers, next to use
    regout,     \* command in the regout transfer
    rb,         \* whose buffer the readback transfer fills, and its semaphore
    reaped,     \* readback whose callback is about to wake the reader
    answers,    \* answers of the device, oldest first
    ntfy,       \* the notification transfer is posted
    events,     \* device: answers of the buses not yet notified
    interrupts, rbvalue,    \* per core: semaphore, answer stored last
    pc,         \* where a thread is: "idle", "regout", "rb", "wait", or for a
                \* bus thread "ntfy", "msi", "value"
    calls,      \* calls a thread has made
    ridx,       \* semaphore a reader waits on
    odata,      \* a reader's buffer: the command whose answer it holds
    alone,      \* history: no other read overlapped this one
    missed,     \* history: a transaction of the core ended without its answer
    faults      \* failures so far

sems == <<tr_regout_a, tr_rb_a, rb_valid, rb_valid_idx>>
wire == <<regout, rb, reaped, answers>>

bus == <<ntfy, events, interrupts, rbvalue>>
vars == <<sems, wire, bus, pc, calls, ridx, odata, alone, missed, faults>>

\* No transfer is posted, no answer was received.
None == [thread |-> "none", call |-> 0]

\* The n-th call of thread t
Command(t, n) == [thread |-> t, call |-> n]

\* Defective variant of RegoutReqs: more requests than transfers are used.
RegoutReqsTwo == 2

\* MAX_REGOUT_REQS: the code always uses transfer 0 ("TODO obtain IDX")
RegoutReqs == 1

\* usb_async_start
Init ==
    /\ tr_regout_a = RegoutReqs
    /\ tr_rb_a = 1
    /\ rb_valid = [k \in 0..RbThreads-1 |-> 0]
    /\ rb_valid_idx = 0
    /\ regout = None /\ rb = None /\ reaped = None
    /\ answers = << >>
    /\ ntfy = FALSE /\ events = {}
    /\ interrupts = [t \in BusUsers |-> 0] /\ rbvalue = [t \in BusUsers |-> None]
    /\ pc = [t \in Threads |-> "idle"]
    /\ calls = [t \in Threads |-> 0]
    /\ ridx = [t \in Readers |-> 0]
    /\ odata = [t \in Readers |-> None]
    /\ alone = [t \in Readers |-> TRUE]
    /\ missed = [t \in BusUsers |-> FALSE]
    /\ faults = 0

-----------------------------------------------------------------------------
(* The callers *)

Call(t) ==
    /\ pc[t] = "idle"
    /\ calls[t] < MaxCalls(t)
    /\ calls' = [calls EXCEPT ![t] = @ + 1]
    /\ pc' = [pc EXCEPT ![t] = "regout"]
    /\ IF t \in Readers
       THEN LET others == {u \in Readers \ {t} : pc[u] # "idle"} IN
            /\ odata' = [odata EXCEPT ![t] = None]
            /\ alone' = [u \in Readers |-> IF u = t THEN others = {}
                                          ELSE alone[u] /\ u \notin others]
       ELSE UNCHANGED <<odata, alone>>
    /\ UNCHANGED <<sems, wire, bus, ridx, missed, faults>>

\* Where a call goes once its command is posted: a write is done, usb_uram_ls_op
\* goes on to wait for the bus.
AfterRegout(t) == CASE t \in Readers -> "rb"
                    [] t \in Writers -> "idle"
                    [] t \in BusUsers -> "ntfy"

\* usb_post_regout: the command goes into the transfer.  A submission that
\* fails returns the error and keeps the semaphore.
PostRegout(t) ==
    /\ pc[t] = "regout"
    /\ tr_regout_a > 0
    /\ tr_regout_a' = tr_regout_a - 1
    /\ \/ /\ regout' = Command(t, calls[t])
          /\ pc' = [pc EXCEPT ![t] = AfterRegout(t)]
          /\ UNCHANGED faults
       \/ /\ faults < MaxFaults
          /\ faults' = faults + 1
          /\ pc' = [pc EXCEPT ![t] = "idle"]
          /\ UNCHANGED regout
    /\ UNCHANGED <<tr_rb_a, rb_valid, rb_valid_idx, rb, reaped, answers, bus, calls,
                   ridx, odata, alone, missed>>

\* Defective variant of Ridx: all readers wait on the same semaphore.
RidxShared(n) == 0

\* buffer[0] & (MAX_RB_THREADS - 1)
Ridx(n) == n % RbThreads

\* usb_post_rb
PostRb(t) ==
    /\ pc[t] = "rb"
    /\ tr_rb_a > 0
    /\ tr_rb_a' = tr_rb_a - 1
    /\ rb_valid_idx' = rb_valid_idx + 1
    /\ ridx' = [ridx EXCEPT ![t] = Ridx(rb_valid_idx)]
    /\ \/ /\ rb' = Command(t, Ridx(rb_valid_idx))
          /\ pc' = [pc EXCEPT ![t] = "wait"]
          /\ UNCHANGED faults
       \/ /\ faults < MaxFaults
          /\ faults' = faults + 1
          /\ pc' = [pc EXCEPT ![t] = "idle"]
          /\ UNCHANGED rb
    /\ UNCHANGED <<tr_regout_a, rb_valid, regout, reaped, answers, bus, calls, odata,
                   alone, missed>>

\* Defective variant of Woken: the reader does not wait.
WokenAlways(t) == TRUE

\* sem_wait(&dev->rb_valid[idx])
Woken(t) == rb_valid[ridx[t]] > 0

\* The wait on rb_valid is over, the read returns its buffer.
ReadReturn(t) ==
    /\ pc[t] = "wait"
    /\ Woken(t)
    /\ rb_valid' = [rb_valid EXCEPT ![ridx[t]] = @ - 1]
    /\ pc' = [pc EXCEPT ![t] = "idle"]
    /\ UNCHANGED <<tr_regout_a, tr_rb_a, rb_valid_idx, wire, bus, calls, ridx, odata,
                   alone, missed, faults>>

\* usb_read_bus, first half: the notification transfer is posted.  If it still
\* is, by a transaction that gave up or by another bus, libusb refuses it; so it
\* may for other reasons.
PostNtfy(t) ==
    /\ pc[t] = "ntfy"
    /\ \/ /\ ~ntfy
          /\ ntfy' = TRUE
          /\ pc' = [pc EXCEPT ![t] = "msi"]
          /\ UNCHANGED <<missed, faults>>
       \/ /\ \/ ntfy /\ UNCHANGED faults
             \/ ~ntfy /\ faults < MaxFaults /\ faults' = faults + 1
          /\ pc' = [pc EXCEPT ![t] = "idle"]
          /\ missed' = [missed EXCEPT ![t] = TRUE]
          /\ UNCHANGED ntfy
    /\ UNCHANGED <<sems, wire, events, interrupts, rbvalue, calls, ridx, odata, alone>>

\* Defective variant of MsiTaken: the semaphore is looked at and not taken.
MsiKept(t) == interrupts[t]

\* usb_uram_wait_msi takes the semaphore of the event.
MsiTaken(t) == interrupts[t] - 1

\* usb_uram_read_wait: the wait ends, or its time is over; then the command is
\* still out, and the transfer still posted.
WaitMsi(t) ==
    /\ pc[t] = "msi"
    /\ \/ /\ interrupts[t] > 0
          /\ interrupts' = [interrupts EXCEPT ![t] = MsiTaken(t)]
          /\ pc' = [pc EXCEPT ![t] = "value"]
          /\ UNCHANGED missed
       \/ /\ interrupts[t] = 0
          /\ pc' = [pc EXCEPT ![t] = "idle"]
          /\ missed' = [missed EXCEPT ![t] = TRUE]
          /\ UNCHANGED interrupts
    /\ UNCHANGED <<sems, wire, ntfy, events, rbvalue, calls, ridx, odata, alone, faults>>

\* usb_read_bus, second half: the value stored last for the event is returned.
BusReturn(t) ==
    /\ pc[t] = "value"
    /\ pc' = [pc EXCEPT ![t] = "idle"]
    /\ UNCHANGED <<sems, wire, bus, calls, ridx, odata, alone, missed, faults>>

-----------------------------------------------------------------------------
(* The device and the IO thread *)

\* Defective variant of RegoutFree: the transfer is not given back.
RegoutKept == tr_regout_a

\* sem_post(&dev->tr_regout_a)
RegoutFree == tr_regout_a + 1

\* libusb_transfer_regout: the command reached the device, or the transfer
\* failed; the callback then returns without posting the semaphore.
RegoutDone ==
    /\ regout # None
    /\ regout' = None
    /\ \/ /\ answers' = IF regout.thread \in Readers THEN Append(answers, regout)
                        ELSE answers
          /\ events' = IF regout.thread \in BusUsers THEN events \cup {regout}
                       ELSE events
          /\ tr_regout_a' = RegoutFree
          /\ UNCHANGED faults
       \/ /\ faults < MaxFaults
          /\ faults' = faults + 1
          /\ UNCHANGED <<answers, events, tr_regout_a>>
    /\ UNCHANGED <<tr_rb_a, rb_valid, rb_valid_idx, rb, reaped, ntfy, interrupts,
                   rbvalue, pc, calls, ridx, odata, alone, missed>>

\* libusb_transfer_rb: the transfer is free again.  If it failed, neither its
\* semaphore is posted nor the reader woken.
RbDone ==
    /\ rb # None /\ reaped = None
    /\ rb' = None
    /\ \/ /\ answers # << >>
          /\ odata' = [odata EXCEPT ![rb.thread] = Head(answers)]
          /\ answers' = Tail(answers)
          /\ reaped' = rb
          /\ tr_rb_a' = tr_rb_a + 1
          /\ UNCHANGED faults
       \/ /\ faults < MaxFaults
          /\ faults' = faults + 1
          /\ UNCHANGED <<odata, answers, reaped, tr_rb_a>>
    /\ UNCHANGED <<tr_regout_a, rb_valid, rb_valid_idx, regout, bus, pc, calls, ridx,
                   alone, missed>>

\* After that the reader is woken.
RbWake ==
    /\ reaped # None
    /\ rb_valid' = [rb_valid EXCEPT ![reaped.call] = @ + 1]
    /\ reaped' = None
    /\ UNCHANGED <<tr_regout_a, tr_rb_a, rb_valid_idx, regout, rb, answers, bus, pc,
                   calls, ridx, odata, alone, missed, faults>>

\* libusb_transfer_ntfy: a packet tells of one or more events, those of a core
\* in order.  The transfer is not posted again here.
NtfyDone ==
    /\ ntfy
    /\ ntfy' = FALSE
    /\ \/ \E S \in SUBSET events :
             LET of(t) == {e.call : e \in {f \in S : f.thread = t}} IN
             /\ S # {}
             /\ \A e \in S, f \in events \ S : e.thread = f.thread => e.call < f.call
             /\ rbvalue' = [t \in BusUsers |-> IF of(t) = {} THEN rbvalue[t]
                                               ELSE Command(t, Max(of(t)))]
             /\ interrupts' = [t \in BusUsers |-> interrupts[t] + Cardinality(of(t))]
             /\ events' = events \ S
             /\ UNCHANGED faults
       \/ /\ faults < MaxFaults
          /\ faults' = faults + 1
          /\ UNCHANGED <<events, interrupts, rbvalue>>
    /\ UNCHANGED <<sems, wire, pc, calls, ridx, odata, alone, missed>>

-----------------------------------------------------------------------------
Next ==
    \/ \E t \in Threads : Call(t) \/ PostRegout(t)
    \/ \E t \in Readers : PostRb(t) \/ ReadReturn(t)
    \/ \E t \in BusUsers : PostNtfy(t) \/ WaitMsi(t) \/ BusReturn(t)
    \/ RegoutDone \/ RbDone \/ RbWake \/ NtfyDone

Step(t) ==
    \/ PostRegout(t)
    \/ t \in Readers /\ (PostRb(t) \/ ReadReturn(t))
    \/ t \in BusUsers /\ (PostNtfy(t) \/ WaitMsi(t) \/ BusReturn(t))

\* A thread whose semaphore is posted gets to run, the IO thread runs, the
\* device answers.
Fairness ==
    /\ \A t \in Threads : WF_vars(Step(t))
    /\ WF_vars(RegoutDone) /\ WF_vars(RbDone) /\ WF_vars(RbWake)

Spec == Init /\ [][Next]_vars

FairSpec == Spec /\ Fairness

-----------------------------------------------------------------------------
(* Properties *)

TypeOK ==
    /\ tr_regout_a \in 0..1 /\ tr_rb_a \in 0..1
    /\ \A k \in 0..RbThreads-1 : rb_valid[k] \in 0..1
    /\ rb_valid_idx \in Nat
    /\ \A t \in Threads : pc[t] \in {"idle", "regout", "rb", "wait", "ntfy", "msi", "value"}
                       /\ calls[t] \in 0..MaxCalls(t)
    /\ \A t \in BusUsers : interrupts[t] \in 0..BusCalls
    /\ \A t \in Readers : ridx[t] \in 0..RbThreads-1
    /\ faults \in 0..MaxFaults

\* A read that no other read overlaps returns the answer to its own command,
\* however many writes share the transfers with it, as long as nothing fails.
ReadGetsOwnAnswer ==
    [][\A t \in Readers :
          faults = 0 /\ alone[t] /\ pc[t] = "wait" /\ pc'[t] = "idle" =>
              odata[t] = Command(t, calls[t])]_vars

\* A bus transaction returns the answer to its own command, though the answer
\* carries no number and all buses share one notification transfer, until a
\* transaction of the core has ended without its answer.
BusGetsOwnAnswer ==
    [][\A t \in BusUsers :
          ~missed[t] /\ pc[t] = "value" /\ pc'[t] = "idle" =>
              rbvalue[t] = Command(t, calls[t])]_vars

\* A reader is woken only after its own buffer was filled: it never returns
\* what happened to be on its stack.
WokenWithData ==
    [][\A t \in Readers :
          pc[t] = "wait" /\ pc'[t] = "idle" => odata[t] # None]_vars

\* No transfer is posted while it is still in use, for all that the callback
\* and the callers do.
TransferOwned ==
    /\ tr_regout_a = 1 => regout = None
    /\ tr_rb_a = 1 => rb = None

\* Every call returns: the semaphores of the transfers are always handed on, as
\* long as nothing fails.  (The threads make finitely many calls.)
EveryCallReturns ==
    <>[](faults > 0 \/ \A t \in Threads : pc[t] = "idle")

\* Every call returns, with data or with an error, in the time it was given
\* (the parameter timeout of io_write_fn and io_read_fn), whatever fails.
NoCallHangs ==
    \A t \in Threads : pc[t] # "idle" ~> pc[t] = "idle"

\* A transfer belongs to whoever took its semaphore.
TransfersSafe == TypeOK /\ TransferOwned

\* Register reads and bus transactions return their own answers, and never
\* data nobody wrote.
OwnAnswers == ReadGetsOwnAnswer /\ BusGetsOwnAnswer /\ WokenWithData
=============================================================================
