------------------------------- MODULE FtCtrl -------------------------------
(***************************************************************************)
(* Command and reply over the FT601 bridge (lowlevel/usb_ft601):           *)
(* usbft601_ctrl_transfer of usb_ft601_generic.c over the libusb transfers *)
(* and semaphores of usb_ft601_libusb.c, with the packets of               *)
(* ipblks/lms64c_proto.c.                                                  *)
(*                                                                         *)
(* Callers are threads.  The packet is written into the one command buffer *)
(* before the semaphore is taken; the transfer takes it from there when    *)
(* the device accepts it.  The reply is announced by a second semaphore,   *)
(* posted by the event thread.  A command is named by the number of its    *)
(* call; numbers only serve to tell calls apart.                           *)
(***************************************************************************)
EXTENDS Naturals, Sequences, FiniteSets

CONSTANTS FtThreads,  \* callers
          FtOps,      \* bound: calls made
          FtErrors    \* bound: failed transfers and waits that time out

ASSUME FtAssumption == FtOps \in Nat /\ FtErrors \in Nat

VARIABLE ft

(* usbft601_uram_async_start: both semaphores and the two transfers.       *)
usbft601_uram_async_start ==
    [ops |-> 0, errs |-> FtErrors, out |-> 0, in |-> 0, sem |-> 1, rb |-> 0,
     outbusy |-> FALSE, inbusy |-> FALSE, dev |-> <<>>,
     pc |-> [t \in FtThreads |-> "idle"], cmd |-> [t \in FtThreads |-> 0],
     got |-> [t \in FtThreads |-> <<>>], clean |-> TRUE]

FtInit == ft = usbft601_uram_async_start

FtHolds(s) == {t \in FtThreads : s.pc[t] \in {"out", "wait", "parse"}}
FtAt(t, l) == ft.pc[t] = l
FtErr(s) == [s EXCEPT !.errs = @ - 1, !.clean = FALSE]
FtEnd(s, t) == [s EXCEPT !.pc[t] = "idle", !.cmd[t] = 0]
FtPost(s, t) == FtEnd([s EXCEPT !.sem = @ + 1], t)      \* io_lock_post, return
-----------------------------------------------------------------------------
(* lms64c_fill_packet into data_ctrl_out.  A packet written while another  *)
(* call is under way may still be overwritten or sent in its place: clean  *)
(* is FALSE from then on.                                                  *)
FtFill(t) ==
    /\ FtAt(t, "idle") /\ ft.ops < FtOps
    /\ ft' = [ft EXCEPT !.ops = @ + 1, !.out = ft.ops + 1, !.cmd[t] = ft.ops + 1, !.got[t] = <<>>,
                        !.pc[t] = "filled", !.clean = @ /\ \A u \in FtThreads : FtAt(u, "idle")]

(* mutant: the lock is given back on the way in as well.                   *)
OutPktPosts(t) ==
    /\ FtAt(t, "filled") /\ ft.sem > 0
    /\ IF ft.outbusy THEN ft' = FtEnd(ft, t)
       ELSE ft' = [ft EXCEPT !.outbusy = TRUE, !.pc[t] = "out"]

(* usbft601_uram_ctrl_out_pkt: a transfer still in flight cannot be        *)
(* submitted again.                                                        *)
usbft601_uram_ctrl_out_pkt(t) ==
    /\ FtAt(t, "filled") /\ ft.sem > 0
    /\ IF ft.outbusy THEN ft' = FtEnd(ft, t)
       ELSE ft' = [ft EXCEPT !.sem = @ - 1, !.outbusy = TRUE, !.pc[t] = "out"]

(* The wait for the semaphore times out, or the submission fails.          *)
FtOutFails(t) == FtAt(t, "filled") /\ ft.errs > 0 /\ ft' = FtErr(FtEnd(ft, t))

usbft601_uram_ctrl_in_pkt(t) ==
    /\ FtAt(t, "out")
    /\ IF ft.inbusy THEN ft' = FtPost(ft, t)
       ELSE ft' = [ft EXCEPT !.inbusy = TRUE, !.pc[t] = "wait"]

FtInFails(t) == FtAt(t, "out") /\ ft.errs > 0 /\ ft' = FtErr(FtPost(ft, t))

(* mutant: the reply is not waited for.                                    *)
WaitSkipped(t) == FtAt(t, "wait") /\ ft' = [ft EXCEPT !.pc[t] = "parse"]

usbft601_sem_ctrl_rb_wait(t) ==
    FtAt(t, "wait") /\ ft.rb > 0 /\ ft' = [ft EXCEPT !.rb = @ - 1, !.pc[t] = "parse"]

(* The wait gives up; command and readback stay in flight.                 *)
FtWaitFails(t) == FtAt(t, "wait") /\ ft.errs > 0 /\ ft' = FtErr(FtPost(ft, t))

(* lms64c_parse_packet does not compare the command of the reply.          *)
FtParse(t) == FtAt(t, "parse") /\ ft' = [FtPost(ft, t) EXCEPT !.got[t] = <<ft.cmd[t], ft.in>>]
-----------------------------------------------------------------------------
(* The event thread and the device.  libusb_transfer_ctrl_out_pkt posts    *)
(* nothing; libusb_transfer_ctrl_rb posts when the transfer completed.     *)
libusb_transfer_ctrl_out_pkt ==
    /\ ft.outbusy
    /\ \/ ft' = [ft EXCEPT !.outbusy = FALSE, !.dev = Append(@, ft.out)]
       \/ ft.errs > 0 /\ ft' = FtErr([ft EXCEPT !.outbusy = FALSE])

libusb_transfer_ctrl_rb ==
    /\ ft.inbusy
    /\ \/ /\ ft.dev # <<>>
          /\ ft' = [ft EXCEPT !.inbusy = FALSE, !.in = Head(ft.dev), !.dev = Tail(@), !.rb = @ + 1]
       \/ ft.errs > 0 /\ ft' = FtErr([ft EXCEPT !.inbusy = FALSE])

FtNext ==
    \/ \E t \in FtThreads :
         \/ FtFill(t) \/ usbft601_uram_ctrl_out_pkt(t) \/ FtOutFails(t)
         \/ usbft601_uram_ctrl_in_pkt(t) \/ FtInFails(t)
         \/ usbft601_sem_ctrl_rb_wait(t) \/ FtWaitFails(t) \/ FtParse(t)
    \/ libusb_transfer_ctrl_out_pkt \/ libusb_transfer_ctrl_rb

FtSpec == FtInit /\ [][FtNext]_ft
-----------------------------------------------------------------------------
(* The lock is given back once on every way out of a transfer, so that one *)
(* call at a time uses the readback buffer: no sequence of failed          *)
(* submissions, lost transfers and waits that gave up leaves it taken or   *)
(* lets two callers in.                                                    *)
FtOneCaller == ft.sem + Cardinality(FtHolds(ft)) = 1

(* A call that succeeds has the reply to its own command, as long as       *)
(* nothing failed before it and no other call began while one was under    *)
(* way.                                                                    *)
FtOwnReply == ft.clean => \A t \in FtThreads : ft.got[t] # <<>> => ft.got[t][1] = ft.got[t][2]

(* Control exchanges exclude one another and get their own replies.        *)
FtExchanges == FtOneCaller /\ FtOwnReply
=============================================================================
