------------------------------ MODULE DmCreate ------------------------------
(***************************************************************************)
(* The streaming tool usdr_dm_create: the main thread that opens a device, *)
(* starts its streams, moves blocks between them and the ring buffers of   *)
(* the channels, and the threads that move blocks between those and files. *)
(*                                                                         *)
(* A ring buffer is the FIFO that RingBuffer implements.  A block of the   *)
(* transmit side is a record [at, len, last]: where in its file it starts, *)
(* its samples, and the end-of-file or error mark of its header.  A block  *)
(* of the receive side is its number.                                      *)
(***************************************************************************)
EXTENDS Outcome

CONSTANTS AppFaults,   \* bound on failed calls of the library, reads and writes
          AppChans,    \* channels of a stream
          AppItems,    \* slots of a ring buffer (256 in the code)
          AppBlk,      \* samples of a block
          AppFile,     \* samples of the file of each channel
          AppCount     \* -c

(* There are channels, blocks and slots, and no file is empty.             *)
ASSUME AppAssumption ==
    /\ AppChans \in Nat \ {0} /\ AppItems \in Nat \ {0} /\ AppBlk \in Nat \ {0}
    /\ AppFile \in [1..AppChans -> Nat \ {0}]
    /\ AppFaults \in Nat /\ AppCount \in Nat

VARIABLE app

AppCh == 1..AppChans

(* The options that steer the program: receive, transmit, transmit from    *)
(* files, cycle through them, end on an error.                             *)
AppOpts == {[rx |-> r, tx |-> t, file |-> f, cycle |-> c, soe |-> e] :
              r \in BOOLEAN, t \in BOOLEAN, f \in BOOLEAN, c \in BOOLEAN, e \in BOOLEAN}
AppOptsOk(o) == (o.rx \/ o.tx) /\ (o.file => o.tx) /\ (o.cycle => o.file)

AppFresh(o) ==
    [opt |-> o, faults |-> AppFaults, pc |-> "open", dev |-> FALSE, st |-> [d \in {"rx", "tx"} |-> "none"],
     strms |-> FALSE, thr |-> [d \in {"rx", "tx"} |-> [b \in AppCh |-> "no"]],
     tbuf |-> [b \in AppCh |-> <<>>], rbuf |-> [b \in AppCh |-> <<>>],
     fp |-> [b \in AppCh |-> 0], at |-> [b \in AppCh |-> 0], torn |-> FALSE, stale |-> FALSE, stm |-> AppBlk, sent |-> 0,
     got |-> 0, out |-> [b \in AppCh |-> 0], gap |-> FALSE,
     i |-> 0, tstop |-> FALSE, stop |-> FALSE, sig |-> FALSE]

AppGo(s, pc) == Ok([s EXCEPT !.pc = pc])

(* A step whose failure is only logged unless the program is to end on it. *)
AppStep(s, S, pc) ==
    UNION {AppGo(o.s, IF o.ok \/ ~s.opt.soe THEN pc ELSE "close") : o \in S}
(* A step whose failure always ends the program.                           *)
AppMust(S, pc) == UNION {AppGo(o.s, IF o.ok THEN pc ELSE "close") : o \in S}
-----------------------------------------------------------------------------
(* A device that cannot be opened ends the program at once; so does an     *)
(* extra parameter that is refused, with the device open.                  *)
AppOpen(s) ==
    UNION {IF ~o.ok THEN AppGo(o.s, "exit")
           ELSE UNION {AppGo(p.s, IF p.ok \/ ~s.opt.soe THEN "rate" ELSE "exit") : p \in Io(o.s, o.s)}
           : o \in Io(s, [s EXCEPT !.dev = TRUE])}

(* The reference clock, whose failures are logged, and the sample rate.    *)
AppRate(s) == AppStep(s, Then(Ignore(Io(s, s)), LAMBDA t : Io(t, t)), "openrx")

(* A stream that cannot be created ends the program: with stop_on_error at *)
(* once, without it because the result stays set for the test after        *)
(* usdr_dms_info.                                                          *)
AppOpenStream(s, d, pc) ==
    IF ~s.opt[d] THEN AppGo(s, pc)
    ELSE AppMust(Then(Io(s, [s EXCEPT !.st[d] = "open"]), LAMBDA t : Io(t, t)), pc)

AppOpenRx(s) == AppOpenStream(s, "rx", "opentx")
AppOpenTx(s) == AppOpenStream(s, "tx", "threadtx")

(* The files of the channels but the first, where a failure is a return    *)
(* with the device open; then the threads in order, where one that cannot  *)
(* be started leaves those before it running.                              *)
AppThreads(s, d, pc) ==
    IF ~s.opt[d] THEN AppGo(s, pc)
    ELSE (IF AppChans = 1 \/ (d = "tx" /\ ~s.opt.file) THEN {} ELSE Always(Faulty(s), LAMBDA t : AppGo(t, "exit")))
         \cup AppMust(ForEach(s, [b \in AppCh |-> b], LAMBDA t, b : Io(t, [t EXCEPT !.thr[d][b] = "top"])), pc)

AppTxThreads(s) == AppThreads(s, "tx", "threadrx")
AppRxThreads(s) == AppThreads(s, "rx", "off")

(* The signal handler is installed and the handles are put in strms, which *)
(* the end of main destroys; then the clock is stopped.                    *)
AppSyncOff(s) ==
    LET t == [s EXCEPT !.strms = TRUE, !.sig = TRUE] IN AppStep(s, Io(t, t), "startrx")

AppStart(s, d, pc) ==
    IF ~s.opt[d] THEN AppGo(s, pc) ELSE AppStep(s, Io(s, [s EXCEPT !.st[d] = "run"]), pc)

AppStartRx(s) == AppStart(s, "rx", "starttx")
AppStartTx(s) == AppStart(s, "tx", "sync")

AppSync(s) == AppStep(s, Io(s, s), "params")
AppParams(s) == AppStep(s, Io(s, s), "loop")
-----------------------------------------------------------------------------
(* mutant: the samples of the first channel.                               *)
FirstLen(s) == Head(s.tbuf[1]).len

(* do_transmit: the first block of every channel; the shortest one tells   *)
(* how many samples are sent.                                              *)
AppLen(s) == CHOOSE n \in {Head(s.tbuf[b]).len : b \in AppCh} : \A b \in AppCh : n <= Head(s.tbuf[b]).len

do_transmit(s) ==
    LET n == AppLen(s)
        H(b) == Head(s.tbuf[b])
        t == [s EXCEPT !.stm = @ + n, !.sent = @ + n,
                       !.torn = @ \/ (n > 0 /\ \E b \in AppCh : H(b).at # s.at[b] \/ H(b).len < n),
                       !.at = [b \in AppCh |-> (@[b] + n) % AppFile[b]],
                       !.tbuf = [b \in AppCh |-> Tail(@[b])]]
    IN  Then(IF n = 0 THEN Ok(s) ELSE Io(s, s), LAMBDA u :
             IF \E b \in AppCh : H(b).last THEN Fail([t EXCEPT !.faults = u.faults])
             ELSE Ok([t EXCEPT !.faults = u.faults]))

(* do_receive: a slot of every channel, one packet into all, posted.       *)
do_receive(s) ==
    Io(s, [s EXCEPT !.got = @ + 1, !.rbuf = [b \in AppCh |-> Append(@[b], s.got + 1)]])

AppReady(s, d) == \A b \in AppCh : IF d = "tx" THEN s.tbuf[b] # <<>> ELSE Len(s.rbuf[b]) < AppItems
AppGone(s, d) == \E b \in AppCh : s.thr[d][b] = "end" /\ (IF d = "tx" THEN s.tbuf[b] = <<>> ELSE Len(s.rbuf[b]) = AppItems)

(* A wait that times out, here one for a thread that has ended, is only    *)
(* logged: the last slot of the ring is used, which holds an old block or  *)
(* one not yet written, and the round goes on.                             *)
AppStale(s, pc) == UNION {AppGo([o.s EXCEPT !.stale = TRUE], pc) : o \in Io(s, s)}

(* One round of the loop: transmit, then receive; a failure of either ends *)
(* it with the streams to be stopped.                                      *)
AppLoop(s) == AppGo(s, IF s.stop \/ s.i >= AppCount THEN "stoprx" ELSE "send")
AppSend(s) ==
    IF ~s.opt.tx THEN AppGo(s, "recv")
    ELSE IF AppReady(s, "tx") THEN UNION {AppGo(o.s, IF o.ok THEN "recv" ELSE "stoprx") : o \in do_transmit(s)}
    ELSE AppStale(s, "recv")
AppRecv(s) ==
    LET t == [s EXCEPT !.i = @ + 1]
    IN  IF ~s.opt.rx THEN AppGo(t, "loop")
        ELSE IF AppReady(s, "rx") THEN UNION {AppGo(o.s, IF o.ok THEN "loop" ELSE "stoprx") : o \in do_receive(t)}
        ELSE AppStale(t, "loop")
AppMaySend(s, d) == s.opt[d] => AppReady(s, d) \/ AppGone(s, d)

(* mutant: the threads are joined before they are told to stop.            *)
JoinFirst(s) == AppMust(Io(s, s), "join")

(* A stream that cannot be stopped ends the program without stopping the   *)
(* threads.                                                                *)
AppStop(s, d, pc) == IF ~s.opt[d] THEN AppGo(s, pc) ELSE AppMust(Io(s, [s EXCEPT !.st[d] = "open"]), pc)
AppStopThreads(s) == LET t == [s EXCEPT !.tstop = TRUE] IN AppMust(Io(t, t), "join")
AppJoined(s) == \A d \in {"rx", "tx"}, b \in AppCh : s.thr[d][b] \in {"no", "end"}

(* dev_close: the streams in strms are destroyed, the device closed.       *)
AppClose(s) ==
    LET t == IF s.strms THEN [s EXCEPT !.st = [d \in {"rx", "tx"} |-> "none"]] ELSE s
    IN  AppGo([t EXCEPT !.dev = FALSE], "exit")
-----------------------------------------------------------------------------
(* A block of a generator: the samples that follow those of the last one.  *)
AppGenerate(s, b) == [at |-> s.fp[b], len |-> AppBlk, last |-> FALSE, fp |-> (s.fp[b] + AppBlk) % AppFile[b]]

(* A block of disk_read_thread: the samples from fp on.  A read that comes *)
(* to the end of the file marks the block, or starts over (cycle); when it *)
(* got nothing, it reads again from the start.                             *)
AppFill(s, b) ==
    LET left == AppFile[b] - s.fp[b]
        n == IF left < AppBlk THEN left ELSE AppBlk
        again == IF AppFile[b] < AppBlk THEN AppFile[b] ELSE AppBlk
        eof == n < AppBlk
    IN  IF ~s.opt.file THEN AppGenerate(s, b)
        ELSE IF n = 0 /\ s.opt.cycle THEN [at |-> 0, len |-> again, last |-> again = 0, fp |-> again]
        ELSE [at |-> s.fp[b], len |-> n, last |-> eof /\ ~s.opt.cycle,
              fp |-> IF eof /\ s.opt.cycle THEN 0 ELSE s.fp[b] + n]

AppPut(s, b, blk, end) ==
    [s EXCEPT !.tbuf[b] = Append(@, [at |-> blk.at, len |-> blk.len, last |-> blk.last]),
              !.fp[b] = blk.fp, !.thr.tx[b] = IF end THEN "end" ELSE "top"]

(* A read that fails has its samples so far sent as the last.              *)
AppCutBlock(blk, n) == [at |-> blk.at, len |-> n, last |-> TRUE, fp |-> blk.fp]

disk_read_thread(s, b) ==
    LET blk == AppFill(s, b)
    IN  {AppPut(s, b, blk, blk.last)}
        \cup (IF ~s.opt.file THEN {}
              ELSE UNION {{AppPut(o.s, b, AppCutBlock(blk, n), TRUE) : n \in 0..blk.len} : o \in Faulty(s)})

(* mutant: a block that cannot be written is given back.                   *)
WriterSkips(s, b) ==
    LET k == Head(s.rbuf[b])
        t == [s EXCEPT !.rbuf[b] = Tail(@), !.thr.rx[b] = "top",
                       !.gap = @ \/ k # s.out[b] + 1, !.out[b] = k]
    IN  {t} \cup {[o.s EXCEPT !.rbuf[b] = Tail(@), !.thr.rx[b] = "top"] : o \in Faulty(s)}

(* disk_write_thread: a block that cannot be written ends the thread.      *)
disk_write_thread(s, b) ==
    LET k == Head(s.rbuf[b])
        t == [s EXCEPT !.rbuf[b] = Tail(@), !.thr.rx[b] = "top",
                       !.gap = @ \/ k # s.out[b] + 1, !.out[b] = k]
    IN  {t} \cup {[o.s EXCEPT !.thr.rx[b] = "end"] : o \in Faulty(s)}
-----------------------------------------------------------------------------
AppDo(S) == \E o \in S : app' = o.s
AppPc(pc) == app.pc = pc

AppMain ==
    \/ AppPc("open") /\ AppDo(AppOpen(app))
    \/ AppPc("rate") /\ AppDo(AppRate(app))
    \/ AppPc("openrx") /\ AppDo(AppOpenRx(app))
    \/ AppPc("opentx") /\ AppDo(AppOpenTx(app))
    \/ AppPc("threadtx") /\ AppDo(AppTxThreads(app))
    \/ AppPc("threadrx") /\ AppDo(AppRxThreads(app))
    \/ AppPc("off") /\ AppDo(AppSyncOff(app))
    \/ AppPc("startrx") /\ AppDo(AppStartRx(app))
    \/ AppPc("starttx") /\ AppDo(AppStartTx(app))
    \/ AppPc("sync") /\ AppDo(AppSync(app))
    \/ AppPc("params") /\ AppDo(AppParams(app))
    \/ AppPc("loop") /\ AppDo(AppLoop(app))
    \/ AppPc("send") /\ AppMaySend(app, "tx") /\ AppDo(AppSend(app))
    \/ AppPc("recv") /\ AppMaySend(app, "rx") /\ AppDo(AppRecv(app))
    \/ AppPc("stoprx") /\ AppDo(AppStop(app, "rx", "stoptx"))
    \/ AppPc("stoptx") /\ AppDo(AppStop(app, "tx", "tstop"))
    \/ AppPc("tstop") /\ AppDo(AppStopThreads(app))
    \/ AppPc("join") /\ AppJoined(app) /\ AppDo(AppGo(app, "close"))
    \/ AppPc("close") /\ AppDo(AppClose(app))

(* The loop of a thread: the flags are looked at, then the ring is waited  *)
(* for and the block moved, or the wait times out.                         *)
AppAlive == app.pc # "exit"
AppLook(d, b) ==
    /\ AppAlive /\ app.thr[d][b] = "top"
    /\ app' = [app EXCEPT !.thr[d][b] = IF app.stop \/ app.tstop THEN "end" ELSE "wait"]
AppWaitTimedOut(d, b) ==
    /\ AppAlive /\ app.thr[d][b] = "wait"
    /\ IF d = "rx" THEN app.rbuf[b] = <<>> ELSE Len(app.tbuf[b]) = AppItems
    /\ app' = [app EXCEPT !.thr[d][b] = "top"]
AppRead(b) == AppAlive /\ app.thr.tx[b] = "wait" /\ Len(app.tbuf[b]) < AppItems /\ app' \in disk_read_thread(app, b)
AppWrite(b) == AppAlive /\ app.thr.rx[b] = "wait" /\ app.rbuf[b] # <<>> /\ app' \in disk_write_thread(app, b)
AppThread(d, b) == \/ AppLook(d, b) \/ AppWaitTimedOut(d, b)
                   \/ d = "tx" /\ AppRead(b)
                   \/ d = "rx" /\ AppWrite(b)

on_stop == AppAlive /\ app.sig /\ ~app.stop /\ app' = [app EXCEPT !.stop = TRUE]

AppInit == \E o \in AppOpts : AppOptsOk(o) /\ app = AppFresh(o)
AppNext == \/ AppMain \/ on_stop
           \/ \E d \in {"rx", "tx"}, b \in AppCh : AppThread(d, b)
(* The kernel runs every thread that can run.                              *)
AppFair == /\ WF_app(AppMain)
           /\ \A d \in {"rx", "tx"}, b \in AppCh : WF_app(AppThread(d, b))
AppSpec == AppInit /\ [][AppNext]_app /\ AppFair
-----------------------------------------------------------------------------
(* What is sent on every channel is its file from the start, without a     *)
(* hole or a repetition, and at the time of its place in it, whatever the  *)
(* lengths of the files, unless files of several channels are cycled       *)
(* through or a wait timed out.                                            *)
AppSendsFile ==
    /\ app.torn => app.stale \/ (app.opt.cycle /\ AppChans > 1)
    /\ app.stm = AppBlk + app.sent

(* What is written to a file is what was received, in order, up to some    *)
(* block: the program may end with the blocks of a ring unwritten.         *)
AppWritesReceived ==
    /\ ~app.gap
    /\ app.stale \/ \A b \in AppCh : app.out[b] + Len(app.rbuf[b]) = app.got

(* A program that began ends: no thread waits for one that waits, whichever*)
(* call failed, file ended or signal came, and whichever thread it hits.   *)
AppEnds == app.pc # "open" ~> app.pc = "exit"

(* Files are sent and written as they are and as they come.                *)
AppData == AppSendsFile /\ AppWritesReceived
=============================================================================
