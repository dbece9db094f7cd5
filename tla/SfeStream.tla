----------------------------- MODULE SfeStream -----------------------------
(***************************************************************************)
(* The stream object of ipblks/streams/stream_sfetrx4_dma32.c: creation,   *)
(* commands, options, reception, synchronisation and destruction of the    *)
(* receive and the transmit stream of a device, over the registers of the  *)
(* DMA and the front end.  Every access may fail.  The transmit path is in *)
(* SfeTxSend, the arithmetic of the bursts in BurstCalc: here a stream has *)
(* a size, which the front end, the DMA and the transport are each told.   *)
(***************************************************************************)
EXTENDS Outcome

CONSTANTS SfeFaults, SfeCalls,   \* bounds on failed accesses and on calls
          SfePkts,               \* bound on the packets the front end starts
          SfeQueue,              \* packets the transport holds
          SfeCores               \* transmit front ends: "sfe", "exfe"

(* Bounds of the model.                                                    *)
ASSUME SfeAssumption == SfeFaults \in Nat /\ SfeCalls \in Nat

VARIABLE sfe

SfeSizes == {1, 2}
SfeNoRx == [made |-> FALSE, size |-> 0, ts |-> 0, rcnt |-> 0, drop |-> 0]
SfeNoTx == [made |-> FALSE, chans |-> 0, swap |-> FALSE, mute |-> {}]

(* fe and dma: the receive side; retimer: what starts the sample clock;    *)
(* txrun, txmute, txswap: the register at sync_base.  n packets were       *)
(* started, lost of them since the last one that is in queue.              *)
SfeFresh(core) ==
    [faults |-> SfeFaults, calls |-> SfeCalls, core |-> core, failed |-> FALSE, touched |-> FALSE,
     fe |-> "idle", fesize |-> 0, dma |-> FALSE, dmasize |-> 0, ready |-> FALSE, retimer |-> "stop",
     txrun |-> FALSE, txmute |-> {}, txswap |-> FALSE,
     ll |-> {}, llsize |-> 0, rx |-> SfeNoRx, tx |-> SfeNoTx,
     n |-> 0, lost |-> 0, queue |-> <<>>, out |-> [pk |-> 0, ts |-> 0]]

(* A failed access is remembered.                                          *)
SfeDo(s, us) == {[o EXCEPT !.s.failed = @ \/ ~o.ok] : o \in Run(s, us)}
-----------------------------------------------------------------------------
(* sfetrx4_stream_sync: what the retimer waits for.                        *)
SfeSyncCmd(s, type, strs) ==
    CASE type = "none" -> "free"
      [] type \in {"sysref", "1pps", "sysref+gen"} -> "pps"
      [] type = "rx" -> "adc"
      [] type = "tx" -> "dac"
      [] type = "any" -> "either"
      [] type = "all" -> CASE strs = {"rx", "tx"} -> "both"
                           [] strs = {"rx"} -> "adc"
                           [] strs = {"tx"} -> "dac"
                           [] OTHER -> "free"
      [] type = "off" -> "stop"

sfetrx4_stream_sync(s, type, strs) == SfeDo(s, <<[retimer |-> SfeSyncCmd(s, type, strs)]>>)

(* dma_rx32_reset: the state is read, then the DMA stopped and the front   *)
(* end reset.                                                              *)
dma_rx32_reset(s) == SfeDo(s, << <<>>, [dma |-> FALSE, fe |-> "reset"], <<>> >>)

(* The front end is given the size while it is in reset.                   *)
SfeRxConfigure(s, size) ==
    SfeDo(s, <<[fe |-> "reset"], [fesize |-> size], [fe |-> "idle"], <<>> >>)

dma_rx32_configure(s, size) == SfeDo(s, << [dmasize |-> size], <<>> >>)

SfeLlInit(s, u) == SfeDo(s, <<u>>)

(* A packet size or format the cores refuse is found after the reset.      *)
initialize_stream_rx_32(s, size) ==
    Then(dma_rx32_reset(s), LAMBDA t :
    Fail(t) \cup
    Then(SfeRxConfigure(t, size), LAMBDA u :
    Then(dma_rx32_configure(u, size), LAMBDA v :
    Then(sfetrx4_stream_sync(v, "off", {}), LAMBDA w :
    Then(SfeLlInit(w, [ll |-> w.ll \cup {"rx"}, llsize |-> size, queue |-> <<>>, n |-> 0, lost |-> 0]), LAMBDA x :
         Ok([x EXCEPT !.rx = [SfeNoRx EXCEPT !.made = TRUE, !.size = size]]))))))

(* The lane a single channel leaves unused.                                *)
SfeUnused(swap) == IF swap THEN {"a"} ELSE {"b"}

(* Shuffle registers of the extended core.                                 *)
exfe_trx4_update_chmap(s) == SfeDo(s, << <<>>, <<>>, <<>>, <<>> >>)

initialize_stream_tx_32(s, chans, swap) ==
    Then(IF s.core = "sfe" THEN Ok(s)
         ELSE Then(SfeDo(s, <<[txmute |-> {}], <<>>, <<>> >>), exfe_trx4_update_chmap), LAMBDA t :
    Then(sfetrx4_stream_sync(t, "off", {}), LAMBDA u :
    Then(SfeLlInit(u, [ll |-> u.ll \cup {"tx"}]), LAMBDA v :
         Ok([v EXCEPT !.touched = FALSE,
                      !.tx = [made |-> TRUE, chans |-> chans, swap |-> s.core = "sfe" /\ swap,
                              mute |-> IF s.core = "sfe" /\ chans = 1 THEN SfeUnused(swap) ELSE {}]]))))
-----------------------------------------------------------------------------
sfe_rx4_startstop(s, start) == SfeDo(s, <<[fe |-> IF start THEN "start" ELSE "stop"]>>)

(* Stopped first in any case; the flags go with the start.                 *)
sfe_tx4_ctl(s, start) ==
    SfeDo(s, <<[txrun |-> FALSE, txmute |-> {}, txswap |-> FALSE]>> \o
             IF start THEN << <<>>, [txrun |-> TRUE, txmute |-> s.tx.mute, txswap |-> s.tx.swap]>> ELSE <<>>)

sfe_tx4_upd(s) == SfeDo(s, <<[txmute |-> s.tx.mute, txswap |-> s.tx.swap]>>)

_sfetrx4_op(s, d, start) ==
    IF d = "tx" THEN sfe_tx4_ctl(s, start)
    ELSE Then(SfeDo(s, <<[dma |-> start]>>), LAMBDA t : sfe_rx4_startstop(t, start))

(* mutant: the lane a single channel moves to stays muted.                 *)
ChmapKeepsMute(s, swap) ==
    IF s.core = "exfe" THEN exfe_trx4_update_chmap(s) ELSE sfe_tx4_upd([s EXCEPT !.tx.swap = swap])

(* option "chmap" of the transmit stream: what is muted follows the lane,  *)
(* if anything is.                                                         *)
SfeChmap(s, swap) ==
    IF s.core = "exfe" THEN exfe_trx4_update_chmap(s)
    ELSE sfe_tx4_upd([s EXCEPT !.tx.swap = swap,
                               !.tx.mute = IF s.tx.chans = 1 /\ s.tx.mute # {} THEN SfeUnused(swap) ELSE @])

SfeMute(s, lanes) ==
    LET t == [s EXCEPT !.touched = TRUE]
    IN  IF s.core = "exfe" THEN SfeDo(t, <<[txmute |-> lanes]>>) ELSE sfe_tx4_upd([t EXCEPT !.tx.mute = lanes])

(* options "ready" and "throttle" of the receive stream                    *)
SfeReady(s) == SfeDo(s, <<[ready |-> TRUE]>>)
SfeThrottle(s) == SfeDo(s, << <<>> >>)

(* mutant: the packets lost are added after the time was given.            *)
TimeLate(s) ==
    LET p == Head(s.queue)
    IN  [s EXCEPT !.queue = Tail(@), !.out = [pk |-> p.pk, ts |-> s.rx.ts],
                  !.rx.rcnt = @ + 1, !.rx.drop = @ + p.lost, !.rx.ts = @ + s.rx.size * (p.lost + 1)]

(* A packet: the ones lost before it move the time on.                     *)
SfeTake(s) ==
    LET p == Head(s.queue)
        at == s.rx.ts + s.rx.size * p.lost
    IN  [s EXCEPT !.queue = Tail(@), !.out = [pk |-> p.pk, ts |-> at],
                  !.rx.rcnt = @ + 1, !.rx.drop = @ + p.lost, !.rx.ts = at + s.rx.size]

(* The first packet is preceded by a write that arms the DMA.  The release *)
(* of the buffer may fail when everything else was done.                   *)
_sfetrx4_stream_recv(s) ==
    Then(IF s.rx.rcnt = 0 THEN SfeReady(s) ELSE Ok(s), LAMBDA t :
    IF t.queue = <<>> THEN Fail(t) ELSE SfeDo(SfeTake(t), << <<>> >>))

(* mutant: the object is gone although its front end could not be stopped. *)
DestroyAnyway(s, d) ==
    Always(IF d = "tx" THEN sfe_tx4_ctl(s, FALSE) ELSE _sfetrx4_op(s, "rx", FALSE), LAMBDA t :
    Always(SfeDo(t, <<[ll |-> t.ll \ {d}]>>), LAMBDA u :
           Ok(IF d = "tx" THEN [u EXCEPT !.tx = SfeNoTx] ELSE [u EXCEPT !.rx = SfeNoRx])))

(* A stop that fails keeps the object; what the transport says does not.   *)
_sfetrx4_destroy(s, d) ==
    Then(IF d = "tx" THEN sfe_tx4_ctl(s, FALSE) ELSE _sfetrx4_op(s, "rx", FALSE), LAMBDA t :
    Finally(SfeDo(t, <<[ll |-> t.ll \ {d}]>>), LAMBDA u :
            Ok(IF d = "tx" THEN [u EXCEPT !.tx = SfeNoTx] ELSE [u EXCEPT !.rx = SfeNoRx])))
-----------------------------------------------------------------------------
(* The front end, external: it starts packets while it and the sample      *)
(* clock run, numbers them, and drops one the DMA has no room for.         *)
SfePacket ==
    /\ sfe.fe = "start" /\ sfe.dma /\ sfe.retimer # "stop" /\ sfe.n < SfePkts
    /\ \/ /\ Len(sfe.queue) < SfeQueue
          /\ sfe' = [sfe EXCEPT !.n = @ + 1, !.lost = 0, !.queue = Append(@, [pk |-> sfe.n, lost |-> sfe.lost])]
       \/ sfe' = [sfe EXCEPT !.n = @ + 1, !.lost = @ + 1]

SfeCall(S) == sfe.calls > 0 /\ \E o \in S : sfe' = [o.s EXCEPT !.calls = @ - 1]

(* The board drivers make one stream of a kind at a time.                  *)
SfeCreateRx == ~sfe.rx.made /\ \E n \in SfeSizes : SfeCall(initialize_stream_rx_32(sfe, n))
SfeCreateTx == ~sfe.tx.made /\ \E c \in 1..2, w \in BOOLEAN : SfeCall(initialize_stream_tx_32(sfe, c, w))
SfeMadeDirs == (IF sfe.rx.made THEN {"rx"} ELSE {}) \cup (IF sfe.tx.made THEN {"tx"} ELSE {})
SfeOp == \E d \in SfeMadeDirs, b \in BOOLEAN : SfeCall(_sfetrx4_op(sfe, d, b))
SfeDestroy == \E d \in SfeMadeDirs : SfeCall(_sfetrx4_destroy(sfe, d))
SfeSync == \E t \in {"off", "none", "1pps", "rx", "all"} : SfeCall(sfetrx4_stream_sync(sfe, t, SfeMadeDirs))
SfeRecv == sfe.rx.made /\ SfeCall(_sfetrx4_stream_recv(sfe))
SfeRxOption == sfe.rx.made /\ (SfeCall(SfeReady(sfe)) \/ SfeCall(SfeThrottle(sfe)))
SfeTxOption ==
    sfe.tx.made /\ \/ \E w \in BOOLEAN : SfeCall(SfeChmap(sfe, w))
                   \/ \E l \in SUBSET {"a", "b"} : SfeCall(SfeMute(sfe, l))

SfeInit == \E c \in SfeCores : sfe = SfeFresh(c)

SfeNext ==
    SfePacket \/ SfeCreateRx \/ SfeCreateTx \/ SfeOp \/ SfeDestroy \/ SfeSync \/ SfeRecv \/ SfeRxOption \/ SfeTxOption

SfeSpec == SfeInit /\ [][SfeNext]_sfe
-----------------------------------------------------------------------------
(* A receive front end that runs, and a DMA that runs, belong to a stream, *)
(* and front end, DMA and transport were told the same packet size,        *)
(* whatever failed before and however often streams were made.             *)
SfeOwned ==
    sfe.fe = "start" \/ sfe.dma =>
        sfe.rx.made /\ {sfe.fesize, sfe.dmasize, sfe.llsize} = {sfe.rx.size}

(* A single channel on the simple core transmits on its own lane only: the *)
(* other one is muted through every change of the map, unless the user     *)
(* said what is to be muted.  Without failed writes the register is what   *)
(* the host believes ("keep OLD TX FE in sync with host state").           *)
SfeTxLanes ==
    sfe.txrun /\ sfe.tx.made /\ sfe.core = "sfe" =>
        /\ sfe.tx.chans = 1 /\ ~sfe.touched => sfe.txmute = SfeUnused(sfe.txswap)
        /\ ~sfe.failed => sfe.txmute = sfe.tx.mute /\ sfe.txswap = sfe.tx.swap

(* The time given with a packet is that of the packet, however many were   *)
(* lost before it, over stops, starts and failed calls.                    *)
SfeTimes == sfe.rx.rcnt > 0 => sfe.out.ts = sfe.rx.size * sfe.out.pk

(* Stream objects and cores agree: who runs, which lanes transmit, and at  *)
(* which time a packet was received.                                       *)
SfeConsistent == SfeOwned /\ SfeTxLanes /\ SfeTimes
=============================================================================
