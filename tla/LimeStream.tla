----------------------------- MODULE LimeStream -----------------------------
(***************************************************************************)
(* The stream object of the LimeSDR (ipblks/streams/stream_limesdr.c).     *)
(*                                                                         *)
(* The device sends buffers of LimeBursts bursts of LimeBurst samples, a   *)
(* timestamp in front of each burst; bursts are lost when the host is      *)
(* late.  recv cuts them into packets of LimePkt samples: samples lost     *)
(* inside a packet are replaced by zeros, whole packets of them are        *)
(* counted as overruns.  A recv is a sequence of steps here, one for each  *)
(* pass of its inner loop, so that a burst may end anywhere in a packet.   *)
(*                                                                         *)
(* Time is counted modulo LimeTime, as the code counts modulo 2^64 (which  *)
(* matters when the device restarts its clock and a difference of times is *)
(* negative).  A sample is named by its time; over counts the overruns     *)
(* since the packet before.                                                *)
(***************************************************************************)
EXTENDS Naturals, Sequences, TLC

CONSTANTS LimeBurst,    \* burst_symbs = block_samples
          LimeBursts,   \* burst_count
          LimePkt,      \* host_pkt_symbs
          LimeTime,     \* stands for 2^64
          LimeBufs,     \* bound: buffers the device sends
          LimeLoss,     \* bound: bursts lost in a row
          LimeRestarts, \* bound: times the device restarts its clock
          LimeSends,    \* sample counts passed to send
          LimeTxRound   \* tx_sampl_c: send takes multiples of it

ASSUME LimeAssumption ==
    /\ {LimeBurst, LimeBursts, LimePkt, LimeTime, LimeTxRound} \subseteq Nat \ {0}
    /\ {LimeBufs, LimeLoss, LimeRestarts} \subseteq Nat
    /\ LimeSends \subseteq Nat

VARIABLE lrx

LimeNone == LimeTime                    \* ~0ULL, which is no time of a burst
LimeZero == LimeTime                    \* a sample filled in
LimeSub(a, b) == (a + LimeTime - (b % LimeTime)) % LimeTime
LimeAdd(a, b) == (a + b) % LimeTime
LimeMin(a, b) == IF a < b THEN a ELSE b
LimeFill(n) == [i \in 1..n |-> LimeZero]

(* create_limesdr_stream: the packets of the host and the bursts of the    *)
(* device are independent; sparams.block_size holds the bursts with their  *)
(* headers, here the unit is a sample and a header is worth one.           *)
LimeBlock == LimeBursts * (LimeBurst + 1)

create_limesdr_stream ==
    [pc |-> "idle", dma |-> <<>>, cons |-> 0, hdr |-> FALSE, prev |-> LimeNone, lag |-> 0, over |-> 0,
     host |-> <<>>, fsym |-> LimeNone,
     hwt |-> 0, bufs |-> LimeBufs, restarts |-> LimeRestarts,
     last |-> LimeNone, due |-> LimeNone, since |-> 0, tx |-> [sent |-> FALSE, blocks |-> <<>>]]

LimeInit == lrx = create_limesdr_stream
-----------------------------------------------------------------------------
(* The device: the times of the bursts of its next buffer, l[i] bursts     *)
(* lost in it before burst i; external.                                    *)
LimeLosses ==
    {l \in [1..LimeBursts -> 0..(LimeBursts * LimeLoss)] :
        \A i \in 1..LimeBursts : LET p == IF i = 1 THEN 0 ELSE l[i - 1] IN l[i] \in p..(p + LimeLoss)}
LimeBuffer(t, l) == [i \in 1..LimeBursts |-> LimeAdd(t, LimeBurst * (i - 1 + l[i]))]

(* limesdr_reset_timestamp under a stream that is open.                    *)
LimeRestart ==
    /\ lrx.restarts > 0
    /\ lrx' = [lrx EXCEPT !.hwt = 0, !.restarts = @ - 1, !.due = LimeNone]
-----------------------------------------------------------------------------
(* _limestr_stream_recv: an outstanding buffer is gone on with, otherwise  *)
(* one is waited for.                                                      *)
LimeRecv ==
    /\ lrx.pc = "idle"
    /\ lrx' = [lrx EXCEPT !.pc = IF lrx.dma # <<>> THEN "burst" ELSE "wait", !.host = <<>>, !.fsym = LimeNone]

LimeWait ==
    /\ lrx.pc = "wait" /\ lrx.bufs > 0
    /\ \E l \in LimeLosses :
         LET b == LimeBuffer(lrx.hwt, l)
         IN  lrx' = [lrx EXCEPT !.pc = "burst", !.dma = b, !.cons = 0, !.hdr = FALSE, !.bufs = @ - 1,
                                !.hwt = LimeAdd(b[LimeBursts], LimeBurst)]

(* recv_dma_wait fails: the part of a packet already converted is dropped  *)
(* with the call.                                                          *)
LimeTimeout ==
    /\ lrx.pc = "wait"
    /\ lrx' = [lrx EXCEPT !.pc = "idle", !.due = LimeNone]

(* The header of a burst, once for each burst: the time missing since the  *)
(* burst before.                                                           *)
LimeHeader(s) ==
    LET t == s.dma[s.cons \div LimeBurst + 1]
    IN  IF s.hdr THEN s
        ELSE [s EXCEPT !.hdr = TRUE, !.prev = t,
                       !.lag = IF s.prev = LimeNone THEN 0 ELSE LimeSub(t, LimeAdd(s.prev, LimeBurst))]

(* mutant: the rest of a lag is forgotten at the end of a packet.          *)
LagForgotten(s) ==
    LET n == LimeMin(s.lag, LimePkt - Len(s.host))
        r == s.lag % LimePkt
    IN  IF s.lag = 0 THEN s
        ELSE IF s.host = <<>>
        THEN [s EXCEPT !.over = @ + s.lag \div LimePkt, !.fsym = LimeSub(s.prev, r), !.host = LimeFill(r), !.lag = 0]
        ELSE [s EXCEPT !.host = @ \o LimeFill(n), !.lag = 0]

(* Zeros for what is missing: at the start of a packet only the part that  *)
(* does not fill whole packets, later up to the end of the packet.         *)
LimeLag(s) ==
    LET n == LimeMin(s.lag, LimePkt - Len(s.host))
        r == s.lag % LimePkt
    IN  IF s.lag = 0 THEN s
        ELSE IF s.host = <<>>
        THEN [s EXCEPT !.over = @ + s.lag \div LimePkt, !.fsym = LimeSub(s.prev, r), !.host = LimeFill(r), !.lag = 0]
        ELSE [s EXCEPT !.host = @ \o LimeFill(n), !.lag = @ - n]

(* mutant: a packet that starts inside a burst gets the time of the burst. *)
CopyBurstTime(s) ==
    LET off == s.cons % LimeBurst
        n   == LimeMin(LimePkt - Len(s.host), LimeBurst - off)
    IN  IF n = 0 THEN s
        ELSE [s EXCEPT !.fsym = IF s.host = <<>> THEN s.prev ELSE @,
                       !.host = @ \o [i \in 1..n |-> LimeAdd(s.prev, off + i - 1)],
                       !.cons = @ + n, !.hdr = off + n # LimeBurst]

(* Samples of the burst copied to the host, as many as both sides allow.   *)
LimeCopy(s) ==
    LET off == s.cons % LimeBurst
        n   == LimeMin(LimePkt - Len(s.host), LimeBurst - off)
    IN  IF n = 0 THEN s
        ELSE [s EXCEPT !.fsym = IF s.host = <<>> THEN LimeAdd(s.prev, off) ELSE @,
                       !.host = @ \o [i \in 1..n |-> LimeAdd(s.prev, off + i - 1)],
                       !.cons = @ + n, !.hdr = off + n # LimeBurst]

(* recv_dma_release when the buffer is used up; the packet is returned     *)
(* when it is full.                                                        *)
LimeLoopEnd(s) ==
    LET done == s.cons = LimeBurst * LimeBursts
        full == Len(s.host) = LimePkt
        t    == IF done THEN [s EXCEPT !.dma = <<>>, !.cons = 0] ELSE s
    IN  IF ~full THEN [t EXCEPT !.pc = IF done THEN "wait" ELSE "burst"]
        ELSE [t EXCEPT !.pc = "idle", !.last = s.fsym, !.over = 0,
                       !.due = LimeAdd(s.fsym, LimePkt),
                       !.since = s.over]

LimeBurstStep ==
    /\ lrx.pc = "burst"
    /\ lrx' = LimeLoopEnd(LimeCopy(LimeLag(LimeHeader(lrx))))
-----------------------------------------------------------------------------
(* _limestr_stream_send: the packet as blocks of a burst each with its     *)
(* time; the last one may be shorter.  A count that is too large or not    *)
(* round is refused.                                                       *)
LimeBlocks(n, t) ==
    [i \in 1..((n + LimeBurst - 1) \div LimeBurst) |->
        [time |-> LimeAdd(t, (i - 1) * LimeBurst), smpls |-> LimeMin(LimeBurst, n - (i - 1) * LimeBurst)]]

LimeSend ==
    \E n \in LimeSends, t \in {0, LimeTime - 1} :
        /\ n <= LimeBursts * LimeBurst /\ n % LimeTxRound = 0
        /\ lrx.pc = "idle"
        /\ lrx' = [lrx EXCEPT !.tx = [sent |-> TRUE, blocks |-> LimeBlocks(n, t), n |-> n, time |-> t]]

LimeNext == LimeRestart \/ LimeRecv \/ LimeWait \/ LimeTimeout \/ LimeBurstStep \/ LimeSend

LimeSpec == LimeInit /\ [][LimeNext]_lrx
-----------------------------------------------------------------------------
(* Every sample handed to the host stands at the place its time says,      *)
(* counted from the time reported for the first one: wherever bursts end,  *)
(* are lost, or the clock of the device restarts in the middle of a        *)
(* packet.  A packet is never longer than the host's buffer.               *)
LimeSamplesTimed ==
    /\ Len(lrx.host) <= LimePkt
    /\ \A k \in 1..Len(lrx.host) : lrx.host[k] \in {LimeZero, LimeAdd(lrx.fsym, k - 1)}

(* As long as no call timed out and the clock did not restart, the packets *)
(* follow one another: the first sample of a packet is the one after the   *)
(* packet before it, later only by the whole packets counted as overruns.  *)
LimeContinuous ==
    [][lrx.pc = "burst" /\ lrx'.pc = "idle" /\ lrx.due # LimeNone =>
           lrx'.last = LimeAdd(lrx.due, LimePkt * lrx'.since)]_lrx
=============================================================================
