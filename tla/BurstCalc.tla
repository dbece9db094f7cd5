----------------------------- MODULE BurstCalc -----------------------------
(***************************************************************************)
(* How a packet of a receive stream is cut into bursts                     *)
(* (ipblks/streams/sfe_rx_4.c): the number of bursts, their samples and    *)
(* bytes and how many of them the FIFO of the front end holds, for the     *)
(* simple and the extended front end.  Everything the functions do is      *)
(* arithmetic on a request; a behaviour is one request and its answer.     *)
(***************************************************************************)
EXTENDS Naturals, Sequences, FiniteSets, FiniteSetsExt

CONSTANTS BurstFifo,     \* cfg_fifomaxbytes (2^16)
          BurstMax,      \* MAX_BURSTS_RX_IN_BUFF (32)
          BurstFft,      \* fft_size (512)
          BurstSyms,     \* packet sizes asked for
          BurstMaps      \* channel maps asked for

(* The FIFO is large enough for the core to be told of two bursts at       *)
(* least (the mask of the capacity, BurstFifo / 64 - 1).                   *)
ASSUME BurstAssumption ==
    /\ BurstFifo \in Nat /\ BurstFifo >= 192
    /\ BurstMax \in Nat /\ BurstFft \in Nat \ {0}
    /\ BurstSyms \subseteq Nat /\ BurstMaps \subseteq Seq(Nat)

VARIABLE burst

CeilDiv(a, b) == (a + b - 1) \div b
-----------------------------------------------------------------------------
(* A format: bits of a component, complex or real, or the FFT of the core. *)
BurstFmts == {[bits |-> b, cplx |-> c, fft |-> FALSE] : b \in {8, 12, 16}, c \in BOOLEAN}
                 \cup {[bits |-> 16, cplx |-> FALSE, fft |-> TRUE]}
BurstReqs == [core : {"sfe", "exfe"}, fmt : BurstFmts, map : BurstMaps, syms : BurstSyms,
              per : 0..1, bif : BOOLEAN]

BurstRefused == [ok |-> FALSE]

(* burst_fe_calculate: c is the front end (rfe_config), q the request with *)
(* raw component lanes.                                                    *)
BurstWords(c, q) == CeilDiv(q.raw * q.bits * q.syms, 8 * c.lane)
BurstCap(c, words) == c.fifo \div (words * c.lane)
BurstAnswer(c, words, cap, count, samples) ==
    [ok |-> TRUE, bytes |-> words * c.lane, cap |-> IF cap > c.capmask THEN c.capmask ELSE cap,
     count |-> count, samples |-> samples]

(* The counts of the loop: the ones a capacity is computed for, the ones   *)
(* within the limits, and of these the ones without a stub, the first of   *)
(* which ends the loop.  A count larger than the number of words would     *)
(* divide by 0 (and so does its capacity here); it must not be reached.    *)
BurstDivides(c, q) == {b \in 1..c.max : q.syms % b = 0 /\ (q.syms \div b) % c.mod = 0}
BurstInLimits(c, q, b) ==
    /\ BurstCap(c, BurstWords(c, q) \div b) > 1
    /\ q.syms \div b <= c.samples
    /\ BurstWords(c, q) \div b <= c.words
BurstWithin(c, q) == {b \in BurstDivides(c, q) : BurstInLimits(c, q, b)}
BurstExact(c, q) == {b \in BurstDivides(c, q) : BurstWords(c, q) % b = 0 /\ BurstInLimits(c, q, b)}
BurstExtra(c, q, b) == CeilDiv(BurstWords(c, q), b) * b - BurstWords(c, q)

(* mutant: the last count without a stub is taken.                         *)
LastExact(c, q) ==
    LET words == BurstWords(c, q)
        b == Max(BurstExact(c, q))
    IN  BurstAnswer(c, words \div b, BurstCap(c, words \div b), b, q.syms \div b)

(* The first count without a stub ends the loop.                           *)
BurstFirst(c, q) ==
    LET words == BurstWords(c, q)
        b == Min(BurstExact(c, q))
    IN  BurstAnswer(c, words \div b, BurstCap(c, words \div b), b, q.syms \div b)

(* mutant: the samples of a burst are rounded up and the last one is       *)
(* short.                                                                  *)
StubAny(c, q) ==
    LET words == BurstWords(c, q)
    IN  BurstAnswer(c, CeilDiv(words, c.max), BurstCap(c, words \div c.max), c.max, CeilDiv(q.syms, c.max))

(* Otherwise the first of those with the least stub; the capacity is the   *)
(* one of the last count the loop computed it for.                         *)
BurstStub(c, q) ==
    LET words == BurstWords(c, q)
        extra == Min({BurstExtra(c, q, b) : b \in BurstWithin(c, q)})
        b == Min({e \in BurstWithin(c, q) : BurstExtra(c, q, e) = extra})
    IN  BurstAnswer(c, CeilDiv(words, b), BurstCap(c, words \div Max(BurstDivides(c, q))), b, q.syms \div b)

burst_fe_calculate(c, q) ==
    LET words == BurstWords(c, q)
    IN  IF q.per > c.max \/ q.raw > c.lanes \/ words = 0 THEN BurstRefused
        ELSE IF q.per # 0
        THEN IF words > c.words \/ q.syms > c.samples \/ q.syms % c.mod # 0 THEN BurstRefused
             ELSE BurstAnswer(c, words, BurstCap(c, words), q.per, q.syms)
        ELSE IF BurstExact(c, q) # {} THEN BurstFirst(c, q)
        ELSE IF {b \in BurstWithin(c, q) : BurstExtra(c, q, b) < words} # {} THEN BurstStub(c, q)
        ELSE BurstRefused
-----------------------------------------------------------------------------
(* sfe_rx4_configure: component lanes for the channels asked for, 0 if the *)
(* core has no format for them.                                            *)
sfe_rx4_lanes(cplx, map) ==
    LET chs == {map[i] : i \in DOMAIN map}
    IN  CASE cplx /\ Len(map) = 2 -> 4
          [] cplx /\ Len(map) = 1 /\ map[1] \in 0..1 -> 2
          [] ~cplx /\ Len(map) = 4 -> 4
          [] ~cplx /\ Len(map) = 2 /\ chs \in {{0, 1}, {2, 3}, {0, 2}} -> 2
          [] ~cplx /\ Len(map) = 1 /\ map[1] \in 0..3 -> 1
          [] OTHER -> 0

(* _configure_simple_fe_generic                                            *)
SfeFe(mod) == [max |-> BurstMax, fifo |-> BurstFifo, lane |-> 8, lanes |-> 4, mod |-> mod,
               words |-> BurstFifo \div 8, samples |-> BurstFifo \div 8, capmask |-> BurstFifo \div 64 - 1]

sfe_rx4_configure(q) ==
    LET lanes == sfe_rx4_lanes(q.fmt.cplx, q.map)
        r == [raw |-> IF q.fmt.fft THEN 1 ELSE lanes, bits |-> q.fmt.bits, syms |-> q.syms, per |-> q.per]
    IN  IF q.fmt.fft
        THEN IF q.per # 0 /\ CeilDiv(16 * q.syms, 64) > BurstFifo \div 16 THEN BurstRefused
             ELSE burst_fe_calculate(SfeFe(BurstFft), r)
        ELSE IF lanes = 0 THEN BurstRefused ELSE burst_fe_calculate(SfeFe(1), r)

(* exfe_rx4_configure                                                      *)
ExfeFe == [max |-> BurstMax, fifo |-> BurstFifo, lane |-> 16, lanes |-> 8, mod |-> 1,
           words |-> BurstFifo \div 16, samples |-> BurstFifo, capmask |-> BurstFifo \div 64 - 1]

exfe_rx4_configure(q) ==
    LET chns == Len(q.map) * IF q.fmt.cplx THEN 2 ELSE 1
        r == [raw |-> chns, bits |-> q.fmt.bits, syms |-> q.syms, per |-> q.per]
    IN  IF q.fmt.bits \notin {12, 16} \/ q.fmt.fft \/ chns \notin {1, 2, 4, 8} THEN BurstRefused
        ELSE burst_fe_calculate(ExfeFe, r)

(* initialize_stream_rx_32: a bifurcated stream carries every second       *)
(* sample on the neighbour lanes.                                          *)
BurstBifurcates(q) == q.syms % 2 = 0 /\ ((q.fmt.cplx /\ Len(q.map) = 1) \/ (~q.fmt.cplx /\ Len(q.map) = 2))
BurstBifurcated(q) ==
    IF ~q.bif THEN q
    ELSE [q EXCEPT !.syms = @ \div 2,
                   !.map = IF q.fmt.cplx THEN <<q.map[1], q.map[1] + 1>>
                           ELSE <<q.map[1], q.map[2], q.map[1] + 2, q.map[2] + 2>>]

BurstConfigure(q) ==
    IF q.bif /\ ~BurstBifurcates(q) THEN BurstRefused
    ELSE LET r == BurstBifurcated(q) IN IF q.core = "exfe" THEN exfe_rx4_configure(r) ELSE sfe_rx4_configure(r)
-----------------------------------------------------------------------------
BurstInit == burst \in {[req |-> q, ans |-> BurstRefused, done |-> FALSE] : q \in BurstReqs}

BurstNext == ~burst.done /\ burst' = [burst EXCEPT !.ans = BurstConfigure(burst.req), !.done = TRUE]

BurstSpec == BurstInit /\ [][BurstNext]_burst
-----------------------------------------------------------------------------
BurstLane == IF burst.req.core = "exfe" THEN 16 ELSE 8
BurstComponents == Len(burst.req.map) * IF burst.req.fmt.cplx THEN 2 ELSE 1

(* Every sample of the packet is in a burst, and a burst has room for its  *)
(* samples: the bursts of an accepted packet that is not given its number  *)
(* of bursts hold together exactly the samples asked for, on all lanes.    *)
BurstWhole ==
    burst.ans.ok /\ burst.req.per = 0 =>
        /\ burst.ans.count * burst.ans.samples * (IF burst.req.bif THEN 2 ELSE 1) = burst.req.syms
        /\ ~burst.req.fmt.fft =>
               burst.ans.count * burst.ans.bytes * 8 >= burst.req.syms * BurstComponents * burst.req.fmt.bits
        /\ burst.ans.count \in 1..BurstMax

(* A packet cut without a stub is cut into as few bursts as the limits     *)
(* allow, and its bursts fit the FIFO as often as the core is told, at     *)
(* least twice.                                                            *)
BurstFewest ==
    burst.ans.ok /\ burst.req.per = 0 =>
        LET words == (burst.ans.count * burst.ans.bytes) \div BurstLane
            need == CeilDiv(burst.ans.count * burst.ans.samples * burst.req.fmt.bits *
                        (IF burst.req.fmt.fft THEN 1 ELSE BurstComponents * IF burst.req.bif THEN 2 ELSE 1),
                        8 * BurstLane)
        IN  words = need =>
                /\ burst.ans.cap >= 2 /\ burst.ans.cap * burst.ans.bytes <= BurstFifo
                /\ \A b \in 1..(burst.ans.count - 1) :
                      \/ words % b # 0 \/ (burst.ans.count * burst.ans.samples) % b # 0
                      \/ 2 * (words \div b) * BurstLane > BurstFifo
                      \/ (burst.ans.count * burst.ans.samples) \div b > BurstFifo \div (IF BurstLane = 8 THEN 8 ELSE 1)
                      \/ burst.req.fmt.fft /\ ((burst.ans.count * burst.ans.samples) \div b) % BurstFft # 0

(* A packet is cut into bursts that hold all of it, as few as possible.    *)
BurstSplit == BurstWhole /\ BurstFewest
=============================================================================
