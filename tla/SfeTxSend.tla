----------------------------- MODULE SfeTxSend -----------------------------
(***************************************************************************)
(* The transmit path above the buffers: _sfetrx4_stream_send and the       *)
(* commit functions of stream_sfetrx4_dma32.c and sfe_tx_4.c.              *)
(*                                                                         *)
(* A call may give more samples than the core takes in one burst.  The     *)
(* simple core (SFETX) gets them in several buffers, one after the other,  *)
(* each with a time of its own; the extended core (EXFETX) gets one buffer *)
(* of 1, 2, 4 or 8 equal bursts and three configuration registers, which   *)
(* are written only when they differ from the values written last.  The    *)
(* device counts its drops in 8 bits, the stream extends that to 64.       *)
(*                                                                         *)
(* The caller numbers its samples; sample n is due at time n.              *)
(***************************************************************************)
EXTENDS Integers, FiniteSetsExt

CONSTANTS BurstMax,    \* pkt_symbs / burst_count
          Sizes,       \* numbers of samples a call may give
          TsLow,       \* 2^32: the low half of a time
          CounterMod,  \* 2^8: width of the device's drop counter
          MaxSamples,  \* bound: samples the caller has
          MaxDrops,    \* bound: bursts the device drops
          MaxFaults    \* bound: timeouts and failing register writes

ASSUME TxAssumption ==
    /\ BurstMax \in Nat \ {0} /\ CounterMod \in Nat \ {0} /\ TsLow \in Nat \ {0}
    /\ Sizes \subseteq Nat \ {0}
    /\ MaxSamples \in Nat /\ MaxDrops \in Nat /\ MaxFaults \in Nat

VARIABLES
    core, channels,  \* cfg_fecore_id, channels; fixed
    pc,              \* "idle", "get", "push"
    off, left, ts,   \* the call: offset in the user's buffer, samples left, time
    lgbursts,        \* log2 of the bursts per buffer
    given,           \* samples of the call
    pos,             \* samples the caller was told are sent
    creg, reg,       \* extxcfg_cache and the registers it stands for
    rcnt,            \* buffers sent
    out,             \* the buffer sent last: first sample, samples, time, setup
    upto,            \* the sample after the last one sent
    fe_drop,         \* stats.fe_drop
    dropped,         \* device: bursts dropped
    lapped,          \* history: the counter came round unread
    faults           \* failures so far

call == <<pc, off, left, ts, lgbursts, given>>
setup == <<creg, reg>>
sent == <<rcnt, out, upto>>
stats == <<fe_drop, dropped, lapped>>
vars == <<core, channels, call, pos, setup, sent, stats, faults>>

\* UINT64_MAX: send as soon as possible
NoTime == -1

\* extxcfg_cache_init.  The registers: bytes of a burst - 1; number of bursts
\* and samples of a burst, both - 1; the high half of the time.
NoSetup == [reg_0 |-> 0, reg_1 |-> <<0, 0>>, reg_2 |-> -2]

\* The registers as a stream before this one may have left them.
OldSetup == [reg_0 |-> 15, reg_1 |-> <<1, 3>>, reg_2 |-> 0]

Init ==
    /\ core \in {"sfetx", "exfetx"} /\ channels \in {1, 2}
    /\ pc = "idle" /\ off = 0 /\ left = 0 /\ ts = 0 /\ lgbursts = 0 /\ given = 0
    /\ pos = 0
    /\ creg = NoSetup /\ reg \in {NoSetup, OldSetup}
    /\ rcnt = 0 /\ out = [from |-> 0, n |-> 0, ts |-> 0, setup |-> NoSetup]
    /\ upto = 0
    /\ fe_drop = 0 /\ dropped = 0 /\ lapped = FALSE
    /\ faults = 0

-----------------------------------------------------------------------------
(* _sfetrx4_stream_send *)

\* Defective variant of BurstUps: a remainder is not looked at.
BurstUpsAny(n) == {l \in 0..3 : n \div 2^l <= BurstMax}

\* _extx_burstup: n samples make 2^l equal bursts of at most BurstMax.
BurstUps(n) == {l \in 0..3 : n \div 2^l <= BurstMax /\ n % 2^l = 0}

\* The call; the extended core refuses what it cannot cut into bursts.
Send(n, timed) ==
    /\ pc = "idle"
    /\ pos + n <= MaxSamples
    /\ core = "exfetx" => BurstUps(n) # {}
    /\ pc' = "get"
    /\ off' = 0
    /\ ts' = IF timed THEN pos ELSE NoTime
    /\ given' = n
    /\ IF core = "exfetx"
       THEN lgbursts' = Min(BurstUps(n)) /\ left' = n \div 2^lgbursts'
       ELSE lgbursts' = 0 /\ left' = n
    /\ UNCHANGED <<core, channels, pos, setup, sent, stats, faults>>

\* send_dma_get times out: the call fails, whatever part of it was sent.
GetTimedOut ==
    /\ pc = "get"
    /\ faults < MaxFaults
    /\ faults' = faults + 1
    /\ pc' = "idle"
    /\ UNCHANGED <<core, channels, off, left, ts, lgbursts, given, pos, setup, sent,
                   stats>>

\* Defective variant of Extended: a counter that has come round is not noticed.
ExtendedNoCarry(stat, cnt) == stat - (stat % CounterMod) + cnt

\* What parse_txcore_stat finds in the status words: the low bits of the count.
DropCounter == dropped % CounterMod

\* A 64-bit count from its last value and the counter of the device.
Extended(stat, cnt) ==
    LET carry == IF stat % CounterMod > cnt THEN CounterMod ELSE 0
    IN  stat - (stat % CounterMod) + carry + cnt

\* send_dma_get gives a buffer, with the statistics of the device or without.
Get ==
    /\ pc = "get"
    /\ pc' = "push"
    /\ \/ UNCHANGED <<fe_drop, lapped>>
       \/ /\ fe_drop' = Extended(fe_drop, DropCounter)
          /\ lapped' = (lapped \/ dropped - fe_drop >= CounterMod)
    /\ UNCHANGED <<core, channels, off, left, ts, lgbursts, given, pos, setup, sent,
                   dropped, faults>>

\* Defective variant of Chunk: every buffer is full.
ChunkFull == BurstMax

\* ns: what goes into this buffer
Chunk == IF left < BurstMax THEN left ELSE BurstMax

\* Defective variant of NextTime: all buffers of a call have the same time.
NextTimeSame == ts

\* if (timestamp < INT64_MAX) timestamp += ns
NextTime == IF ts = NoTime THEN ts ELSE ts + Chunk

\* host_off: the host bytes of one channel's burst, divided by the channels,
\* in samples of a channel
NextOff == off + BurstMax \div channels

\* cfg0, cfg1 and tsh: the configuration a buffer needs, at 4 bytes a sample
Wanted == [reg_0 |-> 4 * channels * Chunk - 1,
           reg_1 |-> <<2^lgbursts - 1, Chunk - 1>>,
           reg_2 |-> IF ts = NoTime THEN -1 ELSE ts \div TsLow]

\* Defective variant of Written: the cache is not consulted by register.
WrittenFirst(f) == creg = NoSetup

\* A register is written if the cache says that it holds something else.
Written(f) == creg[f] # Wanted[f]

\* The buffer is on its way: what it holds, and whether it completes the call.
Pushed ==
    /\ rcnt' = rcnt + 1
    /\ out' = [from |-> pos + off, n |-> Chunk * 2^lgbursts, ts |-> ts,
               setup |-> reg']
    /\ upto' = out'.from + out'.n
    /\ left' = left - Chunk
    /\ pc' = IF left' = 0 THEN "idle" ELSE "get"
    /\ pos' = IF left' = 0 THEN pos + given ELSE pos
    /\ off' = IF left' = 0 THEN off ELSE NextOff
    /\ ts' = IF left' = 0 THEN ts ELSE NextTime

\* stream_soft_tx_commit: one write of samples and time
PushSimple ==
    /\ pc = "push" /\ core = "sfetx"
    /\ UNCHANGED setup
    /\ Pushed
    /\ UNCHANGED <<core, channels, lgbursts, given, stats, faults>>

\* stream_soft_extx_commit: the registers that changed, then the low half of
\* the time, which starts the buffer.
PushExtended ==
    /\ pc = "push" /\ core = "exfetx"
    /\ creg' = Wanted
    /\ reg' = [f \in DOMAIN reg |-> IF Written(f) THEN Wanted[f] ELSE reg[f]]
    /\ Pushed
    /\ UNCHANGED <<core, channels, lgbursts, given, stats, faults>>

\* The write of one register fails: the ones after it are not made, yet the
\* cache is updated for all; the call fails.
PushFails ==
    /\ pc = "push"
    /\ faults < MaxFaults
    /\ faults' = faults + 1
    /\ rcnt' = rcnt + 1
    /\ pc' = "idle"
    /\ \E made \in {{}, {"reg_0"}, {"reg_0", "reg_1"}, {"reg_0", "reg_1", "reg_2"}} :
          IF core = "exfetx"
          THEN /\ creg' = Wanted
               /\ reg' = [f \in DOMAIN reg |->
                             IF f \in made /\ Written(f) THEN Wanted[f] ELSE reg[f]]
          ELSE UNCHANGED setup
    /\ UNCHANGED <<core, channels, off, left, ts, lgbursts, given, pos, out, upto,
                   stats>>

-----------------------------------------------------------------------------
\* The device drops a burst that came too late.
DeviceDrop ==
    /\ dropped < MaxDrops
    /\ dropped' = dropped + 1
    /\ UNCHANGED <<core, channels, call, pos, setup, sent, fe_drop, lapped, faults>>

Next ==
    \/ \E n \in Sizes, timed \in BOOLEAN : Send(n, timed)
    \/ Get \/ GetTimedOut \/ PushSimple \/ PushExtended \/ PushFails
    \/ DeviceDrop

Spec == Init /\ [][Next]_vars

-----------------------------------------------------------------------------
(* Properties *)

TypeOK ==
    /\ core \in {"sfetx", "exfetx"} /\ channels \in {1, 2}
    /\ pc \in {"idle", "get", "push"}
    /\ off \in 0..MaxSamples /\ left \in 0..MaxSamples
    /\ ts \in -1..MaxSamples /\ lgbursts \in 0..3 /\ given \in 0..MaxSamples
    /\ pos \in 0..MaxSamples
    /\ rcnt \in Nat
    /\ upto \in 0..MaxSamples
    /\ fe_drop \in Nat /\ dropped \in 0..MaxDrops /\ lapped \in BOOLEAN
    /\ faults \in 0..MaxFaults

\* The callers for which the buffers of a call follow each other: NextOff is
\* half a burst for two channels.
Contiguous == channels = 1 \/ core = "exfetx"

\* Every sample the caller gives is sent once and in order, as long as no call
\* fails: each buffer takes up where the one before it ended, in the same call
\* or in the call before.
SampleOnce ==
    [][Contiguous /\ faults' = 0 /\ rcnt' # rcnt => out'.from = upto]_vars

\* The time sent with a buffer is the time its first sample is due, also in
\* calls that are repeated after a failure.
TimesExact ==
    [][Contiguous /\ rcnt' # rcnt /\ faults' = faults /\ ts # NoTime
        => out'.ts = out'.from]_vars

\* When a call returns success, all it was given has been sent, whatever the
\* number of channels.
CallSentWhole == faults = 0 /\ pc = "idle" => upto = pos

\* The extended core starts a buffer with the burst length, the number of
\* bursts and the time it was meant to have, whatever an earlier buffer or
\* stream left in the registers, as long as no write fails.
SetupMatches ==
    [][core = "exfetx" /\ faults' = 0 /\ rcnt' # rcnt => out'.setup = Wanted]_vars

\* The statistics give the number of drops exactly, if they are read before the
\* device's counter comes round.
DropsExact == [][fe_drop' # fe_drop /\ ~lapped' => fe_drop' = dropped]_vars

\* Samples go out once, in order and at their times.
SamplesSent == []TypeOK /\ SampleOnce /\ TimesExact

\* The core is set up as meant and its losses are reported exactly.
CoreFollowed == SetupMatches /\ DropsExact
=============================================================================
