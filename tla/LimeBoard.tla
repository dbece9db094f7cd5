------------------------------ MODULE LimeBoard ------------------------------
(***************************************************************************)
(* The LimeSDR Mini (device/u3_limesdr): limesdr_ctrl.c and u3_limesdr.c   *)
(* over the LMS7002M of module Lms7, which is always powered here.  The    *)
(* names of the bands stand for the rows of the board's antenna table.     *)
(*                                                                         *)
(* Beside the transceiver the state is the FPGA's stream control (rxen,    *)
(* register 0x0A), its sample counter (ts: running on, or reset), the      *)
(* direct clocking bits, and the streams of the driver.  old counts buffer *)
(* sets that were replaced by those of a new stream without being freed.   *)
(***************************************************************************)
EXTENDS Lms7

CONSTANTS LimeFaults, LimeCalls    \* bounds on failed accesses and on calls

VARIABLE limeb

LimeFresh(ndebug) ==
    Upd(Lms7Init(LimeFaults),
        [calls |-> LimeCalls, life |-> "created", ndebug |-> ndebug, started |-> FALSE, rxen |-> FALSE,
         ts |-> "old", clocked |-> {}, str |-> {}, bufs |-> {}, old |-> FALSE, live |-> FALSE])

LimeReg(s, t) == Then(Io(s, s), LAMBDA u : Io(u, Upd(u, t)))   \* read, change, write

limesdr_start_streaming(s) == LimeReg(s, [rxen |-> TRUE])
limesdr_stop_streaming(s) == LimeReg(s, [rxen |-> FALSE])

(* An error of either read is lost: 0 is returned with nothing reset.      *)
(* live remembers a reset under a running stream, which the debug build    *)
(* refuses.                                                                *)
limesdr_reset_timestamp(s) ==
    LET Cleared(t) == Run(t, <<[ts |-> t.ts], [ts |-> "reset", live |-> t.rxen], [ts |-> "reset"]>>)
        Go(t) == UNION {IF o.ok THEN Cleared(o.s) ELSE Ok(o.s) : o \in Io(t, t)}
    IN  IF s.ndebug THEN Go(s)
        ELSE UNION {IF ~o.ok THEN Ok(o.s) ELSE IF o.s.rxen THEN Fail(o.s) ELSE Go(o.s) : o \in Io(s, s)}

limesdr_set_direct_clocking(s, i) == LimeReg(s, [clocked |-> s.clocked \cup {i}])

(* The frequency counter is waited for at most ten times; a count that was *)
(* not completed is used like any other, and refused when it is not near a *)
(* known clock.                                                            *)
limesdr_detect_refclk(s) ==
    Then(Run(s, <<[faults |-> s.faults], [faults |-> s.faults], [faults |-> s.faults]>>), LAMBDA t :
    Then(Io(t, t), LAMBDA u : Io(u, u)))

limesdr_init(s) ==
    Then(limesdr_detect_refclk(s), LAMBDA t :
    Then(Io(t, [t EXCEPT !.hw = HwReset(TRUE)]), LAMBDA u :
    Then(Io(CacheReset(u), CacheReset(u)), LAMBDA v :
    Then(lms7002m_create(v), limesdr_stop_streaming))))

limesdr_disable_stream(s) == Then(Io(s, s), limesdr_stop_streaming)

(* mutant: the counter is reset with the stream running.                   *)
SetupResetsLate(s) ==
    Then(Io(s, s), LAMBDA t :
    Then(limesdr_start_streaming(t), LAMBDA u : limesdr_reset_timestamp(u)))

limesdr_setup_stream(s) ==
    Then(Io(s, s), LAMBDA t :
    Then(limesdr_stop_streaming(t), LAMBDA u :
    Then(limesdr_reset_timestamp(u), LAMBDA v :
    Then(lms7002m_dc_corr_en(v), LAMBDA w :
    Then(Run(w, <<[faults |-> w.faults], [faults |-> w.faults], [faults |-> w.faults]>>), LAMBDA x :
    Then(limesdr_start_streaming(x), LAMBDA y :
         Run(y, <<[ts |-> y.ts], [ts |-> IF y.ts = "reset" THEN "zero" ELSE y.ts]>>)))))))

limesdr_set_samplerate(s, r) ==
    Then(lms7002m_samplerate(s, r, <<r, TRUE>>), LAMBDA t :
    Then(limesdr_set_direct_clocking(t, 0), LAMBDA u : limesdr_set_direct_clocking(u, 1)))

(* mutant: no rate is set when the user has set none.                      *)
PrepareUnclocked(s) == lms7002m_streaming_up([s EXCEPT !.run = [d \in DIRS |-> {"A"}]], DIRS, {"A"})

(* The result of the default rate is replaced by that of the bring-up.     *)
limesdr_prepare_streaming(s) ==
    Always(IF s.cgen # 0 THEN Ok(s) ELSE limesdr_set_samplerate(s, [rx |-> 1, tx |-> 1]), LAMBDA t :
           lms7002m_streaming_up([t EXCEPT !.run = [d \in DIRS |-> {"A"}]], DIRS, {"A"}))
-----------------------------------------------------------------------------
(* u3_limesdr.c                                                            *)

limesdr_device_initialize(s) == Then(limesdr_init(s), LAMBDA t : Ok([t EXCEPT !.life = "ready"]))

(* Nothing tells that the stream is open already, and closing one frees    *)
(* nothing: the transport's buffers are set up again over the ones in use. *)
limesdr_device_create_stream(s, d) ==
    Then(limesdr_prepare_streaming(s), LAMBDA t :
    Then(Io(t, [t EXCEPT !.old = @ \/ d \in t.bufs, !.bufs = @ \cup {d}]), LAMBDA u :
         Ok([u EXCEPT !.str = @ \cup {d}])))

limesdr_device_unregister_stream(s, d) == Ok([s EXCEPT !.str = @ \ {d}])

(* Errors are not reported, and a start that failed counts as started.     *)
limesdr_device_stream_sync(s, off) ==
    IF off THEN Ignore(Always(limesdr_disable_stream(s), LAMBDA t : Ok([t EXCEPT !.started = FALSE])))
    ELSE IF s.started THEN Ok(s)
    ELSE Ignore(limesdr_setup_stream([s EXCEPT !.started = TRUE]))

(* limesdr_dtor is empty: the FPGA goes on streaming.                      *)
limesdr_device_destroy(s) == Ok([s EXCEPT !.life = "destroyed"])

(* The channel selection of the caller stays in force.                     *)
dev_mp_lm7_1_gps_debug_lms7002m_reg_set(s, mac) ==
    Always(lms7002m_mac_set(s, mac), LAMBDA t : Io(t, t))
-----------------------------------------------------------------------------
LimeBoardInit == \E n \in BOOLEAN : limeb = LimeFresh(n)

LimeCall(S) == \E o \in S : limeb' = [o.s EXCEPT !.calls = IF @ = 0 THEN 0 ELSE @ - 1]
LimeReady == limeb.life = "ready" /\ limeb.calls > 0

LimeInitialize ==
    limeb.life = "created" /\ LimeCall({IF o.ok THEN o ELSE [o EXCEPT !.s.life = "failed"]
                                           : o \in limesdr_device_initialize(limeb)})
LimeRate ==
    LimeReady /\ \E r \in {[rx |-> 1, tx |-> 1], [rx |-> 2, tx |-> 0]} : LimeCall(limesdr_set_samplerate(limeb, r))
LimeFreq ==
    LimeReady /\ \E d \in DIRS, f \in {0, 2, LoMax + 1} : LimeCall(lms7002m_fe_set_freq(limeb, d, f))
LimeGain ==
    LimeReady /\ \E k \in {<<"pad", -20>>, <<"lna", 1>>, <<"pga", 0>>} :
                     LimeCall(lms7002m_set_gain(limeb, AB, k[1], k[2]))
LimeBandwidth == LimeReady /\ \E d \in DIRS : LimeCall(lms7002m_bb_set_badwidth(limeb, AB, d, 7))
LimeDebug == LimeReady /\ \E m \in SUBSET CH : LimeCall(dev_mp_lm7_1_gps_debug_lms7002m_reg_set(limeb, m))
LimeOpen == LimeReady /\ \E d \in DIRS : LimeCall(limesdr_device_create_stream(limeb, d))
LimeClose == LimeReady /\ \E d \in limeb.str : LimeCall(limesdr_device_unregister_stream(limeb, d))
LimeSync == LimeReady /\ \E off \in BOOLEAN : LimeCall(limesdr_device_stream_sync(limeb, off))
LimeDestroy == limeb.life \in {"ready", "failed"} /\ LimeCall(limesdr_device_destroy(limeb))

LimeBoardNext ==
    \/ LimeInitialize \/ LimeRate \/ LimeFreq \/ LimeGain \/ LimeBandwidth \/ LimeDebug
    \/ LimeOpen \/ LimeClose \/ LimeSync \/ LimeDestroy
-----------------------------------------------------------------------------
LimeNoFault == limeb.faults = LimeFaults

(* With no failed access: a running channel has the settings of the        *)
(* driver, a started stream streams, from a sample counter that was reset  *)
(* while it was stopped, and a stream switched off is off.                 *)
LimeStreamsTrue ==
    LimeNoFault /\ limeb.life = "ready" =>
        /\ Configured(limeb)
        /\ limeb.str # {} => limeb.run = [d \in DIRS |-> {"A"}] /\ limeb.clocked = {0, 1}
        /\ limeb.started = limeb.rxen
        /\ limeb.started => limeb.ts = "zero"

(* The sample counter is never reset under a running stream, in a release  *)
(* build, where nothing refuses it, and whatever access fails.             *)
LimeResetStopped == ~limeb.live

(* Streams are what the driver says, and the sample counter is reset only  *)
(* while none runs.                                                        *)
LimeBoardAsSet == LimeStreamsTrue /\ LimeResetStopped
=============================================================================
