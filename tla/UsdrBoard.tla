------------------------------ MODULE UsdrBoard ------------------------------
(***************************************************************************)
(* The uSDR board (device/m2_lm6_1): m2_lm6_1.c and usdr_ctrl.c over the   *)
(* LMS6002D driver hw/lms6002d/lms6002d.c.                                 *)
(*                                                                         *)
(* The receiver has three inputs; LNA3 sits behind a mixer fed by output 3 *)
(* of the clock generator, so the LO of the chip is the frequency asked    *)
(* for plus the LO of the mixer, which in turn follows the sample rate.    *)
(* Frequencies are small numbers: below UsdrExtBand the receiver uses the  *)
(* mixer, below UsdrLoMin the chip does not tune.                          *)
(***************************************************************************)
EXTENDS Outcome, Integers

CONSTANTS UsdrFaults, UsdrCalls,   \* bounds on failed accesses and on calls
          UsdrRevs                 \* board revisions

VARIABLE usdr

UsdrDirs == {"rx", "tx"}
UsdrExtBand == 3
UsdrLoMin == 2
UsdrCalLo == 4                     \* the 320 MHz the calibration tunes TX to
SiVco(rate) == 16 * (rate + 1)     \* si5332_set_layout: the VCO of a rate

Lms6Reset(rst) == [rst |-> rst, en |-> [d \in UsdrDirs |-> FALSE], lo |-> [d \in UsdrDirs |-> 0],
                   path |-> [d \in UsdrDirs |-> "none"], bw |-> [d \in UsdrDirs |-> 0]]

(* usdr_ctor on a board of revision rev, its PMIC as expected or not,      *)
(* USDR_BARE_DEV set or not.                                               *)
UsdrFresh(rev, pmic, bare) ==
    [faults |-> UsdrFaults, calls |-> UsdrCalls, life |-> "created", rev |-> rev, pmic |-> pmic, bare |-> bare,
     hw |-> Lms6Reset(TRUE), clk |-> FALSE, boost |-> FALSE, led |-> FALSE, mixgpo |-> FALSE, port3 |-> FALSE,
     encfg |-> [d \in UsdrDirs |-> FALSE], pwren |-> [d \in UsdrDirs |-> FALSE],
     run |-> [d \in UsdrDirs |-> FALSE], lo |-> [d \in UsdrDirs |-> 0], bw |-> [d \in UsdrDirs |-> 0],
     path |-> "auto", band |-> "none", mexir_en |-> FALSE, mixer_lo |-> 0, vco |-> 0, div |-> 8,
     rate |-> 0, str |-> {}, repath |-> FALSE]

UsdrIo(s) == Io(s, s)              \* an access no property reads

(* The chip's driver was never given its device when USDR_BARE_DEV ended   *)
(* the start-up: an access ends the process.                               *)
Lms6Access(s, S) == IF s.bare THEN Fail([s EXCEPT !.life = "crashed"]) ELSE S
Lms6Io(s) == Lms6Access(s, UsdrIo(s))

(* One SPI write to the chip: register, direction, value.                  *)
Lms6Put(s, w) == IF s.hw.rst THEN [s EXCEPT !.hw[w[1]][w[2]] = w[3]] ELSE s
lms6002d_spi_post(s, ws) == Lms6Access(s, RunBy(Lms6Put, s, ws))
UsdrGpo(s, u) == Run(s, <<u>>)
GpoLmsRst(s, v) == Io(s, [s EXCEPT !.hw = IF v THEN [@ EXCEPT !.rst = TRUE] ELSE Lms6Reset(FALSE)])
-----------------------------------------------------------------------------
(* lms6002d.c                                                              *)

lms6002d_create(s) ==
    Then(UsdrIo(s), LAMBDA t :
    Then(UsdrIo([t EXCEPT !.encfg = [d \in UsdrDirs |-> FALSE]]), LAMBDA u :
         IF u.hw.rst THEN Ok(u) ELSE Fail(u)))

(* lms6002d_trf_enable, lms6002d_rfe_enable: the copy of TOP_ENCFG changes *)
(* first, then both bits are written.                                      *)
Lms6Enable(s, d, on) ==
    LET t == [s EXCEPT !.encfg[d] = on]
    IN  lms6002d_spi_post(t, <<<<"en", "rx", t.encfg.rx>>, <<"en", "tx", t.encfg.tx>>>>)

lms6002d_set_path(s, d, p) == lms6002d_spi_post(s, <<<<"path", d, p>>>>)

lms6002d_set_bandwidth(s, d, bw) == lms6002d_spi_post(s, <<<<"bw", d, bw>>>>)

(* The tune up to the end of its search: frequency range, words written,   *)
(* read back, accesses of the search ...                                   *)
Lms6PllSearch(s, d, f) ==
    IF f < UsdrLoMin THEN Fail(s)
    ELSE Then(lms6002d_spi_post(s, <<<<"lo", d, f>>>>), LAMBDA t :
              IF t.hw.rst THEN Lms6Io(t) ELSE Fail(t))

(* ... and what it found: no capacitance that locks is -ENOLCK.            *)
Lms6PllLocks(s) == UsdrIo(s)

lms6002d_tune_pll(s, d, f) == Then(Lms6PllSearch(s, d, f), Lms6PllLocks)

(* The calibration loops of the filters and VGA2: a loop that fails is     *)
(* cleaned up after and not reported.                                      *)
Lms6CalLoops(s) == Lms6Io(s)

(* mutant: the enable is not put back.                                     *)
CalKeepsTxOn(s) == Then(Lms6Enable(s, "tx", TRUE), LAMBDA u : lms6002d_tune_pll(u, "tx", UsdrCalLo))

(* The band calibrations run with the transmitter on and tuned; its enable *)
(* is put back, its LO is not.                                             *)
lms6002d_cal_lpf_bandwidth(s) ==
    LET txen == s.encfg.tx
        t(x) == [x EXCEPT !.encfg.tx = @ /\ txen]
    IN  Then(Then(Lms6Enable(s, "tx", TRUE), LAMBDA u : lms6002d_tune_pll(u, "tx", UsdrCalLo)),
             LAMBDA v : lms6002d_spi_post(t(v), <<<<"en", "rx", v.encfg.rx>>, <<"en", "tx", txen>>>>))

usdr_calib_dc(s) ==
    Then(Lms6CalLoops(s), LAMBDA t :
    Then(lms6002d_cal_lpf_bandwidth(t), LAMBDA u : Then(Lms6CalLoops(u), UsdrIo)))
-----------------------------------------------------------------------------
(* usdr_ctrl.c                                                             *)

UsdrBand(f) == IF f < UsdrExtBand THEN "EXT" ELSE IF f < 8 THEN "W" ELSE "H"

(* _usdr_pwr_state: the flag takes the new value whatever the writes do.   *)
usdr_pwr_state(s, d, on) ==
    IF s.pwren[d] = on THEN Ok(s)
    ELSE Then(Lms6Enable([s EXCEPT !.pwren[d] = on], d, on), LAMBDA t :
              IF d = "rx" THEN UsdrIo(t) ELSE Ok(t))

(* The mixer is switched on in front of LNA3 only.                         *)
usdr_set_rx_port_switch(s, mix) ==
    LET S == Then(UsdrIo(s), LAMBDA t : UsdrGpo(t, [mixgpo |-> mix]))
    IN  IF mix = s.mexir_en THEN S
        ELSE Then({[o EXCEPT !.s.mexir_en = mix] : o \in S}, LAMBDA t : UsdrGpo(t, [port3 |-> mix]))

usdr_set_lna_rx(s, band) ==
    Then(lms6002d_set_path([s EXCEPT !.band = band], "rx", band), LAMBDA t :
         usdr_set_rx_port_switch(t, band = "EXT"))

usdr_set_lna_tx(s, band) == Then(lms6002d_set_path(s, "tx", band), UsdrIo)

LnaChanged6(s, d) ==
    IF d = "tx" THEN usdr_set_lna_tx(s, UsdrBand(s.lo.tx))
    ELSE IF s.path = "auto" THEN usdr_set_lna_rx(s, UsdrBand(s.lo.rx)) ELSE Ok(s)
LoChanged6(s, d) == Always(usdr_pwr_state(s, d, TRUE), LAMBDA t : LnaChanged6(t, d))

(* mutant: the chip is not tuned again behind the mixer.                   *)
SamplerateKeepsLo(s) == Ok(s)

SamplerateChanged6(s) ==
    IF s.mexir_en /\ s.band = "EXT" THEN lms6002d_tune_pll(s, "rx", s.mixer_lo + s.lo.rx) ELSE Ok(s)

(* The driver's rate and mixer LO follow the call even when the clock      *)
(* generator could not be set.                                             *)
usdr_set_samplerate_ex(s, rx, tx) ==
    LET rate == IF rx = 0 THEN tx ELSE rx
        Layout(t) == UNION {IF o.ok THEN Ok([o.s EXCEPT !.vco = SiVco(rate)]) ELSE {o} : o \in UsdrIo(t)}
        Noted(o) == [o EXCEPT !.s.mixer_lo = o.s.vco \div o.s.div, !.s.rate = rate]
        Bw(t, d, r) == IF t.bw[d] = 0 /\ r > 0 THEN lms6002d_set_bandwidth(t, d, r) ELSE Ok(t)
    IN  Then({Noted(o) : o \in Then(usdr_pwr_state(s, "rx", TRUE), Layout)}, LAMBDA u :
        Then(SamplerateChanged6(u), LAMBDA v :
        Then(Bw(v, "rx", rx), LAMBDA w : Bw(w, "tx", tx))))

usdr_set_lob_freq(s, f) ==
    LET ceff == s.vco \div f
        div  == IF ceff < 8 THEN 8 ELSE ceff
    IN  IF s.vco = 0 \/ s.rate = 0 THEN Fail(s)
        ELSE IF div = s.div THEN Ok(s)
        ELSE usdr_set_samplerate_ex([s EXCEPT !.div = div], s.rate, s.rate)

usdr_rfic_streaming_up(s, d) == usdr_pwr_state([s EXCEPT !.run[d] = TRUE], d, TRUE)
usdr_rfic_streaming_down(s, d) == usdr_pwr_state([s EXCEPT !.run[d] = FALSE], d, FALSE)

(* The band is selected and the direction powered before the tune; a tune  *)
(* that found no lock, and only that, is made again, after the receiver's  *)
(* when the transmitter is the first to be tuned.                          *)
usdr_rfic_fe_set_freq(s, d, f) ==
    LET first == s.lo.tx = 0 /\ s.lo.rx = 0 /\ d = "tx"
        Rf(t) == IF d = "rx" /\ t.mexir_en THEN f + t.mixer_lo ELSE f
        Tune(t) == lms6002d_tune_pll(t, d, Rf(t))
        Again(t) == IF first THEN Always(lms6002d_tune_pll(t, "rx", f), Tune) ELSE Tune(t)
    IN  Always(LoChanged6([s EXCEPT !.lo[d] = f, !.repath = @ /\ d = "tx"], d), LAMBDA t :
        Then(Lms6PllSearch(t, d, Rf(t)), LAMBDA u : OrElse(Lms6PllLocks(u), Again)))

usdr_rfic_bb_set_badwidth(s, d, bw) == lms6002d_set_bandwidth([s EXCEPT !.bw[d] = bw], d, bw)

(* usdr_rfic_set_gain stores and writes gains no property reads.           *)
usdr_rfic_set_gain(s) == Lms6Io(s)

usdr_rfic_fe_set_rxlna(s, p) ==
    LET t == [s EXCEPT !.path = p, !.repath = TRUE]
    IN  IF p = "auto" THEN LnaChanged6(t, "rx") ELSE usdr_set_lna_rx(t, p)

usdr_set_extref(s) == UsdrIo(s)

(* mutant: the result of the clock generator is lost on every board.       *)
ClockUnchecked(s) ==
    Always(Io(s, [s EXCEPT !.clk = TRUE]), UsdrIo)

(* si5332_init; revision 3 overwrites its result by that of the switch of  *)
(* its oscillator.                                                         *)
UsdrClock(s) ==
    IF s.rev = 3 THEN Always(Io(s, [s EXCEPT !.clk = TRUE]), UsdrIo)
    ELSE Io(s, [s EXCEPT !.clk = TRUE])

(* usdr_init: identification, which refuses a revision it does not know    *)
(* (0) ...                                                                 *)
UsdrIdentify(s) ==
    Then(UsdrIo(s), LAMBDA t :
         IF t.rev = 0 /\ ~t.bare THEN Fail(t) ELSE GpoLmsRst(t, FALSE))

(* ... supplies ...                                                        *)
UsdrSupplies(s) == Then(UsdrIo(s), LAMBDA t : IF t.pmic THEN UsdrIo(t) ELSE Fail(t))

(* ... the chip, undone when it does not answer ...                        *)
UsdrChipUp(s) ==
    Undo(Then(UsdrClock(s), LAMBDA t :
         Then(UsdrGpo(t, [boost |-> TRUE]), LAMBDA u :
         Then(UsdrGpo(u, [led |-> TRUE]), LAMBDA v :
         Then(GpoLmsRst(v, TRUE), LAMBDA w : Then(UsdrIo(w), lms6002d_create))))), LAMBDA t :
         Always(UsdrGpo(t, [led |-> FALSE]), LAMBDA u :
         Always(GpoLmsRst(u, FALSE), LAMBDA v : UsdrGpo(v, [boost |-> FALSE]))))

(* ... and the front end in its first state.                               *)
UsdrFrontUp(s) ==
    Then(Lms6Enable(s, "tx", FALSE), LAMBDA t : Then(Lms6Enable(t, "rx", FALSE), LAMBDA u :
    Then(UsdrGpo(u, [mixgpo |-> FALSE]), LAMBDA v : Then(usdr_set_rx_port_switch(v, FALSE), LAMBDA w :
    Then(lms6002d_set_path(w, "rx", "W"), LAMBDA x : lms6002d_set_path(x, "tx", "W"))))))

(* A bare device is ready here, with neither clock nor chip set up.        *)
usdr_init(s) ==
    Then(UsdrIdentify(s), LAMBDA t :
         IF t.bare THEN Ignore(UsdrGpo(t, [led |-> TRUE]))
         ELSE Then(UsdrSupplies(t), LAMBDA u : Then(UsdrChipUp(u), UsdrFrontUp)))

usdr_dtor(s) ==
    Always(GpoLmsRst(s, FALSE), LAMBDA t : Always(UsdrGpo(t, [led |-> FALSE]), LAMBDA u :
           UsdrGpo(u, [boost |-> FALSE])))
-----------------------------------------------------------------------------
(* m2_lm6_1.c                                                              *)

(* The front end probed last is not needed for a success.                  *)
usdr_device_m2_lm6_1_initialize(s) ==
    Then(usdr_init(s), LAMBDA t : Then(UsdrIo(t), LAMBDA u : Ok([u EXCEPT !.life = "ready"])))

(* A stream that cannot be created leaves its direction powered.           *)
usdr_device_m2_lm6_1_create_stream(s, d) ==
    IF d \in s.str THEN Fail(s)
    ELSE Then(usdr_rfic_streaming_up(s, d), LAMBDA t : UsdrGpo(t, [str |-> t.str \cup {d}]))

usdr_device_m2_lm6_1_unregister_stream(s, d) ==
    IF d \notin s.str THEN Fail(s)
    ELSE Always(usdr_rfic_streaming_down(s, d), LAMBDA t : Ok([t EXCEPT !.str = @ \ {d}]))

usdr_device_m2_lm6_1_destroy(s) ==
    Always(usdr_dtor(s), LAMBDA t : Ok([t EXCEPT !.life = "destroyed", !.str = {}]))

UsdrInit == \E r \in UsdrRevs, p, b \in BOOLEAN : usdr = UsdrFresh(r, p, b)

UsdrCall(S) == \E o \in S : usdr' = [o.s EXCEPT !.calls = IF @ = 0 THEN 0 ELSE @ - 1]
UsdrReady == usdr.life = "ready" /\ usdr.calls > 0

UsdrInitialize ==
    usdr.life = "created" /\ UsdrCall({IF o.ok THEN o ELSE [o EXCEPT !.s.life = "failed"]
                                          : o \in usdr_device_m2_lm6_1_initialize(usdr)})
UsdrRate ==
    UsdrReady /\ \E r \in {<<1, 1>>, <<2, 0>>, <<0, 1>>} : UsdrCall(usdr_set_samplerate_ex(usdr, r[1], r[2]))
UsdrLob == UsdrReady /\ \E f \in {1, 4} : UsdrCall(usdr_set_lob_freq(usdr, f))
UsdrFreq == UsdrReady /\ \E d \in UsdrDirs, f \in {1, 5, 9} : UsdrCall(usdr_rfic_fe_set_freq(usdr, d, f))
UsdrBandwidth == UsdrReady /\ \E d \in UsdrDirs : UsdrCall(usdr_rfic_bb_set_badwidth(usdr, d, 7))
UsdrGain == UsdrReady /\ UsdrCall(usdr_rfic_set_gain(usdr))
UsdrRefclk == UsdrReady /\ UsdrCall(usdr_set_extref(usdr))
UsdrPath == UsdrReady /\ \E p \in {"auto", "EXT", "H"} : UsdrCall(usdr_rfic_fe_set_rxlna(usdr, p))
UsdrCalibrate == UsdrReady /\ UsdrCall(usdr_calib_dc(usdr))
UsdrOpen == UsdrReady /\ \E d \in UsdrDirs : UsdrCall(usdr_device_m2_lm6_1_create_stream(usdr, d))
UsdrClose == UsdrReady /\ \E d \in UsdrDirs : UsdrCall(usdr_device_m2_lm6_1_unregister_stream(usdr, d))
UsdrDestroy == usdr.life \in {"ready", "failed"} /\ UsdrCall(usdr_device_m2_lm6_1_destroy(usdr))

UsdrNext ==
    \/ UsdrInitialize \/ UsdrRate \/ UsdrLob \/ UsdrFreq \/ UsdrBandwidth \/ UsdrGain \/ UsdrRefclk
    \/ UsdrPath \/ UsdrCalibrate \/ UsdrOpen \/ UsdrClose \/ UsdrDestroy
-----------------------------------------------------------------------------
UsdrNoFault == usdr.faults = UsdrFaults

(* Without failed accesses the chip receives where the user asked: its LO  *)
(* is the frequency of the user, plus the LO of the mixer while the mixer  *)
(* is in the path, whatever was set first (sample rate, mixer LO or        *)
(* frequency).  A path changed by hand counts from the next frequency on,  *)
(* a frequency the chip cannot tune to is refused, and the mixer is on     *)
(* exactly when the driver takes it into account.                          *)
UsdrLoTrue ==
    LET asked == usdr.lo.rx + (IF usdr.mexir_en THEN usdr.mixer_lo ELSE 0)
    IN  UsdrNoFault /\ usdr.life = "ready" =>
            /\ usdr.mexir_en = usdr.port3 /\ usdr.mexir_en = usdr.mixgpo
            /\ usdr.rate # 0 /\ usdr.lo.rx # 0 /\ ~usdr.repath /\ asked >= UsdrLoMin =>
                   usdr.hw.lo.rx = asked

(* Without failed accesses the power flags of the driver are the enables   *)
(* of the chip, also after a calibration, which switches the transmitter   *)
(* on behind their back, and an open stream has its direction powered.     *)
UsdrPowerTrue ==
    UsdrNoFault /\ usdr.life = "ready" =>
        /\ \A d \in UsdrDirs : usdr.hw.en[d] = usdr.pwren[d] /\ (d \in usdr.str => usdr.pwren[d])

(* Whatever failed before, a device that reports it is initialized has its *)
(* clock generator set up, revision 3 and bare devices apart; and one      *)
(* destroyed without a failed access is in reset with the booster off.     *)
UsdrReadyAndQuiet ==
    /\ usdr.life = "ready" /\ usdr.rev # 3 /\ ~usdr.bare => usdr.clk
    /\ UsdrNoFault /\ usdr.life = "destroyed" => ~usdr.hw.rst /\ ~usdr.boost /\ ~usdr.led

(* The board is as the calls left it: the LO, the power of the directions, *)
(* the clock it reports ready, and quiet after the end.                    *)
UsdrAsSet == UsdrLoTrue /\ UsdrPowerTrue /\ UsdrReadyAndQuiet
=============================================================================
