------------------------------ MODULE LsdrBoard ------------------------------
(***************************************************************************)
(* The lSDR board (device/m2_lsdr): one stream from two converters, the    *)
(* clock generator, the decimation filters and, where it is plugged, the   *)
(* 100-5000 MHz front end (ext_fe_100_5000.c) with two synthesizers and a  *)
(* port expander that selects band and intermediate filter.                *)
(*                                                                         *)
(* A frequency is split between the synthesizers, which are given whole    *)
(* kHz and come close to them, and the NCO, whose word is relative to the  *)
(* rate of the converters.  The driver computes in 32 bits of Hz.  What it *)
(* is asked for is here in units of 4 Hz, so that TLC's integers hold it   *)
(* and 2^32 Hz are 2^30 of them; rates and synthesizers are kHz.           *)
(***************************************************************************)
EXTENDS Outcome, Integers

CONSTANTS LsdrFaults, LsdrCalls,   \* bounds on failed accesses and on calls
          LsdrFreqs,               \* frequencies asked for, units of 4 Hz
          LsdrRates                \* sample rates asked for, kHz

VARIABLE lsdr

Khz == 250                         \* units of a kHz
Word32 == 2^30                     \* units in 2^32 Hz

If1Low == 1224000                  \* IF1_FREQ1, IF1_FREQ2, IF2_FREQ
If1High == 2250000
If2 == 312500
LsdrMaxRate == 260000              \* MAX_RATE
LsdrDecims == <<2, 3, 4, 5, 6, 8, 16, 32, 64, 128>>
LoPfd == 20000                     \* F_PFD_KHZ
LoModls == 4095                    \* modls
LoBands == <<<<3000000, 1>>, <<1500000, 2>>, <<750000, 4>>, <<375000, 8>>, <<187500, 16>>, <<93750, 32>>>>
LoOff == [div |-> 0, int |-> 0, fract |-> 0]

LsdrFresh(bare, lmk, fe) ==
    [faults |-> LsdrFaults, calls |-> LsdrCalls, atd |-> 0, life |-> "created", bare |-> bare,
     fehere |-> fe, lmkhere |-> lmk, fe |-> "unset", lmk |-> FALSE, rx |-> FALSE,
     on |-> [p \in {"osc", "ldo4", "adc0", "adc1"} |-> TRUE],
     adcrate |-> 0, rate |-> 0, decim |-> 0, clk |-> 0, fir |-> 0, set |-> FALSE,
     nco |-> [off |-> 0, at |-> 0], mix |-> 3, tuned |-> 0, wanted |-> 0,
     man |-> [lo1 |-> 0, lo2 |-> 0, band |-> 0, ifsel |-> 0],
     band |-> 0, ifsel |-> 0, gain |-> 0, lo1 |-> LoOff, lo2 |-> LoOff, ocr1 |-> <<9, 0>>, ocr2 |-> <<9, 9>>]

LsdrIo(s) == Io(s, s)                              \* an access no property reads
LsdrSupply(s, p, v) == Io(s, [s EXCEPT !.on[p] = v])
-----------------------------------------------------------------------------
(* ext_fe_100_5000.c                                                       *)

(* The expander takes two writes: band and gain, then band and filter.     *)
update_band_sel(s) == Run(s, <<[ocr1 |-> <<s.band, s.gain>>], [ocr2 |-> <<s.band, s.ifsel>>]>>)

(* What a synthesizer is programmed to: the divider that brings its        *)
(* oscillator above 3 GHz, and the multiple of the reference in whole      *)
(* parts and 4095ths, rounded down.                                        *)
max2871_band_sel(f) ==
    LET div == LoBands[CHOOSE i \in DOMAIN LoBands :
                          f >= LoBands[i][1] /\ \A j \in 1..(i - 1) : f < LoBands[j][1]][2]
        int == (f * div) \div LoPfd
    IN  [div |-> div, int |-> int, fract |-> ((f * div - int * LoPfd) * LoModls) \div LoPfd]

(* A synthesizer is not touched for 0 or more than 6 GHz, switched off for *)
(* 1, and cannot go below 93.75 MHz.  The divider is written before the    *)
(* multiple.                                                               *)
max2871_init(s, lo, f) ==
    IF f = 0 \/ f > 6000000 THEN Ok(s)
    ELSE Then(LsdrIo(s), LAMBDA t :
         IF f = 1 THEN Run(t, <<lo :> LoOff>>)
         ELSE IF f < 93750 THEN Fail(t)
         ELSE LET p == max2871_band_sel(f)
              IN  Run(t, <<lo :> [t[lo] EXCEPT !.div = p.div], lo :> p>>))

FeTune(s, lo1, lo2) ==
    Then(max2871_init(s, "lo2", lo2), LAMBDA t : Then(max2871_init(t, "lo1", lo1), update_band_sel))

(* The plan of the bands: band, filter of the first intermediate frequency *)
(* and the two synthesizers.                                               *)
FePlan(f) ==
    IF f >= 4625000      THEN <<3, 1, f - If1High, If1High - If2>>
    ELSE IF f >= 3550000 THEN <<3, 0, f - If1Low, If1Low + If2>>
    ELSE IF f >= 2650000 THEN <<2, 0, f - If1Low, If1Low - If2>>
    ELSE IF f >= 1950000 THEN <<1, 0, f + If1Low, If1Low - If2>>
    ELSE <<0, 1, f + If1High, If1High + If2>>

(* mutant: a band that was selected before is taken to be still selected.  *)
TuneIfMoved(s, f) ==
    LET p == FePlan(f)
        t == [s EXCEPT !.band = p[1], !.ifsel = p[2]]
    IN  IF f > 6000000 \/ f < 20000 THEN Fail(s)
        ELSE Then(max2871_init(t, "lo2", p[4]), LAMBDA u : Then(max2871_init(u, "lo1", p[3]), LAMBDA v :
                  IF <<s.band, s.ifsel>> = <<p[1], p[2]>> THEN Ok(v) ELSE update_band_sel(v)))

(* Band and filter are noted before the synthesizers are tuned.            *)
tune_rf_path(s, f) ==
    LET p == FePlan(f)
    IN  IF f > 6000000 \/ f < 20000 THEN Fail(s)
        ELSE FeTune([s EXCEPT !.band = p[1], !.ifsel = p[2]], p[3], p[4])

ext_fe_100_5000_rf_manual(s, m) ==
    FeTune([s EXCEPT !.band = m.band, !.ifsel = m.ifsel, !.tuned = 0], m.lo1, m.lo2)

ext_fe_100_5000_set_lna(s, g) == update_band_sel([s EXCEPT !.gain = g])
ext_fe_100_5000_set_attenuator(s) == LsdrIo(s)

(* The expander is found, set to zero, and 900 MHz tuned: whether that     *)
(* worked is not looked at.                                                *)
ext_fe_100_5000_init(s) ==
    Then(Run(s, <<[ocr1 |-> <<9, 0>>], [ocr2 |-> <<9, 9>>]>>), LAMBDA t :
         IF ~t.fehere THEN Ok([t EXCEPT !.fe = "none"])
         ELSE Then(Ignore(tune_rf_path([t EXCEPT !.gain = 0], 900000)), LAMBDA u :
              Then(LsdrIo(u), LAMBDA v : Ok([v EXCEPT !.fe = "fe1005000"]))))

(* device_fe_probe without a hint: a front end that fails is one that is   *)
(* not there.                                                              *)
LsdrProbe(s) == OrElse(ext_fe_100_5000_init(s), LAMBDA t : Ok([t EXCEPT !.fe = "none"]))

(* With USDR_BARE_DEV the pointer to the front end was never set: what it  *)
(* points to may be none, or the process ends.                             *)
WithFe(s, there, none) ==
    CASE s.fe = "fe1005000" -> there
      [] s.fe = "none" -> none
      [] s.fe = "unset" -> none \cup Ok([s EXCEPT !.life = "crashed"])
-----------------------------------------------------------------------------
(* m2_da09_4_ad45_2.c                                                      *)

(* Conversion to int.                                                      *)
Int32(x) == ((x + (Word32 \div 2)) % Word32) - (Word32 \div 2)

(* The loop of set_nco: offset and rate are compared without a sign.       *)
NcoReduced(offset, rate) ==
    LET u == offset % Word32 IN IF u <= rate THEN u ELSE ((u - 1) % rate) + 1

(* The NCO word is relative to the rate the driver believes in.  The       *)
(* result of the mixer's write is overwritten in the loop that writes the  *)
(* four bytes of the word.                                                 *)
set_nco(s, offset) ==
    Then(LsdrIo(s), LAMBDA t : IF t.adcrate = 0 THEN Fail(t)
         ELSE Then(Ignore(Run(t, <<[mix |-> 0]>>)), LAMBDA u :
              Run(u, <<[nco |-> [off |-> 0, at |-> 0]],
                       [nco |-> [off |-> NcoReduced(offset, u.adcrate * Khz), at |-> u.adcrate]]>>)))

(* The frequency for the front end, cut to kHz and kept in 32 bits of Hz.  *)
FeHz(f) == LET fr == ((f \div Khz) * Khz) % Word32 IN IF fr < 2000 * Khz THEN 2000 * Khz ELSE fr

dev_m2_d09_4_ad45_2_sdr_rx_freq_set(s, f) ==
    LET fr == FeHz(f)
        t == [s EXCEPT !.tuned = 0, !.wanted = 0]
        Front(u) == Then(tune_rf_path(u, fr \div Khz), LAMBDA v :
                         set_nco([v EXCEPT !.tuned = fr \div Khz], Int32(f - fr)))
    IN  {IF o.ok /\ o.s.life = "ready" THEN [o EXCEPT !.s.wanted = f] ELSE o
            : o \in WithFe(t, Front(t), set_nco(t, Int32(f)))}

dev_m2_d09_4_ad45_2_pga(s) == Then(LsdrIo(s), LAMBDA t : Then(LsdrIo(t), LsdrIo))

(* One value of the manual tune is set, and all four are applied.          *)
dev_m2_d09_4_ad45_2_sdr_fe(s, field, v) ==
    LET m == [s.man EXCEPT ![field] = v]
    IN  WithFe(s, ext_fe_100_5000_rf_manual([s EXCEPT !.man = m, !.wanted = 0], m), Fail(s))

dev_m2_d09_4_ad45_2_gain_set(s) == WithFe(s, ext_fe_100_5000_set_attenuator(s), dev_m2_d09_4_ad45_2_pga(s))
dev_m2_d09_4_ad45_2_gainlna_set(s, g) == WithFe(s, ext_fe_100_5000_set_lna(s, g), Fail(s))

(* The largest decimation the converters can feed, counted up while each   *)
(* fits; 2 if none does.                                                   *)
LsdrDecim(rate) ==
    LET fit == {i \in DOMAIN LsdrDecims : \A j \in 1..i : rate * LsdrDecims[j] < LsdrMaxRate}
    IN  LsdrDecims[CHOOSE i \in fit \cup {1} : \A j \in fit : j <= i]

(* The range of the oscillator, 0.2 to 800 MHz.                            *)
si549_set_freq(s, f) ==
    IF f < 200 \/ f > 800000 THEN Fail(s)
    ELSE Then(LsdrIo(s), LAMBDA t : Then(LsdrSupply(t, "osc", FALSE), LAMBDA u :
              Run(u, <<[clk |-> 0], [clk |-> f], [on |-> [u.on EXCEPT !["osc"] = TRUE]]>>)))

lmk04832_configure_layout(s) == LsdrIo(s)
lmk04832_configure_dports(s) == LsdrIo(s)
lmk04832_check_lock(s) == LsdrIo(s)
LsdrLmk(s) ==
    IF ~s.lmk THEN Ok(s)
    ELSE Then(lmk04832_configure_layout(s), LAMBDA t :
         Then(lmk04832_configure_dports(t), LAMBDA u : Then(lmk04832_configure_dports(u), lmk04832_check_lock)))

(* ads42lbx9_set_normal                                                    *)
ads42lbx9_set_normal(s, adc, en) == Then(LsdrSupply(s, adc, en), LsdrIo)

(* mutant: the filters keep the decimation of the rate before.             *)
RateOldFir(s, rate) ==
    LET dec == LsdrDecim(rate)
        t == [s EXCEPT !.adcrate = rate * dec, !.rate = rate, !.decim = dec, !.set = FALSE, !.wanted = 0]
    IN  Then(si549_set_freq(t, rate * dec), LAMBDA u :
        Then(Run(u, <<[fir |-> IF u.fir = 0 THEN dec ELSE u.fir]>>), LAMBDA v :
        Then(LsdrLmk(v), LAMBDA w :
        Then(ads42lbx9_set_normal(w, "adc0", TRUE), LAMBDA x :
        Then(ads42lbx9_set_normal(x, "adc1", FALSE), LAMBDA y :
        Then(Run(y, <<[mix |-> 3]>>), LAMBDA z : Ok([z EXCEPT !.set = TRUE])))))))

(* Rates and decimation are noted before the oscillator accepts them; the  *)
(* NCO keeps the word it has, the mixer goes to 3.                         *)
dev_m2_d09_4_ad45_2_rate_set(s, rate) ==
    LET dec == LsdrDecim(rate)
        t == [s EXCEPT !.adcrate = rate * dec, !.rate = rate, !.decim = dec, !.set = FALSE, !.wanted = 0]
    IN  Then(si549_set_freq(t, rate * dec), LAMBDA u :
        Then(Run(u, <<[fir |-> 0], [fir |-> dec]>>), LAMBDA v :
        Then(LsdrLmk(v), LAMBDA w :
        Then(ads42lbx9_set_normal(w, "adc0", TRUE), LAMBDA x :
        Then(ads42lbx9_set_normal(x, "adc1", FALSE), LAMBDA y :
        Then(Run(y, <<[mix |-> 3]>>), LAMBDA z : Ok([z EXCEPT !.set = TRUE])))))))

(* The clocks and the delay taps are scanned.  The scan keeps four lanes   *)
(* in arrays of two, so what it does with its stack is open.               *)
dev_m2_d09_4_ad45_2_stat(s) ==
    Then(LsdrIo(s), LAMBDA t : Ok(t) \cup Ok([t EXCEPT !.life = "crashed"]))

(* The supply of the converters and their reset lines.                     *)
_lsdr_adc_activate(s, en) ==
    Then(LsdrSupply(s, "ldo4", en), LAMBDA t : Then(LsdrIo(t), LsdrIo))

dev_m2_d09_4_ad45_2_senstemp_get(s) == LsdrIo(s)
dev_m2_d09_4_ad45_2_debug_all_get(s) == LsdrIo(s)

(* The converters that do not answer are taken to be missing; the supply   *)
(* is on only while they are looked for.                                   *)
usdr_device_m2_d09_4_ad45_2_initialize(s) ==
    IF s.bare THEN Ok(s)
    ELSE Then(LsdrIo(s), LAMBDA t :
         Then(LsdrSupply(t, "ldo4", FALSE), LAMBDA u :
         Then(LsdrSupply(u, "osc", FALSE), LAMBDA v :
         Then(LsdrSupply(v, "ldo4", TRUE), LAMBDA w :
         Then(IF w.lmkhere THEN Io(w, [w EXCEPT !.lmk = TRUE]) ELSE Ok(w), LAMBDA x :
         Then(LsdrIo(x), LAMBDA y :
         Then(LsdrSupply(y, "ldo4", FALSE), LsdrProbe)))))))

(* Whether the converters could be activated is not looked at.             *)
usdr_device_m2_d09_4_ad45_2_create_stream(s) ==
    IF s.rx THEN Fail(s)
    ELSE Always(_lsdr_adc_activate(s, TRUE), LAMBDA t :
         Then(LsdrIo(t), LAMBDA u : Io(u, [u EXCEPT !.rx = TRUE])))

(* The converters stay on.                                                 *)
usdr_device_m2_d09_4_ad45_2_unregister_stream(s) == IF s.rx THEN Ok([s EXCEPT !.rx = FALSE]) ELSE Fail(s)

(* mutant: the first access that fails ends the power-off.                 *)
DestroyChained(s) ==
    ForEach([s EXCEPT !.atd = s.faults], <<"osc", "ldo4", "adc0", "adc1">>, LAMBDA t, p : LsdrSupply(t, p, FALSE))

(* Every access of the power-off is made whatever the one before returned. *)
LsdrPowerOff(s) ==
    ForEach([s EXCEPT !.atd = s.faults], <<"osc", "ldo4", "adc0", "adc1">>,
            LAMBDA t, p : Ignore(LsdrSupply(t, p, FALSE)))

usdr_device_m2_d09_4_ad45_2_destroy(s) == {[o EXCEPT !.s.life = "destroyed"] : o \in LsdrPowerOff(s)}
-----------------------------------------------------------------------------
LsdrInit == \E b, l, f \in BOOLEAN : lsdr = LsdrFresh(b, l, f)

LsdrCall(S) ==
    \E o \in S : lsdr' = [o.s EXCEPT !.calls = IF @ = 0 THEN 0 ELSE @ - 1]
LsdrReady == lsdr.life = "ready" /\ lsdr.calls > 0

LsdrInitialize ==
    lsdr.life = "created" /\ LsdrCall({[o EXCEPT !.s.life = IF o.ok THEN "ready" ELSE "failed"]
                                          : o \in usdr_device_m2_d09_4_ad45_2_initialize(lsdr)})
LsdrFreq == LsdrReady /\ \E f \in LsdrFreqs : LsdrCall(dev_m2_d09_4_ad45_2_sdr_rx_freq_set(lsdr, f))
LsdrRate == LsdrReady /\ \E r \in LsdrRates : LsdrCall(dev_m2_d09_4_ad45_2_rate_set(lsdr, r))
LsdrManual ==
    LsdrReady /\ \E u \in {<<"lo1", 1000000>>, <<"lo1", 1>>, <<"lo2", 50000>>, <<"band", 2>>, <<"ifsel", 1>>} :
                    LsdrCall(dev_m2_d09_4_ad45_2_sdr_fe(lsdr, u[1], u[2]))
LsdrGain ==
    LsdrReady /\ \/ LsdrCall(dev_m2_d09_4_ad45_2_gain_set(lsdr))
                 \/ \E g \in {1, 2} : LsdrCall(dev_m2_d09_4_ad45_2_gainlna_set(lsdr, g))
LsdrSense ==
    LsdrReady /\ LsdrCall(dev_m2_d09_4_ad45_2_stat(lsdr) \cup dev_m2_d09_4_ad45_2_senstemp_get(lsdr)
                             \cup dev_m2_d09_4_ad45_2_debug_all_get(lsdr))
LsdrPower == LsdrReady /\ \E en \in BOOLEAN : LsdrCall(_lsdr_adc_activate(lsdr, en))
LsdrOpen == LsdrReady /\ LsdrCall(usdr_device_m2_d09_4_ad45_2_create_stream(lsdr))
LsdrClose == LsdrReady /\ LsdrCall(usdr_device_m2_d09_4_ad45_2_unregister_stream(lsdr))
LsdrDestroy == lsdr.life \in {"ready", "failed"} /\ LsdrCall(usdr_device_m2_d09_4_ad45_2_destroy(lsdr))

LsdrNext ==
    \/ LsdrInitialize \/ LsdrFreq \/ LsdrRate \/ LsdrManual \/ LsdrGain \/ LsdrSense \/ LsdrPower
    \/ LsdrOpen \/ LsdrClose \/ LsdrDestroy
-----------------------------------------------------------------------------
(* A synthesizer stands at f kHz: its oscillator runs at 3 to 6 GHz and is *)
(* less than one of the 4095ths of the reference below the multiple of f.  *)
LoStands(lo, f) ==
    LET vco == f * lo.div
        above == vco - lo.int * LoPfd
    IN  /\ vco \in 3000000..6000000
        /\ above \in 0..LoPfd-1 /\ above * LoModls - lo.fract * LoPfd \in 0..LoPfd-1

(* Whatever failed before, once a frequency below 2^32 Hz was set with     *)
(* success the whole chain stands there until something else is asked for: *)
(* both writes of the expander select the same band, the second            *)
(* synthesizer is 312.5 MHz from the filter selected, the first one brings *)
(* the frequency the driver handed down to that filter, both as near as    *)
(* their steps allow, and the NCO word makes up the rest, up to multiples  *)
(* of the rate of the converters, if that rate was accepted.  The mixer is *)
(* claimed when nothing failed: the result of its write is lost.           *)
LsdrTuned ==
    lsdr.wanted \in 1..(Word32 - 1) =>
        /\ lsdr.tuned # 0 =>
              LET if1 == IF lsdr.ocr2[2] = 0 THEN If1Low ELSE If1High
                  low == lsdr.ocr1[1] \in {0, 1}
              IN  /\ lsdr.ocr1[1] = lsdr.ocr2[1] /\ lsdr.ocr1[1] = FePlan(lsdr.tuned)[1]
                  /\ \E d \in {If2, -If2} : LoStands(lsdr.lo2, if1 + d)
                  /\ LoStands(lsdr.lo1, IF low THEN lsdr.tuned + if1 ELSE lsdr.tuned - if1)
        /\ (lsdr.wanted - lsdr.tuned * Khz - lsdr.nco.off) % (lsdr.nco.at * Khz) = 0
        /\ lsdr.set => lsdr.nco.at = lsdr.clk
        /\ lsdr.faults = LsdrFaults => lsdr.mix = 0

(* A rate that was accepted is the rate of the whole chain, whatever was   *)
(* tried before: the oscillator runs at the rate of the converters, which  *)
(* is the rate asked for times the decimation of the filters loaded, and   *)
(* the converter of the stream is on.                                      *)
LsdrRateTrue ==
    lsdr.set /\ lsdr.life = "ready" =>
        /\ lsdr.clk = lsdr.rate * lsdr.fir /\ lsdr.on["osc"] /\ lsdr.on["adc0"]
        /\ lsdr.clk < LsdrMaxRate \/ lsdr.fir = 2

(* A destroy leaves on no more of the supplies than accesses of its own    *)
(* failed, wherever the start-up had stopped.                              *)
LsdrOff ==
    lsdr.life = "destroyed" => Cardinality({p \in DOMAIN lsdr.on : lsdr.on[p]}) <= lsdr.atd - lsdr.faults

(* The board is as the calls left it: the chain tuned, the rate that of    *)
(* the converters, and the supplies off after the end.                     *)
LsdrAsSet == LsdrTuned /\ LsdrRateTrue /\ LsdrOff
=============================================================================
