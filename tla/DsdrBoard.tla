------------------------------ MODULE DsdrBoard ------------------------------
(***************************************************************************)
(* The dSDR boards (device/m2_dsdr): m2_dsdr.c and, for the PCIe board,    *)
(* the HIPER front end of dsdr_hiper.c with its six LMS8001 converters.    *)
(*                                                                         *)
(* A frequency may be set for all channels, for named hardware channels or *)
(* for a channel number of the stream, before or after the stream is       *)
(* opened.  With the front end it is split between the LO of a converter,  *)
(* which two channels share, the switches, the NCO of the AFE and the I/Q  *)
(* swap of the stream.  Frequencies are small numbers (0: never set).      *)
(***************************************************************************)
EXTENDS Outcome, Integers

CONSTANTS DsdrFaults, DsdrCalls,   \* bounds on failed accesses and on calls
          DsdrTypes,               \* of "KCU116", "M2", "HIPER", "unknown"
          DsdrMaps                 \* channel lists of the streams

VARIABLE dsdr

DsdrDirs == {"rx", "tx"}
DsdrHw == 0..3
HwToFe == <<2, 3, 1, 0>>           \* s_chanmap_hw_to_fe
FeOf(ch) == HwToFe[ch + 1]
FeHw(fe) == CHOOSE ch \in DsdrHw : FeOf(ch) = fe
FeMate(fe) == {c \in DsdrHw : c \div 2 = fe \div 2}     \* channels of one converter
RxHigh == 2                        \* 2600 MHz, 3500 MHz and 4700 MHz
TxHigh == 3
LoBelow == 4
FeAuto(band) == band >= 2          \* IFBAND_AUTO
FeIsHigh(band) == band % 2 = 1
DsdrZero == [d \in DsdrDirs |-> [c \in DsdrHw |-> 0]]
FeChips == {"L", "H", "T"} \X {0, 1}

FeZero == [r \in 0..4 |-> IF r = 4 THEN <<{}, {}>> ELSE <<FALSE, FALSE>>]

DsdrRan(m) == {m[i] : i \in DOMAIN m}

(* The registers of the switches as the settings of the user ask for:      *)
(* one per channel with the antenna and amplifier bits, and one with the   *)
(* intermediate bands.                                                     *)
FeRegs(fe) ==
    [r \in 0..4 |->
        IF r = 4 THEN <<{c \in DsdrHw : FeIsHigh(fe.band.rx[c])}, {c \in DsdrHw : FeIsHigh(fe.band.tx[c])}>>
        ELSE <<r \in fe.en.rx, r \in fe.en.tx /\ ~fe.term>>]

(* usdr_device_m2_dsdr_create: the memory is not cleared, so the enables   *)
(* of the front end (rxen, txen) are whatever it held.                     *)
DsdrFresh(type, rxen, txen) ==
    [faults |-> DsdrFaults, calls |-> DsdrCalls, life |-> "created", type |-> type, atd |-> 0,
     led |-> FALSE, lmk |-> FALSE, lmkok |-> FALSE, afepwr |-> 0, st |-> FALSE,
     str |-> [d \in DsdrDirs |-> FALSE], enabled |-> [d \in DsdrDirs |-> {}], map |-> [d \in DsdrDirs |-> <<>>],
     freqs |-> DsdrZero, want |-> DsdrZero, nco |-> DsdrZero,
     swap |-> [d \in DsdrDirs |-> {}], hwswap |-> [d \in DsdrDirs |-> {}],
     odd |-> [d \in DsdrDirs |-> FALSE], byhand |-> [d \in DsdrDirs |-> TRUE],
     fe |-> [up |-> FALSE, en |-> [rx |-> rxen, tx |-> txen], band |-> [d \in DsdrDirs |-> [c \in DsdrHw |-> 2]],
             freq |-> DsdrZero, term |-> FALSE, last |-> [d \in DsdrDirs |-> [p \in {0, 1} |-> 9]],
             chip |-> [c \in FeChips |-> [on |-> {}, lo |-> 0]],
             reg |-> FeZero, hw |-> FeZero]]

DsdrIo(s) == Io(s, s)                              \* an access no property reads
DsdrGpo(s, u) == Run(s, <<u>>)
DsdrHasHiper(s) == s.type = "HIPER"
-----------------------------------------------------------------------------
(* dsdr_hiper.c                                                            *)

(* The registers that differ from their copies are written, in order,      *)
(* until one write fails; the copies have changed all the same.            *)
dsdr_hiper_update_fe_user(s) ==
    LET new == FeRegs(s.fe)
        Put(t, r) == [t EXCEPT !.fe.hw[r] = new[r]]
        changed == SelectSeq(<<0, 1, 2, 3, 4>>, LAMBDA r : new[r] # s.fe.reg[r])
    IN  RunBy(Put, [s EXCEPT !.fe.reg = new], changed)

dsdr_hiper_fe_chan_en(s, d, fes) == dsdr_hiper_update_fe_user([s EXCEPT !.fe.en[d] = fes])

FeChip(d, high, fe) == <<IF d = "tx" THEN "T" ELSE IF high THEN "H" ELSE "L", fe \div 2>>

FeHighPath(s, d, fe) ==
    LET b == s.fe.band[d][fe]
    IN  IF FeAuto(b) THEN s.fe.freq[d][fe] >= (IF d = "rx" THEN RxHigh ELSE TxHigh) ELSE b = 1

(* The split of a frequency: LO, NCO and swap.                             *)
FeLo(d, high, f) == IF d = "tx" THEN f + 18 ELSE IF ~high THEN f + 19 ELSE IF f < LoBelow THEN f + 20 ELSE f - 20
FeNco(d, high, f) == IF d = "tx" THEN IF high THEN 18 ELSE f ELSE IF high THEN 20 ELSE 19
FeSwap(d, high, f) == IF d = "tx" THEN high ELSE f < LoBelow

FeOn(s, c, chs) == Io(s, [s EXCEPT !.fe.chip[c].on = chs])
dsdr_hiper_fe_lms8_set_lo(s, c, lo) == Io(s, [s EXCEPT !.fe.chip[c].lo = lo])

(* The converter of the other band is switched off for both its channels.  *)
dsdr_hiper_fe_rxlo_upd(s, fe) ==
    LET high == FeHighPath(s, "rx", fe)
        idx  == FeChip("rx", high, fe)
    IN  Then(FeOn(s, FeChip("rx", ~high, fe), {}), LAMBDA t :
        Then(FeOn(t, idx, t.fe.en.rx \cap FeMate(fe)), LAMBDA u :
             dsdr_hiper_fe_lms8_set_lo(u, idx, FeLo("rx", high, u.fe.freq.rx[fe]))))

dsdr_hiper_fe_txlo_upd(s, fe) ==
    LET high == FeHighPath(s, "tx", fe)
        idx  == FeChip("tx", high, fe)
    IN  Then(DsdrIo(s), LAMBDA t :
        Then(FeOn(t, idx, IF high THEN t.fe.en.tx \cap FeMate(fe) ELSE {}), LAMBDA u :
             IF high THEN dsdr_hiper_fe_lms8_set_lo(u, idx, FeLo("tx", high, u.fe.freq.tx[fe])) ELSE Ok(u)))

FeLoUpd(s, d, fe) == IF d = "rx" THEN dsdr_hiper_fe_rxlo_upd(s, fe) ELSE dsdr_hiper_fe_txlo_upd(s, fe)

(* mutant: the switches do not follow the path that was tuned.             *)
BandStuck(s, d, fe, high) == s

(* The automatic band follows the path that was tuned.                     *)
dsdr_hiper_fe_band_upd(s, d, fe, high) ==
    IF FeAuto(s.fe.band[d][fe]) THEN [s EXCEPT !.fe.band[d][fe] = IF high THEN 3 ELSE 2] ELSE s

(* A channel that is not enabled is left alone; the band is updated when   *)
(* the tune succeeded.                                                     *)
dsdr_hiper_fe_freq_set(s, d, fe, f) ==
    LET t == [s EXCEPT !.fe.freq[d][fe] = f, !.fe.last[d][fe \div 2] = fe]
    IN  IF fe \notin s.fe.en[d] THEN Ok(s)
        ELSE Then(FeLoUpd(t, d, fe), LAMBDA u :
                  dsdr_hiper_update_fe_user(dsdr_hiper_fe_band_upd(u, d, fe, FeHighPath(t, d, fe))))

(* The gains are split over the stages; no property reads them.            *)
dsdr_hiper_fe_gain_set(s, d, fe) == IF fe \in s.fe.en[d] THEN DsdrIo(s) ELSE Ok(s)

(* The expanders, the converters, the synthesizer and the sensors; then    *)
(* the default settings are written.                                       *)
dsdr_hiper_fe_create(s) ==
    LET t == [s EXCEPT !.fe.up = TRUE, !.fe.reg = FeZero, !.fe.hw = FeZero]
    IN  Then(DsdrIo(t), LAMBDA u :
             dsdr_hiper_update_fe_user([u EXCEPT !.fe.band = [d \in DsdrDirs |-> [c \in DsdrHw |-> 2]],
                                                 !.fe.term = FALSE, !.fe.freq = DsdrZero]))

dsdr_hiper_fe_destroy(s) ==
    Then(Io(s, [s EXCEPT !.fe.chip = [c \in FeChips |-> [on |-> {}, lo |-> 0]]]), DsdrIo)
-----------------------------------------------------------------------------
(* m2_dsdr.c                                                               *)

(* dsdr_update_rx_remap, dsdr_update_tx_remap.                             *)
dsdr_update_remap(s, d) ==
    IF DsdrHasHiper(s) THEN dsdr_hiper_fe_chan_en(s, d, {FeOf(ch) : ch \in DsdrRan(s.map[d])}) ELSE Ok(s)

(* The swap of a channel of the stream, sent to it when it changed.        *)
DsdrSwap(s, d, ch, swap) ==
    LET new == IF swap THEN s.swap[d] \cup {ch} ELSE s.swap[d] \ {ch}
    IN  IF ch \notin DsdrRan(s.map[d]) \/ new = s.swap[d] THEN Ok(s)
        ELSE Io([s EXCEPT !.swap[d] = new], [s EXCEPT !.swap[d] = new, !.hwswap[d] = new])

(* With the channel disabled in the front end the swap is a value nobody   *)
(* set and the NCO gets the whole frequency.  The result of the swap is    *)
(* kept in a variable of the inner block and lost.                         *)
DsdrFrontTune(s, d, ch, f) ==
    LET fe == FeOf(ch)
        high(t) == FeHighPath(t, d, fe)
        Nco(t, v) == Io(t, [t EXCEPT !.nco[d][ch] = v])
    IN  IF fe \in s.fe.en[d]
        THEN Then(dsdr_hiper_fe_freq_set(s, d, fe, f), LAMBDA t :
             Then(Ignore(DsdrSwap(t, d, ch, FeSwap(d, high(t), f))), LAMBDA u : Nco(u, FeNco(d, high(u), f))))
        ELSE Then(Ignore(DsdrSwap(s, d, ch, TRUE) \cup DsdrSwap(s, d, ch, FALSE)), LAMBDA u : Nco(u, f))

(* dsdr_set_rx_frequency_chan, dsdr_set_tx_frequency_chan: the frequency   *)
(* is kept; it is applied at once if the stream is there.                  *)
dsdr_set_frequency_chan(s, d, ch, f) ==
    LET t == [s EXCEPT !.freqs[d][ch] = f]
    IN  IF ~s.str[d] THEN Ok(t)
        ELSE IF DsdrHasHiper(s) THEN DsdrFrontTune(t, d, ch, f)
        ELSE Io(t, [t EXCEPT !.nco[d][ch] = f])

(* device_path_to_chmsk: a setting addresses all channels, hardware        *)
(* channels by name or channels of the stream by number.                   *)
DsdrAddr == [kind : {"all"}] \cup [kind : {"hw"}, ch : {0, 1}] \cup [kind : {"logic"}, ch : {0, 1}]

(* dsdr_iterate_chans: the hardware channels a setting is applied to.  A   *)
(* channel number selects the hardware channel of the same number.         *)
dsdr_iterate_chans(s, d, a) ==
    IF a.kind = "all" THEN IF s.str[d] THEN s.enabled[d] ELSE DsdrHw
    ELSE IF a.kind = "hw" \/ a.ch + 1 \in DOMAIN s.map[d] THEN {a.ch} ELSE {}

(* The channels the caller means.                                          *)
DsdrMeant(s, d, a) ==
    IF a.kind = "all" THEN IF s.str[d] THEN DsdrRan(s.map[d]) ELSE DsdrHw
    ELSE IF a.kind = "hw" THEN {a.ch}
    ELSE IF a.ch + 1 \in DOMAIN s.map[d] THEN {s.map[d][a.ch + 1]} ELSE {}

DsdrAscending(S) == SelectSeq(<<0, 1, 2, 3>>, LAMBDA c : c \in S)

dev_m2_dsdr_sdr_freq_set(s, d, a, f) ==
    LET chs == dsdr_iterate_chans(s, d, a)
        meant == DsdrMeant(s, d, a)
        t == [s EXCEPT !.want[d] = [c \in DsdrHw |-> IF c \in meant THEN f ELSE @[c]],
                       !.odd[d] = @ \/ chs # meant]
    IN  ForEach(t, DsdrAscending(chs), LAMBDA u, c : dsdr_set_frequency_chan(u, d, c, f))

(* The gain setters: every one but the attenuator's asks for the channels  *)
(* of the transmit side.                                                   *)
dev_m2_dsdr_gain_set(s, d) ==
    ForEach(s, DsdrAscending(dsdr_iterate_chans(s, "tx", [kind |-> "all"])), LAMBDA u, c :
            Then(IF DsdrHasHiper(u) /\ d = "rx" THEN dsdr_hiper_fe_gain_set(u, d, FeOf(c)) ELSE Ok(u), DsdrIo))

(* dsdr_set_rates: reset, filters, release; the divider is not read by a   *)
(* property.                                                               *)
dsdr_set_rates(s) == Then(DsdrIo(s), LAMBDA t : Then(DsdrIo(t), LAMBDA u : Then(DsdrIo(u), DsdrIo)))

dsdr_check_fpga_gtrx(s) == DsdrIo(s)
dev_m2_dsdr_afe_health_get(s) == Then(DsdrIo(s), dsdr_check_fpga_gtrx)

(* dsdr_hiper_dsdr_hiper_usr_reg_set: the registers of the user.  A band   *)
(* that changed sets the frequency the front end last had again, through   *)
(* the parameter of the channel; the result is that of the last update.    *)
dsdr_hiper_usr_reg_set(s, u) ==
    LET t  == CASE u.reg = "band" -> [s EXCEPT !.fe.band[u.d] = [c \in DsdrHw |-> u.v]]
                [] u.reg = "chen" -> [s EXCEPT !.fe.en[u.d] = u.v, !.byhand[u.d] = TRUE]
                [] u.reg = "ant"  -> [s EXCEPT !.fe.term = u.v]
        moved == IF u.reg = "band" THEN SelectSeq(<<0, 1, 2, 3>>, LAMBDA c : s.fe.band[u.d][c] # u.v) ELSE <<>>
        Again(v, c) ==
            LET f == v.fe.freq[u.d][c]
            IN  dsdr_set_frequency_chan([v EXCEPT !.odd[u.d] = @ \/ f # v.want[u.d][FeHw(c)]], u.d, FeHw(c), f)
    IN  Always(ForEach(t, moved, Again), dsdr_hiper_update_fe_user)

(* Registers written past the settings: the LO of a converter, and the     *)
(* band switches with their copy.                                          *)
dsdr_hiper_lms8001_reg_set(s, d, c) ==
    dsdr_hiper_fe_lms8_set_lo([s EXCEPT !.odd[d] = TRUE], c, 50)
dsdr_hiper_exp_reg_set(s) ==
    LET t == [s EXCEPT !.odd = [d \in DsdrDirs |-> TRUE]]
    IN  Io(t, [t EXCEPT !.fe.reg[4] = <<{}, {}>>, !.fe.hw[4] = <<{}, {}>>])

(* usdr_jesd204b_bringup_pre and _post: a PLL that does not lock is EIO.   *)
usdr_jesd204b_bringup_pre(s) == Then(DsdrIo(s), DsdrIo)
usdr_jesd204b_bringup_post(s) == DsdrIo(s)

(* Supplies and set-up of the clock generator: the read of the power good  *)
(* signal replaces the result of everything before it.                     *)
DsdrClock(s) ==
    LET S == Then(DsdrGpo(s, [led |-> TRUE]), LAMBDA t : Then(DsdrGpo(t, [lmk |-> TRUE]), LAMBDA u :
             Then(DsdrIo(u), LAMBDA v : DsdrGpo(v, [lmkok |-> TRUE]))))
    IN  Always(S, LAMBDA t : IF t.lmk THEN DsdrIo(t) ELSE Fail(t))

(* The supplies of the AFE, one after the other; the wait for 1.8 V        *)
(* replaces the results of the two before it.                              *)
DsdrAfePower(s) ==
    Then(DsdrGpo(s, [afepwr |-> 1]), LAMBDA t : Then(DsdrIo(t), LAMBDA u : Then(DsdrGpo(u, [afepwr |-> 3]), LAMBDA v :
    Then(DsdrIo(v), LAMBDA w :
    Then(Always(Then(DsdrGpo(w, [afepwr |-> 7]), LAMBDA x :
                IF DsdrHasHiper(x) THEN DsdrGpo(x, [afepwr |-> 15]) ELSE Ok(x)), DsdrIo), LAMBDA y :
         DsdrGpo(y, [afepwr |-> 31]))))))

usdr_device_m2_dsdr_initialize(s) ==
    Then(DsdrIo(s), LAMBDA t :
    CASE t.type = "unknown" -> Fail(t)
      [] t.type = "KCU116" ->
            Then(usdr_jesd204b_bringup_pre([t EXCEPT !.st = TRUE]), LAMBDA u :
            Then(usdr_jesd204b_bringup_post(u), dsdr_check_fpga_gtrx))
      [] OTHER ->
            Then(DsdrClock(t), LAMBDA u : Then(DsdrAfePower(u), LAMBDA v :
            Then(Then(DsdrIo(v), LAMBDA w : DsdrGpo(w, [st |-> TRUE])), LAMBDA w :
            Then(usdr_jesd204b_bringup_pre(w), LAMBDA x : Then(usdr_jesd204b_bringup_post(x), LAMBDA y :
            Then(IF DsdrHasHiper(y) THEN dsdr_hiper_fe_create(y) ELSE Ok(y), dev_m2_dsdr_afe_health_get)))))))

(* mutant: the frequencies set before the stream was opened are forgotten. *)
RestoreNone(s, d) == Ok(s)

(* The parameters that could not be set before the stream was there.       *)
DsdrRestore(s, d) ==
    LET chs == {c \in s.enabled[d] : s.freqs[d][c] # 0}
    IN  ForEach(s, DsdrAscending(chs), LAMBDA t, c : dsdr_set_frequency_chan(t, d, c, t.freqs[d][c]))

(* A failure leaves the new channel map and its enables behind.            *)
usdr_device_m2_dsdr_create_stream(s, d, m) ==
    LET t == [s EXCEPT !.map[d] = m, !.enabled[d] = DsdrRan(m), !.byhand[d] = FALSE]
    IN  IF s.str[d] \/ Len(m) \in {0, 3} THEN Fail(s)
        ELSE Then(dsdr_update_remap(t, d), LAMBDA u :
             Then(DsdrIo(u), LAMBDA v :
             Then(Io(v, [v EXCEPT !.str[d] = TRUE, !.swap[d] = {}, !.hwswap[d] = {}]), LAMBDA w : DsdrRestore(w, d))))

(* mutant: the front end keeps its channels enabled.                       *)
UnregisterKeepsFe(s, d) ==
    IF ~s.str[d] THEN Fail(s) ELSE Ok([s EXCEPT !.str[d] = FALSE])

(* The enabled channels of the OTHER direction are cleared.                *)
usdr_device_m2_dsdr_unregister_stream(s, d) ==
    LET e == IF d = "rx" THEN "tx" ELSE "rx"
        t == [s EXCEPT !.str[d] = FALSE, !.enabled[e] = {}]
    IN  IF ~s.str[d] THEN Fail(s)
        ELSE Finally(IF DsdrHasHiper(t) THEN dsdr_hiper_fe_chan_en(t, d, {}) ELSE Ok(t), dev_m2_dsdr_afe_health_get)

(* A map set by hand enables its channels in the front end.                *)
dev_m2_dsdr_sdr_remap_set(s, d, m) ==
    dsdr_update_remap([s EXCEPT !.map[d] = m, !.byhand[d] = TRUE, !.odd[d] = TRUE], d)

(* mutant: the supplies are switched off only if the start-up was complete.*)
DestroyIfUp(s) ==
    Always(dev_m2_dsdr_afe_health_get(s), LAMBDA t :
    Always(IF t.afepwr = 31 THEN DsdrGpo(t, [afepwr |-> 0]) ELSE Ok(t), LAMBDA u :
    Always(DsdrGpo(u, [lmk |-> FALSE]), LAMBDA v : DsdrGpo(v, [led |-> FALSE]))))

(* The power-off sequence; every access is made whatever the one before    *)
(* it returned.                                                            *)
DsdrPowerOff(s) ==
    LET Off(t, u) == Ignore(DsdrGpo(t, u))
    IN  Always(dev_m2_dsdr_afe_health_get(s), LAMBDA t :
        Always(IF DsdrHasHiper(t) THEN dsdr_hiper_fe_destroy(t) ELSE Ok(t), LAMBDA u :
        Always(DsdrIo(u), LAMBDA v :
               ForEach(v, <<[afepwr |-> 15], [afepwr |-> 7], [afepwr |-> 3], [afepwr |-> 1], [afepwr |-> 0],
                            [lmk |-> FALSE], [led |-> FALSE]>>, Off))))

(* Before the AFE and the front end were set up the calls go through       *)
(* pointers nobody has set: the process may end here, and does when the    *)
(* front end has no device.                                                *)
usdr_device_m2_dsdr_destroy(s) ==
    LET t == [s EXCEPT !.atd = s.faults]
        gone == [t EXCEPT !.life = "crashed"]
        off == {[o EXCEPT !.s.life = "destroyed"] : o \in DsdrPowerOff(t)}
    IN  IF DsdrHasHiper(s) /\ ~s.fe.up THEN Ok(gone)
        ELSE IF s.st THEN off ELSE off \cup Ok(gone)
-----------------------------------------------------------------------------
DsdrInit == \E y \in DsdrTypes, r, t \in {{}, {0, 1}} : (y = "HIPER" \/ r \cup t = {}) /\ dsdr = DsdrFresh(y, r, t)

DsdrCall(S) == \E o \in S : dsdr' = [o.s EXCEPT !.calls = IF @ = 0 THEN 0 ELSE @ - 1]
DsdrReady == dsdr.life = "ready" /\ dsdr.calls > 0

DsdrInitialize ==
    dsdr.life = "created" /\ DsdrCall({[o EXCEPT !.s.life = IF o.ok THEN "ready" ELSE "failed"]
                                          : o \in usdr_device_m2_dsdr_initialize(dsdr)})
DsdrFreq ==
    DsdrReady /\ \E d \in DsdrDirs, a \in DsdrAddr, f \in {1, 4} : DsdrCall(dev_m2_dsdr_sdr_freq_set(dsdr, d, a, f))
DsdrGain == DsdrReady /\ \E d \in DsdrDirs : DsdrCall(dev_m2_dsdr_gain_set(dsdr, d))
DsdrRate == DsdrReady /\ DsdrCall(dsdr_set_rates(dsdr))
DsdrUser ==
    /\ DsdrReady /\ DsdrHasHiper(dsdr)
    /\ \E u \in [reg : {"band"}, d : DsdrDirs, v : {1, 2}] \cup [reg : {"chen"}, d : DsdrDirs, v : {{}, {0, 2}}]
                \cup [reg : {"ant"}, v : BOOLEAN] : DsdrCall(dsdr_hiper_usr_reg_set(dsdr, u))
DsdrDebug ==
    /\ DsdrReady /\ DsdrHasHiper(dsdr)
    /\ \/ \E d \in DsdrDirs : DsdrCall(dsdr_hiper_lms8001_reg_set(dsdr, d, FeChip(d, TRUE, 0)))
       \/ DsdrCall(dsdr_hiper_exp_reg_set(dsdr))
DsdrRemap == DsdrReady /\ \E d \in DsdrDirs : DsdrCall(dev_m2_dsdr_sdr_remap_set(dsdr, d, <<0, 1, 2, 3>>))
DsdrOpen == DsdrReady /\ \E d \in DsdrDirs, m \in DsdrMaps : DsdrCall(usdr_device_m2_dsdr_create_stream(dsdr, d, m))
DsdrClose == DsdrReady /\ \E d \in DsdrDirs : DsdrCall(usdr_device_m2_dsdr_unregister_stream(dsdr, d))
DsdrDestroy == dsdr.life \in {"ready", "failed"} /\ DsdrCall(usdr_device_m2_dsdr_destroy(dsdr))

DsdrNext ==
    \/ DsdrInitialize \/ DsdrFreq \/ DsdrGain \/ DsdrRate \/ DsdrUser \/ DsdrDebug \/ DsdrRemap
    \/ DsdrOpen \/ DsdrClose \/ DsdrDestroy
-----------------------------------------------------------------------------
DsdrNoFault == dsdr.faults = DsdrFaults

(* The channels of the open stream of d that were asked for a frequency;   *)
(* of two that share a converter, the one tuned last.                      *)
DsdrTunedChans(d) ==
    {ch \in DsdrRan(dsdr.map[d]) :
        /\ dsdr.want[d][ch] # 0
        /\ DsdrHasHiper(dsdr) => dsdr.fe.last[d][FeOf(ch) \div 2] = FeOf(ch)}

(* The whole chain of a channel stands at frequency f: the switches select *)
(* the converter that is on for the channel, its LO and the NCO add up to  *)
(* f with the sense of the spectrum the stream corrects, and the other     *)
(* converter of the pair is off.                                           *)
FeChainAt(d, ch, f) ==
    LET fe == FeOf(ch)
        high == fe \in dsdr.fe.hw[4][IF d = "rx" THEN 1 ELSE 2]
        c == dsdr.fe.chip[FeChip(d, high, fe)]
        nco == dsdr.nco[d][ch]
    IN  /\ IF d = "tx" /\ ~high THEN c.on = {} /\ nco = f
           ELSE fe \in c.on /\ f \in {c.lo - nco, c.lo + nco}
        /\ d = "rx" => dsdr.fe.chip[FeChip(d, ~high, fe)].on = {}
        /\ (ch \in dsdr.hwswap[d]) = FeSwap(d, high, f)

(* Without failed accesses every channel of an open stream is tuned where  *)
(* the user asked, no matter whether the frequency came before or after    *)
(* the stream, by which form of address, and which band was chosen by hand *)
(* in between.  Not counted are settings the code applies to other         *)
(* channels than those meant (odd: see dsdr_iterate_chans,                 *)
(* unregister_stream and the band register) and enables set by hand.       *)
DsdrTuned ==
    DsdrNoFault /\ dsdr.life = "ready" =>
        \A d \in DsdrDirs : dsdr.str[d] /\ ~dsdr.odd[d] /\ ~dsdr.byhand[d] =>
            \A ch \in DsdrTunedChans(d) :
                IF DsdrHasHiper(dsdr) THEN FeChainAt(d, ch, dsdr.want[d][ch])
                ELSE dsdr.nco[d][ch] = dsdr.want[d][ch]

(* Without failed accesses no amplifier of the front end is on unless a    *)
(* stream of its direction is open, once the direction has had a stream    *)
(* and unless it is enabled by hand; and with the stream open exactly the  *)
(* channels of the stream are.                                             *)
DsdrOnlyStreamsOn ==
    DsdrNoFault /\ dsdr.life = "ready" /\ dsdr.fe.up =>
        \A d \in DsdrDirs : ~dsdr.byhand[d] =>
            LET on == {fe \in DsdrHw : dsdr.fe.hw[fe][IF d = "rx" THEN 1 ELSE 2]}
            IN  on = IF dsdr.str[d] /\ ~(d = "tx" /\ dsdr.fe.term) THEN {FeOf(ch) : ch \in DsdrRan(dsdr.map[d])}
                     ELSE {}

(* Wherever the start-up stopped, a destroy whose own accesses succeed     *)
(* leaves all supplies off.                                                *)
DsdrOff ==
    dsdr.life = "destroyed" /\ dsdr.faults = dsdr.atd =>
        dsdr.afepwr = 0 /\ ~dsdr.lmk /\ ~dsdr.led /\ \A c \in FeChips : dsdr.fe.chip[c].on = {}

(* The board is as the calls left it: every channel tuned, only those of   *)
(* streams on, and all supplies off after the end.                         *)
DsdrAsSet == DsdrTuned /\ DsdrOnlyStreamsOn /\ DsdrOff
=============================================================================
