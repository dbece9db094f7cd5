-------------------------------- MODULE Lms7 --------------------------------
(***************************************************************************)
(* The LMS7002M transceiver and its driver: the register layer of          *)
(* hw/lms7002m/lms7002m.c and the control layer of                         *)
(* device/m2_lm7_1/lms7002m_ctrl.c, as operators on a state record s.      *)
(*                                                                         *)
(* The chip has one register file per channel; a write reaches the         *)
(* channels selected by its MAC register.  The driver keeps a copy of MAC  *)
(* (s.mac) and of what it wrote (s.rfe, s.trf, s.endir, ...); s.hw is what *)
(* the chip holds.  A write to a chip without power or in reset is lost.   *)
(* Frequencies and bandwidths are small numbers; a rate is the number of   *)
(* its divider chain, 0 where the caller left it open.                     *)
(***************************************************************************)
EXTENDS Outcome, Integers

CH   == {"A", "B"}
AB   == CH
DIRS == {"rx", "tx"}

(* XSDR_RX_*_LB: receive paths that loop the transmitter back.             *)
LbPaths == {"lW", "lH", "lL"}
RxPaths == {"W", "H", "L", "auto"} \cup LbPaths
TxPaths == {"B1", "B2", "auto"}

LoMax    == 2    \* the highest tunable LO; LoMax + 1 is out of range
LnaKeep  == 99   \* RFE_GAIN_NONE: write the gains again

(* Chip registers banked by MAC.                                           *)
BankedRegs == {"endir", "rfe", "rfegain", "trf", "pad", "band", "sxx",
               "rxtsp", "txtsp", "rxdec", "txdec", "rxnco", "txnco", "rxbb", "txbb"}

Idle == [en |-> FALSE, lb |-> FALSE, path |-> "none"]
NoMap == <<{}, FALSE, FALSE>>
NoLml == <<[d \in DIRS |-> 0], FALSE>>

BankReset(r) == CASE r = "endir" -> {}
                  [] r \in {"rfe", "trf"} -> Idle
                  [] r = "band" -> "mute"
                  [] r \in {"rxtsp", "txtsp"} -> FALSE
                  [] OTHER -> 0
HwReset(on) ==
    [on |-> on, mac |-> AB, ch |-> [r \in BankedRegs |-> [c \in CH |-> BankReset(r)]],
     afe |-> [d \in DIRS |-> {}], cgen |-> 0, map |-> [d \in DIRS |-> NoMap], lml |-> NoLml,
     dc |-> {}]

(* lms7002m_create: the driver's copies after a reset of the chip.         *)
CacheReset(s) ==
    Upd(s, [mac |-> AB, rfe |-> [c \in CH |-> Idle], trf |-> [c \in CH |-> Idle],
            endir |-> [c \in CH |-> {}], lna |-> [c \in CH |-> 12],
            pad |-> [c \in CH |-> 0]])

(* A zeroed lms7002_dev_t after lms7002m_init.                             *)
Lms7Init(faults) ==
    CacheReset([faults |-> faults, hw |-> HwReset(FALSE), sw |-> [d \in DIRS |-> "none"],
        run |-> [d \in DIRS |-> {}], path |-> [d \in DIRS |-> "auto"],
        cfg |-> [rx |-> "W", tx |-> "B1"], lb |-> FALSE, lo |-> [d \in DIRS |-> 0],
        bw |-> [d \in DIRS |-> [c \in CH |-> 0]], nco |-> [d \in DIRS |-> [c \in CH |-> 0]],
        div |-> [d \in DIRS |-> 0], clkdiv |-> FALSE, trap |-> FALSE, cgen |-> 0, lml |-> NoLml, map |-> [d \in DIRS |-> NoMap],
        chs |-> [d \in DIRS |-> {}], loss |-> [c \in CH |-> 0]])
-----------------------------------------------------------------------------
(* lms7002m.c: registers                                                   *)

(* One SPI write, a pair of register and value.                            *)
Put(s, w) ==
    IF ~s.hw.on THEN s
    ELSE IF w[1] \in BankedRegs
    THEN [s EXCEPT !.hw.ch[w[1]] = [c \in CH |-> IF c \in s.hw.mac THEN w[2] ELSE @[c]]]
    ELSE [s EXCEPT !.hw[w[1]] = w[2]]

lms7002m_spi_post(s, ws) == RunBy(Put, s, ws)

(* The writes ws[c] made once for each channel, then MAC as the driver     *)
(* believes it to be.                                                      *)
Banked(s, ws) ==
    <<<<"mac", {"A"}>>>> \o ws["A"] \o <<<<"mac", {"B"}>>>> \o ws["B"] \o <<<<"mac", s.mac>>>>

lms7002m_mac_set(s, mac) ==
    IF s.mac = mac THEN Ok(s)
    ELSE lms7002m_spi_post([s EXCEPT !.mac = mac], <<<<"mac", mac>>>>)

(* The version read answers only from a chip that runs.                    *)
lms7002m_create(s) ==
    Then(lms7002m_spi_post(s, <<<<"mac", AB>>, <<"mac", AB>>, <<"afe", [d \in DIRS |-> {}]>>>>),
         LAMBDA t : Then(Io(t, t), LAMBDA u : IF u.hw.on THEN Ok(CacheReset(u)) ELSE Fail(u)))

lms7002m_destroy(s) ==
    LET t == [s EXCEPT !.endir = [c \in CH |-> {}]]
    IN  lms7002m_spi_post(t, <<<<"mac", {"A"}>>, <<"endir", {}>>, <<"mac", {"B"}>>, <<"endir", {}>>,
                               <<"afe", [d \in DIRS |-> {}]>>>>)

lms7002m_limelight_configure(s, cfg) ==
    lms7002m_spi_post(s, <<<<"lml", cfg>>, <<"mac", s.mac>>, <<"mac", s.mac>>>>)

lms7002m_cds_set(s) == Then(Io(s, s), LAMBDA t : Io(t, t))    \* no property reads it

lms7002m_limelight_reset(s) == lms7002m_spi_post(s, <<<<"mac", s.mac>>, <<"mac", s.mac>>>>)

lms7002m_limelight_map(s) == lms7002m_spi_post(s, <<<<"map", s.map>>>>)

(* The capacitor search that follows the writes finds a lock or, on a chip *)
(* that does not lock, fails (a fault of the chip).                        *)
Search(s) == IF s.hw.on THEN Io(s, s) ELSE Fail(s)

lms7002m_cgen_tune(s, f) ==
    Then(lms7002m_spi_post(s, <<<<"cgen", 0>>>>), LAMBDA t :
    Then(Undo(Search(t), LAMBDA u : lms7002m_spi_post(u, <<<<"cgen", 0>>>>)), LAMBDA u :
         lms7002m_spi_post(u, <<<<"cgen", f>>>>)))

(* SXR is programmed through channel A's bank, SXT through B's.            *)
SxxCh(d) == IF d = "rx" THEN "A" ELSE "B"

lms7002m_sxx_disable(s, d) ==
    LET t == [s EXCEPT !.endir[SxxCh(d)] = @ \ {"sxx"}]
    IN  lms7002m_spi_post(t, <<<<"mac", {SxxCh(d)}>>, <<"endir", t.endir[SxxCh(d)]>>, <<"mac", t.mac>>>>)

(* A search that fails returns with the chip's MAC still on the bank of    *)
(* the synthesizer.                                                        *)
lms7002m_sxx_tune(s, d, f) ==
    LET t == [s EXCEPT !.endir[SxxCh(d)] = @ \cup {"sxx"}]
    IN  IF f > LoMax THEN Fail(t)
        ELSE Then(lms7002m_spi_post(t, <<<<"mac", {SxxCh(d)}>>, <<"endir", t.endir[SxxCh(d)]>>,
                                         <<"sxx", 0>>>>), LAMBDA u :
             Then(Search(u), LAMBDA v :
                  lms7002m_spi_post(v, <<<<"sxx", f>>, <<"mac", v.mac>>>>)))

lms7002m_afe_enable(s, rx, tx) == lms7002m_spi_post(s, <<<<"afe", [rx |-> rx, tx |-> tx]>>>>)

lms7002m_dc_corr_en(s) ==
    lms7002m_spi_post(s, <<<<"dc", {d \in DIRS : s.run[d] # {}}>>>>)

Tsp(d) == IF d = "rx" THEN [en |-> "rxtsp", dec |-> "rxdec", nco |-> "rxnco", bb |-> "rxbb"]
                      ELSE [en |-> "txtsp", dec |-> "txdec", nco |-> "txnco", bb |-> "txbb"]

lms7002m_xxtsp_enable(s, d, on) == lms7002m_spi_post(s, <<<<Tsp(d).en, on>>>>)

lms7002m_xxtsp_int_dec(s, d, n) ==
    IF s.mac = {} THEN Fail(s)
    ELSE lms7002m_spi_post(s, Banked(s, [c \in CH |-> <<<<Tsp(d).dec, n>>>>]))

(* _lms7002m_xxtsp_wregwith_dspcfg: the registers under the current MAC,   *)
(* then the copy of the DSP configuration of each channel selected.        *)
TspWithCfg(s, ws) ==
    IF s.mac = {} THEN Fail(s)
    ELSE lms7002m_spi_post(s, IF s.mac = AB THEN ws \o Banked(s, [c \in CH |-> <<>>]) ELSE ws)

lms7002m_xxtsp_cmix(s, d, f) == TspWithCfg(s, <<<<Tsp(d).nco, f>>>>)

(* The corrections and the test generator of a TSP: no property reads      *)
(* their values.                                                           *)
TspCorrection(s) == TspWithCfg(s, <<>>)

(* EN_DIR of both blocks is taken from the receiver's enables.             *)
RfEnable(s, blk) ==
    [c \in CH |-> LET on == s.rfe[c].en \/ (c = "A" /\ s.rfe["B"].en)
                  IN  IF on THEN s.endir[c] \cup {blk} ELSE s.endir[c] \ {blk}]

Block(mode, p) == [en |-> mode # "off", lb |-> mode = "lb", path |-> p]

lms7002m_rfe_path(s, p, mode) ==
    LET t == [s EXCEPT !.rfe = [c \in CH |-> IF c \in s.mac THEN Block(mode, p) ELSE @[c]]]
        u == [t EXCEPT !.endir = RfEnable(t, "rfe")]
    IN  IF s.mac = {} THEN Fail(s)
        ELSE lms7002m_spi_post(u, Banked(u, [c \in CH |-> <<<<"endir", u.endir[c]>>, <<"rfe", u.rfe[c]>>>>]))

lms7002m_trf_path(s, p, mode) ==
    LET t == [s EXCEPT !.trf = [c \in CH |-> IF c \in s.mac THEN Block(mode, p) ELSE @[c]]]
        u == [t EXCEPT !.endir = RfEnable(t, "trf")]
    IN  IF s.mac = {} THEN Fail(s)
        ELSE lms7002m_spi_post(u, Banked(u, [c \in CH |->
                 <<<<"endir", u.endir[c]>>, <<"trf", u.trf[c]>>>>]) \o <<<<"band", p>>>>)

(* Index of the LNA gain; in loopback the LNA is held at its lowest tap.   *)
lms7002m_rfe_gain(s, g) ==
    LET t == [s EXCEPT !.lna = [c \in CH |-> IF g # LnaKeep /\ c \in s.mac THEN g ELSE @[c]]]
    IN  lms7002m_spi_post(t, Banked(t, [c \in CH |->
            <<<<"rfegain", IF t.rfe[c].lb THEN 1 ELSE t.lna[c]>>>>]))

(* The loss code of a gain in tenths of dB and the gain it reports.        *)
TrfAtten(gx10) ==
    LET a == (-gx10) \div 10
    IN  IF a > 52 THEN [code |-> 31, out |-> -520]
        ELSE IF a > 10 THEN LET h == (a + 10) \div 2 IN [code |-> h, out |-> -10 * (2 * h - 10)]
        ELSE [code |-> a % 256, out |-> -10 * a]

PadWrite(s) ==
    IF s.mac = {} THEN Fail(s) ELSE lms7002m_spi_post(s, Banked(s, [c \in CH |-> <<<<"pad", s.pad[c]>>>>]))

lms7002m_trf_gain(s, gx10) ==
    PadWrite([s EXCEPT !.pad = [c \in CH |-> IF c \in s.mac THEN TrfAtten(gx10).code ELSE @[c]]])

(* The gain of the loopback path is in the register of the pad; no         *)
(* property reads its value.                                               *)
TrfGainLb(s) == PadWrite(s)

(* The baseband filters: path (which marks the block enabled in the copy   *)
(* of EN_DIR only) and bandwidth.                                          *)
BbPath(s, d, v) ==
    LET blk == IF d = "rx" THEN "rbb" ELSE "tbb"
        t   == [s EXCEPT !.endir = [c \in CH |-> IF c \in s.mac THEN @[c] \cup {blk} ELSE @[c]]]
    IN  lms7002m_spi_post(t, <<<<Tsp(d).bb, v>>>>)
-----------------------------------------------------------------------------
(* lms7002m_ctrl.c                                                         *)

Bandwidth(s, d, bw) ==
    Then(BbPath(s, d, 0), LAMBDA t : lms7002m_spi_post(t, <<<<Tsp(d).bb, bw>>>>))

(* get_antenna_cfg_by_freq on the board's table.                           *)
BandByFreq(d, f) == IF d = "rx" THEN (IF f < 2 THEN "W" ELSE IF f < 3 THEN "H" ELSE "L")
                                ELSE (IF f < 2 THEN "B1" ELSE "B2")

TrfFromRfe(p) == IF p = "L" THEN "B2" ELSE "B1"

AntPortSw(s, d, p) == Io(s, [s EXCEPT !.sw[d] = IF s.lb THEN "lb" ELSE p])

lms7002m_set_lna_rx(s, p) ==
    Then(lms7002m_rfe_path([s EXCEPT !.cfg.rx = p], p, IF s.lb THEN "lb" ELSE "on"), LAMBDA t :
    Then(IF t.lb THEN lms7002m_trf_path(t, TrfFromRfe(p), "lb") ELSE Ok(t), LAMBDA u :
         AntPortSw(u, "rx", p)))

lms7002m_set_lna_tx(s, p) ==
    LET t == [s EXCEPT !.cfg.tx = p]
    IN  Then(IF t.lb THEN lms7002m_rfe_path(t, IF p = "B1" THEN "W" ELSE "L", "lb") ELSE Ok(t),
             LAMBDA u : Then(lms7002m_trf_path(u, p, IF u.lb THEN "lb" ELSE "on"), LAMBDA v :
                             AntPortSw(v, "tx", p)))

SetLna(s, d, p) == IF d = "rx" THEN lms7002m_set_lna_rx(s, p) ELSE lms7002m_set_lna_tx(s, p)

(* mutant: the band used last instead of the one of the LO.                *)
LnaChangedStale(s, d) ==
    IF s.path[d] = "auto" THEN SetLna(s, d, s.cfg[d]) ELSE Ok(s)

(* XSDR_xX_LNA_CHANGED and XSDR_xX_LO_CHANGED.                             *)
LnaChanged(s, d) ==
    IF s.path[d] = "auto" THEN SetLna(s, d, BandByFreq(d, s.lo[d])) ELSE Ok(s)
LoChanged(s, d) == Then(lms7002m_mac_set(s, AB), LAMBDA t : LnaChanged(t, d))

(* The gains that the driver stores; the others are plain writes.          *)
lms7002m_set_gain(s, chs, kind, g) ==
    Then(lms7002m_mac_set(s, chs), LAMBDA t :
        CASE kind = "lna" -> lms7002m_rfe_gain(t, g)
          [] kind = "pad" ->
               {[o EXCEPT !.s.loss = [c \in CH |-> IF c \in chs
                            THEN (TrfAtten(-10 * g).out \div (-10)) % 256 ELSE @[c]]]
                    : o \in lms7002m_trf_gain(t, -10 * g)}
          [] kind = "pga" -> Io(t, t))

(* A tune leaves the LO of the caller in the driver's copy only when it    *)
(* succeeded; a running direction then selects its band again.             *)
lms7002m_fe_set_freq(s, type, f) ==
    LET d == IF type = "rx" THEN "rx" ELSE "tx"
        moved == IF type = "tdd" THEN DIRS ELSE {d}
        Signal(t, e) == IF e \in moved /\ t.run[e] # {} THEN LoChanged(t, e) ELSE Ok(t)
    IN  IF f = 0 THEN Ignore(lms7002m_sxx_disable(s, d))
        ELSE Always(IF type = "tdd" THEN lms7002m_sxx_disable(s, "rx") ELSE Ok(s), LAMBDA t :
             Then(lms7002m_sxx_tune(t, d, f), LAMBDA u :
             Then(Signal([u EXCEPT !.lo = [e \in DIRS |-> IF e \in moved THEN f ELSE @[e]]], "rx"),
                  LAMBDA v : Signal(v, "tx"))))

LbStatusChanges(s) ==
    Then(IF s.lb THEN Then(TrfGainLb(s), LAMBDA t : lms7002m_trf_gain(t, 0))
         ELSE Then(lms7002m_trf_gain(s, -10 * s.loss[IF "A" \in s.mac THEN "A" ELSE "B"]),
                   LAMBDA t : lms7002m_set_lna_tx(t, t.cfg.tx)),
         LAMBDA t : lms7002m_rfe_gain(t, LnaKeep))

RxBand(s, p) == IF p = "auto" THEN BandByFreq("rx", s.lo.rx)
                ELSE CASE p \in {"W", "lW"} -> "W" [] p \in {"H", "lH"} -> "H" [] OTHER -> "L"

lms7002m_rfe_set_path(s, p) ==
    LET lb == p \in LbPaths
        t  == [s EXCEPT !.lb = lb, !.path.rx = p]
    IN  IF p \notin RxPaths THEN Fail(s)
        ELSE Then(lms7002m_set_lna_rx(t, RxBand(t, p)), LAMBDA u :
                  IF s.lb # lb THEN LbStatusChanges(u) ELSE Ok(u))

(* tx_auto clears the loopback flag without telling the receive side.      *)
lms7002m_tfe_set_path(s, p) ==
    IF p = "auto" THEN LnaChanged([s EXCEPT !.path.tx = p, !.lb = FALSE], "tx")
    ELSE lms7002m_set_lna_tx([s EXCEPT !.path.tx = p], p)

lms7002m_fe_set_lna(s, chs, d, p) ==
    Then(lms7002m_mac_set(s, chs), LAMBDA t :
         IF d = "tx" THEN lms7002m_tfe_set_path(t, p) ELSE lms7002m_rfe_set_path(t, p))

ChSeq(chs) == SelectSeq(<<"A", "B">>, LAMBDA c : c \in chs)

(* For both channels the result of channel A's filter is overwritten by    *)
(* that of selecting channel B.                                            *)
lms7002m_bb_set_badwidth(s, chs, d, bw) ==
    LET Filter(t, c) == Bandwidth([t EXCEPT !.bw[d][c] = bw], d, bw)
    IN  IF chs = AB
        THEN Then(lms7002m_mac_set(s, {"A"}), LAMBDA t : Always(Filter(t, "A"), LAMBDA u :
             Then(lms7002m_mac_set(u, {"B"}), LAMBDA v : Filter(v, "B"))))
        ELSE Then(lms7002m_mac_set(s, chs), LAMBDA t : Filter(t, CHOOSE c \in chs : TRUE))

(* mutant: the frequency is noted for both channels.                       *)
BbFreqBoth(s, chs, d, f) ==
    LET t == [s EXCEPT !.nco[d] = [c \in CH |-> f]]
    IN  IF ~s.clkdiv THEN Fail([s EXCEPT !.trap = TRUE])
        ELSE IF s.run[d] = {} THEN Ok(t)
        ELSE Then(lms7002m_mac_set(t, chs), LAMBDA u : lms7002m_xxtsp_cmix(u, d, f))

(* cgen_clk is divided by the divider of the converter, which is 0 before  *)
(* the first sample rate: the program is stopped there.                    *)
lms7002m_bb_set_freq(s, chs, d, f) ==
    LET t == [s EXCEPT !.nco[d] = [c \in CH |-> IF c \in chs THEN f ELSE @[c]]]
    IN  IF ~s.clkdiv THEN Fail([s EXCEPT !.trap = TRUE])
        ELSE IF s.run[d] = {} THEN Ok(t)
        ELSE Then(lms7002m_mac_set(t, chs), LAMBDA u :
                  lms7002m_xxtsp_cmix(u, d, u.nco[d][IF chs = {"B"} THEN "B" ELSE "A"]))

lms7002m_streaming_down(s, ds) ==
    LET Down(t, d) ==
            IF d \notin ds THEN Ok(t)
            ELSE Always(lms7002m_xxtsp_enable(t, d, FALSE), LAMBDA u :
                 Always(IF d = "rx" THEN lms7002m_rfe_path(u, "none", "off")
                                    ELSE lms7002m_trf_path(u, "mute", "off"), LAMBDA v :
                        Ok([v EXCEPT !.run[d] = {}])))
    IN  Always(lms7002m_mac_set(s, AB), LAMBDA t :
        Always(Down(t, "rx"), LAMBDA u : Always(Down(u, "tx"), LAMBDA v :
               lms7002m_afe_enable(v, v.run.rx, v.run.tx))))

(* The AFE of channel B needs that of A.                                   *)
AfeOf(chs) == IF chs = {} THEN {} ELSE chs \cup {"A"}

RateBw(s, d) == IF s.div[d] = 0 THEN 9 ELSE s.div[d]

(* mutant: the bank of each channel is not selected.                       *)
RestoreAnyBank(s, d, chs) ==
    ForEach(s, ChSeq(chs), LAMBDA t, c :
        Then(Bandwidth(t, d, IF t.bw[d][c] # 0 THEN t.bw[d][c] ELSE RateBw(t, d)), LAMBDA v :
             lms7002m_xxtsp_cmix(v, d, v.nco[d][c])))

(* Restore settings: bandwidth and NCO of each channel brought up.         *)
Restore(s, d, chs) ==
    ForEach(s, ChSeq(chs), LAMBDA t, c :
        Then(lms7002m_mac_set(t, {c}), LAMBDA u :
        Then(Bandwidth(u, d, IF u.bw[d][c] # 0 THEN u.bw[d][c] ELSE RateBw(u, d)), LAMBDA v :
             lms7002m_xxtsp_cmix(v, d, v.nco[d][c]))))

SelectBand(s, d) ==
    IF s.path[d] = "auto" THEN LnaChanged(s, d) ELSE SetLna(s, d, s.cfg[d])

UpTsp(s, d, chs) ==
    Then(lms7002m_mac_set(s, chs), LAMBDA t :
    Then(lms7002m_xxtsp_int_dec(t, d, t.div[d]), LAMBDA u :
    Then(lms7002m_xxtsp_enable(u, d, TRUE), LAMBDA v : BbPath(v, d, 0))))

UpRx(s, chs) ==
    Then(UpTsp(s, "rx", chs), LAMBDA t :
    Then(TspCorrection(t), LAMBDA u :
    Then(SelectBand([u EXCEPT !.run.rx = chs], "rx"), LAMBDA v : Restore(v, "rx", chs))))

UpTx(s, chs) ==
    Then(UpTsp(s, "tx", chs), LAMBDA t :
    Then(lms7002m_trf_path(t, "mute", "on"), LAMBDA u :
    Then(Restore(u, "tx", chs), LAMBDA v :
    Then(lms7002m_mac_set([v EXCEPT !.run.tx = chs], chs), LAMBDA w : SelectBand(w, "tx")))))

(* Both directions of ds are brought up on the channels chs.               *)
lms7002m_streaming_up(s, ds, chs) ==
    LET t == [s EXCEPT !.chs = [d \in DIRS |-> IF d \in ds THEN chs ELSE @[d]],
                       !.map = [d \in DIRS |-> IF d \in ds THEN <<chs, FALSE, FALSE>> ELSE @[d]]]
        Afe(d) == AfeOf(IF d \in ds THEN chs ELSE s.run[d])
    IN  Then(lms7002m_limelight_map(t), LAMBDA u :
        Then(lms7002m_afe_enable(u, Afe("rx"), Afe("tx")), LAMBDA v :
        Then(IF "rx" \in ds THEN UpRx(v, chs) ELSE Ok(v), LAMBDA w :
        Then(IF "tx" \in ds THEN UpTx(w, chs) ELSE Ok(w), LAMBDA x : lms7002m_dc_corr_en(x)))))

(* The dividers are stored before the clock is tuned, with up to eight     *)
(* attempts; cfg is the limelight configuration asked for.                 *)
lms7002m_samplerate(s, r, cfg) ==
    LET t == [s EXCEPT !.div = r, !.clkdiv = TRUE]
        f == IF r.rx > r.tx THEN r.rx ELSE r.tx
        Tune(u) == lms7002m_cgen_tune(u, f)
        Again(S) == OrElse(S, Tune)
        IntDec(u, d) ==
            IF u.run[d] = {} THEN Ok(u)
            ELSE Then(lms7002m_mac_set(u, AB), LAMBDA v : lms7002m_xxtsp_int_dec(v, d, v.div[d]))
        AutoBw(u, d, c) ==
            IF r[d] = 0 \/ c \notin u.run[d] \/ u.bw[d][c] # 0 THEN Ok(u)
            ELSE Then(lms7002m_mac_set(u, {c}), LAMBDA v :
                 Then(Bandwidth(v, d, r[d]), LAMBDA w :
                      IF d = "rx" THEN Ok(w)
                      ELSE Then(lms7002m_set_gain(w, {c}, "pga", 13), LAMBDA x :
                                lms7002m_set_gain(x, {c}, "pad", 0))))
    IN  Then(Again(Again(Again(Tune(t)))), LAMBDA u :
        Then(IntDec([u EXCEPT !.cgen = f], "rx"), LAMBDA v :
        Then(IntDec(v, "tx"), LAMBDA w :
        Then(Then(lms7002m_limelight_configure(w, cfg), lms7002m_cds_set), LAMBDA x :
             ForEach([x EXCEPT !.lml = cfg], <<"A", "B">>, LAMBDA y, c :
                 Then(AutoBw(y, "rx", c), LAMBDA z : AutoBw(z, "tx", c)))))))
-----------------------------------------------------------------------------
(* The transceiver is set up for every running channel as the driver's     *)
(* settings ask: processing on, decimation of the sample rate, NCO, the    *)
(* bandwidth of the user if there is one, converters powered.              *)
Configured(s) ==
    \A d \in DIRS : \A c \in s.run[d] :
        /\ s.hw.ch[Tsp(d).en][c]
        /\ s.hw.ch[Tsp(d).dec][c] = s.div[d]
        /\ s.hw.ch[Tsp(d).nco][c] = s.nco[d][c]
        /\ s.bw[d][c] # 0 => s.hw.ch[Tsp(d).bb][c] = s.bw[d][c]
        /\ c \in s.hw.afe[d]
=============================================================================
