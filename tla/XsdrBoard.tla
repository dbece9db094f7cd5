------------------------------ MODULE XsdrBoard ------------------------------
(***************************************************************************)
(* The xSDR family (device/m2_lm7_1): board control xsdr_ctrl.c and the    *)
(* parameter tree, streams and life cycle of m2_lm7_1.c over the LMS7002M  *)
(* of module Lms7.  One variable, xsdr, holds the driver's structures, the *)
(* GPIO lines of the board and the chip.                                   *)
(*                                                                         *)
(* faults bounds the failed accesses of a behaviour; cycled remembers that *)
(* the RFIC was powered again under a driver that had already used it.     *)
(***************************************************************************)
EXTENDS Lms7

CONSTANTS XsdrFaults,   \* how many accesses may fail
          XsdrCalls,    \* how many calls are made between initialize and destroy
          XsdrBoards    \* the boards: "xsdr", "xtrx" (old revision), "ssdr"

VARIABLE xsdr

XsdrBw == 7             \* a bandwidth the user may set
XsdrNco == 1            \* an NCO word the user may set

(* xsdr_ctor, the PMIC of the board found good or not.                     *)
XsdrFresh(board, pmic) ==
    Upd(Lms7Init(XsdrFaults),
        [calls |-> XsdrCalls, board |-> board, pmic |-> pmic, life |-> "created", pwr |-> "off",
         ldo |-> board = "xtrx", pwr_en |-> FALSE, afe_active |-> FALSE, cycled |-> FALSE,
         hwchs |-> [d \in DIRS |-> 2], ddr |-> [d \in DIRS |-> FALSE],
         srate |-> [d \in DIRS |-> 0], sddr |-> FALSE, str |-> {}, lob |-> FALSE])

(* The chip runs when it has its supplies and its reset is released; it    *)
(* forgets everything otherwise.                                           *)
Supplied(s) ==
    LET on == s.ldo /\ s.pwr \in {"run", "stream"}
    IN  [s EXCEPT !.hw = IF on /\ s.hw.on THEN s.hw ELSE HwReset(on)]

GpoPwr(s, v) == Io(s, Supplied([s EXCEPT !.pwr = v]))
GpoLdo(s, v) == Io(s, Supplied([s EXCEPT !.ldo = v]))
Gpo(s) == Io(s, s)      \* a line no property reads

xsdr_pwren(s, on) ==
    Then(GpoPwr([s EXCEPT !.cycled = @ \/ s.pwr_en], "off"), LAMBDA t :
    Then(IF t.board = "xtrx" THEN Ok(t)
         ELSE IF on /\ ~t.pmic THEN Fail(t) ELSE GpoLdo(t, on), LAMBDA u :
    Then(GpoPwr(u, "reset"), LAMBDA v :
    Then(GpoPwr(v, "run"), LAMBDA w :
    Then(lms7002m_create(w), LAMBDA x : Ok([x EXCEPT !.pwr_en = on]))))))

xsdr_checkpwr(s) == IF s.pwr_en THEN Ok(s) ELSE xsdr_pwren(s, TRUE)

(* xsdr_rfic_streaming_xflags: the port map of each direction from the     *)
(* channels brought up, the swap asked for and the width of the stream.    *)
PortMap(s, swap) == [d \in DIRS |-> <<s.chs[d], swap, s.hwchs[d] = 1>>]
xsdr_rfic_streaming_xflags(s, swap) ==
    lms7002m_limelight_map([s EXCEPT !.map = PortMap(s, swap)])

xsdr_hwchans_cnt(s, d, n) ==
    IF s.hwchs[d] = n THEN Ok(s)
    ELSE xsdr_rfic_streaming_xflags([s EXCEPT !.hwchs[d] = n], FALSE)

(* The result of the last of the PHY writes is the one returned.           *)
xsdr_set_samplerate_ex(s, rates, sflag) ==
    LET r == IF rates.rx = 0 /\ rates.tx = 0 THEN [rx |-> 1, tx |-> 0] ELSE rates
    IN  Then(xsdr_checkpwr(s), LAMBDA t :
        LET ddr == sflag \/ (t.ddr.rx /\ t.hwchs.rx = 1)
        IN  Then(lms7002m_samplerate(t, r, <<r, ddr>>), LAMBDA u :
            LET v == [u EXCEPT !.srate = r, !.sddr = ddr]
            IN  Always(IF v.afe_active THEN Ok(v)
                       ELSE Always(lms7002m_afe_enable(v, AB, AB), LAMBDA w :
                                   Ok([w EXCEPT !.afe_active = TRUE])), LAMBDA x :
                Always(Gpo(x), LAMBDA y : Gpo(y)))))

xsdr_rfic_streaming_down(s, ds) == lms7002m_streaming_down([s EXCEPT !.afe_active = FALSE], ds)

(* Above 3.7 GHz the SSDR converts down with its LMS8001.                  *)
xsdr_rfic_fe_set_freq(s, type, f) ==
    IF s.board = "ssdr" /\ f > LoMax
    THEN Then(Finally(Then(Gpo([s EXCEPT !.lob = TRUE]), Gpo), Gpo), LAMBDA t :
              lms7002m_fe_set_freq(t, type, 1))
    ELSE lms7002m_fe_set_freq([s EXCEPT !.lob = FALSE], type, f)

(* The rails of the PMIC and its power good, read in a loop.               *)
PmicRails(s) == Io(s, s)

(* The present boards.  A PMIC that is not the expected one shows only     *)
(* when the RFIC is powered.                                               *)
xsdr_init_revx(s) ==
    Then(GpoPwr(s, "off"), LAMBDA t : Then(PmicRails(t), LAMBDA u : Gpo(u)))

(* The SSDR looks for its LMS8001 and leaves the RFIC powered.             *)
xsdr_trspi_lms8(s) ==
    Then(GpoLdo(s, TRUE), LAMBDA t : Then(GpoPwr(t, "run"), LAMBDA u : Then(Gpo(u), Gpo)))

(* The first boards: two PMICs, of which one is reached over the wires of  *)
(* the RFIC, and one of two DACs.                                          *)
xsdr_init_revo(s) ==
    Then(GpoPwr(s, "off"), LAMBDA t :
    IF ~t.pmic THEN Fail(t)
    ELSE Then(PmicRails(t), LAMBDA u : Then(GpoPwr(u, "off"), LAMBDA v : Gpo(v))))

xsdr_init(s) ==
    Then(Gpo(s), LAMBDA t :
         IF t.board = "xtrx" THEN xsdr_init_revo(t)
         ELSE Then(xsdr_init_revx(t), LAMBDA u :
                   IF u.board = "ssdr" THEN xsdr_trspi_lms8(u) ELSE Ok(u)))

(* The streams of both directions are prepared together, marked running    *)
(* before the transceiver is brought up.                                   *)
xsdr_prepare(s) ==
    Then(IF s.cgen # 0 THEN Ok(s)
         ELSE xsdr_set_samplerate_ex(s, [rx |-> 1, tx |-> 1], FALSE), LAMBDA t :
    Then(GpoPwr(t, "stream"), LAMBDA u :
    Then(Gpo(u), LAMBDA v :
    Then(lms7002m_streaming_up([v EXCEPT !.run = [d \in DIRS |-> AB]], DIRS, AB), LAMBDA w :
    Then(Gpo(w), LAMBDA x : Ignore(lms7002m_limelight_reset(x)))))))

(* mutant: the supply of the RFIC is left on.                              *)
DtorKeepsLdo(s) ==
    Then(xsdr_rfic_streaming_down(s, DIRS), LAMBDA t :
    Then(lms7002m_destroy(t), LAMBDA u : Then(GpoPwr(u, "off"), Gpo)))

xsdr_dtor(s) ==
    Then(xsdr_rfic_streaming_down(s, DIRS), LAMBDA t :
    Then(lms7002m_destroy(t), LAMBDA u :
    Then(GpoPwr(u, "off"), LAMBDA v :
    Then(IF v.board = "xtrx" THEN Gpo(v) ELSE GpoLdo(v, FALSE), Gpo))))

(* The rates of the calibration come from the dividers of the converters,  *)
(* which are 0 before the first sample rate: the program is stopped there. *)
xsdrcal_init_calibrate(s) == IF s.clkdiv THEN Ok(s) ELSE Fail([s EXCEPT !.trap = TRUE])

(* Every calibration ends in an error: the measurement and the antenna     *)
(* configuration it needs return one.  What it changed before stays.       *)
xsdr_calibrate(s, c) ==
    Then(xsdrcal_init_calibrate(s), LAMBDA t :
    Then(xsdr_rfic_streaming_xflags(t, c = "B"), LAMBDA u :
    Then(lms7002m_mac_set(u, {c}), Fail)))
-----------------------------------------------------------------------------
(* m2_lm7_1.c                                                              *)

(* usdr_device_m2_lm7_1_stream_initialize around the transport's own.      *)
XsdrStreamInit(s, d) ==
    Then(xsdr_prepare(s), LAMBDA t :
         Undo(Gpo(t), LAMBDA u : xsdr_rfic_streaming_down(u, {d})))

(* Closing either stream takes the receiver down.                          *)
XsdrStreamDeinit(s) == Always(xsdr_rfic_streaming_down(s, {"rx"}), Gpo)

usdr_device_m2_lm7_1_initialize(s) ==
    Then(xsdr_init(s), LAMBDA t :
    Then(IF t.board = "xtrx" THEN Ok(t) ELSE Gpo(t), LAMBDA u :
         Ok([u EXCEPT !.life = "ready"])))

(* n channels of the stream; one channel allows the single channel double  *)
(* rate mode of the port, which the receiver configures anew.              *)
usdr_device_m2_lm7_1_create_stream(s, d, n) ==
    IF d \in s.str THEN Fail(s)
    ELSE Then(xsdr_hwchans_cnt(s, d, n), LAMBDA t :
         Then(IF d = "rx" /\ (n = 1) # t.sddr
              THEN xsdr_set_samplerate_ex([t EXCEPT !.ddr[d] = @ \/ n = 1], t.srate, t.sddr)
              ELSE Ok([t EXCEPT !.ddr[d] = @ \/ n = 1]), LAMBDA u :
         Then(XsdrStreamInit(u, d), LAMBDA v : Ok([v EXCEPT !.str = @ \cup {d}]))))

usdr_device_m2_lm7_1_unregister_stream(s, d) ==
    IF d \notin s.str THEN Fail(s)
    ELSE Always(XsdrStreamDeinit(s), LAMBDA t : Ok([t EXCEPT !.str = @ \ {d}]))

usdr_device_m2_lm7_1_destroy(s) ==
    Always(ForEach(s, SelectSeq(<<"rx", "tx">>, LAMBDA d : d \in s.str), LAMBDA t, d :
               Ignore(XsdrStreamDeinit(t))), LAMBDA u :
    Always(xsdr_dtor(u), LAMBDA v : Ok([v EXCEPT !.life = "destroyed", !.str = {}])))
-----------------------------------------------------------------------------
XsdrInit == \E b \in XsdrBoards, p \in BOOLEAN : xsdr = XsdrFresh(b, p)

XsdrCall(S) == \E o \in S : xsdr' = [o.s EXCEPT !.calls = IF @ = 0 THEN 0 ELSE @ - 1]
XsdrReady == xsdr.life = "ready" /\ ~xsdr.trap /\ xsdr.calls > 0

XsdrInitialize ==
    xsdr.life = "created" /\ XsdrCall({IF o.ok THEN o ELSE [o EXCEPT !.s.life = "failed"]
                                          : o \in usdr_device_m2_lm7_1_initialize(xsdr)})
XsdrPower == XsdrReady /\ \E on \in BOOLEAN : XsdrCall(xsdr_pwren(xsdr, on))
XsdrRate ==
    XsdrReady /\ \E r \in {[rx |-> 1, tx |-> 1], [rx |-> 2, tx |-> 0]} :
                     XsdrCall(xsdr_set_samplerate_ex(xsdr, r, FALSE))
XsdrFreq ==
    XsdrReady /\ \E type \in {"rx", "tx", "tdd"}, f \in {0, 2, LoMax + 1} :
                     XsdrCall(xsdr_rfic_fe_set_freq(xsdr, type, f))
XsdrBbFreq ==
    XsdrReady /\ \E d \in DIRS, chs \in {AB, {"B"}} :
                     XsdrCall(lms7002m_bb_set_freq(xsdr, chs, d, XsdrNco))
XsdrGain ==
    XsdrReady /\ \E k \in {<<"pad", -20>>, <<"lna", 1>>, <<"pga", 0>>} :
                     XsdrCall(lms7002m_set_gain(xsdr, AB, k[1], k[2]))
XsdrBandwidth ==
    XsdrReady /\ \E d \in DIRS : XsdrCall(lms7002m_bb_set_badwidth(xsdr, AB, d, XsdrBw))
XsdrPath ==
    XsdrReady /\ \E p \in {<<"rx", "lW">>, <<"rx", "H">>, <<"rx", "auto">>, <<"tx", "B2">>, <<"tx", "auto">>} :
                     XsdrCall(lms7002m_fe_set_lna(xsdr, AB, p[1], p[2]))
XsdrCorrection ==
    XsdrReady /\ \E chs \in {AB, {"B"}} :
                     XsdrCall(Then(lms7002m_mac_set(xsdr, chs), TspCorrection))
XsdrCalibrate == XsdrReady /\ \E c \in CH : XsdrCall(xsdr_calibrate(xsdr, c))
XsdrOpen ==
    XsdrReady /\ \E d \in DIRS, n \in {1, 2} :
                     XsdrCall(usdr_device_m2_lm7_1_create_stream(xsdr, d, n))
XsdrClose == XsdrReady /\ \E d \in DIRS : XsdrCall(usdr_device_m2_lm7_1_unregister_stream(xsdr, d))
XsdrDestroy == xsdr.life \in {"ready", "failed"} /\ ~xsdr.trap /\ XsdrCall(usdr_device_m2_lm7_1_destroy(xsdr))

XsdrNext ==
    \/ XsdrInitialize \/ XsdrPower \/ XsdrRate \/ XsdrFreq \/ XsdrBbFreq \/ XsdrGain
    \/ XsdrBandwidth \/ XsdrPath \/ XsdrCorrection \/ XsdrCalibrate
    \/ XsdrOpen \/ XsdrClose \/ XsdrDestroy
-----------------------------------------------------------------------------
(* No access failed and the chip was not powered again in use.             *)
Undisturbed(s) == s.faults = XsdrFaults /\ ~s.cycled

(* A stream that was opened found the transceiver configured, whatever     *)
(* failed before it: an SPI access that failed half way may have left the  *)
(* chip's channel selection different from the driver's copy, and          *)
(* lms7002m_streaming_up repairs that before it writes banked registers.   *)
XsdrOpenConfigures ==
    [][xsdr'.str \ xsdr.str # {} /\ xsdr'.hw.on =>
           Configured(xsdr') /\ xsdr'.hw.mac = xsdr'.mac]_xsdr

(* As long as no access fails, no order of the calls that set rates,       *)
(* bandwidths, NCOs and paths while streams are open takes a running       *)
(* channel away from its settings, and every function that selects one     *)
(* bank selects again the one the driver believes in.                      *)
XsdrRunConfigured ==
    Undisturbed(xsdr) =>
        /\ Configured(xsdr)
        /\ xsdr.life = "ready" /\ xsdr.pwr_en /\ xsdr.hw.on => xsdr.hw.mac = xsdr.mac

(* With automatic band selection a running receiver uses the LNA input of  *)
(* its LO, whether the LO was set before or after the stream was opened,   *)
(* and also after a loopback path was used in between.                     *)
XsdrBandFollowsLo ==
    Undisturbed(xsdr) /\ xsdr.path.rx = "auto" =>
        \A c \in xsdr.run.rx : xsdr.hw.ch["rfe"][c].path = BandByFreq("rx", xsdr.lo.rx)

(* A device destroyed without a failed access has its RFIC unpowered and   *)
(* nothing running, from whatever state it was destroyed.                  *)
XsdrQuiet == Undisturbed(xsdr) /\ xsdr.life = "destroyed" =>
                /\ xsdr.pwr = "off" /\ (xsdr.board # "xtrx" => ~xsdr.ldo)
                /\ \A d \in DIRS : xsdr.run[d] = {}

(* The transceiver is as the calls left it: running channels configured,   *)
(* the band that of the LO, and quiet after the end.                       *)
XsdrAsSet == XsdrRunConfigured /\ XsdrBandFollowsLo /\ XsdrQuiet
=============================================================================
