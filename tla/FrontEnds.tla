------------------------------ MODULE FrontEnds ------------------------------
(***************************************************************************)
(* Detection of a pluggable front end (device_fe.c) and the PCIe front end *)
(* board (ext_pciefe.c): its settings live in the driver and are shown to  *)
(* the hardware through two port expanders and, on revision 1, two pins    *)
(* that are switched without the expanders.                                *)
(*                                                                         *)
(* The kinds of front end are tried in a fixed order; all share the pins   *)
(* and the bus of the slot.                                                *)
(***************************************************************************)
EXTENDS Outcome

CONSTANTS FesFaults, FesCalls      \* bounds on failed accesses and on calls

VARIABLE fes

(* s_fe_names, in the order they are tried; the slots each one fits.       *)
FesKinds == <<"pciefe", "supersync", "simplesync", "exm2pe", "fe1005000">>
FesSlots == {"m2a+e", "m2m", "lsdr"}
FesFits(k, slot) ==
    CASE k = "fe1005000" -> slot = "lsdr"
      [] k = "supersync" -> slot \in {"m2a+e", "m2m"}
      [] OTHER -> slot = "m2a+e"

PciefeFields == {"rx", "tx", "trx", "lna", "pa", "lb", "attn", "osc", "gps", "led"}
PciefeZero == [f \in PciefeFields |-> 0]

FesFresh(slot, plugged, hint, rev, reset) ==
    [faults |-> FesFaults, calls |-> FesCalls, life |-> "created", slot |-> slot, plugged |-> plugged, hint |-> hint,
     rev |-> rev, kind |-> "none", enodev |-> FALSE, dac |-> FALSE, pins |-> [p \in {"osc", "gps"} |-> reset], set |-> PciefeZero,
     hw |-> [f \in PciefeFields |-> reset], pin |-> [lb |-> reset, attn |-> reset], stale |-> {}, shown |-> FALSE]

FesIo(s) == Io(s, s)
FesPins(s, osc, gps) == Io(s, [s EXCEPT !.pins = [osc |-> osc, gps |-> gps]])

(* -ENODEV: not this one.                                                  *)
NotHere(s) == Fail([s EXCEPT !.enodev = TRUE])
-----------------------------------------------------------------------------
(* ext_pciefe.c                                                            *)

(* On revision 0 the supply of the amplifiers serves both directions.      *)
PciefeBit(s, f) == IF f = "pa" /\ s.rev = 0 /\ s.set["lna"] = 1 THEN 1 ELSE s.set[f]

(* A write to an expander shows the fields fs of the settings.             *)
PciefeWr(s, fs) == Io(s, [s EXCEPT !.hw = [f \in PciefeFields |-> IF f \in fs THEN PciefeBit(s, f) ELSE @[f]]])
PciefeBoth(s, fs, gs) == Then(PciefeWr(s, fs), LAMBDA t : PciefeWr(t, gs))

(* Power: GPS and oscillator with the first register, the rest of the LEDs *)
(* with the second.                                                        *)
board_ext_pciefe_updpwr(s) ==
    PciefeBoth(s, {"gps", "osc"} \cup (IF s.rev = 1 THEN {"led"} ELSE {}), {"led"})

(* Revision 0 has two registers.  Revision 1 has one, which also enables   *)
(* the oscillator; its loop-back is a pin.                                 *)
board_ext_pciefe_updfe(s) ==
    IF s.rev = 0 THEN PciefeBoth(s, {"rx", "tx"}, {"lna", "pa", "attn", "lb", "trx"})
    ELSE PciefeWr(s, {"attn", "osc", "pa", "lna", "trx", "rx", "tx"})

(* On revision 1 loop-back and attenuator have pins of their own; one      *)
(* whose write failed stays behind the setting.                            *)
PciefeFast(s, f) == s.rev = 1 /\ f \in {"lb", "attn"}
PciefePin(s, f) ==
    Io([s EXCEPT !.stale = @ \cup {f}], [s EXCEPT !.pin[f] = s.set[f], !.stale = @ \ {f}])

PciefeAll(s) == Then(board_ext_pciefe_updfe(s), board_ext_pciefe_updpwr)

Shown(S) == {[o EXCEPT !.s.shown = o.ok] : o \in S}

(* mutant: switching something off waits for the next command.             *)
CmdDefersOff(s, f, v) ==
    LET t == [s EXCEPT !.set[f] = v]
    IN  IF PciefeFast(s, f) THEN PciefePin(t, f)
        ELSE IF v = 0 THEN Ok(t) ELSE Shown(PciefeAll(t))

(* A setting is noted and all registers are written, or a pin is switched. *)
board_ext_pciefe_cmd_wr(s, f, v) ==
    LET t == [s EXCEPT !.set[f] = v]
    IN  IF PciefeFast(s, f) THEN PciefePin(t, f) ELSE Shown(PciefeAll(t))

(* A register of an expander written by hand.                              *)
board_ext_pciefe_ereg_wr(s, f, v) == Io([s EXCEPT !.shown = FALSE], [s EXCEPT !.shown = FALSE, !.hw[f] = v])

(* The options given with the hint; without them everything is off.        *)
PciefeOptions == {PciefeZero} \cup
                 {[PciefeZero EXCEPT !["lna"] = 1, !["osc"] = 1], [PciefeZero EXCEPT !["pa"] = 1, !["trx"] = 1, !["lb"] = 1]}

(* The oscillator's supply is on while the DAC is looked for; then the     *)
(* options are shown.                                                      *)
board_ext_pciefe_init(s) ==
    LET t == [s EXCEPT !.set = [PciefeZero EXCEPT !["osc"] = 1]]
        Show(u, opt) ==
            LET v == [u EXCEPT !.set = opt]
            IN  Shown(Then(IF v.rev = 0 THEN Ok(v) ELSE Then(PciefePin(v, "attn"), LAMBDA w : PciefePin(w, "lb")), PciefeAll))
    IN  Then(FesIo(t), LAMBDA u :
        IF u.plugged # "pciefe" THEN IF u.hint = "none" THEN NotHere(u) ELSE Fail(u)
        ELSE Then(board_ext_pciefe_updpwr(u), LAMBDA v :
             Then(Io(v, [v EXCEPT !.dac = TRUE]), LAMBDA w :
                  UNION {Show(w, opt) : opt \in IF w.hint = "none" THEN {PciefeZero} ELSE PciefeOptions})))
-----------------------------------------------------------------------------
(* The other boards.                                                       *)

(* The clock chip of a synchronisation board answers or does not.          *)
FesLmk(s, k) == Then(FesIo(s), LAMBDA t : IF t.plugged = k THEN Ok(t) ELSE NotHere(t))

board_ext_supersync_init(s) == FesLmk(s, "supersync")
board_ext_simplesync_init(s) == Then(FesPins(s, 1, 1), LAMBDA t : FesLmk(t, "simplesync"))

(* The output divider and mux of four outputs after the second PLL.        *)
simplesync_tune_lo(s) == Then(FesIo(s), FesIo)

(* A breakout whose DAC does not answer is accepted, so that an empty slot *)
(* is one, too.  The options power the oscillator and the GPS.             *)
board_exm2pe_init(s) ==
    Always(FesPins(s, 1, 1), LAMBDA t :
    Always(IF t.plugged = "exm2pe" THEN Io(t, [t EXCEPT !.dac = TRUE]) ELSE Fail(t), LAMBDA u :
    Then(FesIo(u), LAMBDA v : FesPins(v, 0, 0) \cup IF v.hint = "none" THEN {} ELSE FesPins(v, 1, 0))))

board_exm2pe_enable(s, p, v) == Io(s, [s EXCEPT !.pins[p] = v])
board_exm2pe_set_dac(s) == IF s.dac THEN FesIo(s) ELSE Fail(s)

FesTry(s, k) ==
    LET t == [s EXCEPT !.enodev = FALSE]
    IN  IF ~FesFits(k, s.slot) THEN NotHere(s)
        ELSE CASE k = "pciefe"     -> board_ext_pciefe_init(t)
               [] k = "supersync"  -> board_ext_supersync_init(t)
               [] k = "simplesync" -> board_ext_simplesync_init(t)
               [] k = "exm2pe"     -> board_exm2pe_init(t)
               [] k = "fe1005000"  -> FesLmk(t, k)
-----------------------------------------------------------------------------
(* device_fe.c                                                             *)

(* mutant: the breakout is tried first.                                    *)
ProbeBreakoutFirst(s) ==
    LET Tried(t, k) == IF t.kind # "none" \/ t.hint \notin {"none", k} THEN Ok(t)
                       ELSE UNION {IF o.ok THEN Ok([o.s EXCEPT !.kind = k])
                                   ELSE IF t.hint # "none" /\ ~o.s.enodev THEN {o} ELSE Ok(o.s) : o \in FesTry(t, k)}
    IN  ForEach(s, <<"exm2pe", "pciefe", "supersync", "simplesync", "fe1005000">>, Tried)

(* The kinds are tried in order, or the one that the hint names.  With a   *)
(* hint an error ends the search; without one it is passed over like a     *)
(* kind that is not there.                                                 *)
FesSearch(s) ==
    LET Tried(t, k) == IF t.kind # "none" \/ t.hint \notin {"none", k} THEN Ok(t)
                       ELSE UNION {IF o.ok THEN Ok([o.s EXCEPT !.kind = k])
                                   ELSE IF t.hint # "none" /\ ~o.s.enodev THEN {o} ELSE Ok(o.s) : o \in FesTry(t, k)}
    IN  ForEach(s, FesKinds, Tried)

(* No front end is an error only with a hint.  Registering the parameters  *)
(* may fail after the search.                                              *)
device_fe_probe(s) ==
    Then(FesSearch(s), LAMBDA t : IF t.kind # "none" THEN FesIo(t) ELSE IF t.hint = "none" THEN Ok(t) ELSE Fail(t))

(* _debug_ll_mdev_set: all boards of an array get the reference of the     *)
(* simple synchronisation board.                                           *)
_debug_ll_mdev_set(s) == IF s.kind = "simplesync" THEN Then(FesIo(s), FesIo) ELSE Ok(s)
-----------------------------------------------------------------------------
FesInit ==
    \E slot \in FesSlots, rev \in {0, 1}, reset \in {0, 1} :
    \E plugged \in {"none"} \cup {k \in {FesKinds[i] : i \in DOMAIN FesKinds} : FesFits(k, slot)} :
    \E hint \in {"none", plugged, "pciefe"} : fes = FesFresh(slot, plugged, hint, rev, reset)

FesCall(S) == \E o \in S : fes' = [o.s EXCEPT !.calls = IF @ = 0 THEN 0 ELSE @ - 1]
FesReady(k) == fes.life = "ready" /\ fes.kind = k /\ fes.calls > 0

FesProbe ==
    fes.life = "created" /\ FesCall({[o EXCEPT !.s.life = IF o.ok THEN "ready" ELSE "failed"] : o \in device_fe_probe(fes)})
FesCommand ==
    FesReady("pciefe") /\ \E f \in PciefeFields, v \in {0, 1} : FesCall(board_ext_pciefe_cmd_wr(fes, f, v))
FesByHand ==
    FesReady("pciefe") /\ \E f \in {"lna", "trx", "osc"} : FesCall(board_ext_pciefe_ereg_wr(fes, f, 1))
FesBreakout ==
    FesReady("exm2pe") /\ \/ \E p \in {"osc", "gps"}, v \in {0, 1} : FesCall(board_exm2pe_enable(fes, p, v))
                          \/ FesCall(board_exm2pe_set_dac(fes))
FesSync ==
    FesReady("simplesync") /\ FesCall(simplesync_tune_lo(fes) \cup _debug_ll_mdev_set(fes))

FesNext == FesProbe \/ FesCommand \/ FesByHand \/ FesBreakout \/ FesSync
-----------------------------------------------------------------------------
(* Once a command that rewrites the registers succeeded, the hardware      *)
(* shows every setting, whatever failed or was written by hand before, and *)
(* does so until a command fails: also where a setting is in the registers *)
(* of both expanders or on a pin.  A pin whose last write failed is not    *)
(* counted: no other command rewrites it.                                  *)
PciefeShows ==
    fes.kind = "pciefe" /\ fes.life = "ready" /\ fes.shown =>
        \A f \in PciefeFields :
            IF PciefeFast(fes, f) THEN f \in fes.stale \/ fes.pin[f] = fes.set[f] ELSE fes.hw[f] = PciefeBit(fes, f)

(* Without failed accesses the front end that is plugged is the one that   *)
(* is found, with and without a hint, though an empty slot passes for a    *)
(* breakout; and nothing that was switched on while searching stays on     *)
(* without being asked for: a front end found without options has its      *)
(* oscillator and amplifiers off, and so have the pins that kinds tried in *)
(* vain had switched.                                                      *)
FesFound ==
    fes.faults = FesFaults /\ fes.life = "ready" =>
        /\ fes.plugged # "none" => fes.kind = fes.plugged
        /\ fes.kind = "exm2pe" /\ fes.calls = FesCalls - 1 /\ fes.hint = "none" => fes.pins = [osc |-> 0, gps |-> 0]
        /\ fes.kind = "pciefe" /\ fes.calls = FesCalls - 1 /\ fes.hint = "none" =>
              \A f \in {"osc", "gps", "lna", "pa"} : fes.hw[f] = 0

(* The front end is the one plugged, and shows the settings accepted.      *)
FesAsSet == PciefeShows /\ FesFound
=============================================================================
