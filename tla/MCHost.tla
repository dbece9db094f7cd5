------------------------------- MODULE MCHost -------------------------------
(***************************************************************************)
(* The parts of the library above and below the board drivers, each on its *)
(* own: unit says which one a behaviour drives.                            *)
(***************************************************************************)
EXTENDS LimeStream, SfeStream, BurstCalc, FtCtrl, Plugins, KernelDriver, SoapyPlugin, MultiDev, Flash

VARIABLE unit

vars == <<unit, lrx, sfe, burst, ft, plug, kd, soapy, mdev, flash>>

\* Channel maps of one to four channels, in order and not, and packet sizes on
\* both sides of one, two and three bursts.
MCMaps == {<<0>>, <<1>>, <<0, 1>>, <<1, 0>>, <<2, 0>>, <<1, 2>>, <<0, 1, 2, 3>>, <<0, 1, 2>>}
MCSyms == 0..260

\* One device of each transport, two of USB on different buses and one that
\* the registry does not know.
MCPresent ==
    {[t |-> "ft",  bus |-> 1, port |-> 1, addr |-> 5, known |-> TRUE],
     [t |-> "usb", bus |-> 1, port |-> 2, addr |-> 6, known |-> TRUE],
     [t |-> "usb", bus |-> 2, port |-> 1, addr |-> 7, known |-> TRUE],
     [t |-> "usb", bus |-> 2, port |-> 2, addr |-> 8, known |-> FALSE],
     [t |-> "pci", bus |-> 0, port |-> 0, addr |-> 0, known |-> TRUE]}

MCFilters ==
    {[kind |-> k, bus |-> -1, port |-> -1, addr |-> -1] : k \in {"any", "usb", "pci"}}
    \cup {[kind |-> "usb", bus |-> x[1], port |-> x[2], addr |-> x[3]] :
            x \in {<<1, -1, -1>>, <<1, 1, -1>>, <<2, 1, -1>>, <<2, 2, -1>>, <<1, 2, 6>>, <<1, 2, 7>>}}

\* Golden images that jump to the master image and elsewhere, master images of
\* less and more than a sector, and an image for another FPGA.
MCImages ==
    {[id |-> "g0", devid |-> 1, wbstar |-> 24, iprog |-> TRUE, len |-> 6],
     [id |-> "g1", devid |-> 1, wbstar |-> 16, iprog |-> TRUE, len |-> 10],
     [id |-> "m1", devid |-> 1, wbstar |-> 0, iprog |-> FALSE, len |-> 6],
     [id |-> "m2", devid |-> 1, wbstar |-> 0, iprog |-> FALSE, len |-> 12],
     [id |-> "x1", devid |-> 2, wbstar |-> 0, iprog |-> FALSE, len |-> 6]}

\* The request of a behaviour that is not about bursts.
MCReq == CHOOSE q \in BurstReqs : TRUE

Init ==
    /\ unit \in {"lime", "sfe", "burst", "ft", "plug", "kd", "soapy", "mdev", "flash"}
    /\ LimeInit /\ FtInit /\ PlugInit /\ KdInit /\ SoapyInit /\ MdevInit
    /\ IF unit = "sfe" THEN SfeInit ELSE sfe = SfeFresh("sfe")
    /\ IF unit = "burst" THEN BurstInit
       ELSE burst = [req |-> MCReq, ans |-> BurstRefused, done |-> FALSE]
    /\ IF unit = "flash" THEN FlashInit ELSE flash = FlashFresh(FlashImg("g1"), FlashNone)

Next ==
    \/ unit = "lime" /\ LimeNext /\ UNCHANGED <<unit, sfe, burst, ft, plug, kd, soapy, mdev, flash>>
    \/ unit = "sfe" /\ SfeNext /\ UNCHANGED <<unit, lrx, burst, ft, plug, kd, soapy, mdev, flash>>
    \/ unit = "burst" /\ BurstNext /\ UNCHANGED <<unit, lrx, sfe, ft, plug, kd, soapy, mdev, flash>>
    \/ unit = "ft" /\ FtNext /\ UNCHANGED <<unit, lrx, sfe, burst, plug, kd, soapy, mdev, flash>>
    \/ unit = "plug" /\ PlugNext /\ UNCHANGED <<unit, lrx, sfe, burst, ft, kd, soapy, mdev, flash>>
    \/ unit = "kd" /\ KdNext /\ UNCHANGED <<unit, lrx, sfe, burst, ft, plug, soapy, mdev, flash>>
    \/ unit = "soapy" /\ SoapyNext /\ UNCHANGED <<unit, lrx, sfe, burst, ft, plug, kd, mdev, flash>>
    \/ unit = "mdev" /\ MdevNext /\ UNCHANGED <<unit, lrx, sfe, burst, ft, plug, kd, soapy, flash>>
    \/ unit = "flash" /\ FlashNext /\ UNCHANGED <<unit, lrx, sfe, burst, ft, plug, kd, soapy, mdev>>

Spec == Init /\ [][Next]_vars
=============================================================================
