------------------------------ MODULE Plugins ------------------------------
(***************************************************************************)
(* The life cycle of a transport: the dispatcher that tries the plug-ins   *)
(* in order (lowlevel/usdr_lowlevel.c), the creation of a device over      *)
(* FT601, USB (libusb_generic.c) and PCIe with its error paths, the board  *)
(* registry it asks (device/device.c), its streams, and its end.           *)
(*                                                                         *)
(* What a transport holds is a set of names: mem, ctx and dh (libusb), fd  *)
(* and map (PCIe), thread (the I/O thread), pdev (the board object), rx    *)
(* and tx (stream buffers).                                                *)
(***************************************************************************)
EXTENDS Outcome, Integers

CONSTANTS PlugFaults, PlugCalls,  \* bounds on failures and on calls
          PlugPresent,            \* devices: [t, bus, port, addr, known]
          PlugFilters             \* [kind, bus, port, addr] of bus=; -1: not given

(* Devices are on a bus a plug-in serves; only a filter for USB says which *)
(* device of it is meant.                                                  *)
ASSUME PlugAssumption ==
    /\ PlugFaults \in Nat
    /\ \A d \in PlugPresent : d.t \in {"ft", "usb", "pci"} /\ d.known \in BOOLEAN
    /\ \A f \in PlugFilters : /\ f.kind \in {"any", "usb", "pci"}
                              /\ f.kind # "usb" => f.bus = -1 /\ f.port = -1 /\ f.addr = -1

VARIABLE plug

PlugStreams == {"rx", "tx"}

(* dev is the device the caller got; served tells that the end of a board  *)
(* object was always run over a transport still in operation, refused that *)
(* a device was found with an identifier the registry does not know.       *)
PlugNone == [t |-> "none"]
PlugFresh == [faults |-> PlugFaults, calls |-> PlugCalls, dev |-> PlugNone, flt |-> [kind |-> "any"],
              held |-> [k \in {"ft", "usb", "pci"} |-> {}], served |-> TRUE, refused |-> FALSE]

PlugTake(s, t, R) == [s EXCEPT !.held[t] = @ \cup R]
PlugDrop(s, t, R) == [s EXCEPT !.held[t] = @ \ R]
-----------------------------------------------------------------------------
(* usdr_device_create: the first entry of the registry with the identifier *)
(* of the device makes the board object.                                   *)
usdr_device_create(s, d) == IF ~d.known THEN Fail([s EXCEPT !.refused = TRUE]) ELSE Io(s, PlugTake(s, d.t, {"pdev"}))

(* device_bus_init: the bus tables from the parameters of the board.       *)
device_bus_init(s) == Io(s, s)

(* Board initialization and the steps before it that may fail.             *)
PlugInitialize(s) == Then(Io(s, s), LAMBDA t : Io(t, t))
-----------------------------------------------------------------------------
(* usb_filtering_params_parse: another bus is refused.                     *)
usb_filtering_params_parse(f) == f.kind \in {"any", "usb"}

(* mutant: a device given by bus and port is looked for by the port.       *)
MatchByPort(f, d) ==
    \/ f.addr = -1 /\ f.bus = -1 /\ f.port = -1
    \/ f.addr = -1 /\ f.port = d.port
    \/ f.bus = d.bus /\ f.port = d.port /\ f.addr = d.addr

(* A filter by bus alone matches nothing.                                  *)
find_usb_match(f, d) ==
    \/ f.addr = -1 /\ f.bus = -1 /\ f.port = -1
    \/ f.addr = -1 /\ f.bus = -1 /\ f.port = d.port
    \/ f.addr = -1 /\ f.bus = d.bus /\ f.port = d.port
    \/ f.bus = d.bus /\ f.port = d.port /\ f.addr = d.addr

PlugSeen(t, f) == {d \in PlugPresent : d.t = t /\ (t # "pci" => find_usb_match(f, d))}

(* The first match in the order libusb lists the devices, if there is one. *)
PlugMatches(t, f) == IF PlugSeen(t, f) = {} THEN {{}} ELSE {{d} : d \in PlugSeen(t, f)}

(* libusb_generic_plugin_create: an interface that cannot be claimed       *)
(* leaves the device open.  A reset or a kernel driver that does not let   *)
(* go is only logged.                                                      *)
libusb_generic_plugin_create(s, t, f, match) ==
    IF ~usb_filtering_params_parse(f) THEN Fail(s)
    ELSE Then(Io(s, PlugTake(s, t, {"ctx"})), LAMBDA u :
         IF match = {} THEN Fail(PlugDrop(u, t, {"ctx"}))
         ELSE Undo(Then(Io(u, PlugTake(u, t, {"dh"})), LAMBDA v : Io(v, v)),
                   LAMBDA v : Ok(PlugDrop(v, t, {"ctx"}))))

(* The transfers are prepared, then the I/O thread is started.             *)
usb_async_start(s, t) == Then(Io(s, s), LAMBDA u : Io(u, PlugTake(u, t, {"thread"})))
libusb_generic_stop_thread(s, t) == PlugDrop(s, t, {"thread"})

(* usb_uram_generic_create_and_init and the FT601 one, which starts its    *)
(* thread itself.                                                          *)
PlugFtAsyncStart(s) == usb_async_start(s, "ft")
PlugBoard(s, d) ==
    Then(usdr_device_create(s, d), LAMBDA u :
    Then(device_bus_init(u), LAMBDA v : PlugInitialize(v)))
usbft601_uram_generic_create_and_init(s, d) ==
    Then(Io(s, s), LAMBDA u : Then(PlugFtAsyncStart(u), LAMBDA v : Then(Io(v, v), LAMBDA w : PlugBoard(w, d))))

(* The memory of the transport is given back on every failure, with the    *)
(* thread that may run on it ("//usb_async_stop(dev->mgr);") and the       *)
(* device handle left.                                                     *)
PlugRun(s, t, d) ==
    IF t = "usb" THEN Then(usb_async_start(s, t), LAMBDA u : PlugBoard(u, d))
    ELSE Then(Io(s, s), LAMBDA u : usbft601_uram_generic_create_and_init(u, d))
PlugMake(s, t, f) ==
    UNION {Undo(Then(libusb_generic_plugin_create(PlugTake(s, t, {"mem"}), t, f, match), LAMBDA u :
                     UNION {Then(PlugRun(u, t, d), LAMBDA v : Ok([v EXCEPT !.dev = d])) : d \in match}),
                LAMBDA u : Ok(PlugDrop(u, t, {"mem"})))
           : match \in PlugMatches(t, f)}
usb_uram_plugin_create(s, f) == PlugMake(s, "usb", f)
usbft601_uram_plugin_create(s, f) == PlugMake(s, "ft", f)

(* pcie_uram_plugin_create: the identity and the ABI of the driver, the    *)
(* board, the layout handed to the driver; registers are mapped if that    *)
(* works, and by ioctl otherwise.                                          *)
pcie_filtering_params_parse(f) == f.kind \in {"any", "pci"}
PlugLayout(s) == Then(Io(s, s), LAMBDA u : Ok(u) \cup Ok(PlugTake(u, "pci", {"map"})))
PlugPcieUndo(s) == Ok(PlugDrop(s, "pci", {"map", "mem", "fd"}))
pcie_uram_plugin_create(s, f) ==
    IF ~pcie_filtering_params_parse(f) \/ PlugSeen("pci", f) = {} THEN Fail(s)
    ELSE UNION {Undo(Then(Io(s, PlugTake(s, "pci", {"fd", "mem"})), LAMBDA u :
                     Then(Io(u, u), LAMBDA v :
                     Then(usdr_device_create(v, d), LAMBDA w :
                     Then(device_bus_init(w), LAMBDA x :
                     Then(PlugLayout(x), LAMBDA y :
                     Then(PlugInitialize(y), LAMBDA z : Ok([z EXCEPT !.dev = d]))))))),
                     PlugPcieUndo)
                : d \in PlugSeen("pci", f)}

(* lowlevel_create: a plug-in that fails is followed by the next one.      *)
PlugCreate(s, f) ==
    OrElse(OrElse(usbft601_uram_plugin_create(s, f), LAMBDA u : usb_uram_plugin_create(u, f)),
           LAMBDA u : pcie_uram_plugin_create(u, f))
-----------------------------------------------------------------------------
(* A stream that fails half way keeps its buffers.                         *)
PlugStreamInit(s, t, k) == LET u == PlugTake(s, t, {k}) IN Then(Io(s, u), LAMBDA v : Io(v, v))
PlugStreamDeinit(s, t, k) == PlugDrop(s, t, {k})

(* The end of a board object goes through the transport.                   *)
PlugAlive(s, t) == IF t = "pci" THEN "fd" \in s.held[t] ELSE {"thread", "dh"} \subseteq s.held[t]
PlugBoardDestroy(s, t) ==
    [PlugDrop(s, t, {"pdev"}) EXCEPT !.served = @ /\ PlugAlive(s, t) /\ s.held[t] \cap PlugStreams = {}]

(* mutant: the thread is stopped before the board object is ended.         *)
StopThenDestroy(s, t) ==
    LET u == libusb_generic_stop_thread(PlugDrop(s, t, PlugStreams), t)
    IN  PlugDrop(PlugBoardDestroy(u, t), t, {"dh", "mem"})

(* usb_uram_destroy and usbft601_uram_destroy: the libusb context stays.   *)
usb_uram_destroy(s, t) ==
    LET u == PlugBoardDestroy(PlugDrop(s, t, PlugStreams), t)
    IN  PlugDrop(libusb_generic_stop_thread(u, t), t, {"dh", "mem"})
usbft601_uram_destroy(s) == usb_uram_destroy(s, "ft")
pcie_uram_destroy(s) ==
    PlugDrop(PlugBoardDestroy(PlugDrop(s, "pci", PlugStreams), "pci"), "pci", {"map", "fd", "mem"})
PlugDestroy(s) ==
    LET t == s.dev.t
    IN  Ok([(IF t = "pci" THEN pcie_uram_destroy(s) ELSE IF t = "ft" THEN usbft601_uram_destroy(s)
             ELSE usb_uram_destroy(s, "usb")) EXCEPT !.dev = PlugNone])
-----------------------------------------------------------------------------
PlugDo(S) == \E o \in S : plug' = [o.s EXCEPT !.calls = @ - 1]
PlugOpen == /\ plug.calls > 0 /\ plug.dev = PlugNone
            /\ \E f \in PlugFilters : PlugDo(PlugCreate([plug EXCEPT !.flt = f], f))
PlugUp == plug.calls > 0 /\ plug.dev # PlugNone
PlugStart == PlugUp /\ \E k \in PlugStreams \ plug.held[plug.dev.t] : PlugDo(PlugStreamInit(plug, plug.dev.t, k))
PlugStop == PlugUp /\ \E k \in PlugStreams : PlugDo(Ok(PlugStreamDeinit(plug, plug.dev.t, k)))
PlugClose == PlugUp /\ PlugDo(PlugDestroy(plug))

PlugInit == plug = PlugFresh
PlugNext == PlugOpen \/ PlugStart \/ PlugStop \/ PlugClose

PlugSpec == PlugInit /\ [][PlugNext]_plug
-----------------------------------------------------------------------------
PlugAsked(f, d) ==
    /\ f.kind = "usb" => d.t # "pci"
    /\ f.kind = "pci" => d.t = "pci"
    /\ d.t # "pci" => /\ f.bus \in {-1, d.bus} /\ f.port \in {-1, d.port} /\ f.addr \in {-1, d.addr}

(* The device opened is one the filter asks for, part by part, and it is   *)
(* the first of the plug-ins' order that can be had: a later plug-in is    *)
(* reached only through a failure, or past a device the registry does not  *)
(* know.                                                                   *)
PlugOpensAsked ==
    plug.dev # PlugNone =>
        /\ PlugAsked(plug.flt, plug.dev)
        /\ plug.faults = PlugFaults /\ ~plug.refused /\ plug.dev.t = "pci" =>
               ~\E d \in PlugPresent : d.known /\ d.t # "pci" /\ PlugAsked(plug.flt, d)

(* The board object is ended while its transport still works and its       *)
(* streams are gone, and a device that was closed, or whose creation       *)
(* failed over PCIe, holds nothing but the libusb context; over USB that   *)
(* holds as long as no creation failed half way.                           *)
PlugEnds ==
    /\ plug.served
    /\ plug.dev = PlugNone => plug.held.pci \subseteq {"pdev"}
    /\ plug.faults = PlugFaults /\ plug.dev = PlugNone /\ ~plug.refused
          => plug.held.usb \cup plug.held.ft \subseteq {"ctx"}

(* The device asked for is opened, and ended in order.                     *)
PlugLife == PlugOpensAsked /\ PlugEnds
=============================================================================
