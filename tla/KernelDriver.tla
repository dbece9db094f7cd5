---------------------------- MODULE KernelDriver ----------------------------
(***************************************************************************)
(* The life of the boards in the PCIe driver (driver/usdr_pcie_uram.c):    *)
(* the module is loaded and unloaded, boards are plugged and unplugged,    *)
(* and one process at a time opens a board, hands over its layout, sets up *)
(* streams, maps their buffers and closes the file or is killed.           *)
(*                                                                         *)
(* usdr_remove runs in three steps (the interrupt, the memory, the device  *)
(* node) with calls of the process between them.                           *)
(***************************************************************************)
EXTENDS Outcome, Integers

CONSTANTS KdBoards, KdStreams,    \* the boards, the streams of each
          KdFaults, KdCalls,      \* bounds on failures and on steps
          KdProbes                \* bound on the structures made

VARIABLE kd

KdSizes == 1..2                   \* buffer sizes, in pages
KdNull == -1                      \* bound to the driver without a structure

(* drv: the structure pci_get_drvdata gives, 0 for a board not bound;      *)
(* obj: the list of structures; nodes: the numbers of the device nodes.    *)
KdFresh == [faults |-> KdFaults, calls |-> KdCalls, loaded |-> "no", devices |-> 0, nodes |-> {},
            drv |-> [b \in KdBoards |-> 0], obj |-> <<>>, oops |-> FALSE]

(* usdr_dev: size is the buffer size of a stream (0: no stream), mem the   *)
(* streams whose buffers exist, conf and map those the process configured  *)
(* and mapped; stale: buffers went while they were mapped; was: the board  *)
(* was initialized when its removal began.                                 *)
usdr_dev(b, n) ==
    [b |-> b, st |-> "valid", rem |-> 0, no |-> n, excl |-> FALSE, open |-> 0, init |-> FALSE,
     irq |-> FALSE, bucket |-> TRUE, size |-> [k \in KdStreams |-> 0], mem |-> {}, conf |-> {},
     map |-> {}, stale |-> FALSE, was |-> FALSE]
-----------------------------------------------------------------------------
(* usdr_init: a class that cannot be made ends the loading with err = 0,   *)
(* and the module stays without a driver.                                  *)
usdr_module_init(s) ==
    Then(Io(s, s), LAMBDA t : Ok([t EXCEPT !.loaded = "yes"])
                              \cup {[o EXCEPT !.s.loaded = "empty"] : o \in Faulty(t)} \cup Faulty(t))

(* usdr_probe.  Some steps that fail leave err as it was, 0: the masks,    *)
(* the mapping of the registers and the device node (taken, if the boards  *)
(* left in another order than they came).  The board is then bound with    *)
(* everything undone.                                                      *)
usdr_probe(s, b) ==
    LET null == [s EXCEPT !.drv[b] = KdNull]
        n    == Len(s.obj) + 1
    IN  Faulty(s) \cup Faulty(null) \cup
        IF s.devices \in s.nodes THEN Ok(null)
        ELSE Ok([s EXCEPT !.obj = Append(@, usdr_dev(b, s.devices)), !.drv[b] = n,
                          !.nodes = @ \cup {s.devices}, !.devices = @ + 1])
-----------------------------------------------------------------------------
(* usdr_stream_free: buffers and structure of a stream.  Whether they are  *)
(* mapped is not checked.                                                  *)
KdFree(o, k) == [o EXCEPT !.mem = @ \ {k}, !.stale = @ \/ (k \in o.map /\ o.rem = 0), !.size[k] = 0]

(* usdr_remove, one step after the other.                                  *)
KdStopEvents(o) == [o EXCEPT !.irq = FALSE]
deinit_bucket(o) == [o EXCEPT !.bucket = FALSE]
KdFreeStreams(o) == [o EXCEPT !.mem = {}, !.size = [k \in KdStreams |-> 0]]

(* mutant: the structure is freed ("Unchain from list and free").          *)
RemoveFrees(o) == [o EXCEPT !.st = "freed"]

KdGone(o) == [o EXCEPT !.st = "gone"]

(* mutant: the node of the last number is removed.                         *)
DestroyLast(s, i) == [s EXCEPT !.nodes = @ \ {s.devices - 1}, !.devices = @ - 1]

KdDestroyNode(s, i) == [s EXCEPT !.nodes = @ \ {s.obj[i].no}, !.devices = @ - 1]

usdr_remove(s, i) ==
    LET o == s.obj[i]
    IN  CASE o.rem = 0 -> [s EXCEPT !.obj[i] =
                              [(IF o.init THEN KdStopEvents(o) ELSE o) EXCEPT !.rem = 1, !.was = o.init]]
          [] o.rem = 1 -> [s EXCEPT !.obj[i] =
                              [(IF o.was THEN KdFreeStreams(deinit_bucket(o)) ELSE o) EXCEPT !.rem = 2]]
          [] OTHER -> [KdDestroyNode(s, i) EXCEPT !.obj[i] = KdGone(o), !.drv[o.b] = 0]

(* usdr_cleanup: the boards still bound are removed, then every structure  *)
(* ever made is freed.  The kernel calls it when no file is open.          *)
usdr_cleanup(s) ==
    [s EXCEPT !.loaded = "no", !.drv = [b \in KdBoards |-> 0], !.nodes = {}, !.devices = 0,
              !.oops = s.loaded = "empty" \/ \E b \in KdBoards : s.drv[b] = KdNull,
              !.obj = [i \in DOMAIN s.obj |-> [s.obj[i] EXCEPT !.st = "freed", !.irq = FALSE]]]
-----------------------------------------------------------------------------
(* usdrfd_open and usdrfd_release: one file at a time; a board that was    *)
(* removed is left as it is.                                               *)
usdrfd_open(o) == IF o.excl THEN Fail(o) ELSE Ok([o EXCEPT !.excl = TRUE, !.open = @ + 1])
usdrfd_release(o) ==
    LET p == [o EXCEPT !.open = @ - 1, !.conf = {}, !.map = {}]
    IN  IF o.st # "valid" THEN p ELSE [p EXCEPT !.excl = FALSE]

(* PCIE_DRIVER_SET_DEVLAYOUT, once per structure; usdr_device_initialie.   *)
KdInterrupts(s, i) == Then(Io(s, s), LAMBDA t : Io(t, [t EXCEPT !.obj[i].irq = TRUE]))
usdr_device_initialie(s, i) ==
    IF s.obj[i].init THEN Ok(s)
    ELSE Then(KdInterrupts(s, i), LAMBDA t : Ok([t EXCEPT !.obj[i].init = TRUE]))

(* usdr_stream_initialize: buffers that fit are kept.                      *)
KdConf(s, i, k, z) ==
    LET o == s.obj[i]
        f == [s EXCEPT !.obj[i] = IF o.size[k] = 0 THEN o ELSE KdFree(o, k)]
        c == [s EXCEPT !.obj[i].conf = @ \cup {k}]
    IN  IF o.size[k] >= z THEN Ok(c)
        ELSE Io(f, [f EXCEPT !.obj[i].size[k] = z, !.obj[i].mem = @ \cup {k}, !.obj[i].conf = @ \cup {k}])
usdr_stream_free(s, i, k) ==
    [s EXCEPT !.obj[i] = [(IF s.obj[i].size[k] = 0 THEN s.obj[i] ELSE KdFree(s.obj[i], k))
                             EXCEPT !.conf = @ \ {k}]]

(* usdrfd_mmap: buffers of a stream that exists.  The library gives the    *)
(* stream back when they cannot be mapped.                                 *)
usdrfd_mmap(s, i, k) ==
    IF s.obj[i].size[k] = 0 THEN Fail(usdr_stream_free(s, i, k))
    ELSE Ok([s EXCEPT !.obj[i].map = @ \cup {k}])
         \cup {[o EXCEPT !.s = usdr_stream_free(o.s, i, k)] : o \in Faulty(s)}
KdUnmap(s, i, k) == [s EXCEPT !.obj[i].map = @ \ {k}]

(* usdrfd_ioctl: what is refused when the board is gone or not ready.      *)
KdIoctl(o) == o.open > 0 /\ o.st = "valid"
KdReadyIoctl(o) == KdIoctl(o) /\ o.init
-----------------------------------------------------------------------------
KdGo == kd.calls > 0 /\ ~kd.oops
KdDo(S) == \E x \in S : kd' = [x.s EXCEPT !.calls = @ - 1]
KdSet(i, o) == [kd EXCEPT !.obj[i] = o]

KdLoad == KdGo /\ kd.loaded = "no" /\ KdDo(usdr_module_init(kd))
KdUnload == /\ KdGo /\ kd.loaded # "no"
            /\ \A i \in DOMAIN kd.obj : kd.obj[i].open = 0 /\ (kd.obj[i].rem = 0 \/ kd.obj[i].st # "valid")
            /\ KdDo(Ok(usdr_cleanup(kd)))
KdProbe == /\ KdGo /\ kd.loaded = "yes" /\ Len(kd.obj) < KdProbes
           /\ \E b \in KdBoards : kd.drv[b] = 0 /\ KdDo(usdr_probe(kd, b))
KdRemove == /\ KdGo /\ kd.loaded = "yes"
            /\ \E b \in KdBoards : /\ kd.drv[b] # 0
                                   /\ KdDo(Ok(IF kd.drv[b] = KdNull THEN [kd EXCEPT !.oops = TRUE]
                                              ELSE usdr_remove(kd, kd.drv[b])))
KdOpen == KdGo /\ \E i \in DOMAIN kd.obj :
              /\ kd.obj[i].no \in kd.nodes /\ kd.obj[i].st = "valid"
              /\ \E x \in usdrfd_open(kd.obj[i]) : KdDo(Ok(KdSet(i, x.s)))
KdRelease == KdGo /\ \E i \in DOMAIN kd.obj :
              kd.obj[i].open > 0 /\ KdDo(Ok(KdSet(i, usdrfd_release(kd.obj[i]))))
KdLayout == KdGo /\ \E i \in DOMAIN kd.obj : KdIoctl(kd.obj[i]) /\ KdDo(usdr_device_initialie(kd, i))

(* pcie_uram_stream_initialize and _deinitialize, call by call.            *)
KdStreamConf == KdGo /\ \E i \in DOMAIN kd.obj : KdReadyIoctl(kd.obj[i]) /\
              \E k \in KdStreams \ kd.obj[i].conf, z \in KdSizes : KdDo(KdConf(kd, i, k, z))
KdStreamMap == KdGo /\ \E i \in DOMAIN kd.obj : KdReadyIoctl(kd.obj[i]) /\
              \E k \in kd.obj[i].conf \ kd.obj[i].map : KdDo(usdrfd_mmap(kd, i, k))
KdStreamUnmap == KdGo /\ \E i \in DOMAIN kd.obj : kd.obj[i].open > 0 /\
              \E k \in kd.obj[i].map : KdDo(Ok(KdUnmap(kd, i, k)))
KdStreamFree == KdGo /\ \E i \in DOMAIN kd.obj : KdReadyIoctl(kd.obj[i]) /\
              \E k \in kd.obj[i].conf \ kd.obj[i].map : KdDo(Ok(usdr_stream_free(kd, i, k)))

KdInit == kd = KdFresh
KdNext == \/ KdLoad \/ KdUnload \/ KdProbe \/ KdRemove \/ KdOpen \/ KdRelease \/ KdLayout
          \/ KdStreamConf \/ KdStreamMap \/ KdStreamUnmap \/ KdStreamFree

KdSpec == KdInit /\ [][KdNext]_kd
-----------------------------------------------------------------------------
(* What the driver can be made to touch is there: the structure behind an  *)
(* open file, whatever happened to its board; the bucket while the         *)
(* interrupt is requested; the buffers of a stream the driver has; and the *)
(* buffers a process has mapped, unless the board was unplugged.  A board  *)
(* initialized while it is being removed is left out: it keeps its         *)
(* interrupt.                                                              *)
KdReached ==
    \A i \in DOMAIN kd.obj : LET o == kd.obj[i] IN
        /\ o.open > 0 => o.st # "freed"
        /\ o.irq /\ (o.rem > 0 => o.was) => o.bucket /\ o.st = "valid"
        /\ \A k \in KdStreams : o.size[k] # 0 => k \in o.mem
        /\ ~o.stale

(* The device nodes are those of the boards, one each, whatever the order  *)
(* in which boards come and go, and a board has one user.                  *)
KdNodes ==
    LET valid == {i \in DOMAIN kd.obj : kd.obj[i].st = "valid"}
    IN  /\ kd.nodes = {kd.obj[i].no : i \in valid}
        /\ \A i, j \in valid : kd.obj[i].no = kd.obj[j].no => i = j
        /\ \A i \in valid : kd.obj[i].open <= 1

(* Boards come and go under open files and mappings.                       *)
KdLife == KdReached /\ KdNodes
=============================================================================
