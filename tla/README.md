# Verification of usdr-lib

TLA+ models of usdr-lib from the applications down to the kernel driver: the
streams that move samples, the register and bus transactions, the board drivers
with the chips they program, the life cycle of devices and transports, the
multi-device aggregate, the SoapySDR plug-in and the streaming tool. TLC checks
each model on a small instance; for seventeen of them TLAPS proves what matters most
for every instance.

Paths are relative to the repository. Short names used below:
`DR` = `src/src/lib/lowlevel/pcie_uram/driver/usdr_pcie_uram.c`,
`PM` = `src/src/lib/lowlevel/pcie_uram/pcie_uram_main.c`,
`UL` = `src/src/lib/lowlevel/usb_uram/usb_uram_libusb.c`,
`UG` = `src/src/lib/lowlevel/usb_uram/usb_uram_generic.c`,
`LG` = `src/src/lib/lowlevel/libusb_generic.c`,
`SF` = `src/src/lib/ipblks/streams/stream_sfetrx4_dma32.c`,
`ST` = `src/src/lib/ipblks/streams/sfe_tx_4.c`,
`RB` = `src/src/lib/common/ring_buffer.c`; other files by their name.

## 1. The system

An application (`usdr_dm_create`, the SoapySDR plug-in, the JSON controller)
calls the device model `dm_*`. That forwards to a device object (one per board),
which programs chips through the *low-level* interface: registers, SPI, I2C and
DMA streams. Three low-level transports carry real traffic: PCIe (a kernel
driver and a user-space part that maps its buffers), USB (libusb with a thread
of its own) and FT601 (LimeSDR Mini, also libusb). On top of the DMA streams
sit the stream objects, which cut calls into bursts, convert samples and keep
time.

| component | state | operations | what is hard | module |
|---|---|---|---|---|
| ring buffer (`RB`) | two semaphores, two free-running indices, slots | pwait, ppost, cwait, cpost, at | two threads, no lock; index ~0 doubles as "timed out" | `RingBuffer` |
| libusb buffers and USB RX (`LG`, `UL`) | credits, indices, transfers, missed count | completion callback with restart, recv wait and release, stop and free | callback races application; failing transfers; dummy buffer on overflow; losses told by dropped packets | `UsbRxStream` |
| USB TX (`UL`) | credits, two indices | send_dma_get, send_dma_commit | a failure between get and commit; failed OUT transfers | `UsbTxStream` |
| USB registers and buses (`UL`, `UG`) | write, readback and notification transfer; semaphores | reg_out, reg_in, SPI and I2C transact | answers without identity; shared transfers; failed transfers | `UsbRegIo` |
| FT601 control channel (`usb_ft601_*.c`, `lms64c_proto.c`) | one command buffer, one lock, one reply | command and reply | buffer filled before the lock; late replies | `FtCtrl` |
| PCIe event bucket (`DR`) | DMA page, read pointer with a lap bit | interrupt handler | no write pointer; rare confirmation | `EventBucket` |
| PCIe stream (`DR`, `PM`) | event log, counter, user-space cache | wait, release, initialise, free | handler against ioctl; log smaller than the ring; re-initialisation | `PcieStream` |
| PCIe buses (`DR`, `si2c.c`) | slave cache with ranks, copy of the device's table, event counts | SPI32 and SI2C transact, claim | slots reused; refused commands; late events | `I2cLut`, `BusTransact` |
| PCIe kernel driver: boards and files (`DR`) | boards, files, interrupt, bucket, stream memory, device nodes | load, probe, open, layout, streams, mmap, release, remove | unplugging under an open file; killed processes; numbering | `KernelDriver` |
| life cycle of transports (`usdr_lowlevel.c`, `LG`, `UL`, `UG`, `PM`, FT601) | context, handle, thread, descriptor, board object | create with its error paths, streams, destroy | partial creation; order of destruction | `Plugins` |
| SFE transmit (`SF`, `ST`) | call in progress, cached registers, extended counters | stream_send, commit, statistics | several bursts per call; partial failure; register cache; 8-bit counters | `SfeTxSend` |
| SFE stream object and receive (`SF`, `sfe_rx_4.c`, DMA cores) | two streams, front end, DMA, transport, lane flags, stream time | create, op, options, recv, sync, destroy | what several parties are told must agree after any failure | `SfeStream`, `BurstCalc` |
| LimeSDR stream (`stream_limesdr.c`) | partial packet, lag, stream time | recv, send | bursts lost inside packets; device clock restarts; arithmetic modulo 2^64 | `LimeStream` |
| xSDR (`m2_lm7_1`), LMS7002M | chip copy, banks, rates, paths, power | life cycle, rates, LO, gains, streams, calibration | bank selection left wrong by a failure; any order of calls | `Lms7`, `XsdrBoard` |
| uSDR (`m2_lm6_1`), LMS6002D | LO, mixer, paths, power flags | the same | LO depends on path, mixer and rate | `UsdrBoard` |
| dSDR (`m2_dsdr`), HIPER front end | channel maps, converters, supplies | the same | three ways to address a channel; shared converters | `DsdrBoard` |
| lSDR (`m2_lsdr`), 100-5000 MHz front end | synthesizers, expander, NCO, rates | the same | caches written before the hardware accepts | `LsdrBoard` |
| LimeSDR Mini (`u3_limesdr`) | stream control, sample counter | the same | the counter must be reset while stopped | `LimeBoard` |
| front ends (`device_fe.c`, `ext_pciefe.c`, ...) | settings, expanders, pins | probe, commands | kinds share pins and bus; two expanders | `FrontEnds` |
| aggregate (`mdev.c`), handle (`dm_*`) | child devices, child streams, marks | create, streams, operations, destroy | partial failure over several devices | `MultiDev` |
| SoapySDR plug-in (`usdr_soapy.cpp`) | table of devices, streams, jitter buffer, settings | make, unmake, streams, read, write, settings | objects share a device; reads of any size | `SoapyPlugin` |
| firmware update (`espi_flash.c`, `xlnx_bitstream.c`, `usdr_flash.c`, `controller_ugen.c`) | flash contents, static state of the JSON calls | erase, program, the two updaters | power lost or access failed at any block; order of header and body | `Flash` |
| `usdr_dm_create` | program counter, threads, rings | its main loop, disk threads, signal | threads that end while main waits | `DmCreate` |

How they interact: the interrupt handler (kernel) dispatches bucket entries to
streams and buses by event number; ioctls take what it counted. Over USB the
IO thread of libusb runs all completion callbacks, and semaphores hand their
results to the calling threads. A stream object calls `recv_dma_wait` and
`send_dma_get/commit` of whichever transport is below; a board driver makes
stream objects, sets its chips up for them and takes register and bus accesses
as calls that may fail. The disk threads of `usdr_dm_create` are joined to its
main loop by ring buffers.

## 2. Modules

    BoundedFifo   abstract: a bounded queue of numbered packets
    LossyStream   abstract: packets in order, every gap known exactly
    Outcome       how driver code fails: outcomes of a sequence of accesses

    RingBuffer        implements BoundedFifo                AppProofs
    UsbTxStream       implements BoundedFifo (until a failure)      UsbStreamProofs
    UsbRxStream       implements LossyStream (until a failure or a miscount) UsbStreamProofs
    EventBucket       implements BoundedFifo                StreamProofs
    PcieStream        implements LossyStream (until a record is lost or
                      the stream set up again)          StreamProofs
    UsbRegIo                                                UsbRegIoProofs
    I2cLut  <-  BusTransact  <-  MCBusTransact              BusTransactProofs
    SfeTxSend
    Flash                                                   FlashProofs
    LimeStream, BurstCalc, FtCtrl               } HostProofs: LimeStream,
    Outcome <-  SfeStream, Plugins,             }   BurstCalc, FtCtrl,
                KernelDriver, MultiDev          }   KernelDriver, Plugins,
                                                }   MultiDev; SfeStream:
                                                }   StreamProofs
    Outcome <-  DmCreate, SoapyPlugin                       AppProofs
    Outcome <-  Lms7  <-  XsdrBoard, LimeBoard
    Outcome <-  UsdrBoard, DsdrBoard, LsdrBoard, FrontEnds

    SharedLemmas  lemmas several proofs use: windows of indices modulo the size
                  of a ring, products, remainders, loops over outcomes

    MCUsb       UsbRxStream, UsbTxStream
    MCPcie      PcieStream, EventBucket
    MCDmCreate  DmCreate, RingBuffer
    MCBoards    XsdrBoard, UsdrBoard, DsdrBoard, LsdrBoard, LimeBoard, FrontEnds
    MCHost      LimeStream, SfeStream, BurstCalc, FtCtrl, Plugins, KernelDriver,
                SoapyPlugin, MultiDev, Flash

Each module's opening comment says which functions it models; `map` in
PROJECT.json gives the lines of every definition.

The five MC modules at the end put several components into one run. The
components keep separate variables; a variable (`unit`, `part`, `dir`), fixed
at the start of a behaviour, says which of them is driven, so that the states
of a run are the sum of those of its components and not their product. Where one
relies on another (a stream on the bucket, the program on the ring, a board on
its buses) it takes the other as the abstract behaviour that is checked there:
a FIFO, or an access that may fail.

### Streams, transactions and threads

These have one action per step another thread, the device or the interrupt can
come between.

**RingBuffer.** `producer`, `consumer`, `pidx`, `cidx`, `slot` are the fields of
`struct ring_buffer`; `pst`, `cst` say where the threads are. One action per
call and result: `Pwait`, `PwaitTimedOut`, `Ppost` and the same for the
consumer; `Fill` and `Read` are the use of the slot by `disk_read_thread` and
`disk_write_thread`. Indices are kept modulo `IdxMod` (2^32); `IDX_TIMEDOUT` is
the largest of them, as in the code.

**UsbRxStream.** Host controller (`HcFill`, `HcFail`, `HcCancel`), IO thread
(`Callback`, then `Restart` as the second half of the same callback) and
application (`RecvWait`, `RecvRelease`, `DeinitStop`, `DeinitFree`). Slot
`BufMax` is the dummy buffer. The trailer of a packet carries the loss count
(word 0) and a mask of its bursts that were skipped (word 1); `OnBuffer` is the RX completion
function, which adds the low 24 bits of the mask to the count of what went to the dummy
(`BurstBits`: 0 for packets of up to 8 bursts). Two history variables say by how much
the counts are wrong: `extra` the masks added, `forgotten` the losses nothing tells.
`FaultKinds` are the ways a transfer fails: in a way the callback retries, for good,
or at its submission.

**UsbTxStream.** `SendGet` and `SendCommit` with their failing exits, `HcSend`
for the controller, `TxCallback` for the IO thread. Commit advances its own index
and compares it with the caller's pointer, as the code does.

**UsbRegIo.** Threads that write registers, read them or use a bus. A call is
the sequence of semaphore waits and transfer submissions of the code: one action
per wait (`PostRegout`, `PostRb`, `ReadReturn`, `PostNtfy`, `WaitMsi`,
`BusReturn`), one per callback (`RegoutDone`, `RbDone`, `RbWake`, `NtfyDone`).
A command is named by thread and call number, which the device's answers are
compared with; the answers themselves carry no identity, as on the wire.

**EventBucket.** The page, the pointer with its lap bit, the handler as
`IrqEnter`, `IrqEvent`, `IrqLeave`, `IrqAck`. The device (`DeviceWrite`) is
external: it writes no more than a lap beyond the last confirmation.

**PcieStream.** The stream branch of the handler in the three steps another
processor can see (`IrqStore`, `IrqLog`, `IrqCount`), the ioctl in the two it
takes (`WaitTake`, `WaitCopy`), the library's cache (`TakeBuffer`, `Release`)
and setting the stream up again (`Stop`, `ConfFlush`, `ConfClear`). `lapped`
notes that the handler stored a record over one that was not copied. `Quiet` is
an assumption: events the old stream had sent were handled before the new one is
initialised. The driver does not wait for that.

**I2cLut, BusTransact.** `UpdateLut` is `si2c_update_lut_idx` with its ranks:
`Promoted` swaps a slot with the one above it, `Aged` makes room for a new slave.
`BusTransact` has an action for each step of an ioctl (`Call`, `I2cLookup`,
`I2cGetLut`, `I2cRefuse`, `SpiIssue`, `I2cIssue`, `I2cNote`, `WaitDone`,
`GiveUp`, `ReadBack`), the cores (`CoreDone`), the handler (`IrqStore`,
`IrqCount`) and `Claim`. The command queue in front of a core is external.

**SfeTxSend.** `Send` starts a call; `Get`, `GetTimedOut`, `PushSimple`,
`PushExtended`, `PushFails` are the loop over its buffers for the simple and the
extended core. Samples are numbered and due at the time of their number, so
that order and time can both be read off.

**LimeStream.** A recv is a wait for a buffer and one step per pass of its
inner loop (`LimeBurstStep`), so that bursts end anywhere in a packet; `LimeLag`
is the lost time of a burst, modulo `LimeTime`; `LimeRestart` is the device that
starts its clock again. `LimeSend` refuses counts that are larger than a call may
have or not a multiple of `LimeTxRound`, and cuts the others into blocks.

**FtCtrl.** Callers, the event thread and the device: the fill of the command
buffer, the lock, the submission, the wait and its timeout are steps of their own.

**Flash.** A cell is a block of 128 bytes. A call of an updater is the sequence
of the loops of erase and program accesses it makes (`FlashCliWrites`,
`FlashBlank`, `FlashRpcSector`); `FlashStep` makes the next access (`FlashUnit` cells
of the first loop, which `FlashAfter` shortens), `FlashFail` ends the call there
with an error, `FlashPowerCut` ends it with the cells of that access old, new or
unreadable and starts the FPGA again (`FlashBoot`, external). The client of the
JSON calls sends sectors in order and may repeat one that failed.

**DmCreate.** `AppMain` is the main thread by its program counter (open, rate,
streams, threads, the loop, stopping, closing), `AppThread` a disk thread of a
direction and channel, `on_stop` the signal handler. A block knows its place in
its file; `at` is where the file of a channel is sent next, and `torn` notes that
samples were sent that are not those.

### Sequential code over hardware that may fail

Board drivers, stream control, plug-ins and the aggregate are written as
`res = res ? res : f(d)`: what was done before a failing access stays done.
**Outcome** gives that shape its operators: a function of the code is an operator
from a state to the set of its outcomes (the state it leaves, and whether it
returned 0), `Then`, `OrElse`, `Always`, `Undo` and `Finally` are the ways the
code goes on after one, `Io` an access that may fail, `Run` a sequence of writes.
A component is one record-valued variable and one action per call of its
interface; `faults` bounds the failures and `calls` the calls.

**Lms7** is the LMS7002M with one register file per channel behind the MAC
register, the driver's copy of MAC and of what it wrote, and the driver functions
of `lms7002m.c` and `lms7002m_ctrl.c` by their names; **XsdrBoard** and
**LimeBoard** are two boards with that chip. **UsdrBoard** has the LMS6002D, the
external mixer and the clock generator; **DsdrBoard** channel maps, the six
converters of the HIPER front end, NCOs and supplies; **LsdrBoard** oscillator,
decimation, synthesizers and the port expander. Frequencies are small numbers on
both sides of every limit the code compares with; `LsdrBoard` has them to 4 Hz, since
the driver's 32 bits of Hz wrap within its range, and computes what each
synthesizer is programmed to (`max2871_band_sel`) and the NCO's rest as an `int`
(`Int32`, `NcoReduced`). `USDR_BARE_DEV` is modelled for the uSDR and lSDR. Registers whose
contents no property reads are accesses only. **FrontEnds** searches the kinds of front end in
the order of the code and has the commands of the PCIe front end with what its
expanders and pins show.

**SfeStream** has the receive and transmit stream of a device with what the
front end, the DMA and the transport were told; **BurstCalc** is the arithmetic
of `sfe_rx_4.c` as operators, checked against what an answer has to satisfy.
**Plugins** keeps what each transport holds as a set; **KernelDriver** the boards,
structures and nodes of the driver, with `usdr_remove` in three steps.
**SoapyPlugin** numbers samples so that a gap shows; **MultiDev** keeps the
children of every device and what the caller holds.

## 3. Runs

Properties that belong together are conjunctions of named parts; the parts are
given in brackets.

| run | states | what it shows |
|---|---|---|
| `usb_streams` | 757 181 | receive: a transfer never writes into a buffer the application holds or was told of, also after faults, and until a fault credits are exact (`BuffersSafe`); until a fault, a burst mask taken for losses or a count of more than 24 bits the stream is a `LossyStream`, and every packet is handed out or accounted for, those miscounts included (`PacketsAccounted`). Transmit: no slot is filled while a transfer reads it, faults included, and until one commit believes every pointer get handed out (`TxBuffersSafe`); bounded FIFO, everything is sent (`PacketsSent`) |
| `usb_rx_leak` | violation | `NoBufferLeak` fails after one transfer that ends with an error the callback retries |
| `usb_reg` | 909 432 | a read that no other read overlaps gets its own answer, a bus transaction too until one was given up, no reader wakes without data (`OwnAnswers`), no transfer is reused in flight (`TransfersSafe`), without failures all calls return (`EveryCallReturns`) |
| `usb_reg_hang` | violation | `NoCallHangs` fails after one timed-out command transfer |
| `pcie` | 136 246 | with half as many records as buffers, the driver's ratio: until the handler stores a record over one not yet copied, every record belongs to its buffer (`RecordsMatch`), also across a set-up; buffers are neither overwritten nor lost in any case (`BuffersSafe`); until a record is lost or the stream set up again it is a `LossyStream`, and every packet is accounted for (`PacketsAccounted`). Over four laps the bucket is a bounded FIFO and every event is handled (`EventsDelivered`) |
| `pcie_rx_small_log` | violation | `OobMatchesBuffer`, that every record belongs to its buffer without condition, fails with half as many records as buffers |
| `bus` | 281 248 | commands reach their slave (`SlaveReached`), ranks stay distinct (`RanksDistinct`), answers belong to their commands (`OwnAnswer`), all transactions end (`EveryTransactionEnds`) |
| `tx_send` | 2 829 156 | for one channel, or the extended core: each sample once and at its time, repeats after a failure included (`SamplesSent`); cached registers match the buffer, drops are exact (`CoreFollowed`) |
| `tx_split` | violation | `CallSentWhole` fails for two channels on the simple core |
| `dm_create` | 604 870 | files are sent from the start without hole or repetition and received blocks written in order (`AppData`), the program ends whatever fails, ends or interrupts it (`AppEnds`). The ring: no shared slot (`NoSlotConflict`), the inductive invariant (`RingInv`), a bounded FIFO that empties (`PacketsDelivered`) |
| `boards` | 269 668 | see below |
| `host` | 991 538 | see below |

`boards` drives one board driver through any sequence of its calls:

- `XsdrAsSet`: no order of calls takes a running channel from its settings
  (`XsdrRunConfigured`), the LNA input follows the LO, also through a loopback
  (`XsdrBandFollowsLo`), a destroyed board is unpowered (`XsdrQuiet`);
  `XsdrOpenConfigures`: whatever failed before, a stream that opens finds the
  chip's bank selection repaired and its channels configured;
- `UsdrAsSet`: the LO is where the user asked, mixer included, in any order of
  settings (`UsdrLoTrue`), the power flags are those of the chip, after
  calibrations too (`UsdrPowerTrue`), ready means clocked, destroyed means quiet;
- `DsdrAsSet`: every channel of an open stream is tuned as asked, by whichever
  form of address and in whichever order (`DsdrTuned`), only streams have
  amplifiers on, the supplies are off after a destroy from any state of start-up;
- `LsdrAsSet`: after a frequency was accepted synthesizers, band, filter and NCO are
  programmed for it, modulo 2^32 Hz and with the synthesizers' rounding to 4095ths,
  whatever failed before (`LsdrTuned`), an accepted rate is the rate of oscillator
  and filters (`LsdrRateTrue`), a destroy leaves on no more supplies than its own
  accesses failed;
- `LimeBoardAsSet`: the sample counter is reset only while stopped, a started
  stream runs with the driver's settings;
- `FesAsSet`: the front end plugged is the one found, nothing tried in vain stays
  switched on, and the hardware shows every setting once a command that writes
  the registers succeeded.

`host`:

- `LimeSamplesTimed`, `LimeContinuous`: every sample stands where its time says,
  over losses and clock restarts, and packets follow one another but for counted
  overruns;
- `SfeConsistent`: a running front end and DMA belong to a stream, all parties
  were told the same size, a single channel transmits on its own lane only, the
  time of a packet is its own;
- `BurstSplit`: bursts hold exactly the packet, as few as the limits allow;
- `FtExchanges`: the lock is given back once on every way out, and a call that
  nothing disturbed gets its own reply;
- `PlugLife`: the device opened is one that was asked for, and the search passes
  a transport with a matching device only after a failure or a device the registry
  does not know; the board object ends while its transport works, and nothing is
  held after the end;
- `KdLife`: what a file, an interrupt or a mapping reaches is still there, whatever
  is unplugged or killed (`KdReached`); device nodes are those of the boards
  (`KdNodes`);
- `SoapyInOrder`, `SoapyHandles`: reads of any sizes give the samples without gap
  or repetition; streams and settings an object reports are the device's (an
  AFE79XX frequency as 32 bits of the accepted one under the channel);
- `MdevWhole`: a stream the caller holds is open on every device and marked on every
  device, where starts, stops and syncs look for it, but for the first device's mark
  after a refused second creation; and a failed creation of the aggregate leaves no
  device open;
- `FlashUpdates`: wherever updates are cut off, a master header that can be read
  has its whole image behind it (`FlashHeaderLast`), the golden image is whole
  unless its own update was begun and not completed, so the board always starts
  (`FlashGoldenKept`), and a master image reported as written is the one that
  starts next (`FlashTakesEffect`).

Deadlock checking is off everywhere: the bounded runs end when the bounds are
used up. What must not get stuck is stated as liveness instead.

### Bounds

- `usb_streams`, receive: four buffers and two transfers, so that there are free,
  posted, announced and held buffers at once; seven packets, one device loss and
  one fault of any kind are enough to overflow into the dummy and recover. `LostMod` 16
  stands for 2^24 and a mask of 8 for one of more than eight bursts, so that two
  discarded packets exceed what a reader takes. Transmit: four
  buffers, ten packets, two faults: the second fault meets indices the first one
  has moved.
- `usb_reg`: two readers, a writer and a bus user with two calls each, one fault.
  `RbThreads` is 4 because the four reads of the run may all overlap; the code
  has 8 semaphores, and more than 8 overlapping reads would share one.
- `pcie`: four buffers, eight packets, one re-initialisation. The log has two
  records, the driver's ratio of 16 to 32. The bucket
  has eight entries confirmed in fours and 34 events: the two-lap pointer wraps
  twice. The code has 256 and 32, the same shape.
- `bus`: two slots, so three slaves on two buses compete and the last slot is
  out of bounds for bus 0; two SPI and three I2C calls, one give-up per core.
- `tx_send`: bursts of four samples, calls of 2, 3, 5, 8 and 10, so that calls
  have one, two or three buffers and the last may be short. Single-sample calls
  are left out: such a first packet has the value the register cache starts
  with. `TsLow` 8 makes the high half of a time change, `CounterMod` 4 makes
  the drop counter wrap.
- `dm_create`: two channels whose files end after three and after two samples,
  within a block and at the end of one, blocks of two, rings of one block, so that every ring is full and empty in
  turn; one failing call at any place. The ring: `Items` 4, ten packets, two
  and a half turns; `IdxMod` 16 exceeds `MaxPackets`, the range the claim is for.
- `boards`: one failing access at any place, and three (xSDR, dSDR) or four
  calls between start and destroy. The defects the mutants stand for take at most
  three. All board revisions, for the uSDR one it does not know (`UsdrRevs`); frequencies
  and rates on both sides of every limit. `LsdrFreqs` are in units of 4 Hz, from 900 MHz
  to 5 GHz, the last beyond 2^32 Hz and one that is no whole number of kHz.
- `host`: LimeSDR bursts of three samples against packets of five, so every
  remainder occurs, two lost bursts and a restart, calls of 1 to 6 samples to send,
  of which multiples of two are taken (`LimeTxRound`); two threads and four
  commands with two errors on the FT601; two boards probed three times and
  twelve steps of a process in the kernel driver; five calls on the SFE stream with
  one failure; all packet sizes up to 260 with eight channel maps for `BurstCalc`
  (`BurstFifo` 512 and `BurstMax` 8 for 65536 and 32); two plug-in objects, reads
  of 1, 2, 3 and 6 samples against packets of two, an AFE79XX (the theorem covers the
  others) with `SoapyWord` 4 for 2^32 and frequencies below and above it; three devices and two failures
  in the aggregate; two updates, one failure and one loss of power on a flash of
  four sectors of two subsectors, so that an image ends inside a subsector, a sector
  or neither; five devices on three transports and nine filters in
  `Plugins`.

### Fairness

Weak fairness of single steps only, and of the component that is driven. The
kernel serves pending interrupts; the IO thread loops over
`libusb_handle_events`; a thread inside a call whose semaphore is posted gets to
run; the threads of `usdr_dm_create` run when they can; the device answers. In
the stream models the application is assumed to go on receiving or sending, as
a streaming program does. Nothing is assumed of timeouts, failures, losses, stops,
signals or give-ups: they may happen or not, within their bounds. In `UsbRegIo`
weak fairness is enough although threads compete for semaphores because the
calls are finite. The runs `boards` and `host` check safety only: what is in them
is sequential, or has no wait whose end is in question.

## 4. Proofs

Every safety invariant below is proved from an inductive one that says more: the
property itself names what must not happen, the invariant where every credit,
record, slot or lock is. Each, but for the arithmetic of `BurstCalc`, was run
through TLC as an invariant as well. The bounds on packets, calls and failures are constants of the models, so
the theorems hold for all of them.

**SharedLemmas.** Two indices less than `N` apart lie in different slots modulo
`N` (`SlotInjective`), and what follows for windows and sequences of numbered
packets. All proofs about rings rest on it; those about bursts, files and flash
sectors use its lemmas on products and remainders. `RecDefined` says that a bounded
recursion has the values its equation gives it, `LoopDefined` and `LoopBound` say
of a loop over outcomes, such as `ForEach`, that it has the value its equation
gives it and what its outcomes are, if each round keeps to it.

**AppProofs**, the ring. Assumptions: `RingAssumption` (at least
one slot, more indices than slots) and, in the theorems, `MaxPackets < IdxMod`:
fewer packets than an `unsigned` has values. For every ring size:

- `RingInvariant`: `RingInv`, together with `TypeOK`, always holds;
- `RingNoSlotConflict`: the two threads never hold the same slot;
- `RingFifoOrder`: packets come out in the order posted, unharmed;
- `RingImplementsFifo`: the ring refines `BoundedFifo`.

That the slots differ is not inductive: it needs to be known that both indices
lie within one turn of the ring of each other, which is a fact about semaphores.
`RingInv` gives the semaphores as functions of the indices (free slots =
`Items - (pidx - got)`, filled = `sent - cidx`), the indices as functions of the
posts, and the contents of every posted slot.

**AppProofs**, the program. Assumption: `AppAssumption` (channels, slots and
samples of a block are positive, no file is empty). For any numbers of channels,
slots, blocks and failures and any lengths of the files:

- `AppDataSafe`: `AppData`. What is sent on every channel is its file from the
  start, at its time and in step with the others; what is written is what was
  received, in order.

`AppInv` says what a ring of the transmit side holds (`AppLined`): its blocks
join end to end, the first begins where the file is sent next, and the last ends
where it is read next, all modulo the length of the file, since a generator and a
cycled file start over; only the last may be marked as the end. It needs a reason
why the channels stay in step although a round sends as much as the shortest
block: a block is full unless it is marked (`AppBlockOk`), and a round with a
marked block is the last; or the file is cycled and there is one channel. That is
where the exception for several cycled files comes from. A receive ring holds the
numbers after the one written last (`AppQueued`). Most steps of the main thread
touch none of it, which `AppMove` says once for all of them; the start of the
threads is a loop over the channels (`AppThreadsStarted`). The proof corrected the
model: `torn` was set by the empty block that follows a file whose length is a
multiple of a block, of which nothing is sent. The run's files now include one.
TLC finds `AppInv` true of the run's 604,870 states.

**AppProofs**, the SoapySDR plug-in. Assumption: `SoapyAssumption` (packets and
jitter buffers hold samples; the sizes of reads and the bounds are numbers). For any
objects, packets, buffers, calls and failures of the library:

- `SoapyHandlesAgree`: `SoapyHandles`. A stream an object has is open in an open
  device and no other object's; a setting it reports stands for one that was accepted
  (`SoapyStands`): it is that one, or for the frequency of an AFE79XX its lower
  32 bits under a channel;
- `SoapyReadsInOrder`: `SoapyInOrder`. Reads give the samples without gap or
  repetition, until one is larger than the buffer.

`SoapyInv` says of each object with a handle that it agrees with the device behind
it (`SoapyAgree`), that objects of one device hold different streams (`SoapyApart`),
and of the table of handles that its entry, if there is one, is a handle that was
opened, and the only one until it is opened again (`SoapyTable`). For the reads it
says where the next one goes on (`SoapyNextAt`): with the packet that comes next,
or, once there is a jitter buffer, at `r`, while `w` is what the device has sent
and no more than the buffer holds lies between. That the buffer holds a read and a
packet follows from `big`, and the loop that fills it is the recursion on the
number of packets that `LoopDefined` is about. Most calls change one object and its
device; `SoapyLocal` says when such a change keeps the invariant, and each call of
the library is a step of its own under the outcomes of `Then`. The invariant
includes what a set-up leaves that fails after the stream was made: `strm` without
`setup`, still open and still that object's. TLC finds `SoapyInv` true of the
run's 219,932 states of the plug-in.

**UsbStreamProofs.** Assumptions: `UsbAssumption`, `UsbTxAssumption` (at least one
buffer, at most as many transfers as buffers). For any numbers of buffers,
transfers, packets and failures:

- `TxStreamSafe`: `TxBuffersSafe`; `RxStreamSafe`: `BuffersSafe`;
- `TxImplementsFifo`: until the first failure the transmit stream refines
  `BoundedFifo`;
- `RxImplementsLossyStream`: the receive stream refines `LossyStream`, up to the
  first failure, the first burst mask added to the count of discarded packets and the
  first loss no count tells (the device's own in a packet that is discarded, or beyond
  24 bits). `BurstBits` and `LostMod` are constants too: any masks, any modulus.

The driver remembers slots, not indices. `TxWindow` and `RxWindow` say that there
are indices for the transfers under way that grow from the oldest to the newest
and lie in a window no longer than the ring; `TxCredits` and `RxCredits` that the
credits taken pay for that window. A failure never returns a credit, which is why
safety survives all failures although the stream does not (finding 1). For the
refinement `RxTimes` adds that the packets under way account for the time: each
announced slot begins where the one before it ended, the counted discards come
after the last of them, and each filled transfer, dummies included, after the one
reaped before it, up to the device's own count.

**StreamProofs.** The PCIe streams. Assumption: `PcieAssumption` (at least one buffer
and one record). The theorems hold for any two numbers of buffers and records, the
driver's 32 and 16 included:

- `PcieOobMatches`: `RecordsMatch`, as long as no record was lost (`lapped`) since the
  log was emptied;
- `PcieBuffersSafe`: `BuffersSafe`, in any case;
- `PcieImplementsLossyStream`: until a record is lost or it is set up again the stream
  refines `LossyStream`, gaps and stream time included.

A record is in the bucket, in the driver's log or in the library's cache;
`Pending` reads the three as one queue. `Paired`: until a record is lost its k-th record
describes the k-th filled buffer. `Chained`: each begins where the one before it ended.
How many records there are, which is what the buffers depend on, is known in any case.
The three steps of the handler and the two of the ioctl move records within the
queue and leave the queue as it is (`SameQueue`).

The event bucket. Assumption: `BucketAssumption` (confirmations divide the
page, which is longer than one).

- `BucketTypeCorrect`; `BucketFlagsTell`: the toggling flag tells the handler
  exactly whether there is an event it has not dispatched;
- `BucketImplementsFifo`: the bucket refines `BoundedFifo`.

`BucketInv` ties the handler's pointer, the last confirmation and the flags, all
modulo two laps, to the numbers of events written and dispatched: the device is
less than a lap ahead of the confirmation, so a flag of the lap before is still
to be seen where it has not written.

The stream objects. Assumption: `SfeAssumption` (the bounds are natural numbers;
the theorem holds for all of them).

- `SfeAlwaysConsistent`: `SfeConsistent`, whichever access of a call fails.

A call is a sequence of accesses, and the one that fails leaves the effects of
those before it. `SfeInv` is therefore shown for every prefix of every call:
`SfeRan` says what an outcome of a sequence is in terms of the states it goes
through, `SfeDo1` to `SfeDo4` do so for the lengths that occur. Its parts:
`SfeRxHeld`, a receive stream told its size to front end, DMA and transport,
and without one neither of the first two runs; it holds in the middle of a set-up
because the reset comes first and the object last. `SfeTimed`, packet numbers
form a chain from those received and counted lost, over the queue, to the
next packet (`SfeFollow`), so that the time of the stream is the size times the
number of the packet received next. `SfeTxHeld`, what the host believes to be
muted is the unused lane, in a stopped stream too, since a start writes what is
believed; after a failed write register and belief differ, but in either state
a single channel is on its own lane, unless the user muted lanes. The writes of an option come after the
change of the belief, a state in which `SfeInv` may not hold; `SfeTried` covers it.

**UsbRegIoProofs.** Assumption: `RegIoAssumption` (kinds of threads disjoint,
finitely many readers, at least one semaphore).

- `RegTransferOwned`, `BusOwnAnswer`: `TransferOwned` and `BusGetsOwnAnswer`, for
  any threads and failures;
- `RegTransfersSafe`, `RegOwnAnswers`: `TransfersSafe` and `OwnAnswers`, as long as
  `OneReaderPerSemaphore`: no reader is overtaken by a whole turn of the
  semaphores `rb_valid`;
- `SingleReaderSafe`: both without that condition when one thread reads registers.

The condition is needed: `usb_async_regread32` takes its semaphore by a counter
modulo `RbThreads`, so a reader that is not scheduled while that many others
pass waits on the same semaphore as the last of them, and one of the two is
woken by the other's data. TLC finds such a schedule with fewer
semaphores than reads.
`RegInv` follows each bus transaction from its command to its notification
(`BusStage`); `ReadInv` counts, for each semaphore, the answers under way, reaped
and consumed (`Wakes`, `Owed`), and describes a read that nothing overlaps by where
its answer is (`Alone`).

**HostProofs.** Six components of the run `host`, each under its own
specification:

- `FtExchangesSafe`: `FtExchanges`. The invariant has the lock with exactly one
  of: the semaphore, a caller inside, a caller on its way out; and, while nothing
  failed, which part of the exchange the transfers and the device are in.
- `LimeSamplesInTime`, `LimePacketsContinuous`: `LimeSamplesTimed` and
  `LimeContinuous`, from `LimeAssumption` (positive sizes). The invariant relates the
  partial packet, the lag still to fill in and the time of the next sample to
  account for, modulo the width of the clock: what is in the packet, what is owed
  to it and what the burst still holds are consecutive times.
- `KdAlwaysAlive`: `KdLife`. The invariant is one statement per structure of the
  driver (mapped memory is configured memory; how far its removal has come
  determines interrupt, bucket and buffers), the correspondence of bound boards
  and valid structures, and that no two valid structures have the same number.
- `BurstsHoldPacket`: `BurstSplit`, from `BurstAssumption`: a FIFO of at least 192
  bytes, so that the mask of its capacity lets the core be told of two bursts (the
  code has 65536), any packet sizes and channel maps. This is arithmetic: the
  number of bursts chosen is the least that meets the limits (by well-foundedness
  of `<`), division is exact there, and a stub is accounted for apart.
- `PlugEndsInOrder`: `PlugLife`, from `PlugAssumption`: devices are of the three
  transports, and only a filter that names USB gives a bus, port or address
  (`usb_filtering_params_parse`, `LG`:84-123, is reached for those only). The
  invariant says what each transport holds when it is open and when it is not;
  one relation between the states before and after (`PlugStep`) holds of every
  outcome of every step of a creation, and composes (`PlugThen`). It led to a
  correction: `PlugOpensAsked` had left out that an unknown device found first
  makes the search go on to the next transport.
- `MdevAlwaysWhole`: `MdevWhole`, from `MdevAssumption` (the bounds are numbers).
  `MdevPaired` is what makes the inverted test of the name (`mdev.c`) harmless: each
  of the two arrays belongs to one name throughout, for opening, finding and
  closing alike, so an entry is there exactly when the device has the stream.
  `MdevThere` says of a held stream that it is on all devices with the full count,
  and marked on all but, after a refusal, the first (the mark of the first device is
  cleared before its refusal is seen, those of the others are not reached);
  the rest of the invariant, that an open aggregate has all its devices and a
  closed one none unless the debug service failed.
  The steps are loops over the devices that any round may fail in: `LoopDefined`
  shows, by least counterexample, that the recursive function of `ForEach` exists,
  `LoopBound` that what each round maps into the next of a family of sets ends in
  the last, and one lemma per loop of `mdev.c` brings it into that form.

**FlashProofs.** `FlashUpdatesSafe`: `FlashUpdates`, from `FlashAssumption`: erase
units nest, images begin at sectors, are whole sectors of the JSON calls, fit
where they go (which the code does not check), are told apart by their contents,
and one that jumps does not jump to 0. It holds for any flash and images, any
sequence of updates by the program and the JSON calls, any failing accesses and
losses of power. The program's option `-C`, which spoils an image on purpose, ends
it, as it ends the property.

The property says nothing of an update under way, and an update may be cut off at
any access, so the invariant (`FlashSafe`) speaks of what the loops still to come
will do: a cell is programmed once, when it is blank or will be by then
(`FlashOrder`, `FlashBlanked`), every cell of the image has its block in the end
(`FlashDue`), the header of a master image is written last and cannot be read before
(`FlashLast`, `FlashHidden`), and the golden image jumps to where it is written
(`FlashJumps`). An access moves a part of this from the loops to the cells
(`FlashAccess`); an access cut short disturbs only cells that no readable header
vouches for. Between two sectors of the JSON calls there are no loops, and
`FlashGoing` says of the cells how far the update has come, also when a sector failed
and is sent again. TLC finds `FlashSafe` true of the reachable states of the run's
instance (214,716 of them).

**BusTransactProofs.** Assumptions: those of `I2cLut` and
`BusTransact` (at least two slots; slaves are records of address and bus and
none is the empty one; each thread's cores are given). For any threads, slaves,
slots, calls and give-ups:

- `BusInvariant`: the inductive invariant `BusInv` below;
- `CommandsReachSlave`: `SlaveReached`, no command goes to a wrong slave;
- `LutRanksDistinct`: `RanksDistinct` of the slave cache;
- `TransactionsOwnAnswer`: `OwnAnswer`, a transaction returns the answer to its own
  command.

`BusInv` is `TypeInv /\ PcInv /\ RankInv(i2cc) /\ (Owned("i2c") => SlotInv)`.
`RankInv`: used slots have different ranks, a slot without a rank has no slave,
and the last slot comes into use after all others. It is preserved by
`UpdateLut` because promotion swaps two ranks (`PromotedOK`), and a newcomer
either takes over slot and rank of the least used slave or, in a slot never used,
rank 1, for which all used slots move up (`AgedOK`); that there is a least rank is
`MinIsLeast`, by well-foundedness. `SlotInv` follows a
transaction: the slot it found stands for its slave in the cache, then in the
table made from the cache, then in the device, since the table is sent whenever
it differs from the one noted last. Between write and note the noted table is
out of date, which the invariant allows for, and which is harmless only because
one thread owns the core (`OneUser`). The code says as much: "TODO: Protect i2cc
structure" (`DR`:1332). `BusInv` was checked with TLC, too, for three slots and
four slaves (2.55 million states).

`AnswerInv` is what `OwnAnswer` needs on top: on a core that one thread uses, with
no wait given up, either nothing is under way that a wait could take for its answer
(`Quiet`), or the thread's read is in one place only: a command of the core
(`InCore`), an event in the bucket (`InBucket`), or counted, with its answer stored
(`Stored`). Since the handler stores before it counts, an event at the head of the
bucket may have its answer stored already, and the events of the other core stand
between those of this one. A wait that ends therefore finds `Stored`, and clearing
the count leaves the core quiet for the next transaction; a wait given up leaves an
event behind that the next one would take, which is why the property excludes it.

**Only model-checked.** Liveness (`PacketsAccounted`, `AppEnds` and their like),
which is out of the prover's reach. Of the modules with proofs: the bound on the
ranks in `TypeOK` of `BusTransact`. All properties of the board drivers and
of `SfeTxSend`: a step of theirs is a long chain of outcomes, several of them by
recursion over channels or devices (`Lms7` and the boards use `Run` over sequences
of writes), where the prover needs a lemma of its own for each, as `MultiDev`,
`DmCreate`, `SoapyPlugin` and `SfeStream` have them.

## 5. Findings

Four runs show the code doing other than what the repository says of it:

1. `usb_rx_leak`: an IN transfer that times out, fails or is too short is posted again
   on another buffer, and the credit of the first is never returned (`LG`:585): the trace is
   such a failure, its callback and the restart. The count
   said to be the "number of buffers available for communication" shrinks with
   each failure, and the consumer's index no longer matches the producer's.
2. `usb_reg_hang`: a command transfer that fails or times out keeps its
   semaphore (`UL`:293); all later accesses wait for it without limit, although
   calls are given a timeout.
3. `pcie_rx_small_log`: the handler's log index addresses 16 records (`DR`:475);
   64 are declared (`DR`:145) and streams have 32 buffers.
4. `tx_split`: with two channels the offset into the caller's memory advances by
   half a burst for each burst sent (`SF`:334).

Noticed while reading. Where a model could show them, the property is stated for
the behaviours without them, as its comment says.

Streams and transports:

- two overlapping USB register reads can get each other's answers (`UL`:411); an
  indexed register is a write of the index and an access, and another thread's
  index may come in between (`UG`:87);
- the wait of a USB bus transaction multiplies milliseconds by 1000 and hands
  them to a function that counts nanoseconds (`UL`:446); after a wait that ended
  early the next answers are those of earlier transactions;
- a wait for a readback that a signal interrupts returns while the transfer still
  points at the caller's stack (`UL`:415);
- an event between the flush of the log and the clearing of the count at the
  re-initialisation of a PCIe stream is taken for one of the new stream
  (`DR`:939-955); without `Quiet`, `BuffersAccounted` does not hold;
- two threads on one I2C core: "TODO: Protect i2cc structure" (`DR`:1332);
  `usdr_wait_event` stops the kernel for more than 255 events (`DR`:1143);
- stopping a USB stream frees its transfers 10 ms after cancelling them
  (`LG`:415), whether the callbacks have run or not;
- a packet that is discarded adds the low 24 bits of word 1 of its trailer, the mask of
  its bursts, to the count of losses (`UL`:504): with more than 8 bursts a packet the
  count is too high by the mask (`extra` in `UsbRxStream`), and the device losses
  told in word 0 are forgotten (`forgotten`);
- after 2^32 - 1 indices the ring returns `IDX_TIMEDOUT` for a slot it granted;
  `ring_buffer_stdwait` does not carry a `tv_nsec` of exactly 10^9 (`RB`:70);
- `usb_uram_reg_in_n` does not shorten the last piece of a long read (`UG`:53);
- a failing statistics read between get and commit leaves the TX indices apart,
  and the next commit is refused (`UL`:727, `UL`:766);
- `event_no` has 6 bits, the arrays it indexes 32 entries (`DR`:460);
- the register cache is updated though a write failed (`ST`:69); the 16-bit DMA
  drop counter over USB is extended as if it had 8 (`SF`:396);
- `_usb_uram_init_rxstream` ignores the result of `buffers_usb_init` (`UL`:519);
- creating an SFE stream stops the retimer under a running stream of the other
  direction (`SF`:762); a refused format is found only after the DMA was reset;
  with a padded packet the FIFO capacity told to the core is that of the last
  candidate number of bursts, not of the one chosen (`sfe_rx_4.c`:239);
- FT601: the command buffer is filled before the lock is taken, and a reply that
  comes after its wait gave up is taken for that of the next call;
- LimeSDR: a recv that times out in a packet drops the part it has; reopening
  sets buffers up again while transfers use them.

Life cycle:

- a USB device whose creation fails after the thread was started frees the
  structure under the thread (`UL`:951); a claim that fails leaves the handle open;
  a filter by bus alone matches nothing;
- kernel driver: when `iomap`, the DMA mask or `device_create` fail the probe
  returns 0, the board is bound without a structure and its removal dereferences
  NULL; boards are numbered by their count, so numbers collide when boards leave
  out of order; stream buffers are freed on unplug while they are mapped; the layout
  handed over during removal leaves the interrupt requested;
- aggregate: an inverted `strstr` chooses the arrays of the other direction, a
  refused creation clears the first device's mark of the open stream (`mdev.c`:390,
  :398-400), which starts, stops and syncs then pass over (:235, :480); devices of different kinds
  give 0 and no device, a recv that fails on one device leaves those before it one
  packet ahead;
- SoapySDR: for an AFE79XX `setFrequency` sends the frequency and notes
  `(channel << 32) | (uint32_t)frequency` (`usdr_soapy.cpp`:499-506), which `getFrequency`
  (:514) returns, channel and all; an expired weak reference is never replaced in the table, so a device
  may be opened twice; the destructor closes no stream; the jitter buffer is sized
  by the first request and never checks for space; a read while inactive spins;
- `usdr_dm_create`: early error exits leave streams open; the disk writer stops
  without draining; a timed-out wait uses the slot of index ~0 and sends its
  stale block; cycling through files of different lengths loses samples.

Firmware update:

- a golden image whose update was interrupted in its header makes both updaters
  refuse every further update, a repetition of the same one included
  (`usdr_flash.c`:163, `controller_ugen.c`:53);
- the length of a golden image is not compared with the offset of the master
  image; `FlashAssumption` says that it fits;
- the JSON calls use a fixed master offset (`MASTER_IMAGE_OFF`), the dSDR has
  another one.

Boards:

- xSDR: a tune that does not lock leaves the chip on one bank; `mac_set` notes the
  selection before it is written; a re-powered chip meets old caches; closing TX
  takes RX down; a bandwidth that channel A refused is overwritten by the result of
  selecting channel B and the call succeeds (`lms7002m_ctrl.c`:562); destroy ends at the
  first failing access with the RFIC powered;
- uSDR: revision 3 overwrites the result of the clock's set-up; the DC calibration
  leaves the transmit PLL and gains moved; a path set by hand does not retune; an
  empty window in `lms6002d_find_vcocap` counts as a lock; with `USDR_BARE_DEV` the
  start-up succeeds with neither clock nor chip (`usdr_ctrl.c`:569-573), and the first
  setting of the chip ends the process (`Lms6Access`);
- dSDR: closing a stream clears the enables of the other direction; results are
  overwritten by power-good reads; a tune that changes the sign of a channel's IQ hands
  the map to the stream and loses the result in a shadowed variable (`m2_dsdr.c`:736,
  :771); a rate is looked up with the index of the other
  direction; two channels of a converter share LO and path;
- lSDR: frequencies of 2^32 Hz and more end 2^32 Hz lower (`m2_da09_4_ad45_2.c`:620-632),
  so the band from 4.625 GHz is out of reach; the result of the mixer's write is lost
  (:599), and a rate sets the mixer to 3 (:858) where a tune sets 0; the MAX2871 is set
  with modulus 4095, not exactly (`ext_fe_100_5000.c`:222-226), and the NCO does not
  make up for it; the NCO's word places the rest at a quarter of the converters' rate
  below it; a new rate leaves the NCO word stale; statistics write four lanes into arrays of two;
- front ends: an empty slot passes for a breakout; a pin whose write failed is not
  written again; LimeSDR: `stream_sync` notes the stream as started before its
  set-up and ignores the result.

## 6. What is not modelled

Time: a wait "may time out" where the code allows it. Memory: allocation,
mapping and cache maintenance, except where lifetimes are the question
(`KernelDriver`, `Plugins`, `UsbRxStream`). Sample formats and conversion. Values
of registers no property reads: gains, filters, corrections, sensors. The TX
half of PCIe streams' credits, splitting of long USB register accesses and indexed
registers. WebUSB variants (no threads; JavaScript outside the repository), the
Verilator transport (its peer is a simulator), numeric code (calibration searches,
signal processing), the other boards with `USDR_BARE_DEV` (`m2_dsdr.c`:1401,
`m2_lm7_1.c`:977, `u3_limesdr.c`:314, `pe_sync.c`:167), register images of clock, supply and sensor chips, gearbox
helpers, JSON decoding. The reason for each is in PROJECT.json.

The components of `boards` and `host` are checked one at a time. What they share,
a transport or a bus, is a call that may fail; that two of them may interleave on
it is covered where the shared part is modelled (`UsbRegIo`, `BusTransact`,
`FtCtrl`).

## 7. Plan

1. **Proofs**: the front ends and the smaller boards (`FesAsSet`, `LsdrAsSet`), with
   the lemmas on sequences of accesses that `SfeAlwaysConsistent` rests on.
2. **PCIe transmit** in `PcieStream`: the credits the driver puts in at set-up.
3. **USB extras**: indexed registers as two calls of `UsbRegIo`, the I2C table
   over USB (reusing `I2cLut`).
4. **Clock chips**: the divider searches as operators against a reference.

## 8. Running

`tlc -config X.cfg M` for a run's module and configuration (PROJECT.json lists
them; `dm_create` takes about three minutes, the others less), `tlapm M.tla` for each
module whose name ends in `Proofs` and for `SharedLemmas` (`HostProofs` and
`AppProofs` take about ten minutes, `FlashProofs` five, `StreamProofs` four, the others a minute or two). Each
property has mutants in PROJECT.json, one for each of its parts that could fail
for a reason of its own: a defective variant of one definition, kept beside it in
the module, under which the property fails.
