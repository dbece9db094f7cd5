------------------------------- MODULE Flash -------------------------------
(***************************************************************************)
(* Updating the firmware in the configuration flash of a board             *)
(* (ipblks/espi_flash.c, ipblks/xlnx_bitstream.c), by the program          *)
(* usdr_flash and by the calls flash_erase and flash_write_sector of the   *)
(* JSON controller (controller_ugen.c).                                    *)
(*                                                                         *)
(* The flash holds a golden image at 0, which makes the FPGA jump to the   *)
(* master image and is what it falls back to.  A cell is one block of      *)
(* LOCAL_BLK_LEN bytes; a header (256 bytes, also the sector of the JSON   *)
(* calls) has two of them.  A call is the sequence todo of the loops of    *)
(* accesses it makes, so that a failure or a loss of power can come at     *)
(* each access.                                                            *)
(***************************************************************************)
EXTENDS Naturals, Sequences, FiniteSets

CONSTANTS FlashSub, FlashSect,      \* cells of a subsector (4 KiB) and of a sector (64 KiB)
          FlashMaster,              \* MASTER_IMAGE_OFF
          FlashLen,                 \* cells of the flash
          FlashLimit,               \* longest update of the JSON controller (2 MiB)
          FlashDevid,               \* the FPGA on the board
          FlashFiles,               \* images: [id, devid, wbstar, iprog, len]
          FlashCalls, FlashFaults, FlashCuts   \* updates, failing accesses, losses of power

(* Erase units nest, the images begin at sectors, are a number of headers  *)
(* long and fit where they go, which the code does not check.  An image    *)
(* that jumps does not jump to 0.                                          *)
ASSUME FlashAssumption ==
    /\ FlashSub \in Nat /\ FlashSect \in Nat /\ FlashMaster \in Nat /\ FlashLen \in Nat
    /\ FlashSub > 2 /\ FlashSect >= FlashSub /\ FlashMaster > 0 /\ FlashLen >= FlashMaster + FlashSect
    /\ FlashSect % FlashSub = 0 /\ FlashMaster % FlashSect = 0 /\ FlashLen % FlashSect = 0
    /\ FlashCalls \in Nat /\ FlashFaults \in Nat /\ FlashCuts \in Nat
    /\ \A f \in FlashFiles :
          /\ f.iprog \in BOOLEAN /\ (f.iprog => f.wbstar # 0) /\ f.id \notin {"none", "ff", "junk"}
          /\ f.len \in Nat \ {0} /\ f.len % 2 = 0
          /\ f.len <= (IF f.iprog THEN FlashMaster ELSE FlashLen - FlashMaster)
    /\ \A f, h \in FlashFiles : f.id = h.id => f = h

VARIABLE flash

FlashFF == <<"ff", 0>>       \* an erased cell
FlashJunk == <<"junk", 0>>   \* neither the old nor the new contents
FlashNone == "none"
FlashImg(id) == CHOOSE f \in FlashFiles : f.id = id
FlashHdr == 0..1

(* Block i of the padded file in memory (outa); -C overwrites the second   *)
(* 512 KiB of it.                                                          *)
FlashBlock(f, i, spoil) ==
    IF i >= f.len \/ (spoil /\ i \in FlashSub..(2 * FlashSub - 1)) THEN FlashFF ELSE <<f.id, i>>

(* xlnx_btstrm_parse_header of the 256 bytes at base: the image whose      *)
(* header they are.  Half a header is not one: erased words are accepted   *)
(* before the sync word only, and it is in the first half.                 *)
xlnx_btstrm_parse_header(c, base) ==
    IF \E f \in FlashFiles : \A i \in FlashHdr : c[base + i] = <<f.id, i>>
    THEN c[base][1] ELSE FlashNone

FlashWholeAt(c, base) ==
    LET id == xlnx_btstrm_parse_header(c, base)
    IN  id # FlashNone /\ \A i \in 0..(FlashImg(id).len - 1) : c[base + i] = <<id, i>>

(* The FPGA at power-up: the header at 0 sends it on to wbstar; without an *)
(* image for it there it loads the golden one.                             *)
FlashBoot(c) ==
    LET g == xlnx_btstrm_parse_header(c, 0)
        m == xlnx_btstrm_parse_header(c, FlashMaster)
    IN  IF g = FlashNone THEN FlashNone
        ELSE IF /\ FlashImg(g).iprog /\ FlashImg(g).wbstar = FlashMaster /\ FlashWholeAt(c, FlashMaster)
                /\ FlashImg(m).devid = FlashDevid
             THEN m
        ELSE IF FlashWholeAt(c, 0) THEN g ELSE FlashNone

(* curfwid is the image that runs; op_len, op_golden, validated and header *)
(* are the static variables s_op_flash_* of the controller, rpc its client *)
(* with the sector it sends next.  gold: an update of the golden image has *)
(* begun and is not complete; spoilt: -C was used; done: the image the     *)
(* last call wrote successfully.                                           *)
FlashFresh(g, m) ==
    LET c == [i \in 0..(FlashLen - 1) |->
                 IF i < FlashMaster THEN FlashBlock(g, i, FALSE)
                 ELSE IF m = FlashNone THEN FlashFF ELSE FlashBlock(FlashImg(m), i - FlashMaster, FALSE)]
    IN  [c |-> c, todo |-> <<>>, curfwid |-> FlashBoot(c), calls |-> FlashCalls, faults |-> FlashFaults,
         cuts |-> FlashCuts, op_len |-> 0, op_golden |-> FALSE, validated |-> FALSE, header |-> FlashNone,
         rpc |-> [id |-> FlashNone, golden |-> FALSE, next |-> 0],
         gold |-> FALSE, spoilt |-> FALSE, done |-> FlashNone]
-----------------------------------------------------------------------------
(* A loop over the n cells from at, or (n = 0) something that is noted.    *)
FlashOp(op, at, n, d) == <<[op |-> op, at |-> at, n |-> n, d |-> d]>>

(* _espi_flash_erase.  The erasure of the whole flash is not used by       *)
(* anything.                                                               *)
espi_flash_erase(addr, size) == FlashOp("erase", addr, size, FlashNone)

(* The loop of espi_flash_write over the cells from..to of the file f that *)
(* is to begin at base.                                                    *)
espi_flash_write(f, from, to, base, spoil) ==
    FlashOp("prog", base + from, to + 1 - from,
            [i \in (base + from)..(base + to) |-> FlashBlock(f, i - base, spoil)])

(* The cells of the next access of a loop: a sector is erased where one    *)
(* fits, else a subsector; a loop of erasures for which neither does ends  *)
(* with -EINVAL.                                                           *)
FlashUnit(o) ==
    CASE o.op = "erase" /\ o.at % FlashSect = 0 /\ o.n >= FlashSect -> FlashSect
      [] o.op = "erase" /\ ~(o.at % FlashSect = 0 /\ o.n >= FlashSect) /\ o.at % FlashSub = 0 /\ o.n >= FlashSub -> FlashSub
      [] o.op = "prog" /\ o.n > 0 -> 1
      [] OTHER -> 0

FlashCells(o) == o.at..(o.at + FlashUnit(o) - 1)

FlashRoundUp(n, u) == ((n + u - 1) \div u) * u

\* Defective variant of xlnx_btstrm_iprgcheck: a golden image that jumps elsewhere is no reason to refuse.
CheckUnaligned(c, f, golden) ==
    LET g == FlashImg(xlnx_btstrm_parse_header(c, 0))
    IN  /\ g.devid = f.devid
        /\ IF golden THEN f.wbstar = FlashMaster /\ f.iprog ELSE f.wbstar = 0

(* xlnx_btstrm_iprgcheck of the file against the golden image: the same    *)
(* FPGA, an image of the kind asked for, and a golden image that jumps to  *)
(* where the master image goes.                                            *)
xlnx_btstrm_iprgcheck(c, f, golden) ==
    LET g == FlashImg(xlnx_btstrm_parse_header(c, 0))
    IN  /\ g.devid = f.devid
        /\ IF golden THEN f.wbstar = FlashMaster /\ f.iprog
           ELSE f.wbstar = 0 /\ g.wbstar = FlashMaster

(* What both updaters check before they touch the flash; a golden image    *)
(* that cannot be read refuses them.                                       *)
FlashChecked(c, f, golden) ==
    xlnx_btstrm_parse_header(c, 0) # FlashNone /\ xlnx_btstrm_iprgcheck(c, f, golden)
-----------------------------------------------------------------------------
FlashIdle == flash.todo = <<>> /\ flash.curfwid # FlashNone

\* Defective variant of FlashCliWrites: the header is written with the rest of the image.
CliInOrder(f, golden, spoil) ==
    LET total == FlashRoundUp(f.len, FlashSect)
        base == IF golden THEN 0 ELSE FlashMaster
    IN  espi_flash_erase(base, total) \o espi_flash_write(f, 0, total - 1, base, spoil)

(* main of usdr_flash, the writing: a golden image header first, any other *)
(* with the header last.                                                   *)
FlashCliWrites(f, golden, spoil) ==
    LET total == FlashRoundUp(f.len, FlashSect)
    IN  IF golden
        THEN espi_flash_erase(0, FlashSub) \o espi_flash_write(f, 0, FlashSub - 1, 0, spoil)
             \o espi_flash_erase(FlashSub, total - FlashSub) \o espi_flash_write(f, FlashSub, total - 1, 0, spoil)
        ELSE espi_flash_erase(FlashMaster, total) \o espi_flash_write(f, 2, total - 1, FlashMaster, spoil)
             \o espi_flash_write(f, 0, 1, FlashMaster, spoil)

(* usdr_flash -w with or without -G, -F and -C, up to the reading back.    *)
(* The program that finds its file in use already changes nothing, like    *)
(* one whose checks fail.                                                  *)
FlashCli ==
    /\ FlashIdle /\ flash.calls > 0
    /\ \E f \in FlashFiles, golden, force, corrupt \in BOOLEAN :
          /\ FlashChecked(flash.c, f, golden)
          /\ force \/ ~(flash.curfwid = f.id /\ xlnx_btstrm_parse_header(flash.c, FlashMaster) = f.id)
          /\ flash' = [flash EXCEPT
                !.calls = @ - 1, !.rpc.id = FlashNone, !.done = FlashNone,
                !.gold = @ \/ golden, !.spoilt = @ \/ corrupt,
                !.todo = FlashCliWrites(f, golden, corrupt) \o FlashOp("read", 0, 0, FlashNone)
                         \o FlashOp("done", 0, 0, f.id)]

(* flash_erase: nothing but the announcement of an update.                 *)
FlashRpcErase ==
    /\ FlashIdle /\ flash.calls > 0
    /\ \E f \in FlashFiles, golden \in BOOLEAN :
          flash' = [flash EXCEPT
             !.calls = @ - 1, !.rpc = [id |-> f.id, golden |-> golden, next |-> 0],
             !.op_len = IF f.len > FlashLimit THEN 0 ELSE f.len,
             !.op_golden = FALSE, !.validated = FALSE]

\* Defective variant of FlashBlank: the last, partial subsector is not erased.
BlankRoundsDown(len, f, golden) ==
    IF golden
    THEN espi_flash_erase(0, FlashSub) \o espi_flash_write(f, 0, 1, 0, FALSE)
         \o espi_flash_erase(FlashSub, ((len - FlashSub) \div FlashSub) * FlashSub)
    ELSE espi_flash_erase(FlashMaster, (len \div FlashSub) * FlashSub)

(* The first sector blanks the flash; a golden header is written before    *)
(* the rest is erased.                                                     *)
FlashBlank(len, f, golden) ==
    IF golden
    THEN espi_flash_erase(0, FlashSub) \o espi_flash_write(f, 0, 1, 0, FALSE)
         \o espi_flash_erase(FlashSub, ((len - 1) \div FlashSub) * FlashSub)
    ELSE espi_flash_erase(FlashMaster, FlashRoundUp(len, FlashSub))

(* flash_write_sector for the next sector of the client's file.  The       *)
(* client sends sectors in order from 0, may repeat one that failed, and   *)
(* may announce an update again at any time; it announces offset 0, so     *)
(* s_op_flash_offset is always 0.                                          *)
FlashRpcSector ==
    /\ FlashIdle /\ flash.rpc.id # FlashNone
    /\ LET f == FlashImg(flash.rpc.id)
           off == flash.rpc.next
           first == off = 0
           end == off + 2 >= flash.op_len
           golden == IF first THEN flash.rpc.golden ELSE flash.op_golden
           h == IF first THEN f ELSE FlashImg(flash.header)
       IN  /\ off < flash.op_len
           /\ IF first /\ ~FlashChecked(flash.c, f, golden)
              THEN flash' = [flash EXCEPT !.op_len = 0]
              ELSE /\ first \/ flash.validated
                   /\ flash' = [flash EXCEPT
                        !.gold = @ \/ (first /\ golden), !.done = FlashNone,
                        !.todo = (IF first THEN FlashBlank(flash.op_len, f, golden)
                                                \o FlashOp("blanked", 0, 0, f.id) ELSE <<>>)
                                 \o (IF end THEN FlashOp("end", 0, 0, FlashNone) ELSE <<>>)
                                 \o (IF first THEN <<>>
                                     ELSE espi_flash_write(f, off, off + 1, IF golden THEN 0 ELSE FlashMaster, FALSE))
                                 \o (IF end /\ ~golden THEN espi_flash_write(h, 0, 1, FlashMaster, FALSE) ELSE <<>>)
                                 \o FlashOp(IF end THEN "done" ELSE "next", 0, 0, f.id)]
-----------------------------------------------------------------------------
(* Programming clears bits only.                                           *)
FlashProg(old, new) == IF old = FlashFF THEN new ELSE IF new \in {old, FlashFF} THEN old ELSE FlashJunk

(* What an access does to the flash.                                       *)
FlashEffect(c, o) ==
    [i \in DOMAIN c |-> IF i \notin FlashCells(o) THEN c[i]
                        ELSE IF o.op = "erase" THEN FlashFF ELSE FlashProg(c[i], o.d[i])]

(* The contents after an access that did not come to its end.              *)
FlashCutShort(c, o) ==
    {c, FlashEffect(c, o), [i \in DOMAIN c |-> IF i \in FlashCells(o) THEN FlashJunk ELSE c[i]]}

(* A call that ends with an error; one that did not get as far as a        *)
(* blanked flash takes the announcement back.                              *)
FlashAbort(s) ==
    [s EXCEPT !.todo = <<>>,
              !.op_len = IF \E k \in DOMAIN s.todo : s.todo[k].op = "blanked" THEN 0 ELSE @]

(* The loops after the next access.                                        *)
FlashAfter(todo) ==
    LET u == FlashUnit(todo[1])
    IN  IF todo[1].n = u THEN Tail(todo) ELSE [todo EXCEPT ![1].at = @ + u, ![1].n = @ - u]

(* The next step of a call: an access with its wait for the end of the     *)
(* operation, or what is noted between accesses.                           *)
FlashStep ==
    /\ flash.todo # <<>>
    /\ LET o == flash.todo[1]
           s == [flash EXCEPT !.todo = FlashAfter(@), !.c = FlashEffect(@, o)]
       IN  flash' = CASE o.op = "erase" /\ FlashUnit(o) = 0 -> FlashAbort(flash)
                      [] o.op = "blanked" -> [s EXCEPT !.op_golden = flash.rpc.golden, !.validated = TRUE,
                                                       !.header = o.d]
                      [] o.op = "end" -> [s EXCEPT !.op_len = 0]
                      [] o.op = "next" -> [s EXCEPT !.rpc.next = @ + 2]
                      [] o.op = "done" -> [s EXCEPT !.done = o.d, !.rpc.id = FlashNone,
                                                    !.gold = @ /\ ~FlashImg(o.d).iprog]
                      [] OTHER -> s

(* An access fails, before or after it took effect, or the wait for the    *)
(* flash runs into its limit.                                              *)
FlashFail ==
    /\ flash.todo # <<>> /\ flash.faults > 0
    /\ flash.todo[1].op = "read" \/ FlashUnit(flash.todo[1]) # 0
    /\ \E c \in {flash.c, FlashEffect(flash.c, flash.todo[1])} :
          flash' = [FlashAbort(flash) EXCEPT !.c = c, !.faults = @ - 1]

(* The board loses power, in a call or between calls, and starts again.    *)
FlashPowerCut ==
    /\ flash.cuts > 0
    /\ \E c \in (IF flash.todo = <<>> THEN {flash.c} ELSE FlashCutShort(flash.c, flash.todo[1])) :
          flash' = [FlashAbort(flash) EXCEPT
                       !.c = c, !.cuts = @ - 1, !.curfwid = FlashBoot(c), !.rpc.id = FlashNone, !.done = FlashNone]

FlashInit ==
    \E g \in {f \in FlashFiles : f.iprog}, m \in {FlashNone} \cup {f.id : f \in {h \in FlashFiles : h.wbstar = 0}} :
        /\ g.devid = FlashDevid /\ (m # FlashNone => FlashImg(m).devid = FlashDevid)
        /\ flash = FlashFresh(g, m)

FlashNext == FlashCli \/ FlashRpcErase \/ FlashRpcSector \/ FlashStep \/ FlashFail \/ FlashPowerCut

FlashSpec == FlashInit /\ [][FlashNext]_flash
-----------------------------------------------------------------------------
(* Whenever the header of a master image can be read, the image is there   *)
(* to its last block: wherever an update was cut off or given up, and      *)
(* whatever was in the flash before.                                       *)
FlashHeaderLast ==
    ~flash.spoilt /\ xlnx_btstrm_parse_header(flash.c, FlashMaster) # FlashNone => FlashWholeAt(flash.c, FlashMaster)

(* The golden image stays whole unless an update of it was begun and not   *)
(* completed, so that no loss of power leaves the board without firmware.  *)
FlashGoldenKept ==
    ~flash.spoilt /\ ~flash.gold => FlashWholeAt(flash.c, 0) /\ flash.curfwid # FlashNone

(* A master image reported as written is the one that starts next time; a  *)
(* golden image leaves the board able to start.                            *)
FlashTakesEffect ==
    ~flash.spoilt /\ flash.done # FlashNone =>
        IF FlashImg(flash.done).iprog THEN FlashBoot(flash.c) # FlashNone ELSE FlashBoot(flash.c) = flash.done

(* Updates of the firmware survive failures and losses of power.           *)
FlashUpdates == FlashHeaderLast /\ FlashGoldenKept /\ FlashTakesEffect
=============================================================================
