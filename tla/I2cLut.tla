------------------------------- MODULE I2cLut -------------------------------
(***************************************************************************)
(* The slave table of the I2C core (si2c.c).  A command names its slave by *)
(* one of a few slots; the driver keeps in i2cc which slave each slot       *)
(* stands for and a rank that decides which slot gives way to a new slave. *)
(***************************************************************************)
EXTENDS Integers, FiniteSetsExt

CONSTANT SlotCount   \* slots of the table: 4

ASSUME LutAssumption == SlotCount \in Nat /\ SlotCount > 1

Slots == 0..SlotCount-1

\* A slave: its address and which of the two buses it is on.
NoSlave == [addr |-> 0, busn |-> 0]

\* i2cc after memset
EmptyCache == [s \in Slots |-> [slave |-> NoSlave, lrui |-> 0]]

\* Bus 0 does without the last slot.
Usable(slave) == IF slave.busn = 0 THEN 0..SlotCount-2 ELSE Slots

\* Defective variant of Promoted: the slot above keeps its rank.
PromotedNoSwap(cd, i, above) == [cd EXCEPT ![i].lrui = @ + 1]

\* A slot that is hit changes ranks with the one above it.
Promoted(cd, i, above) ==
    [cd EXCEPT ![i].lrui = @ + 1, ![Min(above)].lrui = cd[i].lrui]

\* Defective variant of Aged: ranks also grow when no slot was free.
AgedAlways(cd, slots, victim) ==
    [s \in Slots |-> [cd[s] EXCEPT !.lrui =
        IF s = victim \/ (s \in slots /\ cd[s].lrui > 0) THEN @ + 1 ELSE @]]

\* A slot used for the first time ranks below the others.
Aged(cd, slots, victim) ==
    IF cd[victim].lrui > 0 THEN cd
    ELSE [s \in Slots |-> [cd[s] EXCEPT !.lrui =
            IF s = victim \/ (s \in slots /\ cd[s].lrui > 0) THEN @ + 1 ELSE @]]

\* si2c_update_lut_idx: the slot for slave and the cache after the call.
UpdateLut(cd, slave) ==
    LET slots == Usable(slave)
        hits == {s \in slots : cd[s].slave = slave}
        lowest == Min({cd[s].lrui : s \in slots})
        victim == Min({s \in slots : cd[s].lrui = lowest})
        above == {s \in slots : cd[s].lrui = cd[Min(hits)].lrui + 1}
    IN  IF hits # {}
        THEN [idx |-> Min(hits),
              cache |-> IF above = {} THEN cd ELSE Promoted(cd, Min(hits), above)]
        ELSE [idx |-> victim,
              cache |-> [Aged(cd, slots, victim) EXCEPT ![victim].slave = slave]]

\* si2c_get_lut: the table as it is sent to the core.
GetLut(cd) == [s \in Slots |-> cd[s].slave]
=============================================================================
