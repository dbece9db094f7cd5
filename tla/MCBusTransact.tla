--------------------------- MODULE MCBusTransact ---------------------------
EXTENDS BusTransact

\* A thread for each core.
MCUses == [t \in {"t1", "t2"} |-> IF t = "t1" THEN {"spi"} ELSE {"i2c"}]

MCCalls == [t \in {"t1", "t2"} |-> IF t = "t1" THEN 2 ELSE 3]

\* Two slaves that compete for the only slot of bus 0, one on bus 1.
MCSlaves == {[addr |-> 1, busn |-> 0], [addr |-> 2, busn |-> 0],
             [addr |-> 1, busn |-> 1]}
=============================================================================
