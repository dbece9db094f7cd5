\* A table of two slots, so that slaves compete; two threads.
CONSTANTS
    Threads = {"t1", "t2"}
    Uses <- MCUses
    Slaves <- MCSlaves
    SlotCount = 2
    MaxCalls <- MCCalls
    MaxGiveUps = 1
SPECIFICATION FairSpec
INVARIANTS RanksDistinct SlaveReached
PROPERTIES OwnAnswer EveryTransactionEnds
CHECK_DEADLOCK FALSE
