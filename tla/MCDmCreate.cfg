\* The program: rings of one block of two samples; one call may fail.
\* The ring: four slots, ten packets, indices that do not wrap.
CONSTANTS
    AppFaults = 1
    AppChans = 2
    AppItems = 1
    AppBlk = 2
    AppFile <- MCFile
    AppCount = 2
    Items = 4
    IdxMod = 16
    MaxPackets = 10
SPECIFICATION MCSpec
INVARIANTS AppData NoSlotConflict RingInv
PROPERTIES AppEnds PacketsDelivered
CHECK_DEADLOCK FALSE
