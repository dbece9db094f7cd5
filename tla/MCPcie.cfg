\* Half as many log records as buffers, as in the driver (16 and 32), the
\* stream set up twice; four laps of the bucket's page and eight confirmations.
CONSTANTS
    DmaBufs = 4
    LogSlots = 2
    MaxPackets = 8
    MaxReinit = 1
    Entries = 8
    AckEvery = 4
    MaxEvents = 34
SPECIFICATION MCSpec
INVARIANTS RecordsMatch BuffersSafe
PROPERTIES PacketsAccounted EventsDelivered
CHECK_DEADLOCK FALSE
