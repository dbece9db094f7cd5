\* Two readers, a writer, a bus and a failure; fewer reads than semaphores to
\* wake them.
CONSTANTS
    Readers = {"r1", "r2"}
    Writers = {"w1"}
    BusUsers = {"b1"}
    RbThreads = 4
    RegCalls = 2
    BusCalls = 2
    MaxFaults = 1
SPECIFICATION FairSpec
INVARIANTS TransfersSafe
PROPERTIES OwnAnswers EveryCallReturns
CHECK_DEADLOCK FALSE
