\* Writes of device 0 may fail; nothing else does.  After a failed
\* assertion this instance stops: deadlock is not checked.
SPECIFICATION HistorySpec
CONSTANTS
    N = 3
    SliceCount = 2
    NoSlice = NoSlice
    Bad = Bad
    NoReply = NoReply
    Faults <- OneWrite
    Decaying = {}
    InitialRows <- Zeroed
    Writes <- AllWrites
    DieInFlush = FALSE
    MaxFaults = 1
INVARIANT
    OneFailureLosesNoData
CHECK_DEADLOCK FALSE
