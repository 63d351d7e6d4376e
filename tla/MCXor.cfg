\* Devices fail reads and writes, two writes at once included, and keep the old block,
\* the new one or none; the process dies in a flush; the blocks of device 2 decay.
SPECIFICATION Spec
CONSTANTS
    N = 3
    SliceCount = 2
    NoSlice = NoSlice
    Bad = Bad
    NoReply = NoReply
    Faults <- ReadsAndWrites
    Decaying = {2}
    InitialRows <- Zeroed
    Writes <- FewWrites
    DieInFlush = TRUE
    MaxFaults = 2
INVARIANTS
    ReadsAreExplained
    EachBlockIsRedundant
    CleanSlicesAreNewest
    IndInv
PROPERTY
    ImplementsBlockDevice
