\* Two partitions and one fault, in a call or between two; MaxCalls is more than
\* any call makes.  The model ends at a mishap: deadlock is not checked.
SPECIFICATION Spec
CONSTANTS
    N = 9
    Bits = 5
    Maps = 2
    PartCount = 2
    MaxSize = 3
    MaxTotal = 5
    MaxFaults = 1
    MaxCalls = 32
    Junk = {0, 2, 7}
    Values <- OneValueEach
    NoHandle = NoHandle
    NoReply = NoReply
INVARIANTS
    EachBlockHasOneOwner
    PartitionsAreKept
    AlignedReadsAreTheirOwn
    BuffersAreTheDisk
CHECK_DEADLOCK FALSE
