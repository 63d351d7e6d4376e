\* Every start and length on a small device; any block operation may fail.
SPECIFICATION Spec
CONSTANTS
    BlockSize = 3
    BlockCount = 4
    NoByte = NoByte
    Leaves <- MCLeaves
INVARIANTS
    TypeOK
    AssertionsHold
    LoopInvariant
    ReadIsExact
    WritesAPrefix
PROPERTY
    Returns
CHECK_DEADLOCK FALSE
