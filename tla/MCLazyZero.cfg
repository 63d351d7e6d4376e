\* Reads and writes of the bitmap and of block 0 may fail; parts of it are written.
SPECIFICATION Spec
CONSTANTS
    Size = 1
    Addresses <- MCAddresses
    Contents <- MCContents
    HashSlot <- MCHashSlot
    NoBlock = NoBlock
    BitsPerBlock = 2
    ChunkSize = 2
    BaseBlocks = 8
    Written <- MCWritten
    HeaderBits <- MCHeaderBits
    GuardWidth = 2
    WriteValues <- MCOneValue
    NoReply = NoReply
    BitmapReadFails = TRUE
    BitmapWriteFails = TRUE
    Faulty <- MCFirst
    Parts <- MCParts
    ByteBlocks <- MCFirst
INVARIANTS
    EveryBlockIsExpected
    ReadsAreExpected
