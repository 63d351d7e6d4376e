\* Nothing fails: can the device be opened again?
SPECIFICATION Spec
CONSTANTS
    Size = 1
    Addresses <- MCAddresses
    Contents <- MCContents
    HashSlot <- MCHashSlot
    NoBlock = NoBlock
    BitsPerBlock = 2
    ChunkSize = 2
    BaseBlocks = 5
    HeaderBits <- MCHeaderBits
    GuardWidth = 2
    Written <- MCBlocks
    WriteValues <- MCWriteValues
    NoReply = NoReply
    BitmapReadFails = FALSE
    BitmapWriteFails = FALSE
    Faulty = {}
    Parts <- MCParts
    ByteBlocks = {}
INVARIANT
    CanBeReopened
