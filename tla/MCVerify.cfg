\* Reads fail, and leave in the buffer of the hash block, for each crc, what it
\* was or what is on the device.  Block 1 silently reverts to zero, its
\* hash block is damaged, and a write of it fails and leaves old or torn blocks.
SPECIFICATION Spec
CONSTANTS
    HashesPerBlock = 2
    BaseBlocks = 5
    z = z
    a = a
    junk = junk
    Values <- MCValues
    Zero = z
    Junk = junk
    Words <- MCWords
    ZeroWord = 0
    DamagedWord = 2
    Crc <- MCCrc
    WordXor <- MCWordXor
    NoBlock = NoBlock
    NoReply = NoReply
    ReadFails = TRUE
    ReadLeaves = {"kept", "filled"}
    WriteFaults = {"old", "torn"}
    CorruptTo = {z}
    Rotting = {1}
INVARIANTS
    TypeOK
    ReadsPassTheCheck
    IntactIsReadable
