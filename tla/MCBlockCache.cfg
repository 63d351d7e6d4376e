\* Any read may fail, and write backs of the slot two blocks share.
SPECIFICATION Spec
CONSTANTS
    Size = 2
    Addresses <- MCAddresses
    Contents = {u, v, w}
    HashSlot <- MCHashSlot
    NoBlock = NoBlock
    NoReply = NoReply
    WriteFaults <- SharedSlotFails
    ReadFails = TRUE
INVARIANTS
    ReadsAreExplained
    SlotsAreLabelled
    IndInv
