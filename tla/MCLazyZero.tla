----------------------------- MODULE MCLazyZero -----------------------------
(***************************************************************************)
(* Three chunks of two, two and one blocks, whose bits are in two bitmap   *)
(* blocks that share a slot.  The first is the header: as "L" in the first *)
(* byte of the magic number, it has a zero where the bit of chunk 0 goes   *)
(* and a one where that of chunk 1 goes.  The second was never written.    *)
(***************************************************************************)
EXTENDS LazyZero

MCAddresses == 0 .. BaseBlocks-1
MCContents == SUBSET (0 .. BitsPerBlock-1)
MCHashSlot(b) == b % Size
MCHeaderBits == {1}
MCWriteValues == {{0}, {0, 1}}
MCOneValue == {0 .. BitsPerBlock-1}
MCParts == {{0}}
MCBlocks == Blocks
MCWritten == {0, ChunkSize}
MCFirst == {0}
=============================================================================
