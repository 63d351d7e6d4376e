------------------------------- MODULE Verify -------------------------------
(***************************************************************************)
(* The verify layer, src/src/layers/verify.c: blocks of crcs are laid      *)
(* between the data blocks of one underlying device, checked when a block  *)
(* is read and updated when it is written.  One hash block is cached.      *)
(*                                                                         *)
(* A call is one action.  The underlying device may fail any of the calls  *)
(* made to it, leave a block it failed to write as it was, or written, or  *)
(* torn, and change blocks behind the layer's back.  A read that fails may *)
(* have filled the buffer it was given, as this layer's own does when the  *)
(* crc is wrong.  A crash between the two writes of verify_write_block is  *)
(* a data write that leaves the old block, followed by Reopen.             *)
(*                                                                         *)
(* A definition ...Mutant is a plausible mistake in the definition that    *)
(* follows it; no specification uses it (see README, "Mutants").           *)
(***************************************************************************)
EXTENDS Integers

CONSTANTS
    HashesPerBlock,   \* io->hashes_per_block
    BaseBlocks,       \* base->block_count
    Values, Zero,     \* the blocks that are written; the block of zeroes
    Junk,             \* any other contents of a data block
    Words,            \* what fits into the 32 bits of a hash
    ZeroWord,         \* 32 zero bits
    DamagedWord,      \* what is found in a damaged hash block
    Crc(_),           \* calc_crc32
    WordXor(_, _),    \* bitwise exclusive or
    NoBlock,          \* which_hash_block == -1
    NoReply,
    ReadFails,        \* may a read of the underlying device fail?
    ReadLeaves,       \* what that leaves of a word in the buffer: "kept", "filled"
                      \* from the block all the same, or "damaged"
    WriteFaults,      \* what a failed write leaves: "old", "new" or "torn"
    Rotting,          \* the blocks that these and silent corruption hit
    CorruptTo         \* what a data block may silently change into

Offsets == 0 .. HashesPerBlock-1
HashBlocks == [Offsets -> Words]
DataImages == Values \cup {Junk}

(* verify_create: the size of the device. *)
HashBlockCount == (BaseBlocks + HashesPerBlock) \div (1 + HashesPerBlock)
DataBlockCount == BaseBlocks - HashBlockCount
Blocks == 0 .. DataBlockCount-1
Addresses == 0 .. BaseBlocks-1
Slots == 0 .. HashBlockCount * HashesPerBlock - 1   \* the places for crcs

ASSUME GeometryAssumption ==    \* verify_create refuses a one-block device
    /\ HashesPerBlock \in Nat \ {0}
    /\ BaseBlocks \in Nat \ {0, 1}
ASSUME ValuesAssumption ==
    /\ Zero \in Values
    /\ Junk \notin Values
    /\ DataImages \cap HashBlocks = {}
    /\ CorruptTo \subseteq DataImages
    /\ WriteFaults \subseteq {"old", "new", "torn"}
    /\ ReadFails \in BOOLEAN /\ ReadLeaves \subseteq {"kept", "filled", "damaged"}
    /\ Rotting \subseteq Blocks
ASSUME WordAssumption ==
    /\ ZeroWord \in Words /\ DamagedWord \in Words
    /\ \A x \in DataImages : Crc(x) \in Words
    /\ \A x, y \in Words : /\ WordXor(x, y) \in Words
                           /\ WordXor(WordXor(x, y), y) = x
    /\ \A x \in Words : WordXor(ZeroWord, x) = x
ASSUME SentinelAssumption ==
    /\ NoBlock \notin Addresses
    /\ NoReply \notin [at : Blocks, val : DataImages]
(* Damage to a hash block is found out: it names the crc of no block. *)
ASSUME DamageAssumption ==
    \A x \in DataImages : WordXor(DamagedWord, Crc(Zero)) # Crc(x)

VARIABLES
    disk,              \* the underlying device
    hash_block,        \* io->hash_block
    which_hash_block,  \* io->which_hash_block
    stray,             \* history: hash_block is not what which_hash_block says,
                       \* since the hash block could not be read
    guests,            \* history: then, the blocks whose crcs it has instead
    other,             \* history: the blocks whose crcs have come to be in a slot
                       \* on the device without being written to its block
    intact,            \* history: blocks written successfully, which neither the
                       \* device has damaged since nor a stray hash block overwritten
    may, reply         \* as in BlockDevice: what a read may return, and did

vars == <<disk, hash_block, which_hash_block, stray, guests, other, intact, may, reply>>

-----------------------------------------------------------------------------
(* Layout: every chunk is a hash block and the data blocks it covers. *)

ChunkOf(which) == which \div HashesPerBlock
HashAddress(which) == ChunkOf(which) * (HashesPerBlock + 1)
DataAddress(which) == which + ChunkOf(which) + 1
InteriorOffset(which) == which % HashesPerBlock
SlotAt(which, i) == ChunkOf(which) * HashesPerBlock + i
SameChunk(which) == {b \in Slots : ChunkOf(b) = ChunkOf(which)}

(* The blocks whose crc may be in a slot on the device; and, for a block   *)
(* whose hash block is cached, there.                                      *)
Stored(s) == other[s] \cup IF s \in Blocks THEN may[s] ELSE {}
Expected(b) == Stored(b) \cup IF which_hash_block = HashAddress(b)
                              THEN guests[InteriorOffset(b)] ELSE {}
NoGuests == [i \in Offsets |-> {}]

(* A block of zeroes is a hash block of zero words, and the reverse. *)
ZeroHashes == [i \in Offsets |-> ZeroWord]
DamagedHashes == [i \in Offsets |-> DamagedWord]
AsHashes(image) == IF image \in HashBlocks THEN image
                   ELSE IF image = Zero THEN ZeroHashes ELSE DamagedHashes
AsData(image) == IF image \in DataImages THEN image
                 ELSE IF image = ZeroHashes THEN Zero ELSE Junk

(* All crcs are stored xored with the crc of the zero block. *)
StoredCrcMutant(x) == Crc(x) + Crc(Zero)
StoredCrc(x) == WordXor(Crc(x), Crc(Zero))
CrcIn(hashes, which) == WordXor(hashes[InteriorOffset(which)], Crc(Zero))
PassesCheck(hashes, which, into) == CrcIn(hashes, which) = Crc(into)

ReadOutcomes == IF ReadFails THEN {"ok", "failed"} ELSE {"ok"}
HashReadOutcomes(which) ==    \* the cached hash block is not read
    IF which_hash_block = HashAddress(which) THEN {"ok"} ELSE ReadOutcomes
WriteOutcomes(which) == {"ok"} \cup IF which \in Rotting THEN WriteFaults ELSE {}
Written(old, new, torn, outcome) ==
    IF outcome = "old" THEN old ELSE IF outcome = "torn" THEN torn ELSE new

-----------------------------------------------------------------------------
(***************************************************************************)
(* verify_read_block.  A failed read of the hash block leaves              *)
(* which_hash_block alone, whatever it did to the buffer.                  *)
(***************************************************************************)
HashesRead(which) == IF which_hash_block = HashAddress(which) THEN hash_block
                     ELSE AsHashes(disk[HashAddress(which)])
ReadFailed(which) ==
    /\ \E left \in [Offsets -> ReadLeaves] :
          /\ hash_block' = [i \in Offsets |->
                              CASE left[i] = "kept"   -> hash_block[i]
                                [] left[i] = "filled" -> AsHashes(disk[HashAddress(which)])[i]
                                [] left[i] = "damaged" -> DamagedWord]
          /\ stray' = (stray \/ \E i \in Offsets : left[i] # "kept")
          /\ guests' = [i \in Offsets |-> IF left[i] = "filled"
                                          THEN Stored(SlotAt(which, i)) ELSE guests[i]]
    /\ reply' = NoReply
    /\ UNCHANGED which_hash_block
ReadChecked(which, dread) ==
    LET hashes == HashesRead(which)
        into   == AsData(disk[DataAddress(which)])
        cached == which_hash_block = HashAddress(which)
    IN  /\ hash_block' = hashes
        /\ which_hash_block' = HashAddress(which)
        /\ stray' = (stray /\ cached)
        /\ guests' = IF cached THEN guests ELSE NoGuests
        /\ reply' = IF dread = "ok" /\ PassesCheck(hashes, which, into)
                    THEN [at |-> which, val |-> into] ELSE NoReply
ReadBlock(which) ==
    /\ \E hread \in HashReadOutcomes(which) :
          \/ hread = "ok" /\ \E dread \in ReadOutcomes : ReadChecked(which, dread)
          \/ hread = "failed" /\ ReadFailed(which)
    /\ UNCHANGED <<disk, other, intact, may>>

(***************************************************************************)
(* verify_write_block.  A hash block that cannot be read is taken to be    *)
(* zero.  The crc is written first, and the data only if that succeeded.   *)
(***************************************************************************)
HashesToUpdate(which, hread) ==
    IF hread = "ok" THEN HashesRead(which) ELSE ZeroHashes

UpdatedHashesMutant(which, v, hread) ==
    [HashesToUpdate(which, hread) EXCEPT ![InteriorOffset(which)] = Crc(v)]
UpdatedHashes(which, v, hread) ==
    [HashesToUpdate(which, hread) EXCEPT ![InteriorOffset(which)] = StoredCrc(v)]

DiskAfterWrite(which, v, hashes, hwrite, dwrite) ==
    LET ha == HashAddress(which)
        hd == [disk EXCEPT ![ha] = Written(@, hashes, DamagedHashes, hwrite)]
    IN  IF hwrite # "ok" THEN hd
        ELSE [hd EXCEPT ![DataAddress(which)] = Written(@, v, Junk, dwrite)]

(* Whether the hash block written is not the one of this chunk, and whose  *)
(* crcs it has then.                                                       *)
StrayAt(which, hread) ==
    IF which_hash_block = HashAddress(which) THEN stray ELSE hread # "ok"
GuestsAt(which, hread) ==
    IF which_hash_block = HashAddress(which) THEN guests
    ELSE IF hread = "ok" THEN NoGuests ELSE [i \in Offsets |-> {Zero}]

WriteBlock(which, v) ==
    \E hread \in HashReadOutcomes(which), hwrite, dwrite \in WriteOutcomes(which) :
      LET ok     == hwrite = "ok" /\ dwrite = "ok"
          landed == hwrite \in {"ok", "new"}
          hashes == UpdatedHashes(which, v, hread)
          astray == StrayAt(which, hread)
          came   == GuestsAt(which, hread)
      IN  /\ hwrite = "ok" \/ dwrite = hwrite    \* the data is not written
          /\ hash_block' = hashes
          /\ which_hash_block' = HashAddress(which)
          /\ disk' = DiskAfterWrite(which, v, hashes, hwrite, dwrite)
          /\ may' = [may EXCEPT ![which] = IF ok THEN {v} ELSE @ \cup {v}]
          /\ stray' = (astray /\ ~landed)
          /\ guests' = [came EXCEPT ![InteriorOffset(which)] = {}]
          /\ other' = [s \in Slots |->
                         IF s = which /\ ok THEN {}
                         ELSE IF s \in SameChunk(which) /\ s # which /\ landed
                         THEN other[s] \cup came[InteriorOffset(s)] ELSE other[s]]
          /\ intact' = IF ok THEN (intact \ IF astray THEN SameChunk(which) ELSE {})
                                 \cup {which}
                       ELSE IF hwrite = "torn" \/ (astray /\ landed)
                       THEN intact \ SameChunk(which)
                       ELSE intact \ {which}
          /\ reply' = NoReply

(* verify_clear_caches; the underlying device caches nothing here. *)
ClearCachesMutant ==
    /\ hash_block' = ZeroHashes
    /\ reply' = NoReply
    /\ UNCHANGED <<disk, which_hash_block, stray, guests, other, intact, may>>
ClearCaches ==
    /\ which_hash_block' = NoBlock
    /\ stray' = FALSE
    /\ guests' = NoGuests
    /\ reply' = NoReply
    /\ UNCHANGED <<disk, hash_block, other, intact, may>>

(* verify_flush and verify_sync only pass the call on. *)
FlushOrSync ==
    /\ reply' = NoReply
    /\ UNCHANGED <<disk, hash_block, which_hash_block, stray, guests, other, intact, may>>

(* verify_close, or the end of the process, and verify_create. *)
Reopen ==
    /\ hash_block' = ZeroHashes
    /\ which_hash_block' = NoBlock
    /\ stray' = FALSE
    /\ guests' = NoGuests
    /\ reply' = NoReply
    /\ UNCHANGED <<disk, other, intact, may>>

-----------------------------------------------------------------------------
(* The environment. *)

CorruptData(which, x) ==
    /\ disk' = [disk EXCEPT ![DataAddress(which)] = x]
    /\ intact' = intact \ {which}
    /\ reply' = NoReply
    /\ UNCHANGED <<hash_block, which_hash_block, stray, guests, other, may>>

CorruptHash(which) ==
    /\ disk' = [disk EXCEPT ![HashAddress(which)] = DamagedHashes]
    /\ intact' = intact \ SameChunk(which)
    /\ reply' = NoReply
    /\ UNCHANGED <<hash_block, which_hash_block, stray, guests, other, may>>

-----------------------------------------------------------------------------
(* verify_create over the all-zero device, which is valid. *)
Init ==
    /\ disk = [a \in Addresses |-> Zero]
    /\ hash_block = ZeroHashes
    /\ which_hash_block = NoBlock
    /\ stray = FALSE
    /\ guests = NoGuests
    /\ other = [s \in Slots |-> IF s \in Blocks THEN {} ELSE {Zero}]
    /\ intact = Blocks
    /\ may = [b \in Blocks |-> {Zero}]
    /\ reply = NoReply

Next ==
    \/ \E b \in Blocks : ReadBlock(b)
    \/ \E b \in Blocks, v \in Values : WriteBlock(b, v)
    \/ ClearCaches
    \/ FlushOrSync
    \/ Reopen
    \/ \E b \in Rotting, x \in CorruptTo : CorruptData(b, x)
    \/ \E b \in Rotting : CorruptHash(b)

Spec == Init /\ [][Next]_vars

-----------------------------------------------------------------------------
(* Properties. *)

TypeOK ==
    /\ disk \in [Addresses -> DataImages \cup HashBlocks]
    /\ hash_block \in HashBlocks
    /\ which_hash_block \in Addresses \cup {NoBlock}
    /\ stray \in BOOLEAN
    /\ guests \in [Offsets -> SUBSET Values]
    /\ other \in [Slots -> SUBSET Values]
    /\ intact \in SUBSET Blocks
    /\ may \in [Blocks -> SUBSET Values]
    /\ reply \in [at : Blocks, val : DataImages] \cup {NoReply}

(***************************************************************************)
(* Whatever the device below changes, tears or fails, verify_read_block    *)
(* returns no block whose crc is not that of a block the caller wrote      *)
(* there, or of one that Expected names besides, for the code does pass    *)
(* these: zeroes, after a neighbour was written while the hash block could *)
(* not be read (verify.c:121); and what was written to the block in the    *)
(* same place of another chunk, after a failed read filled hash_block with *)
(* the crcs of that chunk and left the label of this (verify.c:86).        *)
(***************************************************************************)
ReadsPassTheCheck ==
    reply # NoReply => \E v \in Expected(reply.at) : Crc(reply.val) = Crc(v)

(***************************************************************************)
(* A block whose write succeeded and that nobody damaged can be read once  *)
(* the caches are cleared, and at once unless a failed read of some hash   *)
(* block has changed hash_block: neither such reads nor any writes of its  *)
(* neighbours cost its crc.  The exceptions are a write in its chunk that  *)
(* could not read the hash block, and one while hash_block was astray:     *)
(* these write crcs back that are not those of the chunk.                  *)
(***************************************************************************)
Readable(b, hashes) == CrcIn(hashes, b) = Crc(AsData(disk[DataAddress(b)]))
CrcIsKept(b) ==
    /\ Readable(b, AsHashes(disk[HashAddress(b)]))
    /\ which_hash_block = HashAddress(b) /\ ~stray => Readable(b, hash_block)
IntactIsReadable == \A b \in intact : CrcIsKept(b)
=============================================================================
