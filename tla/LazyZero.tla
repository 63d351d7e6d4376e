------------------------------ MODULE LazyZero ------------------------------
(***************************************************************************)
(* The lazyzero layer, src/src/layers/lazyzero.c: a device that reads as   *)
(* zero until it is written.  A bitmap, kept through the block cache of    *)
(* src/src/block-cache.c, has a bit for every chunk of blocks that is in   *)
(* use; the first write to a chunk clears all of it.                       *)
(*                                                                         *)
(* A block is the set of its bits that are one.  As in the code the bitmap *)
(* is looked for from block 0 of the base device on, where lazyzero_create *)
(* wrote the header.                                                       *)
(*                                                                         *)
(* A definition ...Mutant is a plausible mistake in the definition that    *)
(* follows it; no specification uses it (see README, "Mutants").           *)
(***************************************************************************)
EXTENDS BlockCache, FiniteSets

CONSTANTS
    BitsPerBlock,    \* io->bits_per_block
    ChunkSize,       \* io->chunk_size
    BaseBlocks,      \* base->block_count
    HeaderBits,      \* the bits of the header block lazyzero_create writes
    GuardWidth,      \* its magic number and block count, which open compares
    WriteValues,     \* what is written,
    Written,         \* and to which blocks
    NoReply,
    BitmapReadFails, \* may a read of a bitmap block fail?
    BitmapWriteFails,\* may the write back of one fail?
    Faulty,          \* the data blocks a write of which may fail
    ByteBlocks,      \* the blocks written through generic_write_bytes
    Parts            \* the parts of a block, as bits, it is asked to write

Zero == {}

(* lazyzero_create and lazyzero_open: the geometry *)
CeilDiv(x, y) == (x + y - 1) \div y
BitmapBlocks == CeilDiv(CeilDiv(BaseBlocks - 1, ChunkSize), BitsPerBlock)
BlockCount == BaseBlocks - 1 - BitmapBlocks
Blocks == 0 .. BlockCount-1
ChunkOf(which) == which \div ChunkSize
Chunks == {ChunkOf(b) : b \in Blocks}
BitmapBlock(chunk) == chunk \div BitsPerBlock
Interior(chunk) == chunk % BitsPerBlock
DataAddress(which) == which + 1 + BitmapBlocks

ASSUME GeometryAssumption ==
    /\ BitsPerBlock \in Nat \ {0} /\ ChunkSize \in Nat \ {0}
    /\ BaseBlocks \in Nat /\ BaseBlocks >= 3          \* else open fails
    /\ BlockCount > 0
    /\ Addresses = 0 .. BaseBlocks-1
    /\ Contents = SUBSET (0 .. BitsPerBlock-1)
(* A chunk's bit may fall on the magic number or on the block count, of    *)
(* 128 bits, not on the rest of the header: with chunks of 1024 blocks,    *)
(* devices of up to 131072 blocks.                                         *)
ASSUME HeaderAssumption ==
    /\ HeaderBits \in Contents
    /\ GuardWidth <= BitsPerBlock
    /\ \A c \in Chunks : Interior(c) < GuardWidth
ASSUME FaultAssumption ==
    /\ BitmapReadFails \in BOOLEAN /\ BitmapWriteFails \in BOOLEAN
    /\ Written \subseteq Blocks /\ Faulty \subseteq Blocks /\ ByteBlocks \subseteq Blocks
ASSUME ValueAssumption == WriteValues \cup Parts \subseteq Contents
ASSUME ReplyAssumption == NoReply \notin [at : Blocks, val : Contents]

VARIABLES
    bc,          \* io->cache and the base device below it
    open,        \* the device is open
    wrong,       \* history: what a block may read as by a mishap, see Expected
    may, durable, reply   \* as in BlockDevice

vars == <<bc, open, wrong, may, durable, reply>>

(* What the bitmap says, in the cache and as it is stored, and what a      *)
(* block reads as, when it can be read.                                    *)
InUse(c, chunk) == Interior(chunk) \in Newest(c, BitmapBlock(chunk))
StoredInUse(c, chunk) == Interior(chunk) \in c.base[BitmapBlock(chunk)]
ReadsAs(c, which) ==
    IF InUse(c, ChunkOf(which)) THEN c.base[DataAddress(which)] ELSE Zero

(***************************************************************************)
(* The write back of an evicted bitmap block may fail, which costs chunks  *)
(* the bits that were set since the last one.                              *)
(***************************************************************************)
WriteBackFaults(c, S) ==
    IF BitmapWriteFails THEN SUBSET {s \in S : c.dirty[s]} ELSE {{}}
Dropped(c, F) ==
    {b \in Blocks : LET bl == BitmapBlock(ChunkOf(b))
                    IN  /\ HashSlot(bl) \in F /\ Cached(c, bl)
                        /\ InUse(c, ChunkOf(b)) /\ ~StoredInUse(c, ChunkOf(b))}
Zeroed(w, B) == [b \in Blocks |-> w[b] \cup IF b \in B THEN {Zero} ELSE {}]

(***************************************************************************)
(* bcache_read_block of the bitmap block of a block, when the cache is c   *)
(* and the history w: both, after it.  Unless the block is cached, another *)
(* is evicted and it is read, which may fail.                              *)
(***************************************************************************)
BitmapReadable(c, bl) == IF BitmapReadFails /\ ~Cached(c, bl) THEN BOOLEAN ELSE {TRUE}
BitmapReads(c, w, which) ==
    LET bl      == BitmapBlock(ChunkOf(which))
        evicted == IF Cached(c, bl) THEN {} ELSE {HashSlot(bl)}
    IN  {[cache |-> bcache_read_block(c, bl, readable, F),
          wrong |-> Zeroed(w, Dropped(c, F))] :
            readable \in BitmapReadable(c, bl), F \in WriteBackFaults(c, evicted)}

-----------------------------------------------------------------------------
(* lazyzero_chunk_usable after its bcache_read_block left the cache c *)
ChunkUsable(c, chunk) ==
    LET bl == BitmapBlock(chunk)
    IN  Cached(c, bl) /\ Interior(chunk) \in c.data[HashSlot(bl)]

(* lazyzero_set_chunk_usable, whose bcache_read_block left the cache c; the *)
(* block is cached then, so that bcache_write_block evicts nothing.         *)
SetChunkUsableMutant(c, chunk) ==
    bcache_write_block(c, BitmapBlock(chunk), {Interior(chunk)}, {})
SetChunkUsable(c, chunk) ==
    LET bl == BitmapBlock(chunk)
    IN  bcache_write_block(c, bl, c.data[HashSlot(bl)] \cup {Interior(chunk)}, {})

(* A write past the cache, to the base device below it *)
WithBase(c, base) ==
    [base |-> base, data |-> c.data, indexes |-> c.indexes, dirty |-> c.dirty]

(***************************************************************************)
(* lazyzero_clear_chunk after n successful writes.  It skips the addresses *)
(* past the end of the base device.                                        *)
(***************************************************************************)
ChunkAddresses(chunk) ==
    {a \in Addresses : /\ a >= DataAddress(chunk * ChunkSize)
                       /\ a < DataAddress((chunk + 1) * ChunkSize)}
ClearChunkMutant(c, chunk, n) == c
ClearChunk(c, chunk, n) ==
    LET cleared == {a \in ChunkAddresses(chunk) :
                       a < DataAddress(chunk * ChunkSize) + n}
    IN  WithBase(c, [a \in Addresses |-> IF a \in cleared THEN Zero ELSE c.base[a]])
WritesToClear(chunk) == Cardinality(ChunkAddresses(chunk))

-----------------------------------------------------------------------------
(* lazyzero_read_block once the bitmap was read into the cache c *)
Into(c, which) ==
    IF ChunkUsable(c, ChunkOf(which)) THEN c.base[DataAddress(which)] ELSE Zero
MayFail(c, which) == ChunkUsable(c, ChunkOf(which))

ReadBlock(which) ==
    /\ open
    /\ \E read \in BitmapReads(bc, wrong, which) :
         /\ bc' = read.cache
         /\ wrong' = read.wrong
         /\ \/ reply' = [at |-> which, val |-> Into(read.cache, which)]
            \/ MayFail(read.cache, which) /\ reply' = NoReply
    /\ UNCHANGED <<open, may, durable>>

(***************************************************************************)
(* lazyzero_write_block of the block from, in the caller's buffer or, if   *)
(* shared, in generic_block_buffer, which lazyzero_clear_chunk zeroes.     *)
(* The caller expects the block to have one of the contents promised then; *)
(* it has one of spoilt if there was a mishap before.  A crash may bring   *)
(* back what the block was before, which may be wrong.  c is the cache     *)
(* after the steps so far, and w the history.                              *)
(***************************************************************************)
WriteFailed(which, promised, spoilt, c, w) ==
    /\ bc' = c
    /\ may' = [may EXCEPT ![which] = @ \cup promised]
    /\ durable' = [durable EXCEPT ![which] = @ \cup promised]
    /\ wrong' = [w EXCEPT ![which] = @ \cup spoilt]

WriteThrough(which, promised, spoilt, from, c, w) ==
    LET written == WithBase(c, [c.base EXCEPT ![DataAddress(which)] = from])
    IN  \/ /\ bc' = written
           /\ may' = [may EXCEPT ![which] = promised]
           /\ durable' = [durable EXCEPT ![which] = @ \cup w[which] \cup promised]
           /\ wrong' = [w EXCEPT ![which] = spoilt]
        \/ which \in Faulty /\ WriteFailed(which, promised, {}, c, w)
        \/ which \in Faulty /\ WriteFailed(which, promised, spoilt, written, w)

(* A chunk that is in use is cleared if the bitmap could not be read.  The *)
(* write of the last block cleared may fail after it was done.             *)
BlocksOfChunk(chunk) == {b \in Blocks : ChunkOf(b) = chunk}
WriteToUnused(which, promised, spoilt, from, c, w, shared) ==
    LET chunk == ChunkOf(which)
        total == WritesToClear(chunk)
        now   == IF Cached(c, BitmapBlock(chunk)) THEN w
                 ELSE Zeroed(w, BlocksOfChunk(chunk))
    IN  \/ /\ Faulty \cap BlocksOfChunk(chunk) # {}
           /\ \E n \in 0 .. total :
                 WriteFailed(which, promised, {}, ClearChunk(c, chunk, n), now)
        \/ \E read \in BitmapReads(ClearChunk(c, chunk, total), now, which) :
             IF Cached(read.cache, BitmapBlock(chunk))
             THEN WriteThrough(which, promised, IF shared THEN {Zero} ELSE spoilt,
                               IF shared THEN Zero ELSE from,
                               SetChunkUsable(read.cache, chunk), read.wrong)
             ELSE WriteFailed(which, promised, {}, read.cache, read.wrong)

WriteFrom(c, w, which, promised, spoilt, from, shared) ==
    \E read \in BitmapReads(c, w, which) :
        IF ChunkUsable(read.cache, ChunkOf(which))
        THEN WriteThrough(which, promised, spoilt, from, read.cache, read.wrong)
        ELSE WriteToUnused(which, promised, spoilt, from, read.cache, read.wrong, shared)

WriteBlock(which, v) ==
    /\ open
    /\ WriteFrom(bc, wrong, which, {v}, {}, v, FALSE)
    /\ reply' = NoReply
    /\ UNCHANGED open

(***************************************************************************)
(* generic_write_bytes of the bits part of a block: the block is read into *)
(* generic_block_buffer, changed there and written from there.  The caller *)
(* expects the other bits to stay as they were.                            *)
(***************************************************************************)
Merged(x, v, part) == (x \ part) \cup (v \cap part)
WriteBytes(which, v, part) ==
    /\ which \in ByteBlocks
    /\ open
    /\ \E read \in BitmapReads(bc, wrong, which) :
         LET c        == read.cache
             misread  == IF Cached(c, BitmapBlock(ChunkOf(which))) THEN {} ELSE {Zero}
             promised == {Merged(x, v, part) : x \in may[which]}
             spoilt   == {Merged(x, v, part) : x \in read.wrong[which] \cup misread}
         IN  \/ WriteFrom(c, read.wrong, which, promised, spoilt,
                          Merged(Into(c, which), v, part), TRUE)
             \/ /\ MayFail(c, which)
                /\ bc' = c
                /\ wrong' = read.wrong
                /\ UNCHANGED <<may, durable>>
    /\ reply' = NoReply
    /\ UNCHANGED open

(* lazyzero_flush, lazyzero_sync; lazyzero_clear_caches *)
Flush ==
    /\ open
    /\ \E F \in WriteBackFaults(bc, Slots) :
          bc' = bcache_flush(bc, F) /\ wrong' = Zeroed(wrong, Dropped(bc, F))
    /\ durable' = may
    /\ reply' = NoReply
    /\ UNCHANGED <<open, may>>

ClearCaches ==
    /\ open
    /\ \E F \in WriteBackFaults(bc, Slots) :
          bc' = bcache_clear(bc, F) /\ wrong' = Zeroed(wrong, Dropped(bc, F))
    /\ durable' = may
    /\ reply' = NoReply
    /\ UNCHANGED <<open, may>>

(***************************************************************************)
(* lazyzero_open, which refuses a header whose magic number or block count *)
(* changed, after lazyzero_close, with its bcache_destroy, or after the    *)
(* process died.                                                           *)
(***************************************************************************)
HeaderAccepted(c) ==
    \A i \in 0 .. GuardWidth-1 : i \in c.base[0] <=> i \in HeaderBits

Close ==
    /\ open
    /\ open' = FALSE
    /\ \E F \in WriteBackFaults(bc, Slots) :
          LET c == bcache_flush(bc, F)
          IN  bc' = bcache_create(c.base, c.data) /\ wrong' = Zeroed(wrong, Dropped(bc, F))
    /\ durable' = may
    /\ reply' = NoReply
    /\ UNCHANGED may

Crash ==
    /\ open
    /\ open' = FALSE
    /\ bc' = bcache_create(bc.base, bc.data)
    /\ may' = durable
    /\ reply' = NoReply
    /\ UNCHANGED <<wrong, durable>>

Open ==
    /\ ~open
    /\ open' = HeaderAccepted(bc)
    /\ reply' = NoReply
    /\ UNCHANGED <<bc, wrong, may, durable>>

-----------------------------------------------------------------------------
(* lazyzero_create on a device with old data, and lazyzero_open. *)
CreatedBase(old) ==
    [a \in Addresses |-> IF a = 0 THEN HeaderBits
                         ELSE IF a \in 2 .. BitmapBlocks+1 THEN Zero
                         ELSE old[a]]

(* The caller expects zeroes, and finds old data where the header has a one. *)
Init ==
    /\ \E old \in [Addresses -> {Zero} \cup WriteValues] :
          bc = bcache_create(CreatedBase(old), [s \in Slots |-> Zero])
    /\ open = TRUE
    /\ wrong = [b \in Blocks |-> IF InUse(bc, ChunkOf(b))
                                 THEN {bc.base[DataAddress(b)]} ELSE {}]
    /\ may = [b \in Blocks |-> {Zero}]
    /\ durable = may
    /\ reply = NoReply

Next ==
    \/ \E b \in Blocks : ReadBlock(b)
    \/ \E b \in Written, v \in WriteValues :
          WriteBlock(b, v) \/ \E part \in Parts : WriteBytes(b, v, part)
    \/ Flush
    \/ ClearCaches
    \/ Close
    \/ Crash
    \/ Open

Spec == Init /\ [][Next]_vars

-----------------------------------------------------------------------------
(* Properties. *)

(***************************************************************************)
(* Every block would read as what was last written to it, or as zeroes if  *)
(* it never was: the clearing of its chunk for the first write to a        *)
(* neighbour, completed or not, and the bit that makes its chunk usable,   *)
(* cached or stored, go together.  There are four mishaps, after which a   *)
(* block is wrong until it is written again.  A chunk whose bit is a one   *)
(* of the header has the old data of the base device, against              *)
(* lazyzero.c:31.  A chunk becomes zeroes by a write to it when the bitmap *)
(* cannot be read, or when the block with its bit cannot be written back.  *)
(* And the first write to a chunk, if it is through generic_write_bytes,   *)
(* writes zeroes.  Bytes that generic_write_bytes leaves alone stay wrong. *)
(***************************************************************************)
Expected(b) == may[b] \cup wrong[b]
EveryBlockIsExpected == open => \A b \in Blocks : ReadsAs(bc, b) \in Expected(b)

(***************************************************************************)
(* A read returns true with the expected contents of the block or, if the  *)
(* bitmap could not be read, with zeroes; never with what was in a chunk   *)
(* before its first write, nor with an earlier contents of the block.      *)
(***************************************************************************)
ReadsAreExpected ==
    reply # NoReply =>
        \/ reply.val \in Expected(reply.at)
        \/ reply.val = Zero /\ ~Cached(bc, BitmapBlock(ChunkOf(reply.at)))

(***************************************************************************)
(* The inductive invariant behind these.  The cache holds bitmap blocks    *)
(* only, and no bit that the device has is missing in it.  A chunk that is *)
(* not in use was never given contents that had to be kept: its blocks may *)
(* be zero; and likewise for the bitmap as it is on the device, which is   *)
(* the one that a crash leaves.                                            *)
(***************************************************************************)
GoodCache(c) ==
    /\ c \in Caches /\ Labelled(c) /\ CleanIsOnDisk(c)
    /\ \A a \in Addresses : Cached(c, a) => /\ a < BitmapBlocks
                                            /\ c.base[a] \subseteq c.data[HashSlot(a)]
KeptAt(c, b, m, d, w) ==
    /\ m[b] \subseteq d[b]
    /\ (IF InUse(c, ChunkOf(b)) THEN c.base[DataAddress(b)] ELSE Zero) \in m[b] \cup w[b]
    /\ (IF StoredInUse(c, ChunkOf(b)) THEN c.base[DataAddress(b)] ELSE Zero)
         \in d[b] \cup w[b]
Kept(c, m, d, w) == \A b \in Blocks : KeptAt(c, b, m, d, w)

Accounts == [Blocks -> SUBSET Contents]
IndInv ==
    /\ GoodCache(bc)
    /\ may \in Accounts /\ durable \in Accounts /\ wrong \in Accounts
    /\ Kept(bc, may, durable, wrong)
    /\ ReadsAreExpected

(* The header lazyzero_create wrote is there when lazyzero_open looks.     *)
CanBeReopened == HeaderAccepted(bc)
=============================================================================
