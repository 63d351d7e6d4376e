------------------------- MODULE BlockCacheDevice -------------------------
(***************************************************************************)
(* The block cache of src/src/block-cache.c in use: a caller that follows  *)
(* the rule of block-cache.h (a block is changed in the buffer             *)
(* bcache_read_block returned, and bcache_write_block is called on it      *)
(* before anything else), over a device whose reads and writes may fail    *)
(* and in a process that may die at any time.                              *)
(*                                                                         *)
(* A write back that fails but reached the medium is a write back that     *)
(* succeeds: the cache forgets the block in both cases.                    *)
(***************************************************************************)
EXTENDS BlockCache

CONSTANTS
    NoReply,
    WriteFaults,   \* the sets of slots whose write back may fail in a call
    ReadFails      \* may a read of the base device fail?

ASSUME FaultAssumption == /\ WriteFaults \subseteq SUBSET Slots
                          /\ ReadFails \in BOOLEAN
ASSUME ReplyAssumption == NoReply \notin [at : Addresses, val : Contents]

VARIABLES
    bc,                   \* the cache and the device below it
    may, durable, reply   \* the promise of BlockDevice

vars == <<bc, may, durable, reply>>

Dev == INSTANCE BlockDevice WITH Blocks <- Addresses, Values <- Contents

Readable == IF ReadFails THEN BOOLEAN ELSE {TRUE}

-----------------------------------------------------------------------------
(***************************************************************************)
(* What evicting the slots of S does to the promise.  A block written back *)
(* is as certain on the device as in the cache.  A block whose write back  *)
(* failed is what the device still has of it.                              *)
(***************************************************************************)
Evicted(S) == {a \in Addresses : HashSlot(a) \in S /\ Cached(bc, a)}
Lost(S, F) == {a \in Evicted(S) : HashSlot(a) \in F /\ bc.dirty[HashSlot(a)]}

MayAfter(S, F) ==
    [a \in Addresses |-> IF a \in Lost(S, F) THEN durable[a] ELSE may[a]]
DurableAfter(S, F) ==
    [a \in Addresses |-> IF a \in Evicted(S) \ Lost(S, F)
                         THEN may[a] ELSE durable[a]]

SlotsFor(which) == IF Cached(bc, which) THEN {} ELSE {HashSlot(which)}

(* bcache_read_block, the caller looking at the buffer *)
ReadBlock(which) ==
    \E readable \in Readable, F \in WriteFaults :
        LET c == bcache_read_block(bc, which, readable, F)
        IN  /\ bc' = c
            /\ reply' = IF Cached(c, which)
                        THEN [at |-> which, val |-> c.data[HashSlot(which)]]
                        ELSE NoReply
            /\ may' = MayAfter(SlotsFor(which), F)
            /\ durable' = DurableAfter(SlotsFor(which), F)

(* bcache_read_block, a change of the buffer and bcache_write_block *)
UpdateBlock(which, v) ==
    \E readable \in Readable, F \in WriteFaults :
        LET c == bcache_read_block(bc, which, readable, F)
            S == SlotsFor(which)
        IN  /\ reply' = NoReply
            /\ IF Cached(c, which)
               THEN /\ bc' = bcache_write_block(c, which, v, {})
                    /\ may' = [MayAfter(S, F) EXCEPT ![which] = {v}]
                    /\ durable' = [DurableAfter(S, F) EXCEPT ![which] = @ \cup {v}]
               ELSE /\ bc' = c
                    /\ may' = MayAfter(S, F)
                    /\ durable' = DurableAfter(S, F)

(* bcache_flush, bcache_clear; bcache_destroy followed by bcache_create *)
FlushClearOrDestroy ==
    \E F \in WriteFaults :
        /\ \/ bc' = bcache_flush(bc, F)
           \/ bc' = bcache_clear(bc, F)
           \/ LET c == bcache_flush(bc, F) IN bc' = bcache_create(c.base, c.data)
        /\ reply' = NoReply
        /\ may' = MayAfter(Slots, F)
        /\ durable' = DurableAfter(Slots, F)

(* The process dies, perhaps after bcache_flush wrote the first n slots. *)
Crash ==
    \E n \in 0 .. Size :
        LET c == bcache_evict(bc, {s \in Slots : s < n}, {})
        IN  /\ bc' = bcache_create(c.base, c.data)
            /\ reply' = NoReply
            /\ may' = durable
            /\ UNCHANGED durable

-----------------------------------------------------------------------------
Init ==
    /\ \E base \in [Addresses -> Contents], data \in [Slots -> Contents] :
          bc = bcache_create(base, data)
    /\ may = [a \in Addresses |-> {bc.base[a]}]
    /\ durable = may
    /\ reply = NoReply

Next ==
    \/ \E a \in Addresses : ReadBlock(a)
    \/ \E a \in Addresses, v \in Contents : UpdateBlock(a, v)
    \/ FlushClearOrDestroy
    \/ Crash

Spec == Init /\ [][Next]_vars

-----------------------------------------------------------------------------
(* Properties. *)

TypeOK ==
    /\ bc \in Caches
    /\ Dev!DeviceTypeOK

(***************************************************************************)
(* A read through the cache returns what was last written through it, even *)
(* when another block took the slot in between; a write back that failed   *)
(* costs that one block its last writes, and no other block anything.      *)
(***************************************************************************)
ReadsAreExplained == Dev!ReadsAreExplained

(***************************************************************************)
(* Nothing is written to block 0xFFFFFFFFFFFFFFFF, and a cached block is   *)
(* where bcache_read_block looks for it.                                   *)
(***************************************************************************)
SlotsAreLabelled == Labelled(bc)

(***************************************************************************)
(* What makes the above inductive, of any cache c, with what its blocks    *)
(* may be, m, and may be after a crash, d.  The newest contents are ones   *)
(* that may be, and the device has some that may be there after a crash.   *)
(***************************************************************************)
HoldsNewest(c, m) == \A a \in Addresses : Newest(c, a) \in m[a]
SurvivesCrash(c, d) == \A a \in Addresses : c.base[a] \in d[a]

Coherent(c, m, d) == /\ c \in Caches
                     /\ Labelled(c)
                     /\ CleanIsOnDisk(c)
                     /\ HoldsNewest(c, m)
                     /\ SurvivesCrash(c, d)

(* A value in the cache is one that may be there after a crash. *)
NewestMaySurvive == \A a \in Addresses : may[a] \subseteq durable[a]

IndInv == /\ TypeOK
          /\ Coherent(bc, may, durable)
          /\ NewestMaySurvive
          /\ ReadsAreExplained

(* As long as write backs succeed the cache is a block device. *)
ImplementsBlockDevice == Dev!DeviceSpec
=============================================================================
