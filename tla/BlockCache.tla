----------------------------- MODULE BlockCache -----------------------------
(***************************************************************************)
(* The write-back block cache, src/src/block-cache.c, over one device.     *)
(* Every block has one slot it can be cached in.  A cache is a record c:   *)
(* c.base is the device below, c.data, c.indexes and c.dirty are the       *)
(* arrays of struct block_cache.  This module only defines what each       *)
(* function does to the record; BlockCacheDevice and LazyZero use it.      *)
(* Different slots hold different blocks, so the order in which slots are  *)
(* written back does not matter.                                           *)
(*                                                                         *)
(* A definition ...Mutant is a plausible mistake in the definition that    *)
(* follows it; no specification uses it (see README, "Mutants").           *)
(***************************************************************************)
EXTENDS Naturals

CONSTANTS
    Size,          \* bc->size
    Addresses,     \* block numbers of the base device
    Contents,      \* what a block of it can hold
    HashSlot(_),   \* hash_u64(which) % bc->size
    NoBlock        \* the index 0xFFFFFFFFFFFFFFFF of an empty slot

Slots == 0 .. Size-1

ASSUME SizeAssumption == Size \in Nat \ {0}    \* assert(limit >= 1)
ASSUME HashAssumption == \A b \in Addresses : HashSlot(b) \in Slots
ASSUME NoBlockAssumption == NoBlock \notin Addresses

Caches == [base    : [Addresses -> Contents],
           data    : [Slots -> Contents],
           indexes : [Slots -> Addresses \cup {NoBlock}],
           dirty   : [Slots -> BOOLEAN]]

(* bcache_create; the buffers are uninitialised, any contents will do. *)
bcache_create(base, data) ==
    [base    |-> base,
     data    |-> data,
     indexes |-> [s \in Slots |-> NoBlock],
     dirty   |-> [s \in Slots |-> FALSE]]

Cached(c, which) == c.indexes[HashSlot(which)] = which

(* The base device after the slots of S have been written back to it. *)
WrittenBack(c, S) ==
    [a \in Addresses |-> IF /\ HashSlot(a) \in S
                            /\ Cached(c, a)
                            /\ c.dirty[HashSlot(a)]
                         THEN c.data[HashSlot(a)]
                         ELSE c.base[a]]

(***************************************************************************)
(* bcache_evict of every slot of S.  The writes to the slots of F fail,    *)
(* which is logged and forgotten: the slot is emptied all the same.        *)
(***************************************************************************)
Emptied(indexes, S) == [s \in Slots |-> IF s \in S THEN NoBlock ELSE indexes[s]]
Cleaned(dirty, S) == [s \in Slots |-> s \notin S /\ dirty[s]]
EvictMutant(c, S, F) ==
    [base |-> c.base, data |-> c.data,
     indexes |-> Emptied(c.indexes, S), dirty |-> Cleaned(c.dirty, S)]
EvictKeepsDirtyMutant(c, S, F) ==
    [base |-> WrittenBack(c, S \ F), data |-> c.data,
     indexes |-> Emptied(c.indexes, S), dirty |-> c.dirty]
bcache_evict(c, S, F) ==
    [base |-> WrittenBack(c, S \ F), data |-> c.data,
     indexes |-> Emptied(c.indexes, S), dirty |-> Cleaned(c.dirty, S)]

(***************************************************************************)
(* bcache_read_block, when the read of the base device returns readable.   *)
(* The pointer it returns is to the data of the slot, or NULL if the block *)
(* is still not Cached.  F as above.                                       *)
(***************************************************************************)
bcache_read_block(c, which, readable, F) ==
    LET s == HashSlot(which)
        e == bcache_evict(c, {s}, F)
    IN  IF Cached(c, which) THEN c
        ELSE IF ~readable THEN e
        ELSE [base |-> e.base, data |-> [e.data EXCEPT ![s] = e.base[which]],
              indexes |-> [e.indexes EXCEPT ![s] = which], dirty |-> e.dirty]

(***************************************************************************)
(* bcache_write_block.  It does not set the index: the block has to be in  *)
(* its slot already, put there by bcache_read_block.                       *)
(***************************************************************************)
WriteBlockMutant(c, which, from, F) ==
    LET s == HashSlot(which)
        e == IF Cached(c, which) THEN c ELSE bcache_evict(c, {s}, F)
    IN  [e EXCEPT !.data[s] = from]
bcache_write_block(c, which, from, F) ==
    LET s == HashSlot(which)
        e == IF Cached(c, which) THEN c ELSE bcache_evict(c, {s}, F)
    IN  [base |-> e.base, data |-> [e.data EXCEPT ![s] = from],
         indexes |-> e.indexes, dirty |-> [e.dirty EXCEPT ![s] = TRUE]]

(* bcache_flush empties the cache; so does bcache_clear. *)
bcache_flush(c, F) == bcache_evict(c, Slots, F)
bcache_clear(c, F) ==
    LET e == bcache_flush(c, F)
    IN  [base |-> e.base, data |-> e.data,
         indexes |-> [s \in Slots |-> NoBlock], dirty |-> e.dirty]

-----------------------------------------------------------------------------
(***************************************************************************)
(* What is right of any cache c.  Nothing is written to the block          *)
(* 0xFFFFFFFFFFFFFFFF, and a cached block is where bcache_read_block looks *)
(* for it; a clean slot holds what is on the device.  The newest contents  *)
(* of a block are in the cache or, if it does not hold it, on the device.  *)
(***************************************************************************)
Labelled(c) ==
    \A s \in Slots :
        /\ c.dirty[s] => c.indexes[s] # NoBlock
        /\ c.indexes[s] # NoBlock => HashSlot(c.indexes[s]) = s
CleanIsOnDisk(c) ==
    \A a \in Addresses :
        Cached(c, a) /\ ~c.dirty[HashSlot(a)] => c.data[HashSlot(a)] = c.base[a]
Newest(c, a) == IF Cached(c, a) THEN c.data[HashSlot(a)] ELSE c.base[a]
=============================================================================
