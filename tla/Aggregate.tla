------------------------------ MODULE Aggregate ------------------------------
(***************************************************************************)
(* The layers that only route blocks to other devices: slice, concat and   *)
(* stripe (src/src/layers/slice.c, concat.c, stripe.c), stacked as scripts *)
(* stack them: a concat of slices of one device, which is encrypted (see   *)
(* Encrypt), and of a stripe over other devices.  The devices at the       *)
(* bottom are any that keep the promise of BlockDevice: a write may stay   *)
(* in a cache until the device is flushed, and a block that was not        *)
(* flushed may be any of its versions since when the process dies.         *)
(*                                                                         *)
(* A definition ...Mutant is a plausible mistake in the definition that    *)
(* follows it; no specification uses it (see README, "Mutants").           *)
(***************************************************************************)
EXTENDS Integers, FiniteSetsExt, Encrypt

CONSTANTS
    SliceCount,    \* the number of slices of the encrypted device 0
    Start, Len,    \* Start[p], Len[p]: where slice p lies
    Count,         \* the number of devices below the stripe, 1 .. Count
    Sizes,         \* Sizes[d]: block_count of device d
    Values, Zero,  \* what is written; what all blocks hold at first
    NoReply

Devs == 0 .. Count
Striped == 1 .. Count
Slices == 0 .. SliceCount-1
Parts == 0 .. SliceCount    \* the devices of the concat; the stripe is last

ASSUME DevicesAssumption == Count \in Nat \ {0} /\ Sizes \in [Devs -> Nat \ {0}]
ASSUME SliceAssumption ==    \* what slice_open accepts, and no overlap
    /\ SliceCount \in Nat
    /\ Start \in [Slices -> Nat] /\ Len \in [Slices -> Nat \ {0}]
    /\ \A p \in Slices : BaseBlock(Start[p] + Len[p] - 1) < Sizes[0]
    /\ \A p, q \in Slices : p < q => Start[p] + Len[p] <= Start[q]
ASSUME ValuesAssumption == Zero \notin Values

(* slice_open, stripe_open, concat_open: block_count *)
min_drive_size == Min({Sizes[d] : d \in Striped})
StripeBlocksMutant == SumSet({Sizes[d] : d \in Striped})
StripeBlocks == min_drive_size * Count
PartBlocks(p) == IF p \in Slices THEN Len[p] ELSE StripeBlocks
Offset[p \in 0 .. SliceCount+1] ==    \* where part p of the concat begins
    IF p = 0 THEN 0 ELSE Offset[p-1] + PartBlocks(p-1)
Blocks == 0 .. Offset[SliceCount+1] - 1

(* What is written, and what is read where nothing was written yet *)
TheIo == Opened(TheHeader, Key)
Streams == {Stream(TheIo, i) : i \in 0 .. Sizes[0] - 2}
Contents == {Plain(v) : v \in Values \cup {Zero}} \cup {Ofb64(Plain(Zero), s) : s \in Streams}
Written == {Plain(v) : v \in Values}

ASSUME ReplyAssumption == NoReply \notin [at : Blocks, val : Contents]

VARIABLES
    last, last_offset, last_len,   \* struct concat_io: the device found last
    io,                            \* the struct enc_io of the encrypted device
    now,                           \* now[d][b]: block b of device d
    saved,                         \* saved[d][b]: what it may be after a crash
    may, durable, reply            \* the promise of BlockDevice

found == <<last, last_offset, last_len>>
vars == <<last, last_offset, last_len, io, now, saved, may, durable, reply>>

Dev == INSTANCE BlockDevice WITH Values <- Contents

-----------------------------------------------------------------------------
(***************************************************************************)
(* concat_find: unless the block is in the device found last, the first    *)
(* device that it does not lie behind.                                     *)
(***************************************************************************)
AlreadyFoundMutant(block) ==
    last_offset <= block /\ block <= last_offset + last_len
AlreadyFound(block) ==
    last_offset <= block /\ block < last_offset + last_len
Found(block) ==
    LET p == Min({q \in Parts : block - Offset[q] < PartBlocks(q)})
    IN  IF AlreadyFound(block) THEN found ELSE <<p, Offset[p], PartBlocks(p)>>

Find(block) ==
    LET f == Found(block)
    IN  last' = f[1] /\ last_offset' = f[2] /\ last_len' = f[3]

(* Which block of which device read_block and write_block go to, by way of *)
(* encrypt_read_block and encrypt_write_block for device 0                 *)
StripeRoute(which) == [dev |-> 1 + (which % Count), block |-> which \div Count]
SliceRoute(p, which) == [dev |-> 0, block |-> BaseBlock(which + Start[p])]
Route(which) ==
    LET f == Found(which)
    IN  IF f[1] \in Slices THEN SliceRoute(f[1], which - f[2])
        ELSE StripeRoute(which - f[2])

(* What block r.block of device r.dev holds when x is written by way of the *)
(* layers, and what is read when it holds x                                 *)
Coded(r, x, by) == IF r.dev = 0 THEN Ofb64(x, Stream(by, r.block - 1)) ELSE x

BlocksOf(d) == 0 .. Sizes[d]-1
HeaderAt == [dev |-> 0, block |-> 0]

-----------------------------------------------------------------------------
(* read_block; the device may fail it *)
ReadBlock(which) ==
    LET r == Route(which)
    IN  /\ io # Closed
        /\ reply' \in {[at |-> which, val |-> Coded(r, now[r.dev][r.block], io)], NoReply}
        /\ Find(which)
        /\ UNCHANGED <<io, now, saved, may, durable>>

(* write_block; one that fails may have been done *)
WriteBlock(which, v) ==
    LET r == Route(which)
        x == Coded(r, v, io)
    IN  /\ io # Closed
        /\ Find(which)
        /\ saved' = [saved EXCEPT ![r.dev][r.block] = @ \cup {x}]
        /\ durable' = [durable EXCEPT ![which] = @ \cup {v}]
        /\ \/ /\ now' = [now EXCEPT ![r.dev][r.block] = x]
              /\ may' \in {[may EXCEPT ![which] = {v}], [may EXCEPT ![which] = @ \cup {v}]}
           \/ /\ may' = [may EXCEPT ![which] = @ \cup {v}]
              /\ UNCHANGED now
        /\ reply' = NoReply
        /\ UNCHANGED io

(***************************************************************************)
(* flush and sync, which reach every device.  clear_caches of a device     *)
(* writes back what it has, and so does close by way of the layers below.  *)
(***************************************************************************)
Flushed == Devs
FlushSyncOrClearCaches ==
    /\ io # Closed
    /\ saved' = [d \in Devs |-> IF d \in Flushed
                                THEN [b \in BlocksOf(d) |-> {now[d][b]}]
                                ELSE saved[d]]
    /\ durable' = may
    /\ reply' = NoReply
    /\ UNCHANGED <<last, last_offset, last_len, io, now, may>>

(* encrypt_create, once; it flushes nothing, and may fail *)
EncryptCreate ==
    /\ io = Closed
    /\ saved[0][0] = {Plain(Zero)}
    /\ saved' = [saved EXCEPT ![0][0] = @ \cup {TheHeader}]
    /\ now' \in {[now EXCEPT ![0][0] = TheHeader], now}
    /\ UNCHANGED <<last, last_offset, last_len, io, may, durable, reply>>

(* encrypt_open, then slice_open, stripe_open and concat_open *)
Open(key) ==
    /\ io = Closed
    /\ Accepts(now[0][0], key)
    /\ io' = Opened(now[0][0], key)
    /\ last' = 0 /\ last_offset' = 0 /\ last_len' = PartBlocks(0)
    /\ UNCHANGED <<now, saved, may, durable, reply>>

(* The layers are closed, in any order, and the devices are not. *)
CloseAll ==
    /\ io' = Closed
    /\ reply' = NoReply
    /\ UNCHANGED <<last, last_offset, last_len, now, saved, may, durable>>

(* What the devices may hold when the process dies: device 0, and the rest. *)
Images(d) == {f \in [BlocksOf(d) -> UNION {saved[d][b] : b \in BlocksOf(d)}] :
                 \A b \in BlocksOf(d) : f[b] \in saved[d][b]}
StripeImages == {g \in [Striped -> UNION {Images(d) : d \in Striped}] :
                    \A d \in Striped : g[d] \in Images(d)}
Survivors == {[d \in Devs |-> IF d = 0 THEN f ELSE g[d]] :
                 f \in Images(0), g \in StripeImages}
Crash ==
    /\ now' \in Survivors
    /\ io' = Closed
    /\ may' = durable
    /\ reply' = NoReply
    /\ UNCHANGED <<last, last_offset, last_len, saved, durable>>

-----------------------------------------------------------------------------
Init ==
    /\ last = 0 /\ last_offset = 0 /\ last_len = PartBlocks(0)
    /\ io = Closed
    /\ now = [d \in Devs |-> [i \in BlocksOf(d) |-> Plain(Zero)]]
    /\ saved = [d \in Devs |-> [i \in BlocksOf(d) |-> {Plain(Zero)}]]
    /\ may = [b \in Blocks |-> {Coded(Route(b), Plain(Zero), TheIo)}]
    /\ durable = may
    /\ reply = NoReply

Next ==
    \/ \E b \in Blocks : ReadBlock(b)
    \/ \E b \in Blocks, v \in Written : WriteBlock(b, v)
    \/ FlushSyncOrClearCaches
    \/ EncryptCreate
    \/ \E key \in Keys : Open(key)
    \/ CloseAll
    \/ Crash

Spec == Init /\ [][Next]_vars

-----------------------------------------------------------------------------
(* Properties. *)

(***************************************************************************)
(* Whichever device concat_find remembers, every block of the stack has a  *)
(* block of its own on a device that has it, and none has the header: the  *)
(* assertions on block numbers in the devices below hold.                  *)
(***************************************************************************)
RoutesAreApart ==
    /\ \A b \in Blocks : Route(b).dev \in Devs /\ Route(b).block \in BlocksOf(Route(b).dev)
    /\ \A b, c \in Blocks : b # c => Route(b) # Route(c)
    /\ \A b \in Blocks : Route(b) # HeaderAt

(***************************************************************************)
(* What lies outside the slices, and the end of a device longer than the   *)
(* shortest of the stripe, is never written: it may be someone else's.     *)
(***************************************************************************)
OthersUntouched ==
    \A d \in Devs : \A i \in BlocksOf(d) : now[d][i] # Plain(Zero) =>
        IF d = 0 THEN \/ i = 0 /\ now[d][i] = TheHeader
                      \/ \E p \in Slices : Start[p] <= i - 1 /\ i - 1 < Start[p] + Len[p]
        ELSE \A e \in Striped : i < Sizes[e]

(***************************************************************************)
(* The inductive invariant behind these: concat_find remembers a device as *)
(* it is, so that a block is always routed to the same place, its home; an *)
(* open device has the key it was created with; and what a block's home    *)
(* holds, or may hold after a crash, is what its user was promised.        *)
(***************************************************************************)
PartOf(b) == CHOOSE p \in Parts : Offset[p] <= b /\ b < Offset[p] + PartBlocks(p)
Home(b) == LET p == PartOf(b)
           IN  IF p \in Slices THEN SliceRoute(p, b - Offset[p])
               ELSE StripeRoute(b - Offset[p])
Used(d, i) == IF d = 0
              THEN \E p \in Slices : Start[p] <= i - 1 /\ i - 1 < Start[p] + Len[p]
              ELSE \A e \in Striped : i < Sizes[e]
Cells == [text : Values \cup {Zero, TheHeader.text}, streams : SUBSET Streams]
FoundIsAPart == \E p \in Parts : found = <<p, Offset[p], PartBlocks(p)>>
DevicesTypeOK ==
    /\ DOMAIN now = Devs /\ DOMAIN saved = Devs
    /\ \A d \in Devs : /\ now[d] \in [BlocksOf(d) -> Cells]
                       /\ saved[d] \in [BlocksOf(d) -> SUBSET Cells]
HomesKeepThePromise ==
    \A b \in Blocks :
        LET r == Home(b)
        IN  /\ Coded(r, now[r.dev][r.block], TheIo) \in may[b]
            /\ \A x \in saved[r.dev][r.block] : Coded(r, x, TheIo) \in durable[b]
OthersAreOld ==
    \A d \in Devs : \A i \in BlocksOf(d) : ~Used(d, i) =>
        saved[d][i] \cup {now[d][i]}
            \subseteq {Plain(Zero)} \cup IF d = 0 /\ i = 0 THEN {TheHeader} ELSE {}

IndInv ==
    /\ FoundIsAPart
    /\ io \in {Closed, TheIo}
    /\ DevicesTypeOK
    /\ Dev!DeviceTypeOK
    /\ HomesKeepThePromise
    /\ OthersAreOld
    /\ Dev!ReadsAreExplained

(***************************************************************************)
(* Over devices that are block devices, the stack is one, with whatever    *)
(* keys it is opened again and whether or not a crash takes the header.    *)
(***************************************************************************)
ImplementsBlockDevice == Dev!DeviceSpec
=============================================================================
