----------------------------- MODULE Partitioner -----------------------------
(***************************************************************************)
(* The partitioner, src/src/layers/partitioner.c: partitions that grow, on *)
(* one device, by a map from their blocks to the blocks of the device.     *)
(*                                                                         *)
(*    block 0       the header: the size of each partition                 *)
(*    then          the usage bitmap, Bits blocks to a block               *)
(*    MAPS_START    the maps of all partitions, Maps entries to a block    *)
(*    DATA_START    data                                                   *)
(*                                                                         *)
(* A call is one step.  In it, one call of the device may fail, or the     *)
(* process may die there.  One handle is open at a time, as in             *)
(* src/src/tests/partitioner.c.  The functions of the code are operators   *)
(* on a machine state m:                                                   *)
(*    disk, io   the device and the struct part_io                         *)
(*    left       the calls of the device before the one that fails, or -1  *)
(*    how        what happens to it (see Ways)                             *)
(*    ok         FALSE after a failure that the code looks at, and in a    *)
(*               process that is dead: whatever follows is not done        *)
(*    junk       the size that a header that is not read seems to have     *)
(*    notes      what the code goes on after and does not undo             *)
(* A loop of the code is a recursive function of the number of times that  *)
(* its body was run.                                                       *)
(*                                                                         *)
(* A definition ...Mutant is a plausible mistake in the definition that    *)
(* follows it; no specification uses it (see README, "Mutants").           *)
(***************************************************************************)
EXTENDS Integers

CONSTANTS
    N,                 \* blocks of the device
    Bits,              \* bitmap_blocks_per_map
    Maps,              \* maps_blocks_per_map
    PartCount,         \* MAX_PARTITION_NUMBER + 1
    MaxSize,           \* bound on the size of a partition
    MaxTotal,          \* bound on the size of all: the device has room for the map
    MaxFaults,         \* bound on the faults of a behaviour
    MaxCalls,          \* bound on the calls of the device in partitioner_set_part_size
    Junk,              \* what a buffer may have in the place of a size
    Values,            \* contents written to each partition; 0 is the block of zeroes
    NoHandle, NoReply

VARIABLES
    disk,
    io,                \* the handle, a struct part_io, or NoHandle
    may,               \* what was written to each block of each partition
    remains,           \* what it may have instead, after its first write failed
    reply,             \* the last block read
    mishaps,           \* the notes of all calls
    faults             \* calls of the device that failed

vars == <<disk, io, may, remains, reply, mishaps, faults>>

Addresses == 0 .. N - 1
Parts == 0 .. PartCount - 1

Ceil(a, b) == (a + b - 1) \div b
BITMAP_START == 1
bitmap_len == Ceil(N, Bits)
MAPS_START == BITMAP_START + bitmap_len
DATA_START(total) == MAPS_START + Ceil(total, Maps)

ASSUME GeometryAssumption ==
    /\ N \in Nat \ {0} /\ Bits \in Nat \ {0} /\ Maps \in Nat \ {0} /\ PartCount \in Nat \ {0}
    /\ MaxSize \in Nat /\ MaxTotal \in Nat /\ MaxCalls \in Nat
    /\ Junk \subseteq Nat
    /\ DATA_START(MaxTotal) < N

(* What a block has in it. *)
Header(sizes) == [is |-> "header", of |-> sizes]
Bitmap(bits) == [is |-> "bits", of |-> bits]
MapBlock(locs) == [is |-> "locs", of |-> locs]
Data(v) == [is |-> "data", of |-> v]

(* A block read for what it is not, old data in a new map block for one. *)
IsHeader(c) == c.is = "header"
SizesOf(c) == [p \in Parts |-> IF IsHeader(c) THEN c.of[p] ELSE 0]
BitsOf(c) == IF c.is = "bits" THEN c.of ELSE IF c = Data(0) THEN {} ELSE 0 .. Bits - 1
LocsOf(c) ==
    [e \in 0 .. Maps - 1 |-> IF c.is = "locs" THEN c.of[e] ELSE IF c = Data(0) THEN 0 ELSE N]
DataOf(c) == IF c.is = "data" THEN c.of ELSE NoReply

(* The disk's own account of its sizes, its maps and its bitmap. *)
Sizes(d) == SizesOf(d[0])
MapAddress(e) == MAPS_START + e \div Maps
BitmapAddress(b) == b \div Bits + BITMAP_START
Entry(d, e) == LocsOf(d[MapAddress(e)])[e % Maps]
Used(d, b) == b % Bits \in BitsOf(d[BitmapAddress(b)])

(* The sizes of the partitions before each, and of all. *)
Offsets(sizes) ==
    LET sum[p \in 0 .. PartCount] == IF p = 0 THEN 0 ELSE sum[p - 1] + sizes[p - 1]
    IN  sum
TrueOffset(sizes, p) == Offsets(sizes)[p]
Total(sizes) == Offsets(sizes)[PartCount]

-----------------------------------------------------------------------------
(* Calls of the device. *)

(***************************************************************************)
(* The call fails and does nothing; or it is a write, and reaches the disk *)
(* all the same; or the process dies in place of it, and no call follows.  *)
(***************************************************************************)
Ways == {"fails", "lands", "dies"}

Fails(m) == m.left = 0
Died(m) == m.how = "dies" /\ m.left = 0
Spent(m, n) == IF m.left < 0 THEN m.left ELSE m.left - n
AfterFault(m) == IF m.how = "dies" THEN 0 ELSE -1
Then(m, n) == IF m.ok THEN n ELSE m

(* Reads in a row, up to the first that fails. *)
BaseReads(m, n) ==
    Then(m, IF m.left \in 0 .. n - 1
              THEN [m EXCEPT !.ok = FALSE, !.left = AfterFault(m)]
              ELSE [m EXCEPT !.left = Spent(m, n)])
BaseRead(m) == BaseReads(m, 1)

BaseWrite(m, at, c) ==
    LET written == [m.disk EXCEPT ![at] = c] IN
    Then(m, IF Fails(m)
              THEN [m EXCEPT !.ok = FALSE, !.left = AfterFault(m),
                             !.disk = IF m.how = "lands" THEN written ELSE m.disk]
              ELSE [m EXCEPT !.left = Spent(m, 1), !.disk = written])

(* A call whose result the code does not look at. *)
Ignoring(m) ==
    IF m.ok \/ Died(m) THEN m ELSE [m EXCEPT !.ok = TRUE, !.notes = @ \cup {"ignored"}]

(* partitioner_open_bitmap_block_for *)
OpenBitmap(m, b) ==
    LET r == BaseRead(m)
        which == IF r.ok THEN BitmapAddress(b) ELSE 0
        block == IF r.ok THEN BitsOf(m.disk[BitmapAddress(b)]) ELSE m.io.bitmap_block
    IN  Then(m, IF m.io.bitmap_block_which = BitmapAddress(b) THEN m
                ELSE [r EXCEPT !.io = [m.io EXCEPT !.bitmap_block_which = which,
                                                   !.bitmap_block = block]])

(* partitioner_mark_block_as *)
MarkAs(m, b, used) ==
    LET o == OpenBitmap(m, b)
        bits == IF used THEN o.io.bitmap_block \cup {b % Bits} ELSE o.io.bitmap_block \ {b % Bits}
        w == BaseWrite(o, BitmapAddress(b), Bitmap(bits))
        which == IF w.ok THEN BitmapAddress(b) ELSE 0
    IN  Then(o, [w EXCEPT !.io = [o.io EXCEPT !.bitmap_block_which = which, !.bitmap_block = bits]])

(***************************************************************************)
(* partitioner_scan_free_block.  The result is 0 when no block is free,    *)
(* and when the bitmap cannot be read.  The place to scan from is one of   *)
(* N - 1, so that it is back where it was after as many turns.             *)
(***************************************************************************)
ScanStep(s, start) ==
    LET at == s.m.io.free_scan_from
        o == OpenBitmap(s.m, at)
        next == IF at + 1 >= N THEN 1 ELSE at + 1
    IN  IF ~s.on THEN s
        ELSE IF ~o.ok THEN [m |-> [o EXCEPT !.ok = ~Died(o)], loc |-> 0, on |-> FALSE]
        ELSE IF at % Bits \notin o.io.bitmap_block THEN [m |-> o, loc |-> at, on |-> FALSE]
        ELSE [m |-> [o EXCEPT !.io = [o.io EXCEPT !.free_scan_from = next]],
              loc |-> 0, on |-> next # start]
ScanFree(m) ==
    LET scan[k \in 0 .. N] ==
            IF k = 0 THEN [m |-> m, loc |-> 0, on |-> TRUE]
            ELSE ScanStep(scan[k - 1], m.io.free_scan_from)
    IN  scan[N]

(***************************************************************************)
(* partitioner_get_part_size, and the read of the header in                *)
(* partitioner_get_partition_offset: the header goes where the bitmap      *)
(* block was.  A read that fails is not noticed, and the sizes are what    *)
(* the buffer has in their place: bits of the bitmap, or what the device   *)
(* left there.  Only one of them is ever used.                             *)
(***************************************************************************)
HeaderSizes(m) == IF Fails(m) THEN [p \in Parts |-> m.junk] ELSE Sizes(m.disk)
ReadHeaderMutant(m) ==
    Then(m, [m EXCEPT !.ok = ~Died(m), !.left = IF Fails(m) THEN AfterFault(m) ELSE Spent(m, 1),
                      !.io = [m.io EXCEPT !.bitmap_block = {}]])
ReadHeader(m) ==
    Then(m, [m EXCEPT !.ok = ~Died(m), !.left = IF Fails(m) THEN AfterFault(m) ELSE Spent(m, 1),
                      !.io = [m.io EXCEPT !.bitmap_block = {}, !.bitmap_block_which = 0]])

(* partitioner_open_map_block_for, and partitioner_block_maploc after it *)
OpenMap(m, e) ==
    LET r == BaseRead(m)
        which == IF r.ok THEN MapAddress(e) ELSE 0
        block == IF r.ok THEN LocsOf(m.disk[MapAddress(e)]) ELSE m.io.map_block
    IN  Then(m, IF m.io.map_block_which = MapAddress(e) THEN m
                ELSE [r EXCEPT !.io = [m.io EXCEPT !.map_block_which = which, !.map_block = block]])
MapLoc(m, e) == m.io.map_block[e % Maps]

(* partitioner_block_set_maploc *)
SetMapLoc(m, e, to) ==
    LET o == OpenMap(m, e)
        locs == [o.io.map_block EXCEPT ![e % Maps] = to]
        w == BaseWrite(o, MapAddress(e), MapBlock(locs))
        which == IF w.ok THEN MapAddress(e) ELSE 0
    IN  Then(o, [w EXCEPT !.io = [o.io EXCEPT !.map_block_which = which, !.map_block = locs]])

-----------------------------------------------------------------------------
(* A call, with or without a fault. *)

(* No fault, or one after at most n calls of the device. *)
Faults(n) == {<<-1, "fails">>} \cup (IF faults < MaxFaults THEN (0 .. n) \X Ways ELSE {})

(* The struct part_io that partitioner_setup_io fills in. *)
FreshIo(d) ==
    [part |-> -1, count |-> 0, offset |-> 0, total |-> Total(Sizes(d)), free_scan_from |-> 1,
     bitmap_block |-> BitsOf(d[MAPS_START - 1]), bitmap_block_which |-> MAPS_START - 1,
     map_block |-> [e \in 0 .. Maps - 1 |-> 0], map_block_which |-> 0]

Misreading(f, j) ==
    [disk |-> disk, io |-> IF io = NoHandle THEN FreshIo(disk) ELSE io,
     left |-> f[1], how |-> f[2], junk |-> j, ok |-> TRUE, notes |-> {}]
Machine(f) == Misreading(f, 0)

(* The fault is in this call, and nothing has gone wrong for good before. *)
Ends(m, f) ==
    /\ mishaps = {}
    /\ m.left = -1 \/ Died(m)
    /\ faults' = IF f[1] = -1 THEN faults ELSE faults + 1

(* The reads of the header and of the bitmap in partitioner_setup_io. *)
SetupIo(m) ==
    LET h == BaseRead(m) IN
    IF IsHeader(m.disk[0]) THEN BaseReads(h, bitmap_len) ELSE [h EXCEPT !.ok = FALSE]

(***************************************************************************)
(* partitioner_initialize: the header, a clear bitmap, and the blocks      *)
(* before the data marked in it.  Only the header's write and the reads of *)
(* partitioner_setup_io are looked at.                                     *)
(***************************************************************************)
ClearBitmap(m) ==
    LET clear[k \in 0 .. bitmap_len] ==
            IF k = 0 THEN m
            ELSE Ignoring(BaseWrite(clear[k - 1], BITMAP_START + k - 1, Bitmap({})))
    IN  clear[bitmap_len]

MarkRange(m, first, count) ==
    LET mark[k \in 0 .. count] ==
            IF k = 0 THEN m ELSE Ignoring(MarkAs(mark[k - 1], first + k - 1, TRUE))
    IN  mark[count]

Initialized(m) ==
    LET h == BaseWrite(m, 0, Header([p \in Parts |-> 0]))
        s == SetupIo(h)
        c == ClearBitmap([s EXCEPT !.io = [s.io EXCEPT !.bitmap_block_which = 0]])
    IN  Then(h, Then(s, MarkRange(c, 0, DATA_START(0))))

Initialize ==
    /\ ~IsHeader(disk[0])
    /\ \E f \in Faults(6 + 4 * bitmap_len) : \E m \in {Initialized(Machine(f))} :
          /\ disk' = m.disk
          /\ Ends(m, f)
          /\ mishaps' = m.notes \cup IF IsHeader(m.disk[0]) /\ ~m.ok THEN {"unfinished"} ELSE {}
    /\ reply' = NoReply
    /\ UNCHANGED <<io, may, remains>>

-----------------------------------------------------------------------------
(* partitioner_open of a partition, and its methods. *)

(* partitioner_get_partition_offset *)
PartitionOffset(sizes, p) == p * sizes[p]

OpenPartition(p) ==
    /\ io = NoHandle
    /\ IsHeader(disk[0])
    /\ \E f \in Faults(3 + bitmap_len), j \in Junk :
          LET s == SetupIo(Misreading(f, j))
              h == ReadHeader(s)
              o == ReadHeader(h)
              size == HeaderSizes(s)[p]
              opened == [o.io EXCEPT !.part = p, !.count = size,
                                     !.offset = PartitionOffset(HeaderSizes(h), p)]
              m == IF size = 0 THEN h ELSE o
          IN  /\ io' = IF m.ok /\ ~Died(m) /\ size > 0 THEN opened ELSE NoHandle
              /\ Ends(m, f)
    /\ reply' = NoReply
    /\ UNCHANGED <<disk, may, remains, mishaps>>

(* The entry of block b of the open partition, which the device has to have. *)
EntryOf(b) == b + io.offset
IsOnDevice(b) == io # NoHandle /\ b < io.count /\ MapAddress(EntryOf(b)) < N

(* part_read_block *)
ReadBlockMutant(b) ==
    /\ IsOnDevice(b)
    /\ \E f \in Faults(2) :
          LET o == OpenMap(Machine(f), EntryOf(b))
              loc == MapLoc(o, EntryOf(b))
              m == IF loc > 1 THEN BaseRead(o) ELSE o
          IN  /\ o.ok => loc < N
              /\ io' = IF Died(m) THEN NoHandle ELSE m.io
              /\ Ends(m, f)
              /\ reply' = IF ~m.ok \/ Died(m) \/ loc = 1 THEN NoReply
                          ELSE [part |-> io.part, at |-> b, val |-> DataOf(disk[loc])]
    /\ UNCHANGED <<disk, may, remains, mishaps>>
ReadBlock(b) ==
    /\ IsOnDevice(b)
    /\ \E f \in Faults(2) :
          LET o == OpenMap(Machine(f), EntryOf(b))
              loc == MapLoc(o, EntryOf(b))
              m == IF loc > 1 THEN BaseRead(o) ELSE o
          IN  /\ o.ok => loc < N
              /\ io' = IF Died(m) THEN NoHandle ELSE m.io
              /\ Ends(m, f)
              /\ reply' = IF ~m.ok \/ Died(m) \/ loc = 1 THEN NoReply
                          ELSE [part |-> io.part, at |-> b,
                                val |-> IF loc = 0 THEN 0 ELSE DataOf(disk[loc])]
    /\ UNCHANGED <<disk, may, remains, mishaps>>

(***************************************************************************)
(* part_write_block: a block that has none yet is given one, and the map   *)
(* is written, then the bitmap, then the data.  It counts as a write to    *)
(* the block whose entry is used, which is another one when the offset or  *)
(* the size of the handle is wrong.                                        *)
(***************************************************************************)
Owners(e) ==
    {pb \in DOMAIN may : /\ pb[2] < Sizes(disk)[pb[1]]
                         /\ TrueOffset(Sizes(disk), pb[1]) + pb[2] = e}

AllocateMutant(m, e) ==
    LET s == ScanFree(m) IN
    [m |-> IF s.loc = 0 THEN [s.m EXCEPT !.ok = FALSE] ELSE SetMapLoc(s.m, e, s.loc),
     loc |-> s.loc]
Allocate(m, e) ==
    LET s == ScanFree(m) IN
    [m |-> IF s.loc = 0 THEN [s.m EXCEPT !.ok = FALSE]
           ELSE MarkAs(SetMapLoc(s.m, e, s.loc), s.loc, TRUE),
     loc |-> s.loc]

WriteBlock(b) ==
    /\ IsOnDevice(b)
    /\ \E v \in Values[io.part], f \in Faults(7 + bitmap_len) :
       \E o \in {OpenMap(Machine(f), EntryOf(b))} :
          LET e == EntryOf(b)
              old == MapLoc(o, e)
          IN  /\ o.ok => old < N
              /\ \E a \in {IF old = 0 /\ o.ok THEN Allocate(o, e) ELSE [m |-> o, loc |-> old]} :
                 \E m \in {IF ~o.ok \/ old = 1 THEN [o EXCEPT !.ok = FALSE]
                           ELSE BaseWrite(a.m, a.loc, Data(v))} :
                 LET new == Entry(m.disk, e)
                     fresh == o.ok /\ new # old
                 IN  /\ disk' = m.disk
                     /\ io' = IF Died(m) THEN NoHandle ELSE m.io
                     /\ Ends(m, f)
                     /\ may' = [pb \in DOMAIN may |->
                           IF pb \notin Owners(e) THEN may[pb]
                           ELSE IF m.ok THEN {v} ELSE may[pb] \cup {v}]
                     /\ remains' = [pb \in DOMAIN may |->
                           IF pb \notin Owners(e) THEN remains[pb]
                           ELSE IF m.ok THEN {}
                           ELSE IF fresh THEN {DataOf(disk[new])} ELSE remains[pb]]
                     /\ mishaps' = m.notes
                           \cup (IF Owners(e) = {} THEN {"astray"} ELSE {})
                           \cup (IF ~m.ok /\ o.ok /\ new # 0 /\ ~Used(m.disk, new) THEN {"unmarked"} ELSE {})
    /\ reply' = NoReply

(* part_clear_caches, and part_close or the end of the process *)
ClearCaches ==
    /\ io # NoHandle
    /\ mishaps = {}
    /\ io' = [io EXCEPT !.bitmap_block_which = 0, !.map_block_which = 0]
    /\ reply' = NoReply
    /\ UNCHANGED <<disk, may, remains, mishaps, faults>>

Close ==
    /\ io # NoHandle
    /\ mishaps = {}
    /\ io' = NoHandle
    /\ reply' = NoReply
    /\ UNCHANGED <<disk, may, remains, mishaps, faults>>

-----------------------------------------------------------------------------
(* partitioner_set_part_size, over the phases of a partition that grows. *)

(***************************************************************************)
(* A block of data in the way of the map is copied to a free one, which is *)
(* marked before and unmarked after the map is changed.  That there is     *)
(* none, that newloc is 0, is not noticed; nor that it may be in the way.  *)
(***************************************************************************)
RemapMutant(m, e, loc, bad) ==
    LET s == ScanFree(m)
        w == BaseWrite(BaseRead(s.m), s.loc, m.disk[s.loc])
        u == MarkAs(w, s.loc, TRUE)
        done == MarkAs(SetMapLoc(u, e, s.loc), loc, FALSE)
        notes == (IF s.loc = 0 /\ ~IsHeader(w.disk[0]) THEN {"full"} ELSE {})
            \cup (IF u.ok /\ s.loc \in bad THEN {"in the way"} ELSE {})
    IN  [done EXCEPT !.notes = @ \cup notes]
Remap(m, e, loc, bad) ==
    LET s == ScanFree(m)
        w == BaseWrite(BaseRead(s.m), s.loc, m.disk[loc])
        u == MarkAs(w, s.loc, TRUE)
        done == MarkAs(SetMapLoc(u, e, s.loc), loc, FALSE)
        notes == (IF s.loc = 0 /\ ~IsHeader(w.disk[0]) THEN {"full"} ELSE {})
            \cup (IF u.ok /\ s.loc \in bad THEN {"in the way"} ELSE {})
    IN  [done EXCEPT !.notes = @ \cup notes]

RemapStep(m, e, bad) ==
    LET o == OpenMap(m, e)
        loc == MapLoc(o, e)
    IN  Then(o, IF loc = 1 THEN [o EXCEPT !.ok = FALSE]
                ELSE IF loc \in bad THEN Remap(o, e, loc, bad) ELSE o)
RemapAll(m, bad) ==
    LET remap[e \in 0 .. m.io.total] ==
            IF e = 0 THEN m ELSE RemapStep(remap[e - 1], e - 1, bad)
    IN  remap[m.io.total]

(* The sum of the sizes before p, the header read for each of them. *)
SizesBefore(m, p) ==
    LET add[q \in 0 .. p] ==
            IF q = 0 THEN [m |-> m, sum |-> 0]
            ELSE [m |-> ReadHeader(add[q - 1].m),
                  sum |-> add[q - 1].sum + HeaderSizes(add[q - 1].m)[q - 1]]
    IN  add[p]

(* The last count entries make room, the last of all first. *)
ShiftStep(m, e, shift) ==
    LET o == OpenMap(m, e) IN
    Then(o, IF MapLoc(o, e) = 1 THEN [o EXCEPT !.ok = FALSE]
            ELSE Ignoring(SetMapLoc(o, e + shift, MapLoc(o, e))))
ShiftAll(m, count, shift) ==
    LET move[k \in 0 .. count] ==
            IF k = 0 THEN m ELSE ShiftStep(move[k - 1], m.io.total - k, shift)
    IN  move[count]

ClearEntries(m, first, count) ==
    LET clear[k \in 0 .. count] ==
            IF k = 0 THEN m
            ELSE Then(clear[k - 1], Ignoring(SetMapLoc(clear[k - 1], first + k - 1, 0)))
    IN  clear[count]

(* Up to one block too many: the code goes on while i <= map_mark_end. *)
MarkMaps(m, total, newTotal) ==
    LET first == MAPS_START + total \div Maps
        last == MAPS_START + Ceil(newTotal, Maps)
    IN  Then(m, MarkRange(m, first, last + 1 - first))

SetHeader(m, p, size) ==
    LET r == BaseRead(m) IN
    BaseWrite(r, 0, IF IsHeader(m.disk[0]) THEN Header([Sizes(m.disk) EXCEPT ![p] = size]) ELSE m.disk[0])

(* The map makes room for size entries in place of old ones, from start on. *)
MakeRoom(m, start, p, size, old) ==
    LET total == m.io.total
        s == ShiftAll(m, total - start, size - old)
        c == ClearEntries(s, start, size - old)
    IN  SetHeader(MarkMaps(c, total, total - old + size), p, size)

(***************************************************************************)
(* What the call leaves behind, from r, before entries are moved, to m:    *)
(* "misread", it goes on with a size it could not read, and the model does *)
(* not follow it; "unlucky", it ended when part of the entries were moved. *)
(***************************************************************************)
Unlucky(m, r) ==
    /\ IsHeader(m.disk[0]) /\ Sizes(m.disk) = Sizes(disk)
    /\ \E e \in 0 .. r.io.total - 1 : Entry(m.disk, e) # Entry(r.disk, e)

Shifted(r, p, size, old) ==
    LET b == SizesBefore(r, p)
        read == old = Sizes(disk)[p] /\ b.sum = TrueOffset(Sizes(disk), p)
        misread == b.m.ok /\ ~read
        m == IF misread THEN b.m ELSE Then(b.m, MakeRoom(b.m, b.sum + old, p, size, old))
    IN  [m |-> m, notes |-> r.notes \cup m.notes
                                    \cup (IF misread THEN {"misread"} ELSE {})
                                    \cup (IF Unlucky(m, r) THEN {"unlucky"} ELSE {})]

Grown(m, p, size, old) ==
    LET at == DATA_START(m.io.total)
        r == RemapAll(m, at .. at + Ceil(size - old, Maps) - 1)
    IN  IF r.ok THEN Shifted(r, p, size, old) ELSE [m |-> r, notes |-> r.notes]

Resized(s, p, size) ==
    LET old == HeaderSizes(s)[p]
        h == ReadHeader(s)
    IN  IF h.ok /\ size > old THEN Grown(h, p, size, old) ELSE [m |-> h, notes |-> h.notes]

SetPartSize(p, size) ==
    /\ io = NoHandle
    /\ IsHeader(disk[0])
    /\ Total(Sizes(disk)) - Sizes(disk)[p] + size <= MaxTotal
    /\ \E f \in Faults(MaxCalls), j \in Junk : \E q \in {Resized(SetupIo(Misreading(f, j)), p, size)} :
          /\ disk' = q.m.disk
          /\ mishaps' = q.notes
          /\ Ends(q.m, f)
    /\ reply' = NoReply
    /\ UNCHANGED <<io, may, remains>>

-----------------------------------------------------------------------------
(* A device with old data on it. *)
Init ==
    /\ disk = [b \in Addresses |-> Data(1)]
    /\ io = NoHandle
    /\ may = [pb \in Parts \X (0 .. MaxSize - 1) |-> {0}]
    /\ remains = [pb \in Parts \X (0 .. MaxSize - 1) |-> {}]
    /\ reply = NoReply
    /\ mishaps = {}
    /\ faults = 0

Next ==
    \/ Initialize
    \/ \E p \in Parts : OpenPartition(p)
    \/ \E p \in Parts, size \in 1 .. MaxSize : SetPartSize(p, size)
    \/ \E b \in 0 .. MaxSize - 1 : ReadBlock(b) \/ WriteBlock(b)
    \/ ClearCaches
    \/ Close

Spec == Init /\ [][Next]_vars

-----------------------------------------------------------------------------
(***************************************************************************)
(* Properties.  They are about what the code keeps as long as nothing has  *)
(* gone wrong that it does not undo, which is what the mishaps are:        *)
(*    unfinished  partitioner_initialize failed after the header           *)
(*    ignored     a write failed whose result is not looked at             *)
(*    unmarked    a write failed between the map and the bitmap            *)
(*    astray      a write by an entry that no partition has                *)
(*    full        no block was free to move data to                        *)
(*    in the way  data was moved to where the map grows as well            *)
(*    misread     the header could not be read again                       *)
(*    unlucky     some of the entries were moved, and the size was not set *)
(***************************************************************************)

Sound == mishaps = {} /\ IsHeader(disk[0])
Entries == 0 .. Total(Sizes(disk)) - 1
DataBlocks == DATA_START(Total(Sizes(disk))) .. N - 1

(***************************************************************************)
(* No block of the device belongs to two entries of the map, and none that *)
(* does can be allocated again: the bitmap has it as used, and the header, *)
(* the bitmap and the maps too.                                            *)
(***************************************************************************)
EachBlockHasOneOwner ==
    Sound =>
        /\ \A e \in Entries : Entry(disk, e) # 0 =>
              /\ Entry(disk, e) \in DataBlocks
              /\ Used(disk, Entry(disk, e))
              /\ \A o \in Entries \ {e} : Entry(disk, o) # Entry(disk, e)
        /\ \A b \in 0 .. DATA_START(Total(Sizes(disk))) - 1 : Used(disk, b)

(***************************************************************************)
(* Every block of every partition holds what was last written to it, or    *)
(* zeroes, whatever partitions have grown since, and also when a call that *)
(* grows one fails or dies at what the code calls a lucky time.  After a   *)
(* write that failed, this is what was there or what was to be written;    *)
(* and if the block was given its place by that write, it may also be what *)
(* was in that place before, another partition's data for one, until it is *)
(* written again: remains has only that.  A write through a handle whose   *)
(* offset or size is wrong is one to the block whose entry it uses, and    *)
(* changes no other.                                                       *)
(***************************************************************************)
PartitionsAreKept ==
    Sound =>
        \A p \in Parts : \A b \in 0 .. Sizes(disk)[p] - 1 :
            LET loc == Entry(disk, TrueOffset(Sizes(disk), p) + b) IN
            (IF loc = 0 THEN 0 ELSE DataOf(disk[loc])) \in may[<<p, b>>] \cup remains[<<p, b>>]

(***************************************************************************)
(* A read through a handle returns what the partition holds, from whatever *)
(* map block and bitmap block the handle has cached.  This is said where   *)
(* partitioner_get_partition_offset has the right answer: it multiplies    *)
(* the partition's own size, where those before it may have other sizes.   *)
(* And it is said of the blocks that the partition has: the size in the    *)
(* handle may be one that could not be read.                               *)
(***************************************************************************)
AlignedReadsAreTheirOwn ==
    /\ reply # NoReply /\ io # NoHandle
    /\ io.offset = TrueOffset(Sizes(disk), io.part)
    /\ reply.at < Sizes(disk)[io.part]
    => reply.val \in may[<<reply.part, reply.at>>] \cup remains[<<reply.part, reply.at>>]

(* What the handle has in its two buffers is what is on the disk. *)
BuffersAreTheDisk ==
    mishaps = {} /\ io # NoHandle =>
        /\ io.bitmap_block_which # 0 => io.bitmap_block = BitsOf(disk[io.bitmap_block_which])
        /\ io.map_block_which # 0 => io.map_block = LocsOf(disk[io.map_block_which])
=============================================================================
