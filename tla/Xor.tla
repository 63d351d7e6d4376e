-------------------------------- MODULE Xor --------------------------------
(***************************************************************************)
(* The xor layer, src/src/layers/xor.c: N devices of which one block per   *)
(* slice holds the parity of the others, with a write-back cache of one    *)
(* slice.  Every call into the layer runs to completion before the next    *)
(* (the program is single threaded), so a call is one action; what may go  *)
(* wrong inside it is the choice of the devices that fail.                 *)
(*                                                                         *)
(* A block is one bit.  The layer xors blocks byte by byte and never looks *)
(* at them otherwise, so each bit position of a block evolves like this    *)
(* model, with the same device failures.                                   *)
(*                                                                         *)
(* A definition ...Mutant is a plausible mistake in the definition that    *)
(* follows it; no specification uses it (see README, "Mutants").           *)
(***************************************************************************)
EXTENDS Naturals, FiniteSets

CONSTANTS
    N,                    \* io->count, the number of underlying devices
    SliceCount,           \* block_count of the smallest underlying device
    NoSlice,              \* slice_index == -1
    Bad,                  \* an underlying block whose read_block fails
    NoReply,
    Faults,               \* what may fail in a call: the devices whose writes in the
                          \* flush, whose reads, and whose repairing write fail
    Decaying,             \* the devices whose blocks may become unreadable
    InitialRows,          \* what a slice may hold when the device is opened first
    Writes,               \* the writes there may be: <<block, value>>
    DieInFlush,           \* may the process die between two device writes?
    MaxFaults             \* a bound on the calls that a failure makes differ

Bit == {0, 1}
Devs == 0 .. N-1
SliceNos == 0 .. SliceCount-1
Blocks == 0 .. SliceCount * (N-1) - 1

ASSUME NAssumption == N \in Nat /\ N >= 3      \* xor_open refuses less
ASSUME SliceCountAssumption == SliceCount \in Nat \ {0}
ASSUME SentinelAssumption == NoSlice \notin Nat /\ Bad \notin Bit
                             /\ NoReply \notin [at : Blocks, val : Bit]
NoFault == [flush |-> {}, read |-> {}, repair |-> {}]
ASSUME FaultAssumption == /\ Faults \subseteq [flush : SUBSET Devs, read : SUBSET Devs,
                                               repair : SUBSET Devs]
                          /\ NoFault \in Faults
                          /\ Writes \subseteq Blocks \X Bit
                          /\ Decaying \subseteq Devs
                          /\ DieInFlush \in BOOLEAN
                          /\ MaxFaults \in Nat

VARIABLES
    disk,         \* disk[s][d]: block s of underlying device d
    slice,        \* io->slice, parity in the place it has on disk
    slice_index,  \* io->slice_index
    slice_dirty,  \* io->slice_dirty
    aborted,      \* an assert failed or the process was killed
    may, durable, reply,  \* the promise of BlockDevice
    torn,                 \* history: the slices in which a device write failed, or the
                          \* process died, and whose blocks no longer belong together
    faults                \* the calls so far that a failure made differ

Dev == INSTANCE BlockDevice WITH Values <- Bit

vars == <<disk, slice, slice_index, slice_dirty, aborted, may, durable, reply, torn,
          faults>>

-----------------------------------------------------------------------------
(* Where a block lives. *)

SliceOf(which) == which \div (N-1)
ParityAt(s) == s % N
DataAtMutant(which) == LET at == which % (N-1)
                       IN  IF ParityAt(SliceOf(which)) < at THEN at + 1 ELSE at
DataAt(which) == LET at == which % (N-1)
                 IN  IF ParityAt(SliceOf(which)) <= at THEN at + 1 ELSE at
BlocksOf(s) == {b \in Blocks : SliceOf(b) = s}

(* xor of the blocks of a row: of single bits, the parity of the ones. *)
XorOf(row, D) == Cardinality({d \in D : row[d] = 1}) % 2
Plus(x, y) == (x + y) % 2

EvenRows == {row \in [Devs -> Bit] : XorOf(row, Devs) = 0}

(* The layer never initialises parity: its user must, as tests/xor.lua does. *)
ASSUME InitialRowsAssumption == InitialRows \subseteq EvenRows

(* What is stored is a row, but for the blocks that the devices have lost. *)
Encodes(stored, row) == \A d \in Devs : stored[d] \in {row[d], Bad}

(* Contents are dead while no slice is loaded; one value stands for all. *)
DeadSlice == [d \in Devs |-> 0]

(* xor_rebuild_slice_part *)
RebuildSlicePartMutant(row, failed) ==
    [row EXCEPT ![failed] = XorOf(row, Devs)]
RebuildSlicePart(row, failed) ==
    [row EXCEPT ![failed] = XorOf(row, Devs \ {failed})]

(***************************************************************************)
(* What a device holds after write_block of new over old.  A write that    *)
(* fails may have kept the old block (pwrite failed), or put there all or  *)
(* some bytes of the new one (it was short), or left a block that can no   *)
(* longer be read (verify below, between its hash block and its data).     *)
(***************************************************************************)
Outcomes == {"kept", "landed", "lost"}
AfterWrite(old, new, outcome) ==
    CASE outcome = "kept" -> old [] outcome = "lost" -> Bad [] outcome = "landed" -> new

-----------------------------------------------------------------------------
(***************************************************************************)
(* The state of the layer as a value, so that the functions that call each *)
(* other can be composed; what failed devices make of it is a set of them. *)
(***************************************************************************)
Here == [disk |-> disk, slice |-> slice, index |-> slice_index,
         dirty |-> slice_dirty, may |-> may, durable |-> durable, torn |-> torn]

Failing == IF faults < MaxFaults THEN Faults ELSE {NoFault}

(* What a call makes of the layer is m; without failures, one of Rest. *)
Counts(m, Rest) ==
    /\ faults' = IF m \in Rest THEN faults ELSE faults + 1
    /\ faults' <= MaxFaults

Become(m) ==
    /\ disk' = m.disk
    /\ slice' = m.slice
    /\ slice_index' = m.index
    /\ slice_dirty' = m.dirty
    /\ may' = m.may
    /\ durable' = m.durable
    /\ torn' = m.torn

(* The blocks of the cached slice of which the devices have other contents. *)
Missed(m) == {b \in BlocksOf(m.index) :
                 m.disk[m.index][DataAt(b)] \notin {m.slice[DataAt(b)], Bad}}

(* The blocks of B may be again what they may be after a restart, or may be *)
(* anything: nothing of them is left to go by.                              *)
Lapsed(m, B) ==
    [m EXCEPT !.may = [b \in Blocks |-> IF b \in B THEN m.durable[b] ELSE m.may[b]]]
Voided(m, B) ==
    [m EXCEPT !.may = [b \in Blocks |-> IF b \in B THEN Bit ELSE m.may[b]],
              !.durable = [b \in Blocks |-> IF b \in B THEN Bit ELSE m.durable[b]]]
Settled(m, B) ==
    [m EXCEPT !.durable = [b \in Blocks |-> IF b \in B THEN m.may[b] ELSE m.durable[b]]]

(* Whether the cached slice is torn on the devices, where some write of it failed. *)
Torn(m, fails) ==
    IF m.slice \in EvenRows /\ Encodes(m.disk[m.index], m.slice) THEN m.torn \ {m.index}
    ELSE IF fails THEN m.torn \cup {m.index} ELSE m.torn

(***************************************************************************)
(* xor_flush_slice when the devices of W fail: the loop gives up at the    *)
(* second failure, one failure alone is a success.  The devices from k on  *)
(* are not reached if the process dies.                                    *)
(***************************************************************************)
FlushReaches(W) == {i \in Devs : ~ \E j, k \in W : j < k /\ k < i}
FlushSucceeds(W) == ~ \E j, k \in W : j < k
DirtyAfterMutant(m, W) == FALSE
DirtyAfter(m, W) == m.dirty /\ ~FlushSucceeds(W)
FlushedRowMutant(m, W, o, k) ==
    [d \in Devs |-> IF d \in FlushReaches(W) /\ d < k /\ d < N-1
                    THEN AfterWrite(m.disk[m.index][d], m.slice[d],
                                    IF d \in W THEN o[d] ELSE "landed")
                    ELSE m.disk[m.index][d]]
FlushedRow(m, W, o, k) ==
    [d \in Devs |-> IF d \in FlushReaches(W) /\ d < k
                    THEN AfterWrite(m.disk[m.index][d], m.slice[d],
                                    IF d \in W THEN o[d] ELSE "landed")
                    ELSE m.disk[m.index][d]]
FlushedRows(m, W, k) == {FlushedRow(m, W, o, k) : o \in [W -> Outcomes]}

Stored(m, row, fails) ==
    LET n == [m EXCEPT !.disk = [m.disk EXCEPT ![m.index] = row]]
    IN  [n EXCEPT !.torn = Torn(n, fails)]

FlushSlice(m, W) ==
    {LET n == [Stored(m, row, W # {}) EXCEPT !.dirty = DirtyAfter(m, W)]
     IN  IF FlushSucceeds(W)
         THEN Lapsed(Settled(n, BlocksOf(m.index) \ Missed(n)), Missed(n)) ELSE n
     : row \in FlushedRows(m, W, N)}

(***************************************************************************)
(* The second half of xor_switch_slice, when reads of R and the repairing  *)
(* write of V fail.  A block rebuilt from the rest of a torn slice is made *)
(* up.                                                                     *)
(***************************************************************************)
LoadSlice(m, s, R, V) ==
    LET failed   == {d \in Devs : m.disk[s][d] = Bad \/ d \in R}
        f        == CHOOSE d \in failed : TRUE
        whole    == RebuildSlicePart(m.disk[s], f)
        made_up  == {b \in BlocksOf(s) : s \in m.torn /\ DataAt(b) = f}
        As(c)    == [m EXCEPT !.slice = c, !.index = s]
    IN  IF \E d, e \in failed : d # e
        THEN {[m EXCEPT !.slice = DeadSlice, !.index = NoSlice]}
        ELSE IF failed = {} THEN {Stored(As(m.disk[s]), m.disk[s], FALSE)}
        ELSE {Voided(Stored(As(whole),
                            [m.disk[s] EXCEPT ![f] = AfterWrite(@, whole[f], o)],
                            FALSE), made_up)
              : o \in IF f \in V THEN Outcomes ELSE {"landed"}}

(***************************************************************************)
(* xor_switch_slice when the devices of f.flush, f.read and f.repair fail. *)
(* It has succeeded if slice s is loaded; a failed flush of the old slice  *)
(* leaves that slice loaded and dirty.                                     *)
(***************************************************************************)
SwitchSlice(m, s, f) ==
    IF m.index = s THEN {m}
    ELSE IF ~m.dirty THEN LoadSlice(m, s, f.read, f.repair)
    ELSE IF ~FlushSucceeds(f.flush) THEN FlushSlice(m, f.flush)
    ELSE UNION {LoadSlice(n, s, f.read, f.repair) : n \in FlushSlice(m, f.flush)}

(* ... and when its flush runs into assert(io->slice_index != -1). *)
SwitchAsserts(s) == slice_index # s /\ slice_dirty /\ slice_index = NoSlice

Abort ==
    /\ aborted' = TRUE
    /\ reply' = NoReply
    /\ UNCHANGED <<disk, slice, slice_index, slice_dirty, may, durable, torn, faults>>

-----------------------------------------------------------------------------
(* The calls. *)

ReadBlock(which) ==
    LET s == SliceOf(which)
    IN  /\ ~aborted
        /\ ~SwitchAsserts(s)
        /\ \E f \in Failing : \E m \in SwitchSlice(Here, s, f) :
              /\ Counts(m, SwitchSlice(Here, s, NoFault))
              /\ Become(m)
              /\ reply' = IF m.index = s THEN [at |-> which, val |-> m.slice[DataAt(which)]]
                                         ELSE NoReply
        /\ UNCHANGED aborted

(* The part of xor_write_block after the switch. *)
Written(m, which, v) ==
    LET d == DataAt(which)
        p == ParityAt(SliceOf(which))
    IN  [m EXCEPT !.slice = [m.slice EXCEPT ![p] = Plus(@, Plus(v, m.slice[d])), ![d] = v],
                  !.dirty = TRUE,
                  !.may = [m.may EXCEPT ![which] = {v}],
                  !.durable = [m.durable EXCEPT ![which] = @ \cup {v}]]

WriteBlock(which, v) ==
    LET s == SliceOf(which)
    IN  /\ ~aborted
        /\ ~SwitchAsserts(s)
        /\ \E f \in Failing : \E m \in SwitchSlice(Here, s, f) :
              /\ Counts(m, SwitchSlice(Here, s, NoFault))
              /\ Become(IF m.index = s THEN Written(m, which, v) ELSE m)
        /\ reply' = NoReply
        /\ UNCHANGED aborted

(* A read or a write whose switch of slices hits the assertion. *)
AccessAborts(which) ==
    /\ ~aborted
    /\ SwitchAsserts(SliceOf(which))
    /\ Abort

(* xor_flush; it ignores what xor_flush_slice returns. *)
Flush ==
    /\ ~aborted
    /\ IF slice_index = NoSlice THEN Abort
       ELSE /\ \E f \in Failing : \E m \in FlushSlice(Here, f.flush) :
                  Counts(m, FlushSlice(Here, {})) /\ Become(m)
            /\ reply' = NoReply
            /\ UNCHANGED aborted

(* xor_sync: xor_flush, then sync of devices that hold nothing back. *)
Sync == Flush

(* xor_clear_caches forgets the slice, and not that it is dirty. *)
Cleared(m) == [Lapsed(m, Missed(m)) EXCEPT !.slice = DeadSlice, !.index = NoSlice]

ClearCaches ==
    /\ ~aborted
    /\ IF slice_index = NoSlice THEN Abort
       ELSE /\ \E f \in Failing : \E m \in FlushSlice(Here, f.flush) :
                  Counts(m, FlushSlice(Here, {})) /\ Become(Cleared(m))
            /\ reply' = NoReply
            /\ UNCHANGED aborted

(* xor_close, which does not flush, or the end of the process; xor_open. *)
Reopen ==
    /\ slice' = DeadSlice
    /\ slice_index' = NoSlice
    /\ slice_dirty' = FALSE
    /\ aborted' = FALSE
    /\ may' = durable
    /\ reply' = NoReply
    /\ UNCHANGED <<disk, durable, torn, faults>>

-----------------------------------------------------------------------------
(* The environment. *)

(* The process dies in xor_flush_slice after the first k device writes. *)
KilledInFlush(k) ==
    /\ DieInFlush
    /\ ~aborted
    /\ slice_index # NoSlice
    /\ \E f \in Failing : \E row \in FlushedRows(Here, f.flush, k) :
          Become(Stored(Here, row, TRUE))
    /\ Counts(Here, {})
    /\ aborted' = TRUE
    /\ reply' = NoReply

(* Block s of device d is lost, and the device says so when it is read. *)
Decay(s, d) ==
    /\ disk[s][d] # Bad
    /\ disk' = [disk EXCEPT ![s][d] = Bad]
    /\ Counts(Here, {})
    /\ reply' = NoReply
    /\ UNCHANGED <<slice, slice_index, slice_dirty, aborted, may, durable, torn>>

-----------------------------------------------------------------------------
(* xor_open over devices whose slices already have parity zero. *)
Init ==
    /\ disk \in [SliceNos -> InitialRows]
    /\ slice = DeadSlice
    /\ slice_index = NoSlice
    /\ slice_dirty = FALSE
    /\ aborted = FALSE
    /\ may = [b \in Blocks |-> {disk[SliceOf(b)][DataAt(b)]}]
    /\ durable = may
    /\ reply = NoReply
    /\ torn = {}
    /\ faults = 0

Next ==
    \/ \E b \in Blocks : ReadBlock(b) \/ AccessAborts(b)
    \/ \E w \in Writes : WriteBlock(w[1], w[2])
    \/ Flush
    \/ Sync
    \/ ClearCaches
    \/ Reopen
    \/ \E k \in 1 .. N : KilledInFlush(k)
    \/ \E s \in SliceNos, d \in Decaying : Decay(s, d)

Spec == Init /\ [][Next]_vars

-----------------------------------------------------------------------------
(* Properties. *)

TypeOK ==
    /\ disk \in [SliceNos -> [Devs -> Bit \cup {Bad}]]
    /\ slice \in [Devs -> Bit]
    /\ slice_index \in SliceNos \cup {NoSlice}
    /\ slice_dirty \in BOOLEAN
    /\ aborted \in BOOLEAN
    /\ Dev!DeviceTypeOK
    /\ torn \subseteq SliceNos
    /\ faults \in 0 .. MaxFaults

(***************************************************************************)
(* A block that xor_read_block returned is one the caller wrote there last *)
(* (or, after a restart or where a device write failed in a flush, one it  *)
(* wrote since the last flush), whatever devices failed on the way:        *)
(* caching, parity updates, reconstruction and repair never make up data.  *)
(* The one exception is a block rebuilt from the rest of a torn slice; of  *)
(* it nothing is claimed any more.                                         *)
(***************************************************************************)
ReadsAreExplained == Dev!ReadsAreExplained

BadAt(s) == {d \in Devs : disk[s][d] = Bad}
AtMostOne(S) == \A d, e \in S : d = e

(* Losing any one device loses nothing of a slice that is not torn: if it *)
(* has all its blocks on the devices, each is the parity of the others.   *)
EachBlockIsRedundant ==
    \A s \in SliceNos \ torn : BadAt(s) = {} => \A d \in Devs :
        XorOf(disk[s], Devs \ {d}) = disk[s][d]

(* Once xor_flush_slice has cleared slice_dirty, and while slices come and *)
(* go in the cache, each block on a device is one a read may return, or    *)
(* the device knows that it has lost it: nothing dirty is ever forgotten.  *)
Holds(row, s, promise) == \A b \in BlocksOf(s) : row[DataAt(b)] \in promise[b] \cup {Bad}
CleanSlicesAreNewest ==
    \A s \in SliceNos : ~(slice_dirty /\ slice_index = s) => Holds(disk[s], s, may)

(***************************************************************************)
(* The inductive invariant behind these.  Whatever fails, a block on a     *)
(* device is one the promise allows.  Of a slice that is not torn the      *)
(* blocks also encode a row of parity zero, and while at most one of them  *)
(* is unreadable that row holds values the promise allows: after a crash   *)
(* for every slice, at once for every slice but the one whose newest       *)
(* contents are only in the cache.                                         *)
(***************************************************************************)
Keeps(row, s, promise) == \A b \in BlocksOf(s) : row[DataAt(b)] \in promise[b]
Accounted(dk, s, promise) ==
    AtMostOne({d \in Devs : dk[s][d] = Bad}) =>
        \E row \in EvenRows : Encodes(dk[s], row) /\ Keeps(row, s, promise)

Sound(m) ==
    /\ \A b \in Blocks : m.may[b] \subseteq m.durable[b]
    /\ m.index # NoSlice => /\ Keeps(m.slice, m.index, m.may)
                            /\ m.slice \in EvenRows \/ m.index \in m.torn
    /\ \A s \in SliceNos :
          /\ Holds(m.disk[s], s, m.durable)
          /\ s \notin m.torn => Accounted(m.disk, s, m.durable)
    /\ \A s \in SliceNos : ~(m.dirty /\ m.index = s) =>
          /\ Holds(m.disk[s], s, m.may)
          /\ s \notin m.torn => Accounted(m.disk, s, m.may)

IndInv == TypeOK /\ Sound(Here) /\ ReadsAreExplained

(* While no slice is torn, each step of the layer is one of a block device, *)
(* whatever devices fail, lose their blocks and are repaired.               *)
ImplementsBlockDevice ==
    /\ Dev!DeviceInit
    /\ [][torn = {} /\ torn' = {} => Dev!DeviceNext]_<<may, durable, reply>>
=============================================================================
