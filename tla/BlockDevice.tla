---------------------------- MODULE BlockDevice ----------------------------
(***************************************************************************)
(* What a struct bdev (src/src/bdev.h) promises to the layer above it.     *)
(* The interface is the one of the function pointers read_block,           *)
(* write_block, flush, sync, clear_caches and close; nothing is said of    *)
(* how a layer keeps its data.  Modules of layers maintain the three       *)
(* variables below next to their own state, to be checked against this     *)
(* specification.                                                          *)
(*                                                                         *)
(*  - A read that returns true yields the value of the last write of that  *)
(*    block that returned true, or of a later write that returned false    *)
(*    (such a write may or may not have reached the medium).  A read may   *)
(*    always return false.                                                 *)
(*  - Only what was flushed is certain to survive the end of the process.  *)
(***************************************************************************)
CONSTANTS
    Blocks,     \* block numbers, 0 .. block_count-1
    Values,     \* the contents a block can have
    NoReply     \* nothing was read by the last call

VARIABLES
    may,        \* may[b]: the values a read of b may return
    durable,    \* durable[b]: the values b may have after the process dies
    reply       \* the last successful read, or NoReply

devvars == <<may, durable, reply>>

DeviceTypeOK ==
    /\ may \in [Blocks -> SUBSET Values]
    /\ durable \in [Blocks -> SUBSET Values]
    /\ reply \in [at : Blocks, val : Values] \cup {NoReply}

DeviceInit ==
    /\ \E c \in [Blocks -> Values] : may = [b \in Blocks |-> {c[b]}]
    /\ durable = may
    /\ reply = NoReply

(***************************************************************************)
(* A call may, besides what it was asked for, write cached data back: the  *)
(* blocks of S become as certain after a crash as they are now.            *)
(***************************************************************************)
Settled(S) == [b \in Blocks |-> IF b \in S THEN may[b] ELSE durable[b]]

(* read_block(b) returned true with v in the caller's buffer. *)
ReadOk(b, v, S) ==
    /\ reply' = [at |-> b, val |-> v]
    /\ v \in may[b]
    /\ UNCHANGED may
    /\ durable' = Settled(S)

(* write_block(b, v) returned true; a layer without a cache is through. *)
WriteOk(b, v, S) ==
    /\ reply' = NoReply
    /\ may' = [may EXCEPT ![b] = {v}]
    /\ \E old \in {{}, Settled(S)[b]} :
          durable' = [Settled(S) EXCEPT ![b] = old \cup {v}]

(* write_block(b, v) returned false: v may have reached the medium. *)
WriteFail(b, v, S) ==
    /\ reply' = NoReply
    /\ may' \in {may, [may EXCEPT ![b] = @ \cup {v}]}
    /\ durable' \in {Settled(S), [Settled(S) EXCEPT ![b] = @ \cup {v}]}

(* A failed read_block, or flush, sync, clear_caches. *)
Quiet(S) ==
    /\ reply' = NoReply
    /\ UNCHANGED may
    /\ durable' = Settled(S)

(* The process ends, by close, abort or crash, and the device is reopened. *)
Restart ==
    /\ may' = durable
    /\ reply' = NoReply
    /\ UNCHANGED durable

DeviceNext ==
    \/ Restart
    \/ \E S \in SUBSET Blocks :
          \/ Quiet(S)
          \/ \E b \in Blocks, v \in Values :
                ReadOk(b, v, S) \/ WriteOk(b, v, S) \/ WriteFail(b, v, S)

DeviceSpec == DeviceInit /\ [][DeviceNext]_devvars

(***************************************************************************)
(* The safety half of the promise as a state predicate: no successful read *)
(* returned a value that the history of writes does not account for.       *)
(***************************************************************************)
ReadsAreExplained == reply # NoReply => reply.val \in may[reply.at]
=============================================================================
