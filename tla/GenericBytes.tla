---------------------------- MODULE GenericBytes ----------------------------
(***************************************************************************)
(* generic_read_bytes and generic_write_bytes of src/src/bdev.c: a byte    *)
(* range cut into reads and writes of blocks.  One call, and an iteration  *)
(* of its loop is one action.  Any block operation may fail; a write that  *)
(* fails may have been done or not, and a read that fails may have left    *)
(* anything in its buffer.                                                 *)
(*                                                                         *)
(* Bytes are named by where they come from: byte i of the device holds i   *)
(* before the call, and byte i of the caller's data is FromByte(i).        *)
(*                                                                         *)
(* A definition ...Mutant is a plausible mistake in the definition that    *)
(* follows it; no specification uses it (see README, "Mutants").           *)
(***************************************************************************)
EXTENDS Naturals

CONSTANTS
    BlockSize,     \* self->block_size
    BlockCount,    \* self->block_count
    NoByte,        \* a byte of a buffer nobody has written yet
    Leaves         \* what a failed read of a block may leave in its buffer

ASSUME SizeAssumption == BlockSize \in Nat \ {0} /\ BlockCount \in Nat \ {0}
ASSUME NoByteAssumption == NoByte \notin Nat

DeviceSize == BlockSize * BlockCount
Offsets == 0 .. BlockSize-1
BlockNos == 0 .. BlockCount-1

OldByte(b, i) == b * BlockSize + i
FromByte(i) == DeviceSize + i
ByteValues == 0 .. 2 * DeviceSize - 1
ASSUME LeavesAssumption == Leaves \subseteq [Offsets -> ByteValues \cup {NoByte}]

VARIABLES
    op, start, size,         \* the call: which function, start and len
    start_block, end_block, skip_bytes,
    len,                     \* what is left to do
    done,                    \* how far into or from has advanced
    into,                    \* the caller's buffer of a read
    buffer,                  \* self->generic_block_buffer
    device,                  \* device[b][i]: byte i of block b
    result                   \* "running", "true" or "false"

vars == <<op, start, size, start_block, end_block, skip_bytes, len, done, into,
          buffer, device, result>>
call == <<op, start, size, end_block>>

(***************************************************************************)
(* The callers of read_bytes and write_bytes stay within the device        *)
(* (bind-bdevs.c checks it).  A length of zero returns at once.            *)
(***************************************************************************)
Init ==
    /\ op \in {"read", "write"}
    /\ size \in 0 .. DeviceSize
    /\ start \in 0 .. DeviceSize - size
    /\ start_block = start \div BlockSize
    /\ end_block = IF size = 0 THEN 0 ELSE (start + size - 1) \div BlockSize
    /\ skip_bytes = start - (start \div BlockSize) * BlockSize
    /\ len = size
    /\ done = 0
    /\ into = [i \in 0 .. DeviceSize-1 |-> NoByte]
    /\ buffer = [i \in Offsets |-> NoByte]
    /\ device = [b \in BlockNos |-> [i \in Offsets |-> OldByte(b, i)]]
    /\ result = IF size = 0 THEN "true" ELSE "running"

-----------------------------------------------------------------------------
(* memcpy of n bytes between buffers, and what is transferred *)
CopiedMutant(to, at, data, from, n) ==
    [i \in DOMAIN to |-> IF i >= at /\ i < at + n THEN data[i - at] ELSE to[i]]
Copied(to, at, data, from, n) ==
    [i \in DOMAIN to |-> IF i >= at /\ i < at + n THEN data[from + (i - at)] ELSE to[i]]

AdvanceMutant(n) ==
    /\ done' = done + n
    /\ len' = len - n
    /\ start_block' = start_block + 1
    /\ result' = IF len - n = 0 THEN "true" ELSE "running"
    /\ UNCHANGED <<call, skip_bytes>>
StuckMutant(n) == UNCHANGED <<call, done, len, start_block, skip_bytes, result>>
Advance(n) ==
    /\ done' = done + n
    /\ len' = len - n
    /\ start_block' = start_block + 1
    /\ skip_bytes' = 0
    /\ result' = IF len - n = 0 THEN "true" ELSE "running"
    /\ UNCHANGED call

(* A block operation returned false, and so does the call. *)
Fail ==
    /\ result' = "false"
    /\ UNCHANGED <<call, start_block, skip_bytes, len, done>>

Running(which) == result = "running" /\ op = which

(* The bytes of the block at start_block that the call is about. *)
PieceMutant == BlockSize - skip_bytes
Piece == IF BlockSize - skip_bytes > len THEN len ELSE BlockSize - skip_bytes

(***************************************************************************)
(* generic_read_bytes: the last block and a block that is not read from    *)
(* its beginning go through generic_block_buffer, the others do not.       *)
(***************************************************************************)
ReadThroughBuffer == start_block = end_block \/ skip_bytes > 0
BytesToTake == IF start_block = end_block THEN len ELSE BlockSize - skip_bytes

ReadBuffered ==
    /\ Running("read")
    /\ ReadThroughBuffer
    /\ \/ /\ buffer' = device[start_block]
          /\ into' = Copied(into, done, device[start_block], skip_bytes, BytesToTake)
          /\ Advance(BytesToTake)
       \/ Fail /\ buffer' \in {buffer} \cup Leaves /\ UNCHANGED into
    /\ UNCHANGED device

LeftInto(x) == Copied(into, done, x, 0, BlockSize)
ReadWhole ==
    /\ Running("read")
    /\ ~ReadThroughBuffer
    /\ \/ /\ into' = Copied(into, done, device[start_block], 0, BlockSize)
          /\ Advance(BlockSize)
       \/ Fail /\ into' \in {into} \cup {LeftInto(x) : x \in Leaves}
    /\ UNCHANGED <<buffer, device>>

(***************************************************************************)
(* generic_write_bytes: a block that is written in part is read first.     *)
(***************************************************************************)
WriteThroughBufferMutant == start_block = end_block
WriteThroughBuffer == skip_bytes > 0 \/ start_block = end_block

Merged ==
    [i \in Offsets |-> IF i >= skip_bytes /\ i < skip_bytes + Piece
                       THEN FromByte(done + (i - skip_bytes))
                       ELSE device[start_block][i]]

WriteBuffered ==
    /\ Running("write")
    /\ WriteThroughBuffer
    /\ \/ /\ buffer' = Merged
          /\ device' = [device EXCEPT ![start_block] = Merged]
          /\ Advance(Piece) \/ Fail
       \/ Fail /\ UNCHANGED device /\ buffer' \in {buffer, Merged} \cup Leaves
    /\ UNCHANGED into

WriteWhole ==
    /\ Running("write")
    /\ ~WriteThroughBuffer
    /\ \/ /\ device' = [device EXCEPT ![start_block] =
                                         [i \in Offsets |-> FromByte(done + i)]]
          /\ Advance(BlockSize) \/ Fail
       \/ Fail /\ UNCHANGED device
    /\ UNCHANGED <<into, buffer>>

Next == ReadBuffered \/ ReadWhole \/ WriteBuffered \/ WriteWhole

(***************************************************************************)
(* The loop of a call runs on by itself, nothing else is in the process.   *)
(* Fairness is of iterations in which no block operation fails: that the   *)
(* call returns must not depend on a failure.                              *)
(***************************************************************************)
Iteration == Next /\ result' # "false"
Spec == Init /\ [][Next]_vars /\ WF_vars(Iteration)

-----------------------------------------------------------------------------
(* Properties. *)

TypeOK ==
    /\ op \in {"read", "write"}
    /\ start \in Nat /\ size \in Nat /\ end_block \in BlockNos
    /\ start_block \in Nat /\ skip_bytes \in Offsets
    /\ len \in Nat /\ done \in Nat
    /\ into \in [0 .. DeviceSize-1 -> ByteValues \cup {NoByte}]
    /\ buffer \in [Offsets -> ByteValues \cup {NoByte}]
    /\ device \in [BlockNos -> [Offsets -> ByteValues]]
    /\ result \in {"running", "true", "false"}

(***************************************************************************)
(* The assertions in the loops hold, whatever the start and the length,    *)
(* and no memcpy leaves generic_block_buffer or the caller's buffer.       *)
(***************************************************************************)
AssertionsHold ==
    result = "running" =>
        /\ start_block < BlockCount
        /\ start_block # end_block =>
              /\ op = "read" /\ skip_bytes > 0 => len > BlockSize - skip_bytes
              /\ skip_bytes = 0 => len >= BlockSize
        /\ op = "read" /\ start_block = end_block =>
              /\ skip_bytes + len <= BlockSize
              /\ done + len <= size

(* What keeps them true: the loop is where its arguments say it is. *)
LoopInvariant ==
    /\ done + len = size
    /\ result = "running" =>
          /\ len > 0
          /\ start_block <= end_block
          /\ start_block * BlockSize + skip_bytes = start + done
          /\ end_block * BlockSize < start + size
          /\ start + size <= (end_block + 1) * BlockSize

(***************************************************************************)
(* A read that returns true read the range, in order.  It leaves the rest  *)
(* of the caller's memory alone, also when it returns false.               *)
(***************************************************************************)
ReadIsExact ==
    op = "read" =>
        \A i \in 0 .. DeviceSize-1 :
            /\ result = "true" /\ i < size => into[i] = start + i
            /\ i >= size => into[i] = NoByte

(***************************************************************************)
(* A write that returns true wrote the range.  One that returns false has  *)
(* written a beginning of it that ends with a block or with the range.     *)
(* Bytes outside the range, in the first and the last block too, never     *)
(* change, not even for a moment.  This is on a device whose write_block   *)
(* leaves the old block or the new one when it fails: what a torn or lost  *)
(* block does to the bytes around the range, this layer cannot mend.       *)
(***************************************************************************)
ByteAt(a) == device[a \div BlockSize][a % BlockSize]
EndsWell(n) == n \in {0, size} \/ (start + n) % BlockSize = 0
WritesAPrefix ==
    \E n \in 0 .. IF op = "write" THEN size ELSE 0 :
        /\ \A a \in 0 .. DeviceSize-1 :
              ByteAt(a) = IF a >= start /\ a < start + n
                          THEN FromByte(a - start) ELSE a
        /\ op = "write" /\ result = "true" => n = size
        /\ EndsWell(n)

(***************************************************************************)
(* The invariant behind both: the buffer holds what was read so far, but   *)
(* for a block into which a read failed; and the device what was written   *)
(* so far, or one block more after a failure.                              *)
(***************************************************************************)
Held(n) ==
    \A b \in BlockNos, i \in Offsets :
        device[b][i] = IF OldByte(b, i) >= start /\ OldByte(b, i) < start + n
                       THEN FromByte(OldByte(b, i) - start) ELSE OldByte(b, i)
ReadSoFar(i) == into[i] = IF op = "read" /\ i < done THEN start + i ELSE NoByte
Scribbled(i) == /\ op = "read" /\ result = "false"
                /\ done <= i /\ i < done + BlockSize /\ i < size
DataInv ==
    /\ TypeOK
    /\ result = "true" => done = size
    /\ \A i \in 0 .. DeviceSize-1 : ReadSoFar(i) \/ Scribbled(i)
    /\ \E n \in 0 .. size :
          /\ Held(n)
          /\ EndsWell(n)
          /\ op = "read" => n = 0
          /\ op = "write" /\ result # "false" => n = done

(* A call returns. *)
Returns == <>(result # "running")
=============================================================================
