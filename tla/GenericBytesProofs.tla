------------------------- MODULE GenericBytesProofs -------------------------
(***************************************************************************)
(* Proofs about the loops of generic_read_bytes and generic_write_bytes,   *)
(* for every block size, device size, start and length: they are where     *)
(* their arguments say, so their assertions hold and a memcpy stays inside *)
(* its buffers; and the bytes they move are the ones they were asked for.  *)
(***************************************************************************)
EXTENDS GenericBytes, TLAPS

(* The variables the control of the loops depends on. *)
LoopTypeOK ==
    /\ op \in {"read", "write"}
    /\ start \in Nat /\ size \in Nat /\ end_block \in Nat
    /\ start_block \in Nat /\ skip_bytes \in Nat /\ skip_bytes < BlockSize
    /\ len \in Nat /\ done \in Nat
    /\ start + size <= BlockSize * BlockCount

LoopIndInv == LoopTypeOK /\ LoopInvariant

(* Division and remainder, for the non-linear steps. *)
LEMMA Quotient ==
    ASSUME NEW x \in Nat, NEW m \in Nat \ {0}
    PROVE  /\ x \div m \in Nat
           /\ (x \div m) * m <= x
           /\ x < (x \div m) * m + m
  <1>1. x = m * (x \div m) + (x % m) /\ x % m \in 0 .. m-1 /\ x \div m \in Nat
    OBVIOUS
  <1>2. m * (x \div m) = (x \div m) * m
    BY <1>1
  <1> QED BY <1>1, <1>2

(* Blocks do not overlap. *)
LEMMA BlockOrder ==
    ASSUME NEW a \in Nat, NEW b \in Nat, NEW m \in Nat \ {0}
    PROVE  /\ (a + 1) * m = a * m + m
           /\ a < b => a * m + m <= b * m
           /\ a * m < b * m => a < b
  <1>1. (a + 1) * m = a * m + m
    OBVIOUS
  <1>2. ASSUME a < b PROVE a * m + m <= b * m
    <2>1. PICK k \in Nat : b = a + 1 + k
      <3>1. b - (a + 1) \in Nat /\ b = a + 1 + (b - (a + 1))
        BY <1>2
      <3> QED BY <3>1
    <2>2. b * m = a * m + m + k * m
      BY <2>1
    <2>3. k * m \in Nat
      OBVIOUS
    <2> QED BY <2>2, <2>3
  <1>3. ASSUME a * m < b * m PROVE a < b
    <2>1. ASSUME b <= a PROVE FALSE
      <3>1. PICK k \in Nat : a = b + k
        <4>1. a - b \in Nat /\ a = b + (a - b)
          BY <2>1
        <4> QED BY <4>1
      <3>2. a * m = b * m + k * m
        BY <3>1
      <3>3. k * m \in Nat
        OBVIOUS
      <3> QED BY <1>3, <3>2, <3>3
    <2> QED BY <2>1
  <1> QED BY <1>1, <1>2, <1>3

(* The loops start with their invariant. *)
LEMMA InitLoop == Init => LoopIndInv
  <1> SUFFICES ASSUME Init PROVE LoopIndInv
    OBVIOUS
  <1> USE SizeAssumption
  <1>0. DeviceSize \in Nat /\ DeviceSize = BlockSize * BlockCount
    BY DEF DeviceSize
  <1>1. /\ size \in Nat /\ start \in Nat /\ start + size <= DeviceSize
        /\ len = size /\ done = 0 /\ op \in {"read", "write"}
    BY <1>0 DEF Init
  <1>2. /\ start_block \in Nat
        /\ start_block * BlockSize <= start
        /\ start < start_block * BlockSize + BlockSize
    BY <1>1, Quotient DEF Init
  <1>3. skip_bytes = start - start_block * BlockSize
    BY DEF Init
  <1>4. skip_bytes \in Nat /\ skip_bytes < BlockSize
    BY <1>1, <1>2, <1>3
  <1>5. CASE size = 0
    <2>1. end_block = 0 /\ result = "true"
      BY <1>5 DEF Init
    <2> QED BY <1>0, <1>1, <1>2, <1>4, <2>1 DEF LoopIndInv, LoopTypeOK, LoopInvariant
  <1>6. CASE size # 0
    <2>1. start + size - 1 \in Nat
      BY <1>1, <1>6
    <2>2. end_block = (start + size - 1) \div BlockSize
      BY <1>6 DEF Init
    <2>3. /\ end_block \in Nat
          /\ end_block * BlockSize <= start + size - 1
          /\ start + size - 1 < end_block * BlockSize + BlockSize
      BY <2>1, <2>2, Quotient
    <2>4. (end_block + 1) * BlockSize = end_block * BlockSize + BlockSize
      BY <2>3, BlockOrder
    <2>5. start_block <= end_block
      <3>1. start_block * BlockSize < (end_block + 1) * BlockSize
        BY <1>1, <1>2, <1>6, <2>3, <2>4
      <3>2. start_block < end_block + 1
        BY <1>2, <2>3, <3>1, BlockOrder
      <3> QED BY <1>2, <2>3, <3>2
    <2>6. start_block * BlockSize + skip_bytes = start + done
      BY <1>1, <1>2, <1>3
    <2>7. end_block * BlockSize < start + size /\ start + size <= (end_block + 1) * BlockSize
      BY <1>1, <2>3, <2>4
    <2> QED BY <1>0, <1>1, <1>2, <1>4, <1>6, <2>3, <2>5, <2>6, <2>7
            DEF LoopIndInv, LoopTypeOK, LoopInvariant
  <1> QED BY <1>5, <1>6

(* How much is left, seen from the block the loop is at. *)
LEMMA Remaining ==
    ASSUME LoopIndInv, result = "running"
    PROVE  /\ start_block # end_block => len > BlockSize - skip_bytes
           /\ start_block = end_block => skip_bytes + len <= BlockSize
           /\ start_block < BlockCount
  <1> USE SizeAssumption
  <1>1. /\ start \in Nat /\ size \in Nat /\ end_block \in Nat /\ start_block \in Nat
        /\ skip_bytes \in Nat /\ skip_bytes < BlockSize /\ len \in Nat /\ done \in Nat
        /\ start + size <= BlockSize * BlockCount
        /\ done + len = size /\ len > 0 /\ start_block <= end_block
        /\ start_block * BlockSize + skip_bytes = start + done
        /\ end_block * BlockSize < start + size
        /\ start + size <= (end_block + 1) * BlockSize
    BY DEF LoopIndInv, LoopTypeOK, LoopInvariant
  <1>2. /\ (end_block + 1) * BlockSize = end_block * BlockSize + BlockSize
        /\ start_block < end_block => start_block * BlockSize + BlockSize <= end_block * BlockSize
        /\ end_block * BlockSize < BlockCount * BlockSize => end_block < BlockCount
    BY <1>1, BlockOrder
  <1>3. start_block * BlockSize \in Nat /\ end_block * BlockSize \in Nat
    BY <1>1
  <1>4. start_block # end_block => len > BlockSize - skip_bytes
    BY <1>1, <1>2, <1>3
  <1>5. start_block = end_block => skip_bytes + len <= BlockSize
    BY <1>1, <1>2, <1>3
  <1>6. BlockSize * BlockCount = BlockCount * BlockSize
    OBVIOUS
  <1>7. start_block < BlockCount
    BY <1>1, <1>2, <1>6
  <1> QED BY <1>4, <1>5, <1>7

(* An iteration that transfers the n bytes it has to keeps the invariant. *)
LEMMA AdvanceLoop ==
    ASSUME LoopIndInv, result = "running", NEW n \in Nat, Advance(n),
           \/ start_block = end_block /\ n = len
           \/ start_block # end_block /\ n = BlockSize - skip_bytes
    PROVE  LoopIndInv'
  <1> USE SizeAssumption
  <1>1. /\ start \in Nat /\ size \in Nat /\ end_block \in Nat /\ start_block \in Nat
        /\ skip_bytes \in Nat /\ skip_bytes < BlockSize /\ len \in Nat /\ done \in Nat
        /\ start + size <= BlockSize * BlockCount
        /\ done + len = size /\ len > 0 /\ start_block <= end_block
        /\ start_block * BlockSize + skip_bytes = start + done
        /\ end_block * BlockSize < start + size
        /\ start + size <= (end_block + 1) * BlockSize
        /\ op \in {"read", "write"}
    BY DEF LoopIndInv, LoopTypeOK, LoopInvariant
  <1>2. /\ done' = done + n /\ len' = len - n /\ start_block' = start_block + 1
        /\ skip_bytes' = 0 /\ op' = op /\ start' = start /\ size' = size
        /\ end_block' = end_block
        /\ result' = IF len - n = 0 THEN "true" ELSE "running"
    BY DEF Advance, call
  <1>3. n <= len
    BY <1>1, Remaining
  <1>4. LoopTypeOK'
    BY <1>1, <1>2, <1>3 DEF LoopTypeOK
  <1>5. (done + len = size)'
    BY <1>1, <1>2, <1>3
  <1>6. ASSUME result' = "running"
        PROVE  /\ len' > 0 /\ start_block' <= end_block'
               /\ start_block' * BlockSize + skip_bytes' = start' + done'
    <2>1. n # len
      BY <1>1, <1>2, <1>6
    <2>2. start_block # end_block /\ n = BlockSize - skip_bytes
      BY <2>1
    <2>3. (start_block + 1) * BlockSize = start_block * BlockSize + BlockSize
      BY <1>1, BlockOrder
    <2>4. start_block * BlockSize \in Nat
      BY <1>1
    <2> QED BY <1>1, <1>2, <1>3, <2>1, <2>2, <2>3, <2>4
  <1>7. LoopInvariant'
    BY <1>1, <1>2, <1>5, <1>6 DEF LoopInvariant
  <1> QED BY <1>4, <1>7 DEF LoopIndInv

(* An iteration that fails stops the loop. *)
LEMMA FailLoop == LoopIndInv /\ Fail => LoopIndInv'
  BY DEF LoopIndInv, LoopTypeOK, LoopInvariant, Fail, call

(* Every iteration keeps the invariant. *)
LEMMA NextLoop == LoopIndInv /\ [Next]_vars => LoopIndInv'
  <1> SUFFICES ASSUME LoopIndInv, [Next]_vars PROVE LoopIndInv'
    OBVIOUS
  <1> USE SizeAssumption
  <1>0. /\ len \in Nat /\ skip_bytes \in Nat /\ skip_bytes < BlockSize
    BY DEF LoopIndInv, LoopTypeOK
  <1>1. CASE ReadBuffered
    <2>1. result = "running" /\ (Advance(BytesToTake) \/ Fail) /\ ReadThroughBuffer
      BY <1>1 DEF ReadBuffered, Running
    <2>2. CASE Advance(BytesToTake)
      BY <1>0, <2>1, <2>2, AdvanceLoop DEF BytesToTake
    <2> QED BY <2>1, <2>2, FailLoop
  <1>2. CASE ReadWhole
    <2>1. /\ result = "running" /\ (Advance(BlockSize) \/ Fail)
          /\ start_block # end_block /\ skip_bytes = 0
      BY <1>0, <1>2 DEF ReadWhole, Running, ReadThroughBuffer
    <2>2. CASE Advance(BlockSize)
      BY <2>1, <2>2, AdvanceLoop
    <2> QED BY <2>1, <2>2, FailLoop
  <1>3. CASE WriteBuffered
    <2>1. result = "running" /\ (Advance(Piece) \/ Fail)
      BY <1>3 DEF WriteBuffered, Running
    <2>2. /\ Piece \in Nat
          /\ start_block = end_block => Piece = len
          /\ start_block # end_block => Piece = BlockSize - skip_bytes
      BY <1>0, <2>1, Remaining DEF Piece
    <2>3. CASE Advance(Piece)
      BY <2>1, <2>2, <2>3, AdvanceLoop
    <2> QED BY <2>1, <2>3, FailLoop
  <1>4. CASE WriteWhole
    <2>1. /\ result = "running" /\ (Advance(BlockSize) \/ Fail)
          /\ start_block # end_block /\ skip_bytes = 0
      BY <1>0, <1>4 DEF WriteWhole, Running, WriteThroughBuffer
    <2>2. CASE Advance(BlockSize)
      BY <2>1, <2>2, AdvanceLoop
    <2> QED BY <2>1, <2>2, FailLoop
  <1>5. CASE UNCHANGED vars
    BY <1>5 DEF LoopIndInv, LoopTypeOK, LoopInvariant, vars
  <1> QED BY <1>1, <1>2, <1>3, <1>4, <1>5 DEF Next

(* The loops are always where their arguments say they are. *)
THEOREM LoopIsOnTrack == Spec => []LoopInvariant
  <1>1. LoopIndInv => LoopInvariant
    BY DEF LoopIndInv
  <1> QED BY <1>1, InitLoop, NextLoop, PTL DEF Spec

(***************************************************************************)
(* No assertion of bdev.c fails and no memcpy overruns, for any block      *)
(* size, start and length within the device.                               *)
(***************************************************************************)
THEOREM LoopAssertionsHold == Spec => []AssertionsHold
  <1>1. LoopIndInv => AssertionsHold
    <2> SUFFICES ASSUME LoopIndInv, result = "running" PROVE AssertionsHold
      BY DEF AssertionsHold
    <2>1. /\ len \in Nat /\ done \in Nat /\ skip_bytes \in Nat
          /\ done + len = size
      BY DEF LoopIndInv, LoopTypeOK, LoopInvariant
    <2> QED BY <2>1, Remaining, SizeAssumption DEF AssertionsHold
  <1> QED BY <1>1, InitLoop, NextLoop, PTL DEF Spec

-----------------------------------------------------------------------------
(* The bytes. *)

(* The control of a running call. *)
LEMMA LoopFacts ==
    ASSUME LoopIndInv, result = "running"
    PROVE  /\ start \in Nat /\ size \in Nat /\ start_block \in BlockNos
           /\ skip_bytes \in Nat /\ skip_bytes < BlockSize /\ len \in Nat /\ done \in Nat
           /\ start + size <= DeviceSize /\ DeviceSize \in Nat
           /\ done + len = size /\ len > 0
           /\ start_block * BlockSize \in Nat
           /\ start_block * BlockSize + skip_bytes = start + done
  <1> USE SizeAssumption
  <1>1. DeviceSize \in Nat /\ DeviceSize = BlockSize * BlockCount
    BY DEF DeviceSize
  <1>2. start_block \in BlockNos
    BY Remaining DEF BlockNos, LoopIndInv, LoopTypeOK
  <1>3. start_block * BlockSize \in Nat
    BY DEF LoopIndInv, LoopTypeOK
  <1> QED BY <1>1, <1>2, <1>3 DEF LoopIndInv, LoopTypeOK, LoopInvariant

(* The piece of a block that an iteration is about. *)
LEMMA PieceFacts ==
    ASSUME LoopIndInv, result = "running"
    PROVE  /\ Piece \in Nat /\ Piece > 0
           /\ skip_bytes + Piece <= BlockSize /\ done + Piece <= size
           /\ start_block = end_block => Piece = len
           /\ start_block # end_block => Piece = BlockSize - skip_bytes
  BY SizeAssumption, LoopFacts, Remaining DEF Piece

(* Where the bytes of a block are. *)
LEMMA BlockBytes ==
    ASSUME NEW b \in BlockNos, NEW c \in BlockNos, NEW i \in Offsets
    PROVE  /\ OldByte(b, i) \in Nat /\ OldByte(b, i) < DeviceSize
           /\ b * BlockSize \in Nat /\ c * BlockSize \in Nat /\ DeviceSize \in Nat
           /\ OldByte(b, i) = b * BlockSize + i
           /\ b < c => OldByte(b, i) < c * BlockSize
           /\ c < b => c * BlockSize + BlockSize <= OldByte(b, i)
  <1> USE SizeAssumption
  <1>1. b \in Nat /\ c \in Nat /\ b < BlockCount /\ i \in Nat /\ i < BlockSize
    BY DEF BlockNos, Offsets
  <1>2. /\ b < c => b * BlockSize + BlockSize <= c * BlockSize
        /\ c < b => c * BlockSize + BlockSize <= b * BlockSize
        /\ b * BlockSize + BlockSize <= BlockCount * BlockSize
    BY <1>1, BlockOrder
  <1>3. DeviceSize = BlockCount * BlockSize
    BY DEF DeviceSize
  <1>4. b * BlockSize \in Nat /\ c * BlockSize \in Nat /\ DeviceSize \in Nat
    BY <1>1, <1>3
  <1> QED BY <1>1, <1>2, <1>3, <1>4 DEF OldByte

(* A piece that ends inside the range ends with its block. *)
LEMMA PieceEndsWell ==
    ASSUME LoopIndInv, result = "running"
    PROVE  EndsWell(done + Piece)
  <1> USE SizeAssumption
  <1>1. CASE start_block = end_block
    <2>1. done + Piece = size
      BY <1>1, PieceFacts, LoopFacts
    <2> QED BY <2>1 DEF EndsWell
  <1>2. CASE start_block # end_block
    <2>1. start + (done + Piece) = start_block * BlockSize + BlockSize
      BY <1>2, PieceFacts, LoopFacts
    <2>2. start_block \in Nat
      BY LoopFacts DEF BlockNos
    <2>3. start_block * BlockSize + BlockSize = (start_block + 1) * BlockSize
      BY <2>2, BlockOrder
    <2>4. ((start_block + 1) * BlockSize) % BlockSize = 0
      <3> DEFINE x == (start_block + 1) * BlockSize
                 q == x \div BlockSize
                 k == start_block + 1
      <3>1. x \in Nat /\ k \in Nat /\ x = k * BlockSize
        BY <2>2
      <3>2. x = BlockSize * q + (x % BlockSize) /\ q \in Nat /\ x % BlockSize \in 0 .. BlockSize-1
        BY <3>1
      <3> HIDE DEF x, q, k
      <3>3. q * BlockSize \in Nat /\ BlockSize * q = q * BlockSize
        BY <3>2
      <3>4. q * BlockSize <= k * BlockSize /\ k * BlockSize < q * BlockSize + BlockSize
        BY <3>1, <3>2, <3>3
      <3>5. ~(q < k)
        BY <3>1, <3>2, <3>4, BlockOrder
      <3>6. ~(k < q)
        <4>1. k < q => k * BlockSize + BlockSize <= q * BlockSize
          BY <3>1, <3>2, BlockOrder
        <4>2. k * BlockSize \in Nat
          BY <3>1
        <4> QED BY <4>1, <4>2, <3>3, <3>4
      <3>7. q = k
        BY <3>1, <3>2, <3>5, <3>6
      <3>8. x % BlockSize = 0
        <4> DEFINE rest == x % BlockSize
                   y == k * BlockSize
        <4>1. x = y /\ x = y + rest /\ y \in Nat /\ rest \in Nat
          BY <3>1, <3>2, <3>3, <3>7
        <4> HIDE DEF rest, y
        <4>2. rest = 0
          BY <4>1
        <4> QED BY <4>2 DEF rest
      <3> QED BY <3>8 DEF x
    <2> QED BY <2>1, <2>3, <2>4 DEF EndsWell
  <1> QED BY <1>1, <1>2

(* Writing the merged block adds its piece to what is on the device. *)
LEMMA MergedHolds ==
    ASSUME LoopIndInv, result = "running", Held(done),
           device \in [BlockNos -> [Offsets -> ByteValues]],
           NEW dv, dv = [device EXCEPT ![start_block] = Merged],
           NEW b \in BlockNos, NEW i \in Offsets
    PROVE  dv[b][i] = IF OldByte(b, i) >= start /\ OldByte(b, i) < start + (done + Piece)
                      THEN FromByte(OldByte(b, i) - start) ELSE OldByte(b, i)
  <1> USE SizeAssumption
  <1> DEFINE a == OldByte(b, i)
             sb == start_block * BlockSize
  <1>1. /\ start \in Nat /\ done \in Nat /\ skip_bytes \in Nat
        /\ sb \in Nat /\ sb + skip_bytes = start + done
        /\ Piece \in Nat /\ skip_bytes + Piece <= BlockSize
        /\ start_block \in BlockNos
    BY LoopFacts, PieceFacts
  <1>2. device[b][i] = IF a >= start /\ a < start + done THEN FromByte(a - start) ELSE a
    BY DEF Held
  <1>3. a \in Nat /\ i \in Nat /\ i < BlockSize
    BY BlockBytes DEF Offsets
  <1>4. CASE b # start_block
    <2>1. dv[b][i] = device[b][i]
      BY <1>4
    <2>2. a < sb \/ sb + BlockSize <= a
      <3>1. b < start_block \/ start_block < b
        BY <1>4, <1>1 DEF BlockNos
      <3> QED BY <3>1, <1>1, BlockBytes
    <2> HIDE DEF a, sb
    <2>3. (a >= start /\ a < start + (done + Piece)) <=> (a >= start /\ a < start + done)
      BY <2>2, <1>1, <1>3
    <2> QED BY <2>1, <2>3, <1>2 DEF a
  <1>5. CASE b = start_block
    <2>1. dv[b][i] = IF i >= skip_bytes /\ i < skip_bytes + Piece
                     THEN FromByte(done + (i - skip_bytes)) ELSE device[b][i]
      BY <1>5 DEF Merged
    <2>2. a = sb + i
      BY <1>5, BlockBytes
    <2> HIDE DEF a, sb
    <2>3. CASE i >= skip_bytes /\ i < skip_bytes + Piece
      <3>1. a >= start /\ a < start + (done + Piece) /\ a - start = done + (i - skip_bytes)
        BY <2>2, <2>3, <1>1, <1>3
      <3> QED BY <3>1, <2>1, <2>3 DEF a
    <2>4. CASE ~(i >= skip_bytes /\ i < skip_bytes + Piece)
      <3>1. (a >= start /\ a < start + (done + Piece)) <=> (a >= start /\ a < start + done)
        BY <2>2, <2>4, <1>1, <1>3
      <3> QED BY <3>1, <2>1, <2>4, <1>2 DEF a
    <2> QED BY <2>3, <2>4
  <1> QED BY <1>4, <1>5

(* A merged block is made of bytes. *)
LEMMA MergedType ==
    ASSUME LoopIndInv, result = "running",
           device \in [BlockNos -> [Offsets -> ByteValues]]
    PROVE  Merged \in [Offsets -> ByteValues]
  <1> USE SizeAssumption
  <1>1. ASSUME NEW i \in Offsets, i >= skip_bytes, i < skip_bytes + Piece
        PROVE  FromByte(done + (i - skip_bytes)) \in ByteValues
    <2>0. /\ done \in Nat /\ skip_bytes \in Nat /\ Piece \in Nat /\ size \in Nat
          /\ start \in Nat /\ DeviceSize \in Nat /\ done + Piece <= size
          /\ start + size <= DeviceSize /\ i \in Nat
      BY LoopFacts, PieceFacts DEF Offsets
    <2>1. done + (i - skip_bytes) \in Nat /\ done + (i - skip_bytes) < DeviceSize
      BY <1>1, <2>0
    <2>2. DeviceSize \in Nat
      BY LoopFacts
    <2> QED BY <2>1, <2>2 DEF FromByte, ByteValues
  <1>2. start_block \in BlockNos
    BY LoopFacts
  <1> QED BY <1>1, <1>2 DEF Merged

(* Copying a piece of the block adds it to what is in the buffer. *)
LEMMA CopyHolds ==
    ASSUME LoopIndInv, result = "running", Held(0),
           device \in [BlockNos -> [Offsets -> ByteValues]],
           into \in [0 .. DeviceSize-1 -> ByteValues \cup {NoByte}],
           \A i \in 0 .. DeviceSize-1 : into[i] = IF i < done THEN start + i ELSE NoByte,
           NEW to, to = Copied(into, done, device[start_block], skip_bytes, Piece)
    PROVE  /\ to \in [0 .. DeviceSize-1 -> ByteValues \cup {NoByte}]
           /\ \A i \in 0 .. DeviceSize-1 :
                 to[i] = IF i < done + Piece THEN start + i ELSE NoByte
  <1> USE SizeAssumption
  <1>1. /\ start \in Nat /\ done \in Nat /\ skip_bytes \in Nat /\ size \in Nat
        /\ start_block * BlockSize \in Nat
        /\ start_block * BlockSize + skip_bytes = start + done
        /\ Piece \in Nat /\ skip_bytes + Piece <= BlockSize /\ done + Piece <= size
        /\ start_block \in BlockNos /\ DeviceSize \in Nat /\ start + size <= DeviceSize
    BY LoopFacts, PieceFacts
  <1>2. to = [i \in 0 .. DeviceSize-1 |->
                IF i >= done /\ i < done + Piece
                THEN device[start_block][skip_bytes + (i - done)] ELSE into[i]]
    BY DEF Copied
  <1>3. ASSUME NEW i \in 0 .. DeviceSize-1
        PROVE  /\ to[i] = IF i < done + Piece THEN start + i ELSE NoByte
               /\ to[i] \in ByteValues \cup {NoByte}
    <2>0. i \in Nat
      BY <1>1
    <2>1. CASE i >= done /\ i < done + Piece
      <3> DEFINE k == skip_bytes + (i - done)
      <3>1. k \in Offsets
        BY <2>0, <2>1, <1>1 DEF Offsets
      <3>2. to[i] = device[start_block][k]
        BY <1>2, <2>1
      <3>3. OldByte(start_block, k) = start + i /\ OldByte(start_block, k) \in Nat
        <4>1. OldByte(start_block, k) = start_block * BlockSize + k
          BY DEF OldByte
        <4> DEFINE base == start_block * BlockSize
        <4>2. base \in Nat /\ base + skip_bytes = start + done
          BY <1>1
        <4>3. OldByte(start_block, k) = base + k
          BY <4>1
        <4> HIDE DEF base
        <4>4. start \in Nat /\ done \in Nat /\ skip_bytes \in Nat /\ i \in Nat /\ i >= done
          BY <1>1, <2>0, <2>1
        <4>5. base + (skip_bytes + (i - done)) = start + i
          BY <4>2, <4>4
        <4> QED BY <4>3, <4>4, <4>5
      <3>4. device[start_block][k] = OldByte(start_block, k)
        <4>1. ~(OldByte(start_block, k) >= start /\ OldByte(start_block, k) < start + 0)
          BY <3>3, <1>1, <2>0
        <4> QED BY <4>1, <3>1, <1>1 DEF Held
      <3> HIDE DEF k
      <3>5. device[start_block][k] \in ByteValues
        BY <3>1, <1>1
      <3> QED BY <2>1, <3>2, <3>3, <3>4, <3>5
    <2>2. CASE i < done
      <3>1. to[i] = into[i] /\ i < done + Piece
        BY <2>0, <2>2, <1>1, <1>2
      <3> QED BY <3>1, <2>2
    <2>3. CASE ~(i < done + Piece)
      <3>1. to[i] = into[i] /\ ~(i < done)
        BY <2>0, <2>3, <1>1, <1>2
      <3> QED BY <3>1, <2>3
    <2> QED BY <2>0, <2>1, <2>2, <2>3, <1>1
  <1> QED BY <1>2, <1>3

(***************************************************************************)
(* The call starts with an untouched device and an empty buffer.           *)
(***************************************************************************)
LEMMA InitData == Init => DataInv
  <1> SUFFICES ASSUME Init PROVE DataInv
    OBVIOUS
  <1> USE SizeAssumption
  <1>1. LoopIndInv
    BY InitLoop
  <1>2. DeviceSize \in Nat /\ DeviceSize = BlockCount * BlockSize /\ start \in Nat /\ size \in Nat
    BY <1>1 DEF DeviceSize, LoopIndInv, LoopTypeOK
  <1>3. ASSUME NEW b \in BlockNos, NEW i \in Offsets
        PROVE  device[b][i] = OldByte(b, i) /\ OldByte(b, i) \in Nat /\ OldByte(b, i) \in ByteValues
    <2>1. OldByte(b, i) \in Nat /\ OldByte(b, i) < DeviceSize
      BY BlockBytes
    <2> QED BY <2>1, <1>2 DEF Init, ByteValues
  <1>4. device \in [BlockNos -> [Offsets -> ByteValues]]
    <2>1. device = [b \in BlockNos |-> [i \in Offsets |-> OldByte(b, i)]]
      BY DEF Init
    <2> QED BY <2>1, <1>3
  <1>5. Held(0)
    BY <1>2, <1>3 DEF Held
  <1>6. end_block \in BlockNos
    <2>1. CASE size = 0
      BY <2>1 DEF Init, BlockNos
    <2>2. CASE size # 0
      <3>1. result = "running"
        BY <2>2 DEF Init
      <3>2. /\ end_block \in Nat /\ start + size <= BlockSize * BlockCount
            /\ end_block * BlockSize < start + size
        BY <3>1, <1>1 DEF LoopIndInv, LoopTypeOK, LoopInvariant
      <3>3. end_block * BlockSize < BlockCount * BlockSize
        BY <3>2, <1>2
      <3>4. end_block < BlockCount
        BY <3>2, <3>3, BlockOrder
      <3> QED BY <3>2, <3>4 DEF BlockNos
    <2> QED BY <2>1, <2>2
  <1>7. TypeOK
    <2>1. into \in [0 .. DeviceSize-1 -> ByteValues \cup {NoByte}]
          /\ buffer \in [Offsets -> ByteValues \cup {NoByte}]
      BY DEF Init
    <2>2. result \in {"running", "true", "false"} /\ op \in {"read", "write"}
      BY DEF Init
    <2>3. skip_bytes \in Offsets
      BY <1>1 DEF LoopIndInv, LoopTypeOK, Offsets
    <2> QED BY <2>1, <2>2, <2>3, <1>4, <1>6, <1>1 DEF TypeOK, LoopIndInv, LoopTypeOK
  <1>8. EndsWell(0) /\ 0 \in 0 .. size
    BY <1>2 DEF EndsWell
  <1>9. result = "true" => done = size
    BY DEF Init
  <1>10. \A i \in 0 .. DeviceSize-1 : ReadSoFar(i)
    BY <1>2 DEF Init, ReadSoFar
  <1>11. done = 0
    BY DEF Init
  <1> QED BY <1>5, <1>7, <1>8, <1>9, <1>10, <1>11 DEF DataInv

(* The control part of the type is kept by the control of an iteration. *)
LEMMA ControlType ==
    ASSUME LoopIndInv, LoopIndInv', TypeOK, Advance(Piece) \/ Fail
    PROVE  /\ op' \in {"read", "write"} /\ start' \in Nat /\ size' \in Nat
           /\ end_block' \in BlockNos /\ start_block' \in Nat /\ skip_bytes' \in Offsets
           /\ len' \in Nat /\ done' \in Nat /\ result' \in {"running", "true", "false"}
           /\ op' = op /\ start' = start /\ size' = size
           /\ result' = "true" => done' = size'
  <1>1. end_block' = end_block /\ op' = op /\ start' = start /\ size' = size
        /\ result' \in {"running", "true", "false"}
    BY DEF Advance, Fail, call
  <1>2. skip_bytes' \in Offsets
    BY SizeAssumption DEF LoopIndInv, LoopTypeOK, Offsets
  <1>3. result' = "true" => len' = 0
    BY DEF Advance, Fail
  <1>4. done' + len' = size' /\ done' \in Nat /\ len' \in Nat
    BY DEF LoopIndInv, LoopTypeOK, LoopInvariant
  <1>5. result' = "true" => done' = size'
    BY <1>3, <1>4
  <1> QED BY <1>1, <1>2, <1>4, <1>5 DEF LoopIndInv, LoopTypeOK, TypeOK

(* A failed read of a whole block spoils that block of the buffer only. *)
LEMMA ScribbleHolds ==
    ASSUME LoopIndInv, result = "running", start_block # end_block, skip_bytes = 0,
           into \in [0 .. DeviceSize-1 -> ByteValues \cup {NoByte}],
           NEW x \in Leaves, NEW to, to = LeftInto(x)
    PROVE  /\ to \in [0 .. DeviceSize-1 -> ByteValues \cup {NoByte}]
           /\ \A i \in 0 .. DeviceSize-1 :
                 to[i] = into[i] \/ (done <= i /\ i < done + BlockSize /\ i < size)
  <1> USE SizeAssumption
  <1>1. /\ done \in Nat /\ size \in Nat /\ Piece = BlockSize /\ done + Piece <= size
        /\ DeviceSize \in Nat
    BY LoopFacts, PieceFacts
  <1>2. x \in [Offsets -> ByteValues \cup {NoByte}]
    BY LeavesAssumption
  <1>3. to = [i \in 0 .. DeviceSize-1 |->
                IF i >= done /\ i < done + BlockSize THEN x[0 + (i - done)] ELSE into[i]]
    BY DEF Copied, LeftInto
  <1>4. ASSUME NEW i \in 0 .. DeviceSize-1
        PROVE  /\ to[i] \in ByteValues \cup {NoByte}
               /\ to[i] = into[i] \/ (done <= i /\ i < done + BlockSize /\ i < size)
    <2>1. CASE i >= done /\ i < done + BlockSize
      <3>1. 0 + (i - done) \in Offsets /\ i < size /\ done <= i
        BY <2>1, <1>1 DEF Offsets
      <3>2. x[0 + (i - done)] \in ByteValues \cup {NoByte}
        BY <3>1, <1>2
      <3>3. to[i] = x[0 + (i - done)]
        BY <2>1, <1>3
      <3> QED BY <2>1, <3>1, <3>2, <3>3
    <2>2. CASE ~(i >= done /\ i < done + BlockSize)
      <3>1. to[i] = into[i]
        BY <2>2, <1>3
      <3> QED BY <3>1
    <2> QED BY <2>1, <2>2
  <1> QED BY <1>3, <1>4

(* generic_read_bytes, one iteration. *)
LEMMA ReadData ==
    ASSUME LoopIndInv, LoopIndInv', DataInv, Running("read"), device' = device,
           buffer' \in [Offsets -> ByteValues \cup {NoByte}],
           \/ /\ into' = Copied(into, done, device[start_block], skip_bytes, Piece)
              /\ Advance(Piece)
           \/ /\ Fail
              /\ into' \in [0 .. DeviceSize-1 -> ByteValues \cup {NoByte}]
              /\ \A i \in 0 .. DeviceSize-1 :
                    into'[i] = into[i] \/ (done <= i /\ i < done + BlockSize /\ i < size)
    PROVE  DataInv'
  <1>1. result = "running" /\ op = "read" /\ TypeOK
    BY DEF Running, DataInv
  <1>2. /\ device \in [BlockNos -> [Offsets -> ByteValues]]
        /\ into \in [0 .. DeviceSize-1 -> ByteValues \cup {NoByte}]
        /\ start_block \in BlockNos
    BY <1>1, LoopFacts DEF TypeOK
  <1>3. /\ op' \in {"read", "write"} /\ start' \in Nat /\ size' \in Nat
        /\ end_block' \in BlockNos /\ start_block' \in Nat /\ skip_bytes' \in Offsets
        /\ len' \in Nat /\ done' \in Nat /\ result' \in {"running", "true", "false"}
        /\ op' = op /\ start' = start /\ size' = size
        /\ result' = "true" => done' = size'
    BY <1>1, ControlType
  <1>4. Held(0) /\ \A i \in 0 .. DeviceSize-1 : into[i] = IF i < done THEN start + i ELSE NoByte
    BY <1>1 DEF DataInv, ReadSoFar, Scribbled
  <1>5. op' = "read"
    BY <1>1, <1>3
  <1>6. /\ into' \in [0 .. DeviceSize-1 -> ByteValues \cup {NoByte}]
        /\ \A i \in 0 .. DeviceSize-1 : ReadSoFar(i)' \/ Scribbled(i)'
    <2>1. CASE Advance(Piece) /\ into' = Copied(into, done, device[start_block], skip_bytes, Piece)
      <3>1. done' = done + Piece
        BY <2>1 DEF Advance
      <3>2. /\ into' \in [0 .. DeviceSize-1 -> ByteValues \cup {NoByte}]
            /\ \A i \in 0 .. DeviceSize-1 : into'[i] = IF i < done + Piece THEN start + i ELSE NoByte
        BY <2>1, <1>1, <1>2, <1>4, CopyHolds
      <3> QED BY <3>1, <3>2, <1>3, <1>5 DEF ReadSoFar
    <2>2. CASE /\ Fail
               /\ into' \in [0 .. DeviceSize-1 -> ByteValues \cup {NoByte}]
               /\ \A i \in 0 .. DeviceSize-1 :
                     into'[i] = into[i] \/ (done <= i /\ i < done + BlockSize /\ i < size)
      <3>1. done' = done /\ result' = "false"
        BY <2>2 DEF Fail
      <3> QED BY <2>2, <3>1, <1>3, <1>4, <1>5 DEF ReadSoFar, Scribbled
    <2> QED BY <2>1, <2>2
  <1>7. TypeOK'
    BY <1>2, <1>3, <1>6 DEF TypeOK
  <1>8. Held(0)' /\ EndsWell(0)' /\ 0 \in 0 .. size'
    BY <1>3, <1>4 DEF Held, EndsWell
  <1> QED BY <1>3, <1>5, <1>6, <1>7, <1>8 DEF DataInv

(* generic_write_bytes, one iteration. *)
LEMMA WriteData ==
    ASSUME LoopIndInv, LoopIndInv', DataInv, Running("write"), into' = into,
           buffer' \in {buffer, Merged} \cup Leaves,
           \/ /\ device' = [device EXCEPT ![start_block] = Merged]
              /\ Advance(Piece) \/ Fail
           \/ Fail /\ UNCHANGED device
    PROVE  DataInv'
  <1>1. result = "running" /\ op = "write" /\ TypeOK
    BY DEF Running, DataInv
  <1>2. /\ device \in [BlockNos -> [Offsets -> ByteValues]]
        /\ buffer \in [Offsets -> ByteValues \cup {NoByte}]
        /\ into \in [0 .. DeviceSize-1 -> ByteValues \cup {NoByte}]
        /\ start_block \in BlockNos
    BY <1>1, LoopFacts DEF TypeOK
  <1>3. /\ op' \in {"read", "write"} /\ start' \in Nat /\ size' \in Nat
        /\ end_block' \in BlockNos /\ start_block' \in Nat /\ skip_bytes' \in Offsets
        /\ len' \in Nat /\ done' \in Nat /\ result' \in {"running", "true", "false"}
        /\ op' = op /\ start' = start /\ size' = size
        /\ result' = "true" => done' = size'
    BY <1>1, ControlType
  <1>4. Held(done) /\ EndsWell(done) /\ done \in 0 .. size
    BY <1>1 DEF DataInv
  <1>5. Merged \in [Offsets -> ByteValues]
    BY <1>1, <1>2, MergedType
  <1>6. device' \in [BlockNos -> [Offsets -> ByteValues]] /\ buffer' \in [Offsets -> ByteValues \cup {NoByte}]
    BY <1>2, <1>5, LeavesAssumption
  <1>7. TypeOK'
    BY <1>2, <1>3, <1>6 DEF TypeOK
  <1>8. \E n \in 0 .. size' : Held(n)' /\ EndsWell(n)' /\ (result' # "false" => n = done')
    <2>1. CASE device' = [device EXCEPT ![start_block] = Merged] /\ (Advance(Piece) \/ Fail)
      <3>1. PICK n \in 0 .. size : n = done + Piece
        BY <1>1, <1>4, PieceFacts, LoopFacts
      <3>2. EndsWell(n)
        BY <1>1, <3>1, PieceEndsWell
      <3>3. Held(n)'
        <4>1. ASSUME NEW b \in BlockNos, NEW i \in Offsets
              PROVE  device'[b][i] =
                        IF OldByte(b, i) >= start /\ OldByte(b, i) < start + (done + Piece)
                        THEN FromByte(OldByte(b, i) - start) ELSE OldByte(b, i)
          BY <2>1, <1>1, <1>2, <1>4, MergedHolds
        <4> QED BY <4>1, <3>1, <1>3 DEF Held
      <3>4. result' # "false" => done' = n
        BY <2>1, <3>1 DEF Advance, Fail
      <3> QED BY <3>1, <3>2, <3>3, <3>4, <1>3 DEF EndsWell
    <2>2. CASE Fail /\ UNCHANGED device
      <3>1. PICK n \in 0 .. size : n = done
        BY <1>4
      <3>2. Held(n)' /\ EndsWell(n)'
        BY <2>2, <3>1, <1>3, <1>4 DEF Held, EndsWell
      <3>3. result' = "false"
        BY <2>2 DEF Fail
      <3> QED BY <3>1, <3>2, <3>3, <1>3
    <2> QED BY <2>1, <2>2
  <1>9. op' = "write"
    BY <1>1, <1>3
  <1>10. \A i \in 0 .. DeviceSize-1 : ReadSoFar(i)'
    BY <1>1, <1>9 DEF DataInv, ReadSoFar, Scribbled
  <1> QED BY <1>3, <1>7, <1>8, <1>9, <1>10 DEF DataInv

(* Every iteration moves the bytes it should. *)
LEMMA NextData == LoopIndInv /\ LoopIndInv' /\ DataInv /\ [Next]_vars => DataInv'
  <1> SUFFICES ASSUME LoopIndInv, LoopIndInv', DataInv, [Next]_vars PROVE DataInv'
    OBVIOUS
  <1> USE SizeAssumption
  <1>0. /\ buffer \in [Offsets -> ByteValues \cup {NoByte}]
        /\ into \in [0 .. DeviceSize-1 -> ByteValues \cup {NoByte}]
        /\ device \in [BlockNos -> [Offsets -> ByteValues]]
    BY DEF DataInv, TypeOK
  <1>1. CASE ReadBuffered
    <2>1. Running("read") /\ result = "running" /\ device' = device
      BY <1>1 DEF ReadBuffered, Running
    <2>2. BytesToTake = Piece /\ start_block \in BlockNos
      BY <2>1, PieceFacts, LoopFacts DEF BytesToTake
    <2>3. buffer' \in [Offsets -> ByteValues \cup {NoByte}]
      BY <1>0, <1>1, <2>2, LeavesAssumption DEF ReadBuffered
    <2> QED BY <1>0, <1>1, <2>1, <2>2, <2>3, ReadData DEF ReadBuffered
  <1>2. CASE ReadWhole
    <2>1. Running("read") /\ result = "running" /\ device' = device /\ buffer' = buffer
      BY <1>2 DEF ReadWhole, Running
    <2>2. start_block # end_block /\ skip_bytes = 0 /\ Piece = BlockSize
      BY <1>2, <2>1, PieceFacts, LoopFacts DEF ReadWhole, ReadThroughBuffer
    <2>3. CASE into' = Copied(into, done, device[start_block], 0, BlockSize) /\ Advance(BlockSize)
      BY <1>0, <2>1, <2>2, <2>3, ReadData
    <2>4. CASE Fail /\ into' = into
      BY <1>0, <2>1, <2>4, ReadData
    <2>5. ASSUME NEW x \in Leaves, Fail, into' = LeftInto(x) PROVE DataInv'
      <3>1. /\ into' \in [0 .. DeviceSize-1 -> ByteValues \cup {NoByte}]
            /\ \A i \in 0 .. DeviceSize-1 :
                  into'[i] = into[i] \/ (done <= i /\ i < done + BlockSize /\ i < size)
        BY <1>0, <2>1, <2>2, <2>5, ScribbleHolds
      <3> QED BY <1>0, <2>1, <2>5, <3>1, ReadData
    <2> QED BY <1>2, <2>3, <2>4, <2>5 DEF ReadWhole
  <1>3. CASE WriteBuffered
    BY <1>3, WriteData DEF WriteBuffered
  <1>4. CASE WriteWhole
    <2>1. Running("write") /\ result = "running" /\ into' = into /\ buffer' = buffer
      BY <1>4 DEF WriteWhole, Running
    <2>2. skip_bytes = 0 /\ Piece = BlockSize
      BY <1>4, <2>1, PieceFacts, LoopFacts DEF WriteWhole, WriteThroughBuffer
    <2>3. Merged = [i \in Offsets |-> FromByte(done + i)]
      <3>1. \A i \in Offsets : i >= skip_bytes /\ i < skip_bytes + Piece /\ i - skip_bytes = i
        BY <2>2 DEF Offsets
      <3> QED BY <3>1 DEF Merged
    <2>4. \/ /\ device' = [device EXCEPT ![start_block] = Merged]
             /\ Advance(Piece) \/ Fail
          \/ Fail /\ UNCHANGED device
      BY <1>4, <2>2, <2>3 DEF WriteWhole
    <2> QED BY <2>1, <2>4, WriteData
  <1>5. CASE UNCHANGED vars
    BY <1>5 DEF vars, DataInv, TypeOK, Held, EndsWell, ReadSoFar, Scribbled
  <1> QED BY <1>1, <1>2, <1>3, <1>4, <1>5 DEF Next

(* The invariant about the bytes, for every block size, start and length. *)
THEOREM BytesInvariant == Spec => []DataInv
  BY InitLoop, NextLoop, InitData, NextData, PTL DEF Spec

(* The state stays within its types. *)
THEOREM BytesTypeOK == Spec => []TypeOK
  <1>1. DataInv => TypeOK
    BY DEF DataInv
  <1> QED BY <1>1, BytesInvariant, PTL

(***************************************************************************)
(* A read that returns true has read the range; one that returns false has *)
(* changed nothing outside the range.                                      *)
(***************************************************************************)
THEOREM BytesReadIsExact == Spec => []ReadIsExact
  <1>1. DataInv /\ LoopIndInv => ReadIsExact
    <2> SUFFICES ASSUME DataInv, LoopIndInv, op = "read", NEW i \in 0 .. DeviceSize-1
                 PROVE  /\ result = "true" /\ i < size => into[i] = start + i
                        /\ i >= size => into[i] = NoByte
      BY DEF ReadIsExact
    <2>1. /\ DeviceSize \in Nat /\ done \in Nat /\ size \in Nat /\ len \in Nat
          /\ done + len = size
      BY SizeAssumption DEF DeviceSize, LoopIndInv, LoopTypeOK, LoopInvariant
    <2> QED BY <2>1 DEF DataInv, ReadSoFar, Scribbled
  <1>2. Spec => []LoopIndInv
    BY InitLoop, NextLoop, PTL DEF Spec
  <1> QED BY <1>1, <1>2, BytesInvariant, PTL

(***************************************************************************)
(* A write has written a beginning of its range and all of it if it        *)
(* returns true; no byte outside the range ever changes.                   *)
(***************************************************************************)
THEOREM BytesWritesAPrefix == Spec => []WritesAPrefix
  <1> USE SizeAssumption
  <1>1. DataInv => WritesAPrefix
    <2> SUFFICES ASSUME DataInv PROVE WritesAPrefix
      OBVIOUS
    <2>1. PICK n \in 0 .. size : Held(n) /\ EndsWell(n) /\ (op = "read" => n = 0)
                                 /\ (op = "write" /\ result # "false" => n = done)
      BY DEF DataInv
    <2>2. ASSUME NEW a \in 0 .. DeviceSize-1
          PROVE  ByteAt(a) = IF a >= start /\ a < start + n THEN FromByte(a - start) ELSE a
      <3> DEFINE b == a \div BlockSize
                 i == a % BlockSize
      <3>1. DeviceSize = BlockCount * BlockSize /\ DeviceSize \in Nat
        BY DEF DeviceSize
      <3>2. a \in Nat /\ a < BlockCount * BlockSize
        BY <3>1
      <3>3. a = BlockSize * b + i /\ b \in Nat /\ i \in 0 .. BlockSize-1
        BY <3>2
      <3>4. BlockSize * b = b * BlockSize /\ b * BlockSize \in Nat
        BY <3>3
      <3> HIDE DEF b, i
      <3>5. b < BlockCount
        <4>1. b * BlockSize < BlockCount * BlockSize
          BY <3>2, <3>3, <3>4
        <4> QED BY <4>1, <3>3, BlockOrder
      <3>6. b \in BlockNos /\ i \in Offsets /\ OldByte(b, i) = a
        BY <3>3, <3>4, <3>5 DEF BlockNos, Offsets, OldByte
      <3>7. ByteAt(a) = device[b][i]
        BY DEF ByteAt, b, i
      <3> QED BY <3>6, <3>7, <2>1 DEF Held
    <2>3. n \in 0 .. IF op = "write" THEN size ELSE 0
      <3>1. op \in {"read", "write"}
        BY DEF DataInv, TypeOK
      <3> QED BY <2>1, <3>1
    <2>4. op = "write" /\ result = "true" => n = size
      BY <2>1 DEF DataInv
    <2> QED BY <2>1, <2>2, <2>3, <2>4 DEF WritesAPrefix
  <1> QED BY <1>1, BytesInvariant, PTL
=============================================================================
