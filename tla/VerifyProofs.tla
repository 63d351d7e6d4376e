--------------------------- MODULE VerifyProofs ---------------------------
(***************************************************************************)
(* Proofs about Verify, for every geometry, every crc function and every   *)
(* combination of failures of the device below.                            *)
(***************************************************************************)
EXTENDS Verify, TLAPS

H == HashesPerBlock

(* The defining equation of quotient and remainder. *)
LEMMA DivMod ==
    ASSUME NEW x \in Nat, NEW m \in Nat \ {0}
    PROVE  /\ x \div m \in Nat
           /\ x % m \in 0 .. m-1
           /\ x = m * (x \div m) + (x % m)
OBVIOUS

(* Quotient and remainder are unique. *)
LEMMA DivModUnique ==
    ASSUME NEW q \in Nat, NEW r \in Nat, NEW k \in Nat, NEW j \in Nat,
           NEW m \in Nat \ {0}, r < m, j < m, m * q + r = m * k + j
    PROVE  q = k /\ r = j
<1>1. ASSUME q < k PROVE FALSE
  <2>1. m * (q + 1) <= m * k
    BY <1>1
  <2>2. m * (q + 1) = m * q + m
    OBVIOUS
  <2> QED BY <2>1, <2>2
<1>2. ASSUME k < q PROVE FALSE
  <2>1. m * (k + 1) <= m * q
    BY <1>2
  <2>2. m * (k + 1) = m * k + m
    OBVIOUS
  <2> QED BY <2>1, <2>2
<1>3. q = k
  BY <1>1, <1>2
<1> QED BY <1>3

LEMMA OneMore ==
    ASSUME NEW m \in Nat, NEW q \in Nat
    PROVE  (m + 1) * q = m * q + q /\ q * (m + 1) = (m + 1) * q
OBVIOUS

(* Where the blocks of a chunk lie, in terms of quotient and remainder. *)
LEMMA Parts ==
    ASSUME NEW b \in Nat
    PROVE  /\ ChunkOf(b) \in Nat
           /\ InteriorOffset(b) \in Offsets
           /\ b = H * ChunkOf(b) + InteriorOffset(b)
           /\ HashAddress(b) = (H + 1) * ChunkOf(b)
           /\ DataAddress(b) = (H + 1) * ChunkOf(b) + (InteriorOffset(b) + 1)
<1>1. H \in Nat \ {0}
  BY GeometryAssumption DEF H
<1>2. /\ b \div H \in Nat
      /\ b % H \in 0 .. H-1
      /\ b = H * (b \div H) + (b % H)
  BY <1>1, DivMod
<1>3. /\ ChunkOf(b) = b \div H /\ InteriorOffset(b) = b % H
      /\ HashAddress(b) = ChunkOf(b) * (H + 1)
      /\ DataAddress(b) = b + ChunkOf(b) + 1
      /\ Offsets = 0 .. H-1
  BY DEF ChunkOf, InteriorOffset, HashAddress, DataAddress, H, Offsets
<1> DEFINE q == b \div H
           r == b % H
<1> HIDE DEF q, r
<1>4. /\ q \in Nat /\ r \in 0 .. H-1 /\ b = H * q + r
      /\ ChunkOf(b) = q /\ InteriorOffset(b) = r
  BY <1>2, <1>3 DEF q, r
<1>5. (H + 1) * q = H * q + q /\ q * (H + 1) = (H + 1) * q
  BY <1>1, <1>4, OneMore
<1>6. H * q \in Nat /\ (H + 1) * q \in Nat
  BY <1>1, <1>4
<1>7. HashAddress(b) = (H + 1) * q
  BY <1>3, <1>4, <1>5
<1>8. DataAddress(b) = (H + 1) * q + (r + 1)
  <2> DEFINE hq == H * q
             more == (H + 1) * q
  <2>1. /\ hq \in Nat /\ more = hq + q /\ b = hq + r
        /\ DataAddress(b) = b + q + 1
    BY <1>3, <1>4, <1>5, <1>6
  <2>2. r \in Nat
    BY <1>1, <1>4
  <2> HIDE DEF hq, more
  <2>3. DataAddress(b) = more + (r + 1)
    BY <2>1, <2>2, <1>4
  <2> QED BY <2>3 DEF more
<1> QED BY <1>3, <1>4, <1>7, <1>8

(* No data block lies on a hash block, and no two blocks on one place. *)
LEMMA LayoutIsDisjoint ==
    ASSUME NEW b \in Nat, NEW c \in Nat
    PROVE  /\ DataAddress(b) # HashAddress(c)
           /\ HashAddress(b) = HashAddress(c) => ChunkOf(b) = ChunkOf(c)
           /\ DataAddress(b) = DataAddress(c) => b = c
           /\ (ChunkOf(b) = ChunkOf(c) /\ b # c) =>
                  InteriorOffset(b) # InteriorOffset(c)
           /\ ChunkOf(b) = ChunkOf(c) => HashAddress(b) = HashAddress(c)
<1> DEFINE q == ChunkOf(b)
           r == InteriorOffset(b)
           k == ChunkOf(c)
           j == InteriorOffset(c)
           m == H + 1
<1>1. H \in Nat \ {0} /\ m \in Nat \ {0}
  BY GeometryAssumption DEF H
<1>2. /\ q \in Nat /\ r \in Nat /\ r + 1 < m /\ b = H * q + r
      /\ k \in Nat /\ j \in Nat /\ j + 1 < m /\ c = H * k + j
  BY <1>1, Parts DEF Offsets, H
<1>3. /\ HashAddress(b) = m * q + 0 /\ DataAddress(b) = m * q + (r + 1)
      /\ HashAddress(c) = m * k + 0 /\ DataAddress(c) = m * k + (j + 1)
  BY <1>1, <1>2, Parts
<1> HIDE DEF q, r, k, j, m
<1>4. DataAddress(b) # HashAddress(c)
  <2> SUFFICES ASSUME m * q + (r + 1) = m * k + 0 PROVE FALSE
    BY <1>3
  <2>1. r + 1 = 0
    BY <1>1, <1>2, DivModUnique
  <2> QED BY <2>1, <1>2
<1>5. HashAddress(b) = HashAddress(c) => q = k
  <2> SUFFICES ASSUME m * q + 0 = m * k + 0 PROVE q = k
    BY <1>3
  <2> QED BY <1>1, <1>2, DivModUnique
<1>6. DataAddress(b) = DataAddress(c) => b = c
  <2> SUFFICES ASSUME m * q + (r + 1) = m * k + (j + 1) PROVE b = c
    BY <1>3
  <2>1. q = k /\ r + 1 = j + 1
    BY <1>1, <1>2, DivModUnique
  <2> QED BY <2>1, <1>2
<1>7. q = k /\ b # c => r # j
  BY <1>2
<1> QED BY <1>3, <1>4, <1>5, <1>6, <1>7 DEF q, k, r, j

(* The device is large enough for all its blocks. *)
LEMMA LayoutFits ==
    ASSUME NEW b \in Blocks
    PROVE  b \in Nat /\ DataAddress(b) \in Addresses /\ HashAddress(b) \in Addresses
<1> DEFINE m == H + 1
           K == BaseBlocks \div m
           J == BaseBlocks % m
           q == ChunkOf(b)
           r == InteriorOffset(b)
<1>1. H \in Nat \ {0} /\ m \in Nat \ {0} /\ BaseBlocks \in Nat
  BY GeometryAssumption DEF H
<1>2. K \in Nat /\ J \in 0 .. m-1 /\ BaseBlocks = m * K + J
  BY <1>1, DivMod
<1>3. HashBlockCount = (BaseBlocks + H) \div m
  <2>1. 1 + H = m
    BY <1>1
  <2> QED BY <2>1 DEF HashBlockCount, H
<1> HIDE DEF K, J
<1>4. HashBlockCount = IF J = 0 THEN K ELSE K + 1
  <2> DEFINE A == BaseBlocks + H
  <2>1. A \in Nat /\ A \div m \in Nat /\ A % m \in 0 .. m-1 /\ A = m * (A \div m) + (A % m)
    <3>1. A \in Nat
      BY <1>1
    <3> HIDE DEF A, m
    <3> QED BY <3>1, <1>1, DivMod
  <2>2. CASE J = 0
    <3>1. A = m * K + H
      BY <2>2, <1>1, <1>2
    <3>2. A \div m = K
      <4> DEFINE x == A \div m
                 y == A % m
      <4>1. x \in Nat /\ y \in Nat /\ y < m /\ H < m /\ m * x + y = m * K + H
        BY <2>1, <3>1, <1>1
      <4> HIDE DEF x, y, m
      <4>2. x = K
        BY <4>1, <1>1, <1>2, DivModUnique
      <4> QED BY <4>2 DEF x
    <3> QED BY <2>2, <3>2, <1>3
  <2>3. CASE J # 0
    <3>1. A = m * (K + 1) + (J - 1)
      <4>1. m * (K + 1) = m * K + m
        BY <1>1, <1>2
      <4> QED BY <4>1, <1>1, <1>2
    <3>2. A \div m = K + 1
      <4> DEFINE x == A \div m
                 y == A % m
                 w == J - 1
                 k == K + 1
      <4>1. /\ x \in Nat /\ y \in Nat /\ y < m /\ w \in Nat /\ w < m /\ k \in Nat
            /\ m * x + y = m * k + w
        BY <2>1, <2>3, <3>1, <1>1, <1>2
      <4> HIDE DEF x, y, w, k, m
      <4>2. x = k
        BY <4>1, <1>1, DivModUnique
      <4> QED BY <4>2 DEF x, k
    <3> QED BY <2>3, <3>2, <1>3
  <2> QED BY <2>2, <2>3
<1>5. /\ b \in Nat
      /\ b < H * K + (IF J = 0 THEN 0 ELSE J - 1)
  <2>1. m * K = H * K + K /\ HashBlockCount \in Nat
    BY <1>1, <1>2, <1>4
  <2>2. b \in Int /\ 0 <= b /\ b <= DataBlockCount - 1
    <3>1. DataBlockCount \in Int
      BY <1>1, <2>1 DEF DataBlockCount
    <3> QED BY <3>1 DEF Blocks
  <2> HIDE DEF m
  <2> QED BY <2>1, <2>2, <1>1, <1>2, <1>4 DEF DataBlockCount
<1>6. /\ q \in Nat /\ r \in 0 .. H-1 /\ b = H * q + r
      /\ HashAddress(b) = m * q
      /\ DataAddress(b) = m * q + (r + 1)
  BY <1>1, <1>5, Parts DEF Offsets, H
<1> HIDE DEF q, r
<1>7. m * q + (r + 1) < m * K + J
  <2>1. CASE q < K
    <3>1. m * (q + 1) <= m * K
      BY <2>1, <1>1, <1>2, <1>6
    <3>2. m * (q + 1) = m * q + m
      BY <1>1, <1>6
    <3> QED BY <3>1, <3>2, <1>1, <1>2, <1>6
  <2>2. CASE q = K
    BY <2>2, <1>1, <1>2, <1>5, <1>6
  <2>3. CASE q > K
    <3>1. H * (K + 1) <= H * q
      BY <2>3, <1>1, <1>2, <1>6
    <3>2. H * (K + 1) = H * K + H
      BY <1>1, <1>2
    <3> QED BY <3>1, <3>2, <1>1, <1>2, <1>5, <1>6
  <2> QED BY <2>1, <2>2, <2>3, <1>2, <1>6
<1>8. m * q \in Nat
  BY <1>1, <1>6
<1> HIDE DEF m
<1> QED BY <1>1, <1>2, <1>5, <1>6, <1>7, <1>8 DEF Addresses

(* The number of hash blocks is BaseBlocks/(H+1), rounded up. *)
LEMMA Rounding ==
    /\ H \in Nat \ {0} /\ HashBlockCount \in Nat
    /\ BaseBlocks <= (H + 1) * HashBlockCount
    /\ (H + 1) * HashBlockCount <= BaseBlocks + H
<1> DEFINE A == BaseBlocks + H
           m == H + 1
           q == A \div m
           r == A % m
<1>1. H \in Nat \ {0} /\ m \in Nat \ {0} /\ A \in Nat /\ BaseBlocks \in Nat
  BY GeometryAssumption DEF H
<1>2. HashBlockCount = q
  <2>1. 1 + H = H + 1
    BY <1>1
  <2> QED BY <2>1 DEF HashBlockCount, H
<1> HIDE DEF A, m
<1>3. q \in Nat /\ r \in 0 .. m-1 /\ A = m * q + r
  BY <1>1, DivMod
<1> HIDE DEF q, r
<1>4. m * q \in Nat
  BY <1>1, <1>3
<1>5. BaseBlocks <= m * q /\ m * q <= BaseBlocks + H
  BY <1>1, <1>3, <1>4 DEF A, m
<1> QED BY <1>1, <1>2, <1>3, <1>5 DEF m

(* Every place for a crc lies in a hash block of the device. *)
LEMMA SlotsFit ==
    ASSUME NEW s \in Slots
    PROVE  /\ s \in Nat /\ ChunkOf(s) \in Nat /\ ChunkOf(s) < HashBlockCount
           /\ InteriorOffset(s) \in Offsets
           /\ HashAddress(s) \in Addresses
<1> DEFINE q == ChunkOf(s)
           r == InteriorOffset(s)
           n == HashBlockCount
           m == H + 1
<1>1. H \in Nat \ {0} /\ n \in Nat /\ m \in Nat \ {0} /\ BaseBlocks \in Nat
  BY Rounding, GeometryAssumption
<1>2. s \in Nat /\ s < n * H
  <2>1. n * H \in Nat
    BY <1>1
  <2> QED BY <2>1 DEF Slots, H
<1>3. q \in Nat /\ r \in 0 .. H-1 /\ s = H * q + r /\ HashAddress(s) = m * q
  BY <1>2, Parts DEF Offsets, H
<1> HIDE DEF q, r, n, m
<1>4. q < n
  <2> SUFFICES ASSUME n <= q PROVE FALSE
    BY <1>1, <1>3
  <2>1. H * n <= H * q /\ H * n = n * H /\ H * q \in Nat /\ H * n \in Nat
    BY <1>1, <1>3
  <2> QED BY <2>1, <1>1, <1>2, <1>3
<1>5. m * q \in Nat /\ m * q < BaseBlocks
  <2>1. m * (q + 1) <= m * n
    BY <1>1, <1>3, <1>4
  <2>2. m * (q + 1) = m * q + m /\ m * q \in Nat /\ m * n \in Nat
    BY <1>1, <1>3
  <2>3. m * n <= BaseBlocks + H
    BY Rounding DEF m, n
  <2>4. m = H + 1
    BY DEF m
  <2> QED BY <2>1, <2>2, <2>3, <2>4, <1>1
<1>6. HashAddress(s) \in Addresses
  BY <1>1, <1>3, <1>5 DEF Addresses
<1> QED BY <1>2, <1>3, <1>4, <1>6 DEF q, r, n, Offsets, H

(* The place of a chunk at an offset has that chunk and that offset. *)
LEMMA SlotAtOffset ==
    ASSUME NEW s \in Slots, NEW i \in Offsets
    PROVE  /\ SlotAt(s, i) \in Slots
           /\ InteriorOffset(SlotAt(s, i)) = i
           /\ HashAddress(SlotAt(s, i)) = HashAddress(s)
<1> DEFINE q == ChunkOf(s)
           t == SlotAt(s, i)
           k == ChunkOf(t)
           j == InteriorOffset(t)
           n == HashBlockCount
<1>1. H \in Nat \ {0} /\ n \in Nat /\ q \in Nat /\ q < n /\ s \in Nat
  BY Rounding, SlotsFit
<1>2. i \in Nat /\ i < H
  BY <1>1 DEF Offsets, H
<1>3. t = q * H + i /\ q * H = H * q /\ H * q \in Nat
  BY <1>1 DEF SlotAt, H
<1>4. t \in Nat /\ t = H * q + i
  BY <1>2, <1>3
<1>5. k \in Nat /\ j \in Nat /\ j < H /\ t = H * k + j
  <2>1. t \in Nat
    BY <1>4
  <2> HIDE DEF t
  <2>2. k \in Nat /\ j \in Offsets /\ t = H * k + j
    BY <2>1, Parts
  <2>3. Offsets = 0 .. H-1
    BY DEF Offsets, H
  <2> HIDE DEF k, j
  <2> QED BY <2>2, <2>3, <1>1
<1> HIDE DEF q, t, k, j, n
<1>6. k = q /\ j = i
  BY <1>1, <1>2, <1>4, <1>5, DivModUnique
<1>7. t < n * H
  <2>1. H * (q + 1) <= H * n
    BY <1>1
  <2>2. H * (q + 1) = H * q + H /\ H * n = n * H /\ n * H \in Nat /\ H * q \in Nat
    BY <1>1
  <2> QED BY <2>1, <2>2, <1>1, <1>2, <1>4
<1>8. t \in Slots
  <2>1. n * H \in Nat
    BY <1>1
  <2> QED BY <2>1, <1>4, <1>7 DEF Slots, n, H
<1>9. HashAddress(t) = HashAddress(s)
  BY <1>4, <1>6, <1>1, LayoutIsDisjoint DEF k, q
<1> QED BY <1>6, <1>8, <1>9 DEF t, j

(* Every block has a place for its crc. *)
LEMMA BlocksAreSlots == Blocks \subseteq Slots
<1> DEFINE n == HashBlockCount
<1>1. H \in Nat \ {0} /\ n \in Nat /\ BaseBlocks \in Nat
  BY Rounding, GeometryAssumption
<1>2. BaseBlocks <= (H + 1) * n
  BY Rounding
<1> HIDE DEF n
<1>3. (H + 1) * n = H * n + n /\ H * n = n * H /\ n * H \in Nat
  BY <1>1
<1>4. BaseBlocks - n <= n * H /\ BaseBlocks - n \in Int
  BY <1>1, <1>2, <1>3
<1>5. ASSUME NEW b \in 0 .. BaseBlocks - n - 1 PROVE b \in 0 .. n * H - 1
  BY <1>1, <1>3, <1>4
<1> QED BY <1>5 DEF Blocks, DataBlockCount, Slots, n, H

-----------------------------------------------------------------------------
(***************************************************************************)
(* The inductive invariant: every crc on the device is damaged or that of  *)
(* a block which Stored names, and every crc in the cached hash block is   *)
(* that or the crc of a guest.                                             *)
(***************************************************************************)
CrcsOf(S) == {StoredCrc(v) : v \in S} \cup {DamagedWord}

StoredCrcsExpected ==
    \A s \in Slots :
        AsHashes(disk[HashAddress(s)])[InteriorOffset(s)] \in CrcsOf(Stored(s))
CachedCrcsExpected ==
    \A s \in Slots : which_hash_block = HashAddress(s) =>
        hash_block[InteriorOffset(s)]
            \in CrcsOf(Stored(s) \cup guests[InteriorOffset(s)])

IndInv ==
    /\ TypeOK
    /\ StoredCrcsExpected
    /\ CachedCrcsExpected
    /\ ReadsPassTheCheck

(***************************************************************************)
(* Facts about words and images.                                           *)
(***************************************************************************)
(* What is stored in a hash block is a hash block. *)
LEMMA WordFacts ==
    /\ \A v \in DataImages : StoredCrc(v) \in Words
    /\ \A v \in DataImages : WordXor(StoredCrc(v), Crc(Zero)) = Crc(v)
    /\ WordXor(ZeroWord, Crc(Zero)) = Crc(Zero)
    /\ ZeroHashes \in HashBlocks /\ DamagedHashes \in HashBlocks
    /\ Zero \in DataImages
BY WordAssumption, ValuesAssumption
   DEF StoredCrc, ZeroHashes, DamagedHashes, HashBlocks, DataImages

(* What is stored on the device is an image of a block. *)
LEMMA ImageFacts ==
    ASSUME NEW x \in DataImages \cup HashBlocks
    PROVE  /\ AsHashes(x) \in HashBlocks
           /\ AsData(x) \in DataImages
           /\ x \in HashBlocks => AsHashes(x) = x
BY WordFacts, ValuesAssumption DEF AsHashes, AsData, DataImages

(* A zero word is the crc of the zero block, as it is stored. *)
LEMMA ZeroWordIsZeroCrc == ZeroWord = StoredCrc(Zero)
<1>1. Crc(Zero) \in Words /\ ZeroWord \in Words
  BY WordAssumption, WordFacts
<1>2. WordXor(ZeroWord, Crc(Zero)) = Crc(Zero)
  BY WordFacts
<1>3. WordXor(WordXor(ZeroWord, Crc(Zero)), Crc(Zero)) = ZeroWord
  BY <1>1, WordAssumption
<1> QED BY <1>2, <1>3 DEF StoredCrc

(* The more blocks, the more crcs. *)
LEMMA MoreCrcs ==
    ASSUME NEW S, NEW T, S \subseteq T
    PROVE  CrcsOf(S) \subseteq CrcsOf(T)
BY DEF CrcsOf

(* Updating the hash of one block leaves those of its neighbours alone. *)
LEMMA UpdateOneHash ==
    ASSUME NEW h \in HashBlocks, NEW w \in Slots, NEW v \in Values
    PROVE  LET new == [h EXCEPT ![InteriorOffset(w)] = StoredCrc(v)]
           IN  /\ new \in HashBlocks
               /\ new[InteriorOffset(w)] = StoredCrc(v)
               /\ \A s \in Slots : HashAddress(s) = HashAddress(w) /\ s # w =>
                      new[InteriorOffset(s)] = h[InteriorOffset(s)]
<1> DEFINE new == [h EXCEPT ![InteriorOffset(w)] = StoredCrc(v)]
<1>1. InteriorOffset(w) \in Offsets /\ w \in Nat
  BY SlotsFit
<1>2. new \in HashBlocks /\ new[InteriorOffset(w)] = StoredCrc(v)
  BY <1>1, WordFacts DEF HashBlocks, DataImages
<1>3. ASSUME NEW s \in Slots, HashAddress(s) = HashAddress(w), s # w
      PROVE  new[InteriorOffset(s)] = h[InteriorOffset(s)]
  <2>1. s \in Nat /\ InteriorOffset(s) # InteriorOffset(w) /\ InteriorOffset(s) \in Offsets
    BY <1>1, <1>3, SlotsFit, LayoutIsDisjoint
  <2> QED BY <2>1, <1>1 DEF HashBlocks
<1> QED BY <1>2, <1>3

(* verify_create over a zeroed device establishes the invariant. *)
LEMMA InitIndInv == Init => IndInv
<1> SUFFICES ASSUME Init PROVE IndInv
  OBVIOUS
<1>1. TypeOK
  <2>1. NoGuests \in [Offsets -> SUBSET Values]
    BY DEF NoGuests
  <2>2. other \in [Slots -> SUBSET Values] /\ may \in [Blocks -> SUBSET Values]
    BY ValuesAssumption DEF Init
  <2> QED BY <2>1, <2>2, WordFacts, ValuesAssumption DEF Init, TypeOK, DataImages
<1>2. ASSUME NEW s \in Slots
      PROVE  AsHashes(disk[HashAddress(s)])[InteriorOffset(s)] \in CrcsOf(Stored(s))
  <2>1. HashAddress(s) \in Addresses /\ InteriorOffset(s) \in Offsets
    BY SlotsFit
  <2>2. AsHashes(disk[HashAddress(s)]) = ZeroHashes
    BY <2>1, ValuesAssumption DEF Init, AsHashes, DataImages
  <2>3. Zero \in Stored(s)
    BY DEF Init, Stored
  <2> QED BY <2>1, <2>2, <2>3, ZeroWordIsZeroCrc DEF CrcsOf, ZeroHashes
<1>3. ASSUME NEW s \in Slots PROVE which_hash_block # HashAddress(s)
  BY SlotsFit, SentinelAssumption DEF Init
<1> QED
  BY <1>1, <1>2, <1>3
     DEF IndInv, StoredCrcsExpected, CachedCrcsExpected, ReadsPassTheCheck, Init

(* The words of the hash block a call works with, before it changes them. *)
LEMMA WordsRead ==
    ASSUME IndInv, NEW w \in Blocks, NEW s \in Slots, HashAddress(s) = HashAddress(w)
    PROVE  HashesRead(w)[InteriorOffset(s)]
               \in CrcsOf(Stored(s) \cup IF which_hash_block = HashAddress(w)
                                         THEN guests[InteriorOffset(s)] ELSE {})
<1>1. CASE which_hash_block = HashAddress(w)
  BY <1>1 DEF HashesRead, IndInv, CachedCrcsExpected
<1>2. CASE which_hash_block # HashAddress(w)
  <2>1. Stored(s) \cup {} = Stored(s)
    OBVIOUS
  <2> QED BY <1>2, <2>1 DEF HashesRead, IndInv, StoredCrcsExpected
<1> QED BY <1>1, <1>2

(* A hash block, whether the cached one or the one read, is one. *)
LEMMA HashesReadType ==
    ASSUME TypeOK, NEW w \in Blocks
    PROVE  HashesRead(w) \in HashBlocks
BY LayoutFits, ImageFacts DEF TypeOK, HashesRead

(* verify_read_block, when the hash block could not be read. *)
LEMMA ReadFailedStep ==
    ASSUME IndInv, NEW w \in Blocks, ReadFailed(w), UNCHANGED <<disk, other, intact, may>>
    PROVE  IndInv'
<1>1. PICK left \in [Offsets -> ReadLeaves] :
          /\ hash_block' = [i \in Offsets |->
                              CASE left[i] = "kept"   -> hash_block[i]
                                [] left[i] = "filled" -> AsHashes(disk[HashAddress(w)])[i]
                                [] left[i] = "damaged" -> DamagedWord]
          /\ stray' = (stray \/ \E i \in Offsets : left[i] # "kept")
          /\ guests' = [i \in Offsets |-> IF left[i] = "filled"
                                          THEN Stored(SlotAt(w, i)) ELSE guests[i]]
  BY DEF ReadFailed
<1>2. w \in Slots /\ HashAddress(w) \in Addresses
  BY BlocksAreSlots, LayoutFits
<1>3. AsHashes(disk[HashAddress(w)]) \in HashBlocks
  BY <1>2, ImageFacts DEF IndInv, TypeOK
<1>4. \A i \in Offsets : left[i] \in {"kept", "filled", "damaged"}
  BY ValuesAssumption
<1>5. ASSUME NEW i \in Offsets
      PROVE  /\ hash_block'[i] \in Words
             /\ guests'[i] \in SUBSET Values
             /\ \/ hash_block'[i] = hash_block[i] /\ guests'[i] = guests[i]
                \/ /\ hash_block'[i] = AsHashes(disk[HashAddress(w)])[i]
                   /\ guests'[i] = Stored(SlotAt(w, i))
                \/ hash_block'[i] = DamagedWord
  <2>1. Stored(SlotAt(w, i)) \in SUBSET Values
    BY <1>2, SlotAtOffset DEF Stored, IndInv, TypeOK
  <2>2. hash_block[i] \in Words /\ AsHashes(disk[HashAddress(w)])[i] \in Words
    BY <1>3 DEF IndInv, TypeOK, HashBlocks
  <2>3. DamagedWord \in Words /\ guests[i] \in SUBSET Values
    BY WordAssumption DEF IndInv, TypeOK
  <2>4. guests'[i] = IF left[i] = "filled" THEN Stored(SlotAt(w, i)) ELSE guests[i]
    BY <1>1
  <2>5. CASE left[i] = "kept"
    BY <2>5, <2>2, <2>3, <2>4, <1>1
  <2>6. CASE left[i] = "filled"
    BY <2>6, <2>1, <2>2, <2>4, <1>1
  <2>7. CASE left[i] = "damaged"
    BY <2>7, <2>3, <2>4, <1>1
  <2> QED BY <1>4, <2>5, <2>6, <2>7
<1>6. hash_block' \in HashBlocks /\ guests' \in [Offsets -> SUBSET Values]
  <2> DEFINE F(i) == CASE left[i] = "kept"   -> hash_block[i]
                       [] left[i] = "filled" -> AsHashes(disk[HashAddress(w)])[i]
                       [] left[i] = "damaged" -> DamagedWord
             G(i) == IF left[i] = "filled" THEN Stored(SlotAt(w, i)) ELSE guests[i]
  <2>1. hash_block' = [i \in Offsets |-> F(i)] /\ guests' = [i \in Offsets |-> G(i)]
    BY <1>1
  <2> HIDE DEF F, G
  <2>2. \A i \in Offsets : F(i) = hash_block'[i] /\ G(i) = guests'[i]
    BY <2>1
  <2>3. \A i \in Offsets : F(i) \in Words /\ G(i) \in SUBSET Values
    BY <2>2, <1>5
  <2> QED BY <2>1, <2>3 DEF HashBlocks
<1>7. /\ stray' \in BOOLEAN /\ which_hash_block' = which_hash_block /\ reply' = NoReply
      /\ \A s \in Slots : Stored(s)' = Stored(s)
  BY <1>1 DEF ReadFailed, Stored, IndInv, TypeOK
<1>8. TypeOK'
  BY <1>6, <1>7 DEF IndInv, TypeOK
<1>9. StoredCrcsExpected'
  BY <1>7 DEF IndInv, StoredCrcsExpected
<1>10. CachedCrcsExpected'
  <2> SUFFICES ASSUME NEW s \in Slots, which_hash_block = HashAddress(s)
               PROVE  hash_block'[InteriorOffset(s)]
                          \in CrcsOf(Stored(s) \cup guests'[InteriorOffset(s)])
    BY <1>7 DEF CachedCrcsExpected
  <2> DEFINE i == InteriorOffset(s)
  <2>1. i \in Offsets
    BY SlotsFit
  <2> HIDE DEF i
  <2>2. CASE hash_block'[i] = hash_block[i] /\ guests'[i] = guests[i]
    BY <2>2 DEF IndInv, CachedCrcsExpected, i
  <2>3. CASE /\ hash_block'[i] = AsHashes(disk[HashAddress(w)])[i]
             /\ guests'[i] = Stored(SlotAt(w, i))
    <3>1. AsHashes(disk[HashAddress(w)])[i] \in CrcsOf(Stored(SlotAt(w, i)))
      <4> DEFINE t == SlotAt(w, i)
      <4>1. t \in Slots /\ InteriorOffset(t) = i /\ HashAddress(t) = HashAddress(w)
        BY <2>1, <1>2, SlotAtOffset
      <4> HIDE DEF t
      <4>2. AsHashes(disk[HashAddress(t)])[InteriorOffset(t)] \in CrcsOf(Stored(t))
        BY <4>1 DEF IndInv, StoredCrcsExpected
      <4> QED BY <4>1, <4>2 DEF t
    <3>2. CrcsOf(guests'[i]) \subseteq CrcsOf(Stored(s) \cup guests'[i])
      BY MoreCrcs
    <3> QED BY <2>3, <3>1, <3>2 DEF i
  <2>4. CASE hash_block'[i] = DamagedWord
    BY <2>4 DEF CrcsOf, i
  <2> QED BY <2>1, <2>2, <2>3, <2>4, <1>5
<1>11. ReadsPassTheCheck'
  BY <1>7 DEF ReadsPassTheCheck
<1> QED BY <1>8, <1>9, <1>10, <1>11 DEF IndInv

(* verify_read_block, with the hash block. *)
LEMMA ReadCheckedStep ==
    ASSUME IndInv, NEW w \in Blocks, NEW dread, ReadChecked(w, dread),
           UNCHANGED <<disk, other, intact, may>>
    PROVE  IndInv'
<1> DEFINE hashes == HashesRead(w)
           into == AsData(disk[DataAddress(w)])
           cached == which_hash_block = HashAddress(w)
<1>1. w \in Slots /\ HashAddress(w) \in Addresses /\ DataAddress(w) \in Addresses
  BY BlocksAreSlots, LayoutFits
<1>2. hashes \in HashBlocks /\ into \in DataImages
  BY <1>1, HashesReadType, ImageFacts DEF IndInv, TypeOK
<1>3. /\ hash_block' = hashes /\ which_hash_block' = HashAddress(w)
      /\ stray' \in BOOLEAN
      /\ guests' = IF cached THEN guests ELSE NoGuests
      /\ \A s \in Slots : Stored(s)' = Stored(s)
      /\ \/ reply' = NoReply
         \/ reply' = [at |-> w, val |-> into] /\ CrcIn(hashes, w) = Crc(into)
  BY DEF ReadChecked, PassesCheck, Stored, IndInv, TypeOK
<1> HIDE DEF hashes, into
<1>4. NoGuests \in [Offsets -> SUBSET Values]
  BY DEF NoGuests
<1>5. TypeOK'
  <2>1. guests' \in [Offsets -> SUBSET Values]
    BY <1>3, <1>4 DEF IndInv, TypeOK
  <2>2. reply' \in [at : Blocks, val : DataImages] \cup {NoReply}
    BY <1>2, <1>3
  <2> QED BY <2>1, <2>2, <1>1, <1>2, <1>3 DEF IndInv, TypeOK
<1>6. StoredCrcsExpected'
  BY <1>3 DEF IndInv, StoredCrcsExpected
<1>7. ASSUME NEW s \in Slots, HashAddress(s) = HashAddress(w)
      PROVE  hashes[InteriorOffset(s)] \in CrcsOf(Stored(s) \cup guests'[InteriorOffset(s)])
  <2>1. guests'[InteriorOffset(s)] = IF cached THEN guests[InteriorOffset(s)] ELSE {}
    BY <1>3, SlotsFit DEF NoGuests
  <2> QED BY <2>1, <1>7, WordsRead DEF hashes
<1>8. CachedCrcsExpected'
  BY <1>3, <1>7 DEF CachedCrcsExpected
<1>9. ReadsPassTheCheck'
  <2>1. CASE reply' = NoReply
    BY <2>1 DEF ReadsPassTheCheck
  <2>2. CASE reply' = [at |-> w, val |-> into] /\ CrcIn(hashes, w) = Crc(into)
    <3> DEFINE word == hashes[InteriorOffset(w)]
               seen == Stored(w) \cup guests'[InteriorOffset(w)]
    <3>1. word \in CrcsOf(seen)
      BY <1>1, <1>7
    <3>2. WordXor(word, Crc(Zero)) = Crc(into)
      BY <2>2 DEF CrcIn
    <3>3. word # DamagedWord
      BY <3>2, <1>2, DamageAssumption
    <3>4. PICK v \in seen : word = StoredCrc(v)
      BY <3>1, <3>3 DEF CrcsOf
    <3>5. Expected(w)' = seen
      BY <1>1, <1>3 DEF Expected
    <3>6. seen \subseteq Values
      <4>1. guests'[InteriorOffset(w)] \in SUBSET Values
        BY <1>1, <1>5, SlotsFit DEF TypeOK
      <4> QED BY <4>1, <1>1 DEF Stored, IndInv, TypeOK
    <3>7. Crc(v) = Crc(into)
      BY <3>2, <3>4, <3>6, WordFacts DEF DataImages
    <3> HIDE DEF seen
    <3>8. reply'.at = w /\ reply'.val = into
      BY <2>2
    <3> QED BY <3>4, <3>5, <3>7, <3>8 DEF ReadsPassTheCheck
  <2> QED BY <1>3, <2>1, <2>2
<1> QED BY <1>5, <1>6, <1>8, <1>9 DEF IndInv

(* verify_read_block preserves the invariant. *)
LEMMA ReadStep ==
    ASSUME IndInv, NEW w \in Blocks, ReadBlock(w)
    PROVE  IndInv'
<1>1. CASE ReadFailed(w)
  BY <1>1, ReadFailedStep DEF ReadBlock
<1>2. ASSUME NEW dread, ReadChecked(w, dread) PROVE IndInv'
  BY <1>2, ReadCheckedStep DEF ReadBlock
<1> QED BY <1>1, <1>2 DEF ReadBlock

(***************************************************************************)
(* What verify_write_block does to the device: only the hash block and the *)
(* data block change.                                                      *)
(***************************************************************************)
LEMMA DiskAfter ==
    ASSUME TypeOK, NEW w \in Blocks, NEW v \in Values, NEW hashes \in HashBlocks,
           NEW hwrite, NEW dwrite, hwrite \in {"ok", "old", "new", "torn"},
           dwrite \in {"ok", "old", "new", "torn"},
           disk' = DiskAfterWrite(w, v, hashes, hwrite, dwrite)
    PROVE  /\ disk' \in [Addresses -> DataImages \cup HashBlocks]
           /\ \A x \in Addresses : x # HashAddress(w) /\ x # DataAddress(w) =>
                  disk'[x] = disk[x]
           /\ hwrite = "old" => disk'[HashAddress(w)] = disk[HashAddress(w)]
           /\ hwrite = "torn" => disk'[HashAddress(w)] = DamagedHashes
           /\ hwrite \in {"ok", "new"} => disk'[HashAddress(w)] = hashes
           /\ hwrite = "ok" /\ dwrite = "ok" => disk'[DataAddress(w)] = v
<1> DEFINE ha == HashAddress(w)
           da == DataAddress(w)
           hd == [disk EXCEPT ![ha] = Written(disk[ha], hashes, DamagedHashes, hwrite)]
           x == Written(hd[da], v, Junk, dwrite)
<1>1. w \in Nat /\ ha \in Addresses /\ da \in Addresses /\ da # ha
  BY LayoutFits, LayoutIsDisjoint
<1>2. disk \in [Addresses -> DataImages \cup HashBlocks]
  BY DEF TypeOK
<1>3. v \in DataImages /\ Junk \in DataImages /\ DamagedHashes \in HashBlocks
  BY WordFacts DEF DataImages
<1>4. /\ hd \in [Addresses -> DataImages \cup HashBlocks]
      /\ \A y \in Addresses : y # ha => hd[y] = disk[y]
      /\ hd[ha] = Written(disk[ha], hashes, DamagedHashes, hwrite)
  BY <1>1, <1>2, <1>3 DEF Written
<1>5. /\ hwrite = "old" => hd[ha] = disk[ha]
      /\ hwrite = "torn" => hd[ha] = DamagedHashes
      /\ hwrite \in {"ok", "new"} => hd[ha] = hashes
  BY <1>4 DEF Written
<1>6. x \in DataImages \cup HashBlocks /\ (dwrite = "ok" => x = v)
  BY <1>1, <1>3, <1>4 DEF Written
<1>7. disk' = IF hwrite # "ok" THEN hd ELSE [hd EXCEPT ![da] = x]
  BY DEF DiskAfterWrite
<1> HIDE DEF hd, x, ha, da
<1>8. CASE hwrite # "ok"
  <2>1. disk' = hd
    BY <1>7, <1>8
  <2> QED BY <2>1, <1>4, <1>5, <1>8 DEF ha, da
<1>9. CASE hwrite = "ok"
  <2>1. disk' = [hd EXCEPT ![da] = x]
    BY <1>7, <1>9
  <2>2. /\ disk' \in [Addresses -> DataImages \cup HashBlocks]
        /\ disk'[da] = x /\ disk'[ha] = hd[ha]
        /\ \A y \in Addresses : y # da => disk'[y] = hd[y]
    BY <2>1, <1>1, <1>4, <1>6
  <2> QED BY <2>2, <1>4, <1>5, <1>6, <1>9 DEF ha, da
<1> QED BY <1>8, <1>9

(* verify_write_block preserves the invariant. *)
LEMMA WriteStep ==
    ASSUME IndInv, NEW w \in Blocks, NEW v \in Values, WriteBlock(w, v)
    PROVE  IndInv'
<1>1. PICK hread \in HashReadOutcomes(w), hwrite \in WriteOutcomes(w),
           dwrite \in WriteOutcomes(w) :
      LET ok     == hwrite = "ok" /\ dwrite = "ok"
          landed == hwrite \in {"ok", "new"}
          hashes == UpdatedHashes(w, v, hread)
          astray == StrayAt(w, hread)
          came   == GuestsAt(w, hread)
      IN  /\ hash_block' = hashes
          /\ which_hash_block' = HashAddress(w)
          /\ disk' = DiskAfterWrite(w, v, hashes, hwrite, dwrite)
          /\ may' = [may EXCEPT ![w] = IF ok THEN {v} ELSE @ \cup {v}]
          /\ stray' = (astray /\ ~landed)
          /\ guests' = [came EXCEPT ![InteriorOffset(w)] = {}]
          /\ other' = [s \in Slots |->
                         IF s = w /\ ok THEN {}
                         ELSE IF s \in SameChunk(w) /\ s # w /\ landed
                         THEN other[s] \cup came[InteriorOffset(s)] ELSE other[s]]
          /\ intact' = IF ok THEN (intact \ IF astray THEN SameChunk(w) ELSE {})
                                 \cup {w}
                       ELSE IF hwrite = "torn" \/ (astray /\ landed)
                       THEN intact \ SameChunk(w)
                       ELSE intact \ {w}
          /\ reply' = NoReply
  BY DEF WriteBlock
<1> DEFINE ok     == hwrite = "ok" /\ dwrite = "ok"
           landed == hwrite \in {"ok", "new"}
           base   == HashesToUpdate(w, hread)
           hashes == UpdatedHashes(w, v, hread)
           came   == GuestsAt(w, hread)
           ha     == HashAddress(w)
<1>2. w \in Slots /\ w \in Nat /\ ha \in Addresses /\ InteriorOffset(w) \in Offsets
  BY BlocksAreSlots, SlotsFit
<1>3. hwrite \in {"ok", "old", "new", "torn"} /\ dwrite \in {"ok", "old", "new", "torn"}
  BY ValuesAssumption DEF WriteOutcomes
<1>4. base \in HashBlocks
  BY HashesReadType, WordFacts DEF IndInv, HashesToUpdate
<1>5. /\ hashes \in HashBlocks
      /\ hashes[InteriorOffset(w)] = StoredCrc(v)
      /\ \A s \in Slots : HashAddress(s) = ha /\ s # w =>
             hashes[InteriorOffset(s)] = base[InteriorOffset(s)]
  BY <1>2, <1>4, UpdateOneHash DEF UpdatedHashes
<1>6. /\ hash_block' = hashes /\ which_hash_block' = ha /\ reply' = NoReply
      /\ disk' = DiskAfterWrite(w, v, hashes, hwrite, dwrite)
      /\ may' = [may EXCEPT ![w] = IF ok THEN {v} ELSE @ \cup {v}]
      /\ guests' = [came EXCEPT ![InteriorOffset(w)] = {}]
      /\ other' = [s \in Slots |->
                     IF s = w /\ ok THEN {}
                     ELSE IF s \in SameChunk(w) /\ s # w /\ landed
                     THEN other[s] \cup came[InteriorOffset(s)] ELSE other[s]]
  BY <1>1
<1>7. stray' \in BOOLEAN /\ intact' \in SUBSET Blocks
  <2>1. stray' \in BOOLEAN
    BY <1>1
  <2>2. intact' \in SUBSET Blocks
    BY <1>1 DEF IndInv, TypeOK
  <2> QED BY <2>1, <2>2
<1>8. /\ disk' \in [Addresses -> DataImages \cup HashBlocks]
      /\ \A x \in Addresses : x # ha /\ x # DataAddress(w) => disk'[x] = disk[x]
      /\ hwrite = "old" => disk'[ha] = disk[ha]
      /\ hwrite = "torn" => disk'[ha] = DamagedHashes
      /\ landed => disk'[ha] = hashes
  BY <1>3, <1>5, <1>6, DiskAfter DEF IndInv
<1>9. came \in [Offsets -> SUBSET Values]
  BY ValuesAssumption DEF GuestsAt, NoGuests, IndInv, TypeOK
<1>10. /\ may \in [Blocks -> SUBSET Values] /\ other \in [Slots -> SUBSET Values]
  BY DEF IndInv, TypeOK
<1> HIDE DEF hashes, base, came, ha
<1>11. TypeOK'
  <2>1. may' \in [Blocks -> SUBSET Values] /\ guests' \in [Offsets -> SUBSET Values]
    BY <1>6, <1>9, <1>10
  <2>2. \A s \in Slots : InteriorOffset(s) \in Offsets
    BY SlotsFit
  <2>3. other' \in [Slots -> SUBSET Values]
    BY <2>2, <1>6, <1>9, <1>10
  <2>4. hash_block' \in HashBlocks /\ which_hash_block' \in Addresses
    BY <1>2, <1>5, <1>6
  <2> QED BY <2>1, <2>3, <2>4, <1>6, <1>7, <1>8 DEF TypeOK
(* what the slots may hold grows, but for the one written *)
<1>12. ASSUME NEW s \in Slots
       PROVE  /\ s # w \/ ~ok => Stored(s) \subseteq Stored(s)'
              /\ s = w => v \in Stored(s)'
              /\ s # w /\ HashAddress(s) = ha /\ landed =>
                     came[InteriorOffset(s)] \subseteq Stored(s)'
              /\ s # w /\ HashAddress(s) = ha =>
                     guests'[InteriorOffset(s)] = came[InteriorOffset(s)]
  <2>1. s \in Nat /\ InteriorOffset(s) \in Offsets
    BY SlotsFit
  <2>2. /\ HashAddress(s) = ha => s \in SameChunk(w)
        /\ HashAddress(s) = ha /\ s # w => InteriorOffset(s) # InteriorOffset(w)
    BY <2>1, <1>2, LayoutIsDisjoint DEF ha, SameChunk
  <2>3. s # w \/ ~ok => Stored(s) \subseteq Stored(s)'
    BY <1>6, <1>10 DEF Stored
  <2>4. s = w => v \in Stored(s)'
    BY <1>6, <1>10 DEF Stored
  <2>5. s # w /\ HashAddress(s) = ha /\ landed => came[InteriorOffset(s)] \subseteq Stored(s)'
    BY <2>2, <1>6 DEF Stored
  <2>6. s # w /\ HashAddress(s) = ha => guests'[InteriorOffset(s)] = came[InteriorOffset(s)]
    BY <2>1, <2>2, <1>2, <1>6, <1>9
  <2> QED BY <2>3, <2>4, <2>5, <2>6
(* the words before the update *)
<1>13. ASSUME NEW s \in Slots, HashAddress(s) = ha, s # w
       PROVE  hashes[InteriorOffset(s)] \in CrcsOf(Stored(s) \cup came[InteriorOffset(s)])
  <2>1. InteriorOffset(s) \in Offsets
    BY SlotsFit
  <2>2. hashes[InteriorOffset(s)] = base[InteriorOffset(s)]
    BY <1>5, <1>13
  <2>3. CASE hread = "ok"
    <3>1. base = HashesRead(w)
      BY <2>3 DEF base, HashesToUpdate
    <3>2. came[InteriorOffset(s)] = IF which_hash_block = HashAddress(w)
                                    THEN guests[InteriorOffset(s)] ELSE {}
      BY <2>1, <2>3 DEF came, GuestsAt, NoGuests
    <3>3. HashesRead(w)[InteriorOffset(s)]
            \in CrcsOf(Stored(s) \cup IF which_hash_block = HashAddress(w)
                                      THEN guests[InteriorOffset(s)] ELSE {})
      BY <1>13, WordsRead DEF ha
    <3> QED BY <2>2, <3>1, <3>2, <3>3
  <2>4. CASE hread # "ok"
    <3>1. base[InteriorOffset(s)] = StoredCrc(Zero)
      BY <2>1, <2>4, ZeroWordIsZeroCrc DEF base, HashesToUpdate, ZeroHashes
    <3>2. which_hash_block # ha
      BY <2>4 DEF HashReadOutcomes, ha
    <3>3. came[InteriorOffset(s)] = {Zero}
      BY <2>1, <2>4, <3>2 DEF came, GuestsAt, ha
    <3> QED BY <2>2, <3>1, <3>3 DEF CrcsOf
  <2> QED BY <2>3, <2>4
<1>14. ASSUME NEW s \in Slots, HashAddress(s) = ha
       PROVE  /\ hashes[InteriorOffset(s)] \in CrcsOf(Stored(s)' \cup guests'[InteriorOffset(s)])
              /\ landed => hashes[InteriorOffset(s)] \in CrcsOf(Stored(s)')
  <2>1. CASE s = w
    <3>1. v \in Stored(s)'
      BY <2>1, <1>12
    <3> QED BY <2>1, <3>1, <1>5 DEF CrcsOf
  <2>2. CASE s # w
    <3> DEFINE i == InteriorOffset(s)
               S == Stored(s)
               new == Stored(s)'
    <3>1. /\ S \subseteq new /\ guests'[i] = came[i]
          /\ landed => came[i] \subseteq new
          /\ hashes[i] \in CrcsOf(S \cup came[i])
      BY <2>2, <1>12, <1>13, <1>14
    <3> HIDE DEF i, S, new
    <3>2. CrcsOf(S \cup came[i]) \subseteq CrcsOf(new \cup came[i])
      BY <3>1, MoreCrcs
    <3>3. landed => CrcsOf(S \cup came[i]) \subseteq CrcsOf(new)
      <4>1. landed => S \cup came[i] \subseteq new
        BY <3>1
      <4> QED BY <4>1, MoreCrcs
    <3>4. hashes[i] \in CrcsOf(new \cup guests'[i]) /\ (landed => hashes[i] \in CrcsOf(new))
      BY <3>1, <3>2, <3>3
    <3> QED BY <3>4 DEF i, new
  <2> QED BY <2>1, <2>2
<1>15. CachedCrcsExpected'
  BY <1>6, <1>14 DEF CachedCrcsExpected
<1>16. StoredCrcsExpected'
  <2> SUFFICES ASSUME NEW s \in Slots
               PROVE  AsHashes(disk'[HashAddress(s)])[InteriorOffset(s)] \in CrcsOf(Stored(s)')
    BY DEF StoredCrcsExpected
  <2>0. /\ s \in Nat /\ HashAddress(s) \in Addresses /\ HashAddress(s) # DataAddress(w)
        /\ InteriorOffset(s) \in Offsets
    BY <1>2, SlotsFit, LayoutIsDisjoint
  <2>1. AsHashes(disk[HashAddress(s)])[InteriorOffset(s)] \in CrcsOf(Stored(s))
    BY DEF IndInv, StoredCrcsExpected
  <2>2. ~(s = w /\ ok) => CrcsOf(Stored(s)) \subseteq CrcsOf(Stored(s)')
    BY <1>12, MoreCrcs
  <2>3. CASE HashAddress(s) # ha
    <3>1. disk'[HashAddress(s)] = disk[HashAddress(s)] /\ s # w
      BY <2>0, <2>3, <1>8 DEF ha
    <3> QED BY <3>1, <2>1, <2>2
  <2>4. CASE HashAddress(s) = ha /\ hwrite = "old"
    <3>1. disk'[HashAddress(s)] = disk[HashAddress(s)] /\ ~ok
      BY <2>4, <1>8
    <3> QED BY <3>1, <2>1, <2>2
  <2>5. CASE HashAddress(s) = ha /\ hwrite = "torn"
    <3>1. AsHashes(disk'[ha]) = DamagedHashes
      BY <2>5, <1>8, WordFacts, ImageFacts
    <3> QED BY <3>1, <2>0, <2>5 DEF CrcsOf, DamagedHashes
  <2>6. CASE HashAddress(s) = ha /\ landed
    <3>1. AsHashes(disk'[ha]) = hashes
      BY <2>6, <1>5, <1>8, ImageFacts
    <3>2. hashes[InteriorOffset(s)] \in CrcsOf(Stored(s)')
      BY <2>6, <1>14
    <3> QED BY <3>1, <3>2, <2>6
  <2> QED BY <1>3, <2>3, <2>4, <2>5, <2>6
<1>17. ReadsPassTheCheck'
  BY <1>6 DEF ReadsPassTheCheck
<1> QED BY <1>11, <1>15, <1>16, <1>17 DEF IndInv

(* Steps that do not touch the hash blocks of the device. *)
LEMMA QuietStep ==
    ASSUME IndInv, ClearCaches \/ FlushOrSync \/ Reopen
    PROVE  IndInv'
<1>1. /\ UNCHANGED <<disk, other, intact, may>> /\ reply' = NoReply
      /\ hash_block' \in HashBlocks /\ stray' \in BOOLEAN
      /\ guests' \in {guests, NoGuests}
      /\ \/ which_hash_block' = NoBlock
         \/ UNCHANGED <<hash_block, which_hash_block, guests>>
  BY WordFacts DEF IndInv, TypeOK, ClearCaches, FlushOrSync, Reopen
<1>2. \A s \in Slots : Stored(s)' = Stored(s)
  BY <1>1 DEF Stored
<1>3. TypeOK'
  <2>1. NoGuests \in [Offsets -> SUBSET Values]
    BY DEF NoGuests
  <2> QED BY <2>1, <1>1 DEF IndInv, TypeOK
<1>4. StoredCrcsExpected'
  BY <1>1, <1>2 DEF IndInv, StoredCrcsExpected
<1>5. \A s \in Slots : NoBlock # HashAddress(s)
  BY SlotsFit, SentinelAssumption
<1>6. CachedCrcsExpected'
  BY <1>1, <1>2, <1>5 DEF IndInv, CachedCrcsExpected
<1>7. ReadsPassTheCheck'
  BY <1>1 DEF ReadsPassTheCheck
<1> QED BY <1>3, <1>4, <1>6, <1>7 DEF IndInv

(* Corruption of a block of the device preserves the invariant. *)
LEMMA CorruptStep ==
    ASSUME IndInv, NEW w \in Blocks,
           CorruptHash(w) \/ \E x \in CorruptTo : CorruptData(w, x)
    PROVE  IndInv'
<1>1. /\ UNCHANGED <<hash_block, which_hash_block, stray, guests, other, may>>
      /\ reply' = NoReply /\ intact' \in SUBSET Blocks
  BY DEF IndInv, TypeOK, CorruptHash, CorruptData
<1>2. \A s \in Slots : Stored(s)' = Stored(s)
  BY <1>1 DEF Stored
<1>3. w \in Nat /\ DataAddress(w) \in Addresses /\ HashAddress(w) \in Addresses
  BY LayoutFits
<1>4. /\ disk' \in [Addresses -> DataImages \cup HashBlocks]
      /\ \A s \in Slots : \/ disk'[HashAddress(s)] = disk[HashAddress(s)]
                           \/ disk'[HashAddress(s)] = DamagedHashes
  <2>0. disk \in [Addresses -> DataImages \cup HashBlocks]
    BY DEF IndInv, TypeOK
  <2>1. \A s \in Slots : HashAddress(s) \in Addresses /\ HashAddress(s) # DataAddress(w)
    BY <1>3, SlotsFit, LayoutIsDisjoint
  <2>2. CASE CorruptHash(w)
    BY <2>0, <2>1, <2>2, <1>3, WordFacts DEF CorruptHash
  <2>3. ASSUME NEW x \in CorruptTo, CorruptData(w, x)
        PROVE  /\ disk' \in [Addresses -> DataImages \cup HashBlocks]
               /\ \A s \in Slots : disk'[HashAddress(s)] = disk[HashAddress(s)]
    BY <2>0, <2>1, <2>3, <1>3, ValuesAssumption DEF CorruptData
  <2> QED BY <2>2, <2>3
<1>5. TypeOK'
  BY <1>1, <1>4 DEF IndInv, TypeOK
<1>6. StoredCrcsExpected'
  <2> SUFFICES ASSUME NEW s \in Slots
               PROVE  AsHashes(disk'[HashAddress(s)])[InteriorOffset(s)] \in CrcsOf(Stored(s))
    BY <1>2 DEF StoredCrcsExpected
  <2>1. CASE disk'[HashAddress(s)] = disk[HashAddress(s)]
    BY <2>1 DEF IndInv, StoredCrcsExpected
  <2>2. CASE disk'[HashAddress(s)] = DamagedHashes
    <3>1. AsHashes(disk'[HashAddress(s)]) = DamagedHashes
      BY <2>2, WordFacts, ImageFacts
    <3> QED BY <3>1, SlotsFit DEF CrcsOf, DamagedHashes
  <2> QED BY <2>1, <2>2, <1>4
<1>7. CachedCrcsExpected'
  BY <1>1, <1>2 DEF IndInv, CachedCrcsExpected
<1>8. ReadsPassTheCheck'
  BY <1>1 DEF ReadsPassTheCheck
<1> QED BY <1>5, <1>6, <1>7, <1>8 DEF IndInv

-----------------------------------------------------------------------------
(* Every step of the layer preserves the invariant. *)
LEMMA NextIndInv == IndInv /\ [Next]_vars => IndInv'
<1> SUFFICES ASSUME IndInv, [Next]_vars PROVE IndInv'
  OBVIOUS
<1>1. ASSUME NEW b \in Blocks, ReadBlock(b) PROVE IndInv'
  BY <1>1, ReadStep
<1>2. ASSUME NEW b \in Blocks, NEW v \in Values, WriteBlock(b, v) PROVE IndInv'
  BY <1>2, WriteStep
<1>3. CASE ClearCaches \/ FlushOrSync \/ Reopen
  BY <1>3, QuietStep
<1>4. ASSUME NEW b \in Blocks,
             CorruptHash(b) \/ \E x \in CorruptTo : CorruptData(b, x)
      PROVE  IndInv'
  BY <1>4, CorruptStep
<1>5. CASE UNCHANGED vars
  BY <1>5 DEF vars, IndInv, TypeOK, StoredCrcsExpected, CachedCrcsExpected,
     ReadsPassTheCheck, Expected, Stored
<1>6. Rotting \subseteq Blocks
  BY ValuesAssumption
<1> QED BY <1>1, <1>2, <1>3, <1>4, <1>5, <1>6 DEF Next

(* Every variable of the verify layer keeps its type. *)
THEOREM VerifyTypeOK == Spec => []TypeOK
<1>1. IndInv => TypeOK
  BY DEF IndInv
<1> QED BY <1>1, InitIndInv, NextIndInv, PTL DEF Spec

(***************************************************************************)
(* Whatever calls fail below it, whatever they leave in the buffers and on *)
(* the device, and whatever its blocks silently turn into, verify_read_    *)
(* block returns true only with a block that has the crc of one Expected   *)
(* names.  The crc need not be injective, but damage to a hash block must  *)
(* not look like the crc of a block (DamageAssumption).                    *)
(***************************************************************************)
THEOREM VerifyReadsPassTheCheck == Spec => []ReadsPassTheCheck
<1>1. IndInv => ReadsPassTheCheck
  BY DEF IndInv
<1> QED BY <1>1, InitIndInv, NextIndInv, PTL DEF Spec

-----------------------------------------------------------------------------
(***************************************************************************)
(* What the layer does not lose.                                           *)
(***************************************************************************)
(* A block stays readable when neither it nor its crc is touched. *)
LEMMA UntouchedIsKept ==
    ASSUME NEW b \in Blocks, CrcIsKept(b),
           disk'[HashAddress(b)] = disk[HashAddress(b)],
           disk'[DataAddress(b)] = disk[DataAddress(b)],
           which_hash_block' = HashAddress(b) /\ ~stray' =>
               /\ which_hash_block = HashAddress(b) /\ ~stray
               /\ hash_block'[InteriorOffset(b)] = hash_block[InteriorOffset(b)]
    PROVE  CrcIsKept(b)'
BY DEF CrcIsKept, Readable, CrcIn

(* The zeroed device is readable. *)
LEMMA InitKept == Init => IntactIsReadable
<1> SUFFICES ASSUME Init, NEW b \in Blocks PROVE CrcIsKept(b)
  BY DEF IntactIsReadable, Init
<1>1. HashAddress(b) \in Addresses /\ DataAddress(b) \in Addresses /\ InteriorOffset(b) \in Offsets
  BY LayoutFits, BlocksAreSlots, SlotsFit
<1>2. AsHashes(Zero) = ZeroHashes /\ AsData(Zero) = Zero
  BY ValuesAssumption DEF AsHashes, AsData, DataImages
<1>3. disk[HashAddress(b)] = Zero /\ disk[DataAddress(b)] = Zero /\ hash_block = ZeroHashes
  BY <1>1 DEF Init
<1>4. CrcIn(ZeroHashes, b) = Crc(Zero)
  BY <1>1, WordFacts DEF CrcIn, ZeroHashes
<1> QED BY <1>2, <1>3, <1>4 DEF CrcIsKept, Readable

(* verify_read_block: the hash block it loads is the one on the device. *)
LEMMA ReadKept ==
    ASSUME IntactIsReadable, TypeOK, NEW w \in Blocks, ReadBlock(w)
    PROVE  IntactIsReadable'
<1> SUFFICES ASSUME NEW b \in intact' PROVE CrcIsKept(b)'
  BY DEF IntactIsReadable
<1>1. UNCHANGED <<disk, intact>>
  BY DEF ReadBlock
<1>2. b \in Blocks /\ CrcIsKept(b) /\ InteriorOffset(b) \in Offsets
  BY <1>1, BlocksAreSlots, SlotsFit DEF IntactIsReadable, TypeOK
<1>3. CASE /\ hash_block' = HashesRead(w) /\ which_hash_block' = HashAddress(w)
           /\ stray' = (stray /\ which_hash_block = HashAddress(w))
  <2>1. which_hash_block' = HashAddress(b) /\ ~stray' => Readable(b, hash_block')
    BY <1>2, <1>3 DEF HashesRead, CrcIsKept
  <2> QED BY <2>1, <1>1, <1>2 DEF CrcIsKept, Readable
<1>4. CASE ReadFailed(w)
  <2>1. which_hash_block' = which_hash_block
    BY <1>4 DEF ReadFailed
  <2>2. ~stray' => ~stray /\ hash_block'[InteriorOffset(b)] = hash_block[InteriorOffset(b)]
    BY <1>2, <1>4 DEF ReadFailed
  <2> QED BY <2>1, <2>2, <1>1, <1>2, UntouchedIsKept
<1> QED BY <1>3, <1>4 DEF ReadBlock, ReadChecked

(* verify_write_block: the crcs of the neighbours are written as they were. *)
LEMMA WriteKept ==
    ASSUME IntactIsReadable, TypeOK, NEW w \in Blocks, NEW v \in Values,
           WriteBlock(w, v)
    PROVE  IntactIsReadable'
<1>1. PICK hread \in HashReadOutcomes(w), hwrite \in WriteOutcomes(w),
           dwrite \in WriteOutcomes(w) :
      LET ok     == hwrite = "ok" /\ dwrite = "ok"
          landed == hwrite \in {"ok", "new"}
          hashes == UpdatedHashes(w, v, hread)
          astray == StrayAt(w, hread)
      IN  /\ hash_block' = hashes
          /\ which_hash_block' = HashAddress(w)
          /\ disk' = DiskAfterWrite(w, v, hashes, hwrite, dwrite)
          /\ stray' = (astray /\ ~landed)
          /\ intact' = IF ok THEN (intact \ IF astray THEN SameChunk(w) ELSE {})
                                 \cup {w}
                       ELSE IF hwrite = "torn" \/ (astray /\ landed)
                       THEN intact \ SameChunk(w)
                       ELSE intact \ {w}
  BY DEF WriteBlock
<1> DEFINE ok     == hwrite = "ok" /\ dwrite = "ok"
           landed == hwrite \in {"ok", "new"}
           base   == HashesToUpdate(w, hread)
           hashes == UpdatedHashes(w, v, hread)
           astray == StrayAt(w, hread)
           ha     == HashAddress(w)
           da     == DataAddress(w)
<1>2. w \in Slots /\ w \in Nat /\ ha \in Addresses /\ da \in Addresses /\ da # ha
  BY BlocksAreSlots, LayoutFits, LayoutIsDisjoint
<1>3. hwrite \in {"ok", "old", "new", "torn"} /\ dwrite \in {"ok", "old", "new", "torn"}
  BY ValuesAssumption DEF WriteOutcomes
<1>4. base \in HashBlocks
  BY HashesReadType, WordFacts DEF HashesToUpdate
<1>5. /\ hashes \in HashBlocks
      /\ hashes[InteriorOffset(w)] = StoredCrc(v)
      /\ \A s \in Slots : HashAddress(s) = ha /\ s # w =>
             hashes[InteriorOffset(s)] = base[InteriorOffset(s)]
  BY <1>2, <1>4, UpdateOneHash DEF UpdatedHashes
<1>6. /\ \A x \in Addresses : x # ha /\ x # da => disk'[x] = disk[x]
      /\ hwrite = "old" => disk'[ha] = disk[ha]
      /\ landed => disk'[ha] = hashes
      /\ ok => disk'[da] = v
  BY <1>1, <1>3, <1>5, DiskAfter
<1>7. hash_block' = hashes /\ which_hash_block' = ha /\ stray' = (astray /\ ~landed)
  BY <1>1
<1>8. intact' = IF ok THEN (intact \ IF astray THEN SameChunk(w) ELSE {}) \cup {w}
                ELSE IF hwrite = "torn" \/ (astray /\ landed)
                THEN intact \ SameChunk(w) ELSE intact \ {w}
  BY <1>1
<1>9. w \in SameChunk(w)
  BY <1>2 DEF SameChunk
<1>10. AsHashes(hashes) = hashes
  BY <1>5, ImageFacts
<1> HIDE DEF hashes, base, ha, da, astray
<1> SUFFICES ASSUME NEW b \in intact' PROVE CrcIsKept(b)'
  BY DEF IntactIsReadable
<1>11. CASE b = w
  <2>1. ok
    BY <1>8, <1>9, <1>11
  <2>2. AsData(v) = v
    BY DEF AsData, DataImages
  <2>3. disk'[ha] = hashes /\ disk'[da] = v
    BY <2>1, <1>6
  <2>4. CrcIn(hashes, w) = Crc(v)
    BY <1>5, WordFacts DEF CrcIn, DataImages
  <2> QED BY <2>2, <2>3, <2>4, <1>7, <1>10, <1>11 DEF CrcIsKept, Readable, ha, da
<1>12. CASE b # w
  <2>1. b \in intact /\ b \in Blocks /\ b \in Slots
    BY <1>8, <1>12, BlocksAreSlots DEF TypeOK
  <2>2. CrcIsKept(b)
    BY <2>1 DEF IntactIsReadable
  <2>3. /\ b \in Nat /\ HashAddress(b) \in Addresses /\ DataAddress(b) \in Addresses
        /\ DataAddress(b) # da /\ DataAddress(b) # ha /\ HashAddress(b) # da
        /\ HashAddress(b) = ha => b \in SameChunk(w)
    BY <2>1, <1>2, <1>12, LayoutFits, LayoutIsDisjoint DEF ha, da, SameChunk
  <2>4. disk'[DataAddress(b)] = disk[DataAddress(b)]
    BY <2>3, <1>6
  <2>5. CASE HashAddress(b) # ha
    <3>1. disk'[HashAddress(b)] = disk[HashAddress(b)]
      BY <2>3, <2>5, <1>6
    <3> QED BY <2>1, <2>2, <2>4, <2>5, <3>1, <1>7, UntouchedIsKept
  <2>6. CASE HashAddress(b) = ha /\ astray
    <3>1. ~ok /\ hwrite # "torn" /\ ~landed
      BY <2>3, <2>6, <1>8, <1>12
    <3>2. hwrite = "old"
      BY <3>1, <1>3
    <3>3. disk'[HashAddress(b)] = disk[HashAddress(b)] /\ stray'
      BY <3>1, <3>2, <2>6, <1>6, <1>7
    <3> QED BY <2>1, <2>2, <2>4, <3>3, UntouchedIsKept
  <2>7. CASE HashAddress(b) = ha /\ ~astray
    <3>1. \/ which_hash_block = ha /\ ~stray
          \/ which_hash_block # ha /\ hread = "ok"
      BY <2>7 DEF astray, StrayAt, ha
    <3>2. hread = "ok"
      BY <3>1 DEF HashReadOutcomes, ha
    <3>3. base = IF which_hash_block = ha THEN hash_block ELSE AsHashes(disk[ha])
      BY <3>2 DEF base, HashesToUpdate, HashesRead, ha
    <3>4. CrcIn(base, b) = Crc(AsData(disk[DataAddress(b)]))
      BY <3>1, <3>3, <2>2, <2>7 DEF CrcIsKept, Readable
    <3>5. CrcIn(hashes, b) = Crc(AsData(disk'[DataAddress(b)]))
      <4>1. hashes[InteriorOffset(b)] = base[InteriorOffset(b)]
        BY <2>1, <2>7, <1>5, <1>12
      <4> QED BY <4>1, <3>4, <2>4 DEF CrcIn
    <3>6. hwrite # "torn"
      BY <2>3, <2>7, <1>8, <1>12
    <3>7. disk'[ha] \in {disk[ha], hashes}
      BY <3>6, <1>3, <1>6
    <3>8. Readable(b, AsHashes(disk[ha]))
      BY <2>2, <2>7 DEF CrcIsKept
    <3>9. CrcIn(AsHashes(disk'[ha]), b) = Crc(AsData(disk'[DataAddress(b)]))
      BY <3>5, <3>7, <3>8, <2>4, <1>10 DEF Readable
    <3> QED BY <3>5, <3>9, <2>7, <1>7 DEF CrcIsKept, Readable
  <2> QED BY <2>5, <2>6, <2>7
<1> QED BY <1>11, <1>12

(* Damage takes the blocks it hits out of the claim, and no others. *)
LEMMA CorruptKept ==
    ASSUME IntactIsReadable, TypeOK, NEW w \in Blocks,
           CorruptHash(w) \/ \E x \in CorruptTo : CorruptData(w, x)
    PROVE  IntactIsReadable'
<1> SUFFICES ASSUME NEW b \in intact' PROVE CrcIsKept(b)'
  BY DEF IntactIsReadable
<1>1. UNCHANGED <<hash_block, which_hash_block, stray>> /\ b \in intact
  BY DEF CorruptHash, CorruptData
<1>2. b \in Blocks /\ b \in Slots /\ CrcIsKept(b)
  BY <1>1, BlocksAreSlots DEF IntactIsReadable, TypeOK
<1>3. /\ HashAddress(b) \in Addresses /\ DataAddress(b) \in Addresses
      /\ DataAddress(b) # HashAddress(w) /\ HashAddress(b) # DataAddress(w)
      /\ DataAddress(b) = DataAddress(w) => b = w
      /\ HashAddress(b) = HashAddress(w) => b \in SameChunk(w)
  BY <1>2, LayoutFits, LayoutIsDisjoint DEF SameChunk
<1>4. disk'[HashAddress(b)] = disk[HashAddress(b)] /\ disk'[DataAddress(b)] = disk[DataAddress(b)]
  <2>1. CASE CorruptHash(w)
    BY <2>1, <1>3 DEF CorruptHash, TypeOK
  <2>2. ASSUME NEW x \in CorruptTo, CorruptData(w, x)
        PROVE  disk'[HashAddress(b)] = disk[HashAddress(b)] /\ disk'[DataAddress(b)] = disk[DataAddress(b)]
    BY <2>2, <1>3 DEF CorruptData, TypeOK
  <2> QED BY <2>1, <2>2
<1> QED BY <1>1, <1>2, <1>4, UntouchedIsKept

(***************************************************************************)
(* A block whose write succeeded and that nobody damaged stays readable,   *)
(* for every geometry and every crc, whatever reads and writes of its      *)
(* neighbours fail, until a hash block is written in its chunk that had    *)
(* been zeroed, or filled with another, after a read that failed.          *)
(***************************************************************************)
THEOREM VerifyIntactIsReadable == Spec => []IntactIsReadable
<1>1. IntactIsReadable /\ TypeOK /\ [Next]_vars => IntactIsReadable'
  <2> SUFFICES ASSUME IntactIsReadable, TypeOK, [Next]_vars PROVE IntactIsReadable'
    OBVIOUS
  <2>1. CASE ClearCaches \/ FlushOrSync \/ Reopen
    <3> SUFFICES ASSUME NEW b \in intact' PROVE CrcIsKept(b)'
      BY DEF IntactIsReadable
    <3>1. UNCHANGED <<disk, intact>>
          /\ (which_hash_block' = NoBlock \/ UNCHANGED <<hash_block, which_hash_block, stray>>)
      BY <2>1 DEF ClearCaches, FlushOrSync, Reopen
    <3>2. b \in Blocks /\ CrcIsKept(b)
      BY <3>1 DEF IntactIsReadable, TypeOK
    <3>3. NoBlock # HashAddress(b)
      BY <3>2, LayoutFits, SentinelAssumption
    <3> QED BY <3>1, <3>2, <3>3, UntouchedIsKept
  <2>2. CASE UNCHANGED vars
    BY <2>2 DEF vars, IntactIsReadable, CrcIsKept, Readable
  <2>3. Rotting \subseteq Blocks
    BY ValuesAssumption
  <2> QED BY <2>1, <2>2, <2>3, ReadKept, WriteKept, CorruptKept DEF Next
<1> QED BY <1>1, InitKept, VerifyTypeOK, PTL DEF Spec
=============================================================================
