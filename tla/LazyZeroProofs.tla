--------------------------- MODULE LazyZeroProofs ---------------------------
(***************************************************************************)
(* Proofs about LazyZero: for any geometry, any hash function and size of  *)
(* the cache, and whatever reads and writes fail.                          *)
(***************************************************************************)
EXTENDS LazyZero, FiniteSetTheorems, TLAPS

(***************************************************************************)
(* The geometry.                                                           *)
(***************************************************************************)

LEMMA DivMod ==
    ASSUME NEW x \in Nat, NEW m \in Nat \ {0}
    PROVE  x \div m \in Nat /\ x % m \in 0 .. m-1 /\ x = m * (x \div m) + (x % m)
OBVIOUS

(* A multiple of m that lies behind x has a larger factor than x \div m. *)
LEMMA QuotientBound ==
    ASSUME NEW x \in Nat, NEW m \in Nat \ {0}, NEW n \in Nat, x < n * m
    PROVE  x \div m < n
<1> DEFINE q == x \div m
<1>1. q \in Nat /\ x % m \in 0 .. m-1 /\ x = m * q + (x % m)
  BY DivMod
<1> HIDE DEF q
<1>2. ASSUME n <= q PROVE FALSE
  <2>1. PICK k \in Nat : q = n + k
    <3>1. q - n \in Nat /\ q = n + (q - n)
      BY <1>1, <1>2
    <3> QED BY <3>1
  <2>2. m * q = n * m + k * m /\ k * m \in Nat
    BY <2>1
  <2> QED BY <1>1, <2>2
<1>3. q < n
  BY <1>1, <1>2
<1> QED BY <1>3 DEF q

(* Rounded up, a quotient counts the parts that x smaller numbers are in. *)
LEMMA CeilDivBound ==
    ASSUME NEW x \in Nat, NEW n \in Nat, x < n, NEW m \in Nat \ {0}
    PROVE  CeilDiv(n, m) \in Nat /\ x \div m < CeilDiv(n, m)
<1> DEFINE y == n + m - 1
           q == y \div m
<1>1. y \in Nat /\ CeilDiv(n, m) = q
  BY DEF CeilDiv
<1>2. q \in Nat /\ y % m \in 0 .. m-1 /\ y = m * q + (y % m)
  BY <1>1, DivMod
<1>3. x < q * m
  <2> DEFINE mq == m * q
             r == y % m
  <2>1. mq \in Nat /\ mq = q * m /\ y = mq + r /\ r \in 0 .. m-1 /\ y = n + m - 1
    BY <1>2
  <2> HIDE DEF mq, r, q, y
  <2> QED BY <2>1
<1> HIDE DEF q
<1> QED BY <1>1, <1>2, <1>3, QuotientBound

(* The bitmap has a bit for every chunk of the device ... *)
LEMMA BitmapSize ==
    ASSUME NEW b \in Blocks
    PROVE  /\ BitmapBlocks \in Nat /\ b \in Nat
           /\ ChunkOf(b) \in Nat
           /\ BitmapBlock(ChunkOf(b)) \in Nat
           /\ BitmapBlock(ChunkOf(b)) < BitmapBlocks
           /\ BitmapBlock(ChunkOf(b)) \in Addresses
           /\ Interior(ChunkOf(b)) \in 0 .. BitsPerBlock-1
<1> DEFINE n == CeilDiv(BaseBlocks - 1, ChunkSize)
           k == ChunkOf(b)
<1>1. /\ ChunkSize \in Nat \ {0} /\ BitsPerBlock \in Nat \ {0} /\ BaseBlocks \in Nat
      /\ BaseBlocks >= 3 /\ BaseBlocks - 1 \in Nat /\ 0 < BaseBlocks - 1
      /\ Addresses = 0 .. BaseBlocks-1
  BY GeometryAssumption
<1>2. n \in Nat /\ 0 \div ChunkSize < n /\ 0 \div ChunkSize \in Nat
  BY <1>1, CeilDivBound, DivMod
<1>3. BitmapBlocks = CeilDiv(n, BitsPerBlock)
  BY DEF BitmapBlocks
<1> HIDE DEF n
<1>4. 0 < n
  BY <1>2
<1>5. BitmapBlocks \in Nat
  BY <1>1, <1>2, <1>3, <1>4, CeilDivBound
<1>6. b \in Nat /\ b < BaseBlocks - 1 /\ BitmapBlocks < BaseBlocks
  BY <1>1, <1>5, GeometryAssumption DEF Blocks, BlockCount
<1>7. k \in Nat /\ k < n
  BY <1>1, <1>6, CeilDivBound, DivMod DEF ChunkOf, n
<1> HIDE DEF k
<1>8. k \div BitsPerBlock \in Nat /\ k \div BitsPerBlock < BitmapBlocks
  BY <1>1, <1>2, <1>3, <1>7, CeilDivBound, DivMod
<1>9. k % BitsPerBlock \in 0 .. BitsPerBlock-1
  BY <1>1, <1>7, DivMod
<1>10. k \div BitsPerBlock \in Addresses
  BY <1>1, <1>5, <1>6, <1>8
<1> QED BY <1>5, <1>6, <1>7, <1>8, <1>9, <1>10 DEF BitmapBlock, Interior, k

(* ... and the blocks of the device lie behind it. *)
LEMMA DataIsBehind ==
    ASSUME NEW b \in Blocks
    PROVE  /\ DataAddress(b) \in Addresses /\ ~(DataAddress(b) < BitmapBlocks)
           /\ \A c \in Blocks : DataAddress(c) = DataAddress(b) => c = b
<1>1. BitmapBlocks \in Nat /\ BaseBlocks \in Nat /\ Addresses = 0 .. BaseBlocks-1
  BY BitmapSize, GeometryAssumption
<1> QED BY <1>1 DEF Blocks, BlockCount, DataAddress

(* lazyzero_clear_chunk clears the blocks of a chunk, and of no other. *)
LEMMA ChunkIsCleared ==
    ASSUME NEW b \in Blocks
    PROVE  LET k == ChunkOf(b)
           IN  /\ \A a \in ChunkAddresses(k) : ~(a < BitmapBlocks)
               /\ \A c \in Blocks : ChunkOf(c) = k <=> DataAddress(c) \in ChunkAddresses(k)
               /\ WritesToClear(k) \in Nat
               /\ \A a \in ChunkAddresses(k) :
                     a < DataAddress(k * ChunkSize) + WritesToClear(k)
<1> DEFINE k == ChunkOf(b)
           lo == DataAddress(k * ChunkSize)
           hi == DataAddress((k + 1) * ChunkSize)
           A == ChunkAddresses(k)
<1>1. /\ BitmapBlocks \in Nat /\ BaseBlocks \in Nat /\ Addresses = 0 .. BaseBlocks-1
      /\ ChunkSize \in Nat \ {0} /\ k \in Nat /\ b \in Nat
  BY BitmapSize, GeometryAssumption
<1>2. /\ k * ChunkSize \in Nat /\ (k + 1) * ChunkSize = k * ChunkSize + ChunkSize
  BY <1>1
<1>3. /\ lo = k * ChunkSize + 1 + BitmapBlocks
      /\ hi = k * ChunkSize + ChunkSize + 1 + BitmapBlocks
  BY <1>1, <1>2 DEF DataAddress
<1>4. A = {a \in Addresses : a >= lo /\ a < hi}
  BY DEF ChunkAddresses
<1>5. ASSUME NEW c \in Blocks
      PROVE  ChunkOf(c) = k <=> DataAddress(c) \in A
  <2> DEFINE q == ChunkOf(c)
             r == c % ChunkSize
             base == k * ChunkSize
             qbase == q * ChunkSize
  <2>1. q \in Nat /\ r \in 0 .. ChunkSize-1 /\ c = qbase + r /\ c \in Nat /\ qbase \in Nat
    <3>1. c \in Nat /\ q = c \div ChunkSize
      BY BitmapSize DEF ChunkOf
    <3>2. /\ c \div ChunkSize \in Nat /\ r \in 0 .. ChunkSize-1
          /\ c = ChunkSize * (c \div ChunkSize) + r
      BY <3>1, <1>1, DivMod
    <3> HIDE DEF q, r
    <3>3. ChunkSize * q = q * ChunkSize /\ q * ChunkSize \in Nat
      BY <3>1, <3>2, <1>1
    <3> QED BY <3>1, <3>2, <3>3
  <2>2. DataAddress(c) \in A <=> base <= c /\ c < base + ChunkSize
    <3>1. DataAddress(c) \in Addresses /\ DataAddress(c) = c + 1 + BitmapBlocks
      BY DataIsBehind DEF DataAddress
    <3>2. base \in Nat /\ lo = base + 1 + BitmapBlocks /\ hi = base + ChunkSize + 1 + BitmapBlocks
      BY <1>2, <1>3
    <3> HIDE DEF base, lo, hi, A, q, r, qbase
    <3> QED BY <3>1, <3>2, <1>1, <1>4, <2>1
  <2>3. ASSUME q = k PROVE base <= c /\ c < base + ChunkSize
    <3>1. base = qbase
      BY <2>3
    <3> HIDE DEF base, q, r, qbase
    <3> QED BY <3>1, <2>1, <1>1
  <2>4. ASSUME base <= c, c < base + ChunkSize PROVE q = k
    <3>1. (k + 1) * ChunkSize = base + ChunkSize /\ base \in Nat
      BY <1>2
    <3>2. q < k + 1
      <4>1. c < (k + 1) * ChunkSize /\ k + 1 \in Nat
        BY <3>1, <2>4, <1>1
      <4> QED BY <4>1, <1>1, <2>1, QuotientBound DEF ChunkOf
    <3>3. ~(q < k)
      <4> SUFFICES ASSUME q < k PROVE FALSE
        OBVIOUS
      <4> HIDE DEF q, r, qbase, base
      <4>1. PICK j \in Nat : k = (q + 1) + j
        <5>1. k - (q + 1) \in Nat /\ k = (q + 1) + (k - (q + 1))
          BY <2>1, <1>1
        <5> QED BY <5>1
      <4>2. base = qbase + ChunkSize + j * ChunkSize /\ j * ChunkSize \in Nat
        BY <4>1, <2>1, <1>1 DEF base, qbase
      <4> QED BY <4>2, <2>1, <2>4, <1>1
    <3> HIDE DEF q, r, qbase, base
    <3> QED BY <3>2, <3>3, <2>1, <1>1
  <2> QED BY <2>2, <2>3, <2>4
<1> DEFINE top == IF hi <= BaseBlocks THEN hi ELSE BaseBlocks
<1> HIDE DEF k, A
<1>6. lo \in Nat /\ hi \in Nat /\ lo <= hi /\ lo <= BaseBlocks /\ ~(lo < BitmapBlocks)
  <2>1. DataAddress(b) \in A
    BY <1>5 DEF k
  <2> DEFINE base == k * ChunkSize
  <2>2. base \in Nat /\ lo = base + 1 + BitmapBlocks /\ hi = base + ChunkSize + 1 + BitmapBlocks
    BY <1>2, <1>3
  <2> HIDE DEF base, lo, hi
  <2> QED BY <2>1, <2>2, <1>1, <1>4
<1> HIDE DEF lo, hi
<1>7. A = lo .. top - 1 /\ top \in Nat /\ lo <= top
  BY <1>1, <1>4, <1>6
<1>8. Cardinality(A) = top - lo
  <2>1. top - 1 \in Int /\ lo \in Int
    BY <1>6, <1>7
  <2>2. Cardinality(lo .. top - 1) = IF lo > top - 1 THEN 0 ELSE (top - 1) - lo + 1
    BY <2>1, FS_Interval
  <2> HIDE DEF top
  <2> QED BY <2>1, <2>2, <1>6, <1>7
<1>9. WritesToClear(k) \in Nat /\ \A a \in A : a < lo + WritesToClear(k)
  <2>1. WritesToClear(k) = top - lo
    BY <1>8 DEF WritesToClear, A
  <2> HIDE DEF top
  <2> QED BY <2>1, <1>6, <1>7
<1>10. \A a \in A : ~(a < BitmapBlocks)
  <2> HIDE DEF top
  <2> QED BY <1>1, <1>6, <1>7
<1> QED BY <1>5, <1>9, <1>10 DEF k, A, lo

-----------------------------------------------------------------------------
(***************************************************************************)
(* The cache.                                                              *)
(***************************************************************************)

(* A cache is put together from its four arrays. *)
LEMMA CacheRecord ==
    ASSUME NEW b \in [Addresses -> Contents], NEW dt \in [Slots -> Contents],
           NEW ix \in [Slots -> Addresses \cup {NoBlock}],
           NEW dr \in [Slots -> BOOLEAN], NEW c,
           c = [base |-> b, data |-> dt, indexes |-> ix, dirty |-> dr]
    PROVE  /\ c \in Caches
           /\ c.base = b /\ c.data = dt /\ c.indexes = ix /\ c.dirty = dr
BY DEF Caches

(***************************************************************************)
(* What a step of the cache, without a change of a block, does to it: the  *)
(* blocks in the slots of F, if any, lose what was cached.                 *)
(***************************************************************************)
Follows(c, e, F) ==
    /\ GoodCache(e)
    /\ \A a \in Addresses :
          /\ Newest(e, a) = IF HashSlot(a) \in F THEN c.base[a] ELSE Newest(c, a)
          /\ e.base[a] \in {c.base[a], Newest(e, a)}

LEMMA EvictFollows ==
    ASSUME NEW c, GoodCache(c), NEW S \in SUBSET Slots, NEW F \in SUBSET S
    PROVE  LET e == bcache_evict(c, S, F)
           IN  /\ Follows(c, e, F) /\ e.data = c.data
               /\ \A s \in Slots : e.indexes[s] = IF s \in S THEN NoBlock ELSE c.indexes[s]
               /\ \A s \in Slots : e.dirty[s] = (s \notin S /\ c.dirty[s])
               /\ \A a \in Addresses : Cached(e, a) <=> Cached(c, a) /\ HashSlot(a) \notin S
<1> DEFINE e == bcache_evict(c, S, F)
<1>1. c \in Caches /\ Labelled(c) /\ CleanIsOnDisk(c)
  BY DEF GoodCache
<1>2. /\ e \in Caches
      /\ e.data = c.data
      /\ e.base = WrittenBack(c, S \ F)
      /\ \A s \in Slots : /\ e.dirty[s] = (s \notin S /\ c.dirty[s])
                          /\ e.indexes[s] = IF s \in S THEN NoBlock ELSE c.indexes[s]
  BY <1>1 DEF bcache_evict, Caches, WrittenBack, Emptied, Cleaned
<1> HIDE DEF e
<1>3. \A a \in Addresses :
         /\ Cached(e, a) <=> Cached(c, a) /\ HashSlot(a) \notin S
         /\ e.base[a] = IF HashSlot(a) \in S \ F THEN Newest(c, a) ELSE c.base[a]
  BY <1>1, <1>2, HashAssumption, NoBlockAssumption
     DEF Cached, WrittenBack, Newest, CleanIsOnDisk
<1>4. Labelled(e)
  BY <1>1, <1>2 DEF Labelled
<1>5. CleanIsOnDisk(e)
  BY <1>1, <1>2, <1>3, HashAssumption DEF CleanIsOnDisk
<1>6. \A a \in Addresses : Cached(e, a) => a < BitmapBlocks /\ e.base[a] \subseteq e.data[HashSlot(a)]
  BY <1>2, <1>3 DEF GoodCache
<1>7. \A a \in Addresses :
         /\ Newest(e, a) = IF HashSlot(a) \in F THEN c.base[a] ELSE Newest(c, a)
         /\ e.base[a] \in {c.base[a], Newest(e, a)}
  BY <1>2, <1>3 DEF Newest
<1> QED BY <1>2, <1>3, <1>4, <1>5, <1>6, <1>7 DEF Follows, GoodCache, e

(* bcache_read_block of a bitmap block only evicts another, if any. *)
LEMMA ReadFollows ==
    ASSUME NEW c, GoodCache(c), NEW x \in Addresses, x < BitmapBlocks, NEW readable \in BOOLEAN,
           NEW F \in SUBSET (IF Cached(c, x) THEN {} ELSE {HashSlot(x)})
    PROVE  LET r == bcache_read_block(c, x, readable, F)
           IN  /\ Follows(c, r, F)
               /\ Cached(r, x) <=> Cached(c, x) \/ readable
<1> DEFINE s == HashSlot(x)
           e == bcache_evict(c, {s}, F)
           r == bcache_read_block(c, x, readable, F)
<1>1. CASE Cached(c, x)
  <2>1. r = c /\ F = {}
    BY <1>1 DEF bcache_read_block
  <2> HIDE DEF r
  <2>2. Follows(c, c, F)
    BY <2>1 DEF Follows
  <2> QED BY <2>1, <2>2, <1>1 DEF r
<1>2. CASE ~Cached(c, x)
  <2>0. s \in Slots /\ {s} \in SUBSET Slots /\ F \in SUBSET {s}
    BY <1>2, HashAssumption
  <2>1. /\ Follows(c, e, F) /\ e.data = c.data
        /\ \A t \in Slots : e.indexes[t] = IF t \in {s} THEN NoBlock ELSE c.indexes[t]
        /\ \A t \in Slots : e.dirty[t] = (t \notin {s} /\ c.dirty[t])
        /\ \A a \in Addresses : Cached(e, a) <=> Cached(c, a) /\ HashSlot(a) \notin {s}
    BY <2>0, EvictFollows
  <2>2. CASE ~readable
    <3>1. r = e
      BY <1>2, <2>2 DEF bcache_read_block
    <3> QED BY <3>1, <2>1, <2>2, <1>2
  <2>3. CASE readable
    <3>1. r = [base |-> e.base, data |-> [e.data EXCEPT ![s] = e.base[x]],
               indexes |-> [e.indexes EXCEPT ![s] = x], dirty |-> e.dirty]
      BY <1>2, <2>3 DEF bcache_read_block
    <3> HIDE DEF e, r
    <3>2. e \in Caches /\ Labelled(e) /\ CleanIsOnDisk(e) /\ ~e.dirty[s] /\ e.indexes[s] = NoBlock
      BY <2>0, <2>1 DEF Follows, GoodCache
    <3>3. /\ r \in Caches /\ r.base = e.base /\ r.dirty = e.dirty
          /\ r.data = [e.data EXCEPT ![s] = e.base[x]]
          /\ r.indexes = [e.indexes EXCEPT ![s] = x]
      <4>1. /\ e.base \in [Addresses -> Contents] /\ e.dirty \in [Slots -> BOOLEAN]
            /\ [e.data EXCEPT ![s] = e.base[x]] \in [Slots -> Contents]
            /\ [e.indexes EXCEPT ![s] = x] \in [Slots -> Addresses \cup {NoBlock}]
        BY <3>2 DEF Caches
      <4> QED BY <3>1, <4>1, CacheRecord
    <3>4. /\ r.indexes[s] = x /\ r.data[s] = e.base[x]
          /\ \A t \in Slots : t # s => r.indexes[t] = e.indexes[t] /\ r.data[t] = e.data[t]
      BY <2>0, <3>2, <3>3 DEF Caches
    <3> HIDE DEF s
    <3>5. \A a \in Addresses :
             /\ HashSlot(a) = s => (Cached(r, a) <=> a = x)
             /\ HashSlot(a) # s => (Cached(r, a) <=> Cached(e, a)) /\ r.data[HashSlot(a)] = e.data[HashSlot(a)]
      BY <3>4, HashAssumption DEF Cached
    <3>6. Cached(r, x)
      BY <3>4 DEF Cached, s
    <3>7. Labelled(r)
      BY <2>0, <3>2, <3>3, <3>4 DEF Labelled, s
    <3>8. CleanIsOnDisk(r)
      BY <3>2, <3>3, <3>4, <3>5 DEF CleanIsOnDisk
    <3>9. \A a \in Addresses : Cached(r, a) => a < BitmapBlocks /\ r.base[a] \subseteq r.data[HashSlot(a)]
      BY <2>1, <3>3, <3>4, <3>5 DEF Follows, GoodCache
    <3>10. \A a \in Addresses : Newest(r, a) = Newest(e, a)
      BY <2>1, <3>3, <3>4, <3>5 DEF Newest
    <3>11. Follows(c, r, F)
      BY <2>1, <3>3, <3>7, <3>8, <3>9, <3>10 DEF Follows, GoodCache
    <3> QED BY <2>3, <3>6, <3>11 DEF r
  <2> QED BY <2>2, <2>3
<1> QED BY <1>1, <1>2

(* Different chunks have different bits. *)
LEMMA BitsAreApart ==
    ASSUME NEW b \in Blocks, NEW c \in Blocks, ChunkOf(b) # ChunkOf(c),
           BitmapBlock(ChunkOf(b)) = BitmapBlock(ChunkOf(c))
    PROVE  Interior(ChunkOf(b)) # Interior(ChunkOf(c))
<1> DEFINE k == ChunkOf(b)
           l == ChunkOf(c)
<1>1. k \in Nat /\ l \in Nat /\ BitsPerBlock \in Nat \ {0}
  BY BitmapSize, GeometryAssumption
<1> HIDE DEF k, l
<1>2. /\ k = BitsPerBlock * (k \div BitsPerBlock) + (k % BitsPerBlock)
      /\ l = BitsPerBlock * (l \div BitsPerBlock) + (l % BitsPerBlock)
  BY <1>1, DivMod
<1>3. k \div BitsPerBlock = l \div BitsPerBlock /\ k # l
  BY DEF BitmapBlock, k, l
<1>4. k % BitsPerBlock # l % BitsPerBlock
  BY <1>2, <1>3
<1> QED BY <1>4 DEF Interior, k, l

(* lazyzero_set_chunk_usable sets the bit of its chunk, in the cache only. *)
LEMMA SetUsable ==
    ASSUME NEW c, GoodCache(c), NEW b \in Blocks, Cached(c, BitmapBlock(ChunkOf(b)))
    PROVE  LET w == SetChunkUsable(c, ChunkOf(b))
           IN  /\ GoodCache(w) /\ w.base = c.base
               /\ InUse(w, ChunkOf(b))
               /\ \A x \in Blocks : ChunkOf(x) # ChunkOf(b) =>
                     (InUse(w, ChunkOf(x)) <=> InUse(c, ChunkOf(x)))
<1> DEFINE k == ChunkOf(b)
           bl == BitmapBlock(k)
           s == HashSlot(bl)
           v == c.data[s] \cup {Interior(k)}
           w == SetChunkUsable(c, k)
<1>1. /\ c \in Caches /\ Labelled(c) /\ CleanIsOnDisk(c) /\ c.indexes[s] = bl
      /\ \A a \in Addresses : Cached(c, a) => a < BitmapBlocks /\ c.base[a] \subseteq c.data[HashSlot(a)]
  BY DEF GoodCache, Cached
<1>2. bl \in Addresses /\ s \in Slots /\ Interior(k) \in 0 .. BitsPerBlock-1
  BY BitmapSize, HashAssumption
<1>3. v \in Contents
  <2>1. c.data[s] \in Contents
    BY <1>1, <1>2 DEF Caches
  <2> QED BY <2>1, <1>2, GeometryAssumption
<1>4. w = [base |-> c.base, data |-> [c.data EXCEPT ![s] = v],
           indexes |-> c.indexes, dirty |-> [c.dirty EXCEPT ![s] = TRUE]]
  BY <1>1 DEF SetChunkUsable, bcache_write_block, Cached
<1> HIDE DEF w, v
<1>5. /\ w \in Caches /\ w.base = c.base /\ w.indexes = c.indexes
      /\ w.data = [c.data EXCEPT ![s] = v] /\ w.dirty = [c.dirty EXCEPT ![s] = TRUE]
  <2>1. /\ c.base \in [Addresses -> Contents]
        /\ c.indexes \in [Slots -> Addresses \cup {NoBlock}]
        /\ [c.data EXCEPT ![s] = v] \in [Slots -> Contents]
        /\ [c.dirty EXCEPT ![s] = TRUE] \in [Slots -> BOOLEAN]
    BY <1>1, <1>3 DEF Caches
  <2> DEFINE dt == [c.data EXCEPT ![s] = v]
             dr == [c.dirty EXCEPT ![s] = TRUE]
  <2>2. /\ dt \in [Slots -> Contents] /\ dr \in [Slots -> BOOLEAN]
        /\ w = [base |-> c.base, data |-> dt, indexes |-> c.indexes, dirty |-> dr]
    BY <1>4, <2>1
  <2> HIDE DEF dt, dr
  <2>3. /\ w \in Caches /\ w.base = c.base /\ w.indexes = c.indexes
        /\ w.data = dt /\ w.dirty = dr
    BY <2>1, <2>2, CacheRecord
  <2> QED BY <2>3 DEF dt, dr
<1>6. /\ w.data[s] = v /\ w.dirty[s]
      /\ \A t \in Slots : t # s => w.data[t] = c.data[t] /\ w.dirty[t] = c.dirty[t]
  BY <1>1, <1>2, <1>5 DEF Caches
<1>7. \A a \in Addresses : Cached(w, a) <=> Cached(c, a)
  BY <1>5 DEF Cached
<1>8. \A a \in Addresses : Cached(c, a) /\ HashSlot(a) = s => a = bl
  BY <1>1 DEF Cached
<1> HIDE DEF s, bl
<1>9. Labelled(w)
  <2>1. bl # NoBlock
    BY <1>2, NoBlockAssumption
  <2> QED BY <1>1, <1>5, <1>6, <2>1 DEF Labelled
<1>10. CleanIsOnDisk(w)
  BY <1>1, <1>5, <1>6, <1>7, HashAssumption DEF CleanIsOnDisk
<1>11. \A a \in Addresses : Cached(w, a) => a < BitmapBlocks /\ w.base[a] \subseteq w.data[HashSlot(a)]
  <2> SUFFICES ASSUME NEW a \in Addresses, Cached(w, a)
               PROVE  a < BitmapBlocks /\ w.base[a] \subseteq w.data[HashSlot(a)]
    OBVIOUS
  <2>1. a < BitmapBlocks /\ c.base[a] \subseteq c.data[HashSlot(a)] /\ HashSlot(a) \in Slots
    BY <1>1, <1>7, HashAssumption
  <2>2. c.data[HashSlot(a)] \subseteq w.data[HashSlot(a)]
    BY <2>1, <1>6 DEF v
  <2> QED BY <2>1, <2>2, <1>5
<1>12. \A a \in Addresses : a # bl => Newest(w, a) = Newest(c, a)
  BY <1>5, <1>6, <1>7, <1>8, HashAssumption DEF Newest
<1>13. Newest(w, bl) = Newest(c, bl) \cup {Interior(k)}
  <2>1. Cached(c, bl) /\ HashSlot(bl) = s
    BY <1>1 DEF Cached, s, bl
  <2> QED BY <2>1, <1>2, <1>6, <1>7 DEF Newest, v
<1>14. InUse(w, k)
  BY <1>13 DEF InUse, bl
<1>15. ASSUME NEW x \in Blocks, ChunkOf(x) # k PROVE InUse(w, ChunkOf(x)) <=> InUse(c, ChunkOf(x))
  <2>1. CASE BitmapBlock(ChunkOf(x)) # bl
    BY <2>1, <1>12, BitmapSize DEF InUse
  <2>2. CASE BitmapBlock(ChunkOf(x)) = bl
    <3>1. Interior(ChunkOf(x)) # Interior(k)
      BY <2>2, <1>15, BitsAreApart DEF bl
    <3> QED BY <3>1, <2>2, <1>13 DEF InUse
  <2> QED BY <2>1, <2>2
<1> QED BY <1>5, <1>9, <1>10, <1>11, <1>14, <1>15 DEF GoodCache, w

(* A write past the cache, to blocks that are not of the bitmap. *)
LEMMA PastTheCache ==
    ASSUME NEW c, GoodCache(c), NEW f \in [Addresses -> Contents],
           \A a \in Addresses : a < BitmapBlocks => f[a] = c.base[a]
    PROVE  LET w == WithBase(c, f)
           IN  /\ GoodCache(w) /\ w.base = f
               /\ \A a \in Addresses : Cached(w, a) <=> Cached(c, a)
               /\ \A x \in Blocks : /\ InUse(w, ChunkOf(x)) <=> InUse(c, ChunkOf(x))
                                    /\ StoredInUse(w, ChunkOf(x)) <=> StoredInUse(c, ChunkOf(x))
<1> DEFINE w == WithBase(c, f)
<1>1. /\ c \in Caches /\ Labelled(c) /\ CleanIsOnDisk(c)
      /\ \A a \in Addresses : Cached(c, a) => a < BitmapBlocks /\ c.base[a] \subseteq c.data[HashSlot(a)]
  BY DEF GoodCache
<1>2. /\ w \in Caches /\ w.base = f /\ w.data = c.data /\ w.indexes = c.indexes /\ w.dirty = c.dirty
  BY <1>1, CacheRecord DEF WithBase, Caches
<1> HIDE DEF w
<1>3. \A a \in Addresses : Cached(w, a) <=> Cached(c, a)
  BY <1>2 DEF Cached
<1>4. Labelled(w) /\ CleanIsOnDisk(w)
  BY <1>1, <1>2, <1>3 DEF Labelled, CleanIsOnDisk
<1>5. \A a \in Addresses : Cached(w, a) => a < BitmapBlocks /\ w.base[a] \subseteq w.data[HashSlot(a)]
  BY <1>1, <1>2, <1>3
<1>6. \A a \in Addresses : a < BitmapBlocks => Newest(w, a) = Newest(c, a)
  BY <1>2, <1>3 DEF Newest
<1>7. \A x \in Blocks : /\ InUse(w, ChunkOf(x)) <=> InUse(c, ChunkOf(x))
                        /\ StoredInUse(w, ChunkOf(x)) <=> StoredInUse(c, ChunkOf(x))
  BY <1>2, <1>6, BitmapSize DEF InUse, StoredInUse
<1> QED BY <1>2, <1>3, <1>4, <1>5, <1>7 DEF GoodCache, w

(* A bit that is stored is set in the cache. *)
LEMMA StoredIsInUse ==
    ASSUME NEW c, GoodCache(c), NEW b \in Blocks, StoredInUse(c, ChunkOf(b))
    PROVE  InUse(c, ChunkOf(b))
BY BitmapSize DEF GoodCache, StoredInUse, InUse, Newest

(* A cache that only moved or dropped blocks keeps the promise. *)
LEMMA FollowsKept ==
    ASSUME NEW c, GoodCache(c), NEW F, NEW e, Follows(c, e, F),
           NEW m, NEW d, NEW w, Kept(c, m, d, w)
    PROVE  /\ Kept(e, m, d, Zeroed(w, Dropped(c, F))) /\ GoodCache(e)
           /\ \A b \in Blocks : e.base[DataAddress(b)] = c.base[DataAddress(b)]
<1> DEFINE g == Zeroed(w, Dropped(c, F))
<1>1. ASSUME NEW b \in Blocks
      PROVE  /\ e.base[DataAddress(b)] = c.base[DataAddress(b)]
             /\ \/ InUse(e, ChunkOf(b)) <=> InUse(c, ChunkOf(b))
                \/ ~InUse(e, ChunkOf(b)) /\ b \in Dropped(c, F)
             /\ \/ StoredInUse(e, ChunkOf(b)) <=> StoredInUse(c, ChunkOf(b))
                \/ StoredInUse(e, ChunkOf(b)) <=> InUse(e, ChunkOf(b))
  <2> DEFINE bl == BitmapBlock(ChunkOf(b))
             a == DataAddress(b)
  <2>1. bl \in Addresses /\ a \in Addresses /\ ~(a < BitmapBlocks)
    BY BitmapSize, DataIsBehind
  <2>2. /\ Newest(e, bl) = IF HashSlot(bl) \in F THEN c.base[bl] ELSE Newest(c, bl)
        /\ e.base[bl] \in {c.base[bl], Newest(e, bl)}
    BY <2>1 DEF Follows
  <2>3. ~Cached(c, a) /\ ~Cached(e, a)
    BY <2>1 DEF GoodCache, Follows
  <2>4. e.base[a] = c.base[a]
    BY <2>1, <2>3 DEF Follows, Newest
  <2>5. \/ StoredInUse(e, ChunkOf(b)) <=> StoredInUse(c, ChunkOf(b))
        \/ StoredInUse(e, ChunkOf(b)) <=> InUse(e, ChunkOf(b))
    BY <2>2 DEF InUse, StoredInUse
  <2>6. CASE HashSlot(bl) \notin F
    BY <2>2, <2>4, <2>5, <2>6 DEF InUse
  <2>7. CASE HashSlot(bl) \in F
    <3>1. InUse(e, ChunkOf(b)) <=> StoredInUse(c, ChunkOf(b))
      BY <2>2, <2>7 DEF InUse, StoredInUse
    <3>2. StoredInUse(c, ChunkOf(b)) => InUse(c, ChunkOf(b))
      BY StoredIsInUse
    <3>3. ~Cached(c, bl) => (InUse(c, ChunkOf(b)) <=> StoredInUse(c, ChunkOf(b)))
      BY DEF InUse, StoredInUse, Newest
    <3>4. Cached(c, bl) /\ InUse(c, ChunkOf(b)) /\ ~StoredInUse(c, ChunkOf(b)) => b \in Dropped(c, F)
      BY <2>7 DEF Dropped
    <3> QED BY <2>4, <2>5, <3>1, <3>2, <3>3, <3>4
  <2> QED BY <2>6, <2>7
<1>2. ASSUME NEW b \in Blocks PROVE KeptAt(e, b, m, d, g)
  <2>1. KeptAt(c, b, m, d, w)
    BY DEF Kept
  <2>2. w[b] \subseteq g[b] /\ (b \in Dropped(c, F) => Zero \in g[b])
    BY DEF Zeroed
  <2> HIDE DEF g
  <2> QED BY <1>1, <2>1, <2>2 DEF KeptAt
<1> HIDE DEF g
<1>3. Kept(e, m, d, g)
  BY <1>2 DEF Kept
<1> QED BY <1>1, <1>3 DEF Follows, g

-----------------------------------------------------------------------------
(***************************************************************************)
(* lazyzero_write_block, step by step: the chunk is cleared, its bit is    *)
(* set, and the block is written.                                          *)
(***************************************************************************)
Good(c, m, d, w) ==
    /\ GoodCache(c) /\ m \in Accounts /\ d \in Accounts /\ w \in Accounts
    /\ Kept(c, m, d, w)

LEMMA ZeroIsContents == Zero \in Contents
BY GeometryAssumption DEF Zero

(* A mishap only adds to what a block may read as. *)
LEMMA ZeroedIs ==
    ASSUME NEW w \in Accounts, NEW B
    PROVE  /\ Zeroed(w, B) \in Accounts
           /\ \A b \in Blocks : w[b] \subseteq Zeroed(w, B)[b]
           /\ \A b \in Blocks : b \in B => Zero \in Zeroed(w, B)[b]
BY ZeroIsContents DEF Zeroed, Accounts

(* The bitmap block of a block is read, and another evicted. *)
LEMMA ReadGood ==
    ASSUME NEW c, NEW m, NEW d, NEW w, Good(c, m, d, w), NEW b \in Blocks,
           NEW read \in BitmapReads(c, w, b)
    PROVE  /\ Good(read.cache, m, d, read.wrong)
           /\ \A x \in Blocks : read.cache.base[DataAddress(x)] = c.base[DataAddress(x)]
<1> DEFINE bl == BitmapBlock(ChunkOf(b))
           evicted == IF Cached(c, bl) THEN {} ELSE {HashSlot(bl)}
<1>1. PICK readable \in BitmapReadable(c, bl), F \in WriteBackFaults(c, evicted) :
         read = [cache |-> bcache_read_block(c, bl, readable, F),
                 wrong |-> Zeroed(w, Dropped(c, F))]
  BY DEF BitmapReads
<1> DEFINE r == bcache_read_block(c, bl, readable, F)
           g == Zeroed(w, Dropped(c, F))
<1>2. readable \in BOOLEAN /\ F \in SUBSET evicted
  <2>1. {} \in SUBSET evicted
    OBVIOUS
  <2> QED BY <2>1 DEF BitmapReadable, WriteBackFaults
<1>3. bl \in Addresses /\ bl < BitmapBlocks
  BY BitmapSize
<1>4. GoodCache(c) /\ Kept(c, m, d, w) /\ w \in Accounts
  BY DEF Good
<1> HIDE DEF bl
<1>5. Follows(c, r, F)
  BY <1>2, <1>3, <1>4, ReadFollows
<1> HIDE DEF r
<1>6. /\ Kept(r, m, d, g) /\ GoodCache(r)
      /\ \A x \in Blocks : r.base[DataAddress(x)] = c.base[DataAddress(x)]
  BY <1>4, <1>5, FollowsKept
<1>7. g \in Accounts
  BY <1>4, ZeroedIs
<1> HIDE DEF g
<1>8. read.cache = r /\ read.wrong = g
  BY <1>1 DEF r, g
<1> QED BY <1>6, <1>7, <1>8 DEF Good

(* What may be zero after the clearing of a chunk. *)
NowZeroed(c, k, w) ==
    IF Cached(c, BitmapBlock(k)) THEN w ELSE Zeroed(w, BlocksOfChunk(k))

LEMMA UsableIsInUse ==
    ASSUME NEW c, NEW b \in Blocks, Cached(c, BitmapBlock(ChunkOf(b)))
    PROVE  ChunkUsable(c, ChunkOf(b)) <=> InUse(c, ChunkOf(b))
BY DEF ChunkUsable, InUse, Newest

(* Clearing some of a chunk costs nothing, unless the bitmap was misread. *)
LEMMA ClearGood ==
    ASSUME NEW c, NEW m, NEW d, NEW w, Good(c, m, d, w), NEW b \in Blocks, NEW n,
           ~ChunkUsable(c, ChunkOf(b))
    PROVE  LET k == ChunkOf(b)
               e == ClearChunk(c, k, n)
           IN  /\ Good(e, m, d, NowZeroed(c, k, w))
               /\ n = WritesToClear(k) => \A x \in BlocksOfChunk(k) : e.base[DataAddress(x)] = Zero
<1> DEFINE k == ChunkOf(b)
           cleared == {a \in ChunkAddresses(k) : a < DataAddress(k * ChunkSize) + n}
           f == [a \in Addresses |-> IF a \in cleared THEN Zero ELSE c.base[a]]
           e == ClearChunk(c, k, n)
           g == NowZeroed(c, k, w)
<1>1. e = WithBase(c, f)
  BY DEF ClearChunk
<1>2. GoodCache(c) /\ Kept(c, m, d, w) /\ c \in Caches /\ w \in Accounts
  BY DEF Good, GoodCache
<1>3. f \in [Addresses -> Contents]
  BY <1>2, ZeroIsContents DEF Caches
<1>4. /\ \A a \in cleared : ~(a < BitmapBlocks)
      /\ \A x \in Blocks : ChunkOf(x) # k => DataAddress(x) \notin cleared
      /\ n = WritesToClear(k) => \A x \in BlocksOfChunk(k) : DataAddress(x) \in cleared
  BY ChunkIsCleared DEF BlocksOfChunk
<1> HIDE DEF cleared, e
<1>5. \A a \in Addresses : a < BitmapBlocks => f[a] = c.base[a]
  BY <1>4
<1>6. \A x \in Blocks : f[DataAddress(x)] = IF DataAddress(x) \in cleared THEN Zero
                                            ELSE c.base[DataAddress(x)]
  BY DataIsBehind
<1> HIDE DEF f
<1>7. /\ GoodCache(e) /\ e.base = f
      /\ \A x \in Blocks : /\ InUse(e, ChunkOf(x)) <=> InUse(c, ChunkOf(x))
                           /\ StoredInUse(e, ChunkOf(x)) <=> StoredInUse(c, ChunkOf(x))
  BY <1>1, <1>2, <1>3, <1>5, PastTheCache
<1>8. /\ g \in Accounts
      /\ \A x \in Blocks : w[x] \subseteq g[x]
      /\ ~Cached(c, BitmapBlock(k)) => \A x \in BlocksOfChunk(k) : Zero \in g[x]
  BY <1>2, ZeroedIs DEF NowZeroed, BlocksOfChunk
<1> HIDE DEF g
<1>9. ASSUME NEW x \in Blocks PROVE KeptAt(e, x, m, d, g)
  <2>0. KeptAt(c, x, m, d, w)
    BY <1>2 DEF Kept
  <2>1. CASE ChunkOf(x) # k
    <3>1. e.base[DataAddress(x)] = c.base[DataAddress(x)]
      BY <2>1, <1>4, <1>6, <1>7
    <3> QED BY <2>0, <3>1, <1>7, <1>8 DEF KeptAt
  <2>2. CASE ChunkOf(x) = k /\ ~Cached(c, BitmapBlock(k))
    <3>1. Zero \in g[x]
      BY <2>2, <1>8 DEF BlocksOfChunk
    <3>2. e.base[DataAddress(x)] \in {c.base[DataAddress(x)], Zero}
      BY <1>6, <1>7
    <3> QED BY <2>0, <3>1, <3>2, <1>7, <1>8 DEF KeptAt
  <2>3. CASE ChunkOf(x) = k /\ Cached(c, BitmapBlock(k))
    <3>1. ~InUse(c, ChunkOf(x))
      BY <2>3, UsableIsInUse
    <3>2. ~StoredInUse(c, ChunkOf(x))
      BY <3>1, <1>2, StoredIsInUse
    <3> QED BY <2>0, <3>1, <3>2, <1>7, <1>8 DEF KeptAt
  <2> QED BY <2>1, <2>2, <2>3
<1>10. n = WritesToClear(k) => \A x \in BlocksOfChunk(k) : e.base[DataAddress(x)] = Zero
  BY <1>4, <1>6, <1>7 DEF BlocksOfChunk
<1> QED BY <1>7, <1>8, <1>9, <1>10 DEF Good, Kept, e, g

(* A chunk that is cleared can be made usable. *)
LEMMA UsableGood ==
    ASSUME NEW c, NEW m, NEW d, NEW g, Good(c, m, d, g), NEW b \in Blocks,
           Cached(c, BitmapBlock(ChunkOf(b))),
           \A x \in BlocksOfChunk(ChunkOf(b)) : c.base[DataAddress(x)] = Zero
    PROVE  LET w == SetChunkUsable(c, ChunkOf(b))
           IN  Good(w, m, d, g) /\ InUse(w, ChunkOf(b))
<1> DEFINE k == ChunkOf(b)
           w == SetChunkUsable(c, k)
<1>1. /\ GoodCache(w) /\ w.base = c.base /\ InUse(w, k)
      /\ \A x \in Blocks : ChunkOf(x) # k => (InUse(w, ChunkOf(x)) <=> InUse(c, ChunkOf(x)))
  BY SetUsable DEF Good
<1> HIDE DEF w
<1>2. \A x \in Blocks : StoredInUse(w, ChunkOf(x)) <=> StoredInUse(c, ChunkOf(x))
  BY <1>1 DEF StoredInUse
<1>3. ASSUME NEW x \in Blocks PROVE KeptAt(w, x, m, d, g)
  <2>0. KeptAt(c, x, m, d, g)
    BY DEF Good, Kept
  <2>1. CASE ChunkOf(x) # k
    BY <2>0, <2>1, <1>1, <1>2 DEF KeptAt
  <2>2. CASE ChunkOf(x) = k
    <3>1. c.base[DataAddress(x)] = Zero
      BY <2>2 DEF BlocksOfChunk
    <3>2. Zero \in m[x] \cup g[x]
      BY <2>0, <3>1 DEF KeptAt
    <3> QED BY <2>0, <2>2, <3>1, <3>2, <1>1, <1>2 DEF KeptAt
  <2> QED BY <2>1, <2>2
<1> QED BY <1>1, <1>3 DEF Good, Kept, w

(* A write that failed, and was not done. *)
LEMMA FailedGood ==
    ASSUME NEW c, NEW w, Good(c, may, durable, w), NEW b \in Blocks,
           NEW promised \in SUBSET Contents, NEW spoilt \in SUBSET Contents,
           WriteFailed(b, promised, spoilt, c, w)
    PROVE  Good(bc', may', durable', wrong')
<1>1. /\ bc' = c
      /\ may' = [may EXCEPT ![b] = may[b] \cup promised]
      /\ durable' = [durable EXCEPT ![b] = durable[b] \cup promised]
      /\ wrong' = [w EXCEPT ![b] = w[b] \cup spoilt]
      /\ may \in Accounts /\ durable \in Accounts /\ w \in Accounts
  BY DEF WriteFailed, Good
<1>2. /\ may' \in Accounts /\ durable' \in Accounts /\ wrong' \in Accounts
      /\ may'[b] = may[b] \cup promised /\ durable'[b] = durable[b] \cup promised
      /\ wrong'[b] = w[b] \cup spoilt
      /\ \A x \in Blocks : x # b => may'[x] = may[x] /\ durable'[x] = durable[x] /\ wrong'[x] = w[x]
  BY <1>1 DEF Accounts
<1>3. ASSUME NEW x \in Blocks PROVE KeptAt(c, x, may', durable', wrong')
  <2>0. KeptAt(c, x, may, durable, w)
    BY DEF Good, Kept
  <2>1. CASE x # b
    BY <2>0, <2>1, <1>2 DEF KeptAt
  <2>2. CASE x = b
    BY <2>0, <2>2, <1>2 DEF KeptAt
  <2> QED BY <2>1, <2>2
<1> QED BY <1>1, <1>2, <1>3 DEF Good, Kept

(* The write of the block itself, once its chunk is in use. *)
LEMMA ThroughGood ==
    ASSUME NEW c, NEW w, Good(c, may, durable, w), NEW b \in Blocks,
           NEW promised \in SUBSET Contents, NEW spoilt \in SUBSET Contents,
           NEW from \in promised \cup spoilt,
           InUse(c, ChunkOf(b)), WriteThrough(b, promised, spoilt, from, c, w)
    PROVE  Good(bc', may', durable', wrong')
<1> DEFINE f == [c.base EXCEPT ![DataAddress(b)] = from]
           written == WithBase(c, f)
<1>0. {} \in SUBSET Contents
  OBVIOUS
<1>1. CASE WriteFailed(b, promised, {}, c, w)
  BY <1>0, <1>1, FailedGood
<1>2. CASE ~WriteFailed(b, promised, {}, c, w)
  <2>1. /\ may \in Accounts /\ durable \in Accounts /\ w \in Accounts
        /\ GoodCache(c) /\ c.base \in [Addresses -> Contents]
    BY DEF Good, GoodCache, Caches
  <2>2. /\ bc' = written
        /\ \/ /\ may' = [may EXCEPT ![b] = promised]
              /\ durable' = [durable EXCEPT ![b] = (durable[b] \cup w[b]) \cup promised]
              /\ wrong' = [w EXCEPT ![b] = spoilt]
           \/ /\ may' = [may EXCEPT ![b] = may[b] \cup promised]
              /\ durable' = [durable EXCEPT ![b] = durable[b] \cup promised]
              /\ wrong' = [w EXCEPT ![b] = w[b] \cup spoilt]
    BY <1>2 DEF WriteThrough, WriteFailed
  <2>3. /\ may' \in Accounts /\ durable' \in Accounts /\ wrong' \in Accounts
        /\ promised \subseteq may'[b] /\ may'[b] \subseteq durable'[b] \cup may[b]
        /\ durable[b] \cup promised \subseteq durable'[b]
        /\ may'[b] \subseteq promised \cup may[b]
        /\ spoilt \subseteq wrong'[b] /\ durable[b] \cup w[b] \subseteq durable'[b] \cup wrong'[b]
        /\ \A x \in Blocks : x # b => may'[x] = may[x] /\ durable'[x] = durable[x] /\ wrong'[x] = w[x]
    BY <2>1, <2>2 DEF Accounts
  <2>4. /\ f \in [Addresses -> Contents]
        /\ \A a \in Addresses : a < BitmapBlocks => f[a] = c.base[a]
        /\ \A x \in Blocks : f[DataAddress(x)] = IF x = b THEN from ELSE c.base[DataAddress(x)]
    <3>1. from \in Contents
      OBVIOUS
    <3> QED BY <3>1, <2>1, DataIsBehind
  <2> HIDE DEF f
  <2>5. /\ GoodCache(bc') /\ bc'.base = f
        /\ \A x \in Blocks : /\ InUse(bc', ChunkOf(x)) <=> InUse(c, ChunkOf(x))
                             /\ StoredInUse(bc', ChunkOf(x)) <=> StoredInUse(c, ChunkOf(x))
    BY <2>1, <2>2, <2>4, PastTheCache
  <2>6. ASSUME NEW x \in Blocks PROVE KeptAt(bc', x, may', durable', wrong')
    <3>0. KeptAt(c, x, may, durable, w)
      BY DEF Good, Kept
    <3>1. CASE x # b
      BY <3>0, <3>1, <2>3, <2>4, <2>5 DEF KeptAt
    <3>2. CASE x = b
      <4>1. /\ may[b] \subseteq durable[b]
            /\ ~StoredInUse(c, ChunkOf(b)) => Zero \in durable[b] \cup w[b]
        BY <3>0, <3>2 DEF KeptAt
      <4>2. from \in may'[b] \cup wrong'[b] /\ from \in durable'[b] \cup wrong'[b]
        BY <2>3
      <4>3. may'[b] \subseteq durable'[b]
        BY <4>1, <2>3
      <4>4. ~StoredInUse(c, ChunkOf(b)) => Zero \in durable'[b] \cup wrong'[b]
        BY <4>1, <2>3
      <4>5. bc'.base[DataAddress(b)] = from /\ InUse(bc', ChunkOf(b))
        BY <2>4, <2>5
      <4> QED BY <3>2, <4>2, <4>3, <4>4, <4>5, <2>5 DEF KeptAt
    <3> QED BY <3>1, <3>2
  <2> QED BY <2>3, <2>5, <2>6 DEF Good, Kept
<1> QED BY <1>1, <1>2

(* The first write to a chunk. *)
LEMMA UnusedGood ==
    ASSUME NEW c, NEW w, Good(c, may, durable, w), NEW b \in Blocks,
           NEW promised \in SUBSET Contents, NEW spoilt \in SUBSET Contents,
           NEW from \in promised \cup spoilt, NEW shared \in BOOLEAN,
           ~ChunkUsable(c, ChunkOf(b)), WriteToUnused(b, promised, spoilt, from, c, w, shared)
    PROVE  Good(bc', may', durable', wrong')
<1> DEFINE k == ChunkOf(b)
           total == WritesToClear(k)
           now == NowZeroed(c, k, w)
           e == ClearChunk(c, k, total)
           sp == IF shared THEN {Zero} ELSE spoilt
           fr == IF shared THEN Zero ELSE from
<1>0. {} \in SUBSET Contents
  OBVIOUS
<1>1. \/ \E n \in 0 .. total : WriteFailed(b, promised, {}, ClearChunk(c, k, n), now)
      \/ \E read \in BitmapReads(e, now, b) :
            IF Cached(read.cache, BitmapBlock(k))
            THEN WriteThrough(b, promised, sp, fr, SetChunkUsable(read.cache, k), read.wrong)
            ELSE WriteFailed(b, promised, {}, read.cache, read.wrong)
  BY DEF WriteToUnused, NowZeroed
<1>2. ASSUME NEW n, WriteFailed(b, promised, {}, ClearChunk(c, k, n), now)
      PROVE  Good(bc', may', durable', wrong')
  <2>1. Good(ClearChunk(c, k, n), may, durable, now)
    BY ClearGood
  <2> HIDE DEF k, now
  <2> QED BY <1>0, <1>2, <2>1, FailedGood
<1>3. Good(e, may, durable, now) /\ \A x \in BlocksOfChunk(k) : e.base[DataAddress(x)] = Zero
  BY ClearGood
<1>4. sp \in SUBSET Contents /\ fr \in promised \cup sp
  BY ZeroIsContents
<1> HIDE DEF e, now, sp, fr
<1>5. ASSUME NEW read \in BitmapReads(e, now, b),
             IF Cached(read.cache, BitmapBlock(k))
             THEN WriteThrough(b, promised, sp, fr, SetChunkUsable(read.cache, k), read.wrong)
             ELSE WriteFailed(b, promised, {}, read.cache, read.wrong)
      PROVE  Good(bc', may', durable', wrong')
  <2>1. /\ Good(read.cache, may, durable, read.wrong)
        /\ \A x \in Blocks : read.cache.base[DataAddress(x)] = e.base[DataAddress(x)]
    BY <1>3, ReadGood
  <2>2. \A x \in BlocksOfChunk(k) : read.cache.base[DataAddress(x)] = Zero
    BY <1>3, <2>1 DEF BlocksOfChunk
  <2>3. CASE Cached(read.cache, BitmapBlock(k))
    <3>1. /\ Good(SetChunkUsable(read.cache, k), may, durable, read.wrong)
          /\ InUse(SetChunkUsable(read.cache, k), k)
      BY <2>1, <2>2, <2>3, UsableGood
    <3>2. WriteThrough(b, promised, sp, fr, SetChunkUsable(read.cache, k), read.wrong)
      BY <1>5, <2>3
    <3> QED BY <1>4, <3>1, <3>2, ThroughGood
  <2>4. CASE ~Cached(read.cache, BitmapBlock(k))
    <3> HIDE DEF k
    <3> QED BY <1>0, <1>5, <2>1, <2>4, FailedGood
  <2> QED BY <2>3, <2>4
<1> HIDE DEF k, total
<1> QED BY <1>1, <1>2, <1>5

LEMMA WriteFromGood ==
    ASSUME NEW c, NEW w, Good(c, may, durable, w), NEW b \in Blocks,
           NEW promised \in SUBSET Contents, NEW spoilt \in SUBSET Contents,
           NEW from \in promised \cup spoilt, NEW shared \in BOOLEAN,
           WriteFrom(c, w, b, promised, spoilt, from, shared)
    PROVE  Good(bc', may', durable', wrong')
<1>1. PICK read \in BitmapReads(c, w, b) :
         IF ChunkUsable(read.cache, ChunkOf(b))
         THEN WriteThrough(b, promised, spoilt, from, read.cache, read.wrong)
         ELSE WriteToUnused(b, promised, spoilt, from, read.cache, read.wrong, shared)
  BY DEF WriteFrom
<1>2. Good(read.cache, may, durable, read.wrong)
  BY ReadGood
<1>3. CASE ChunkUsable(read.cache, ChunkOf(b))
  <2>1. InUse(read.cache, ChunkOf(b))
    BY <1>3, UsableIsInUse DEF ChunkUsable
  <2> QED BY <1>1, <1>2, <1>3, <2>1, ThroughGood
<1>4. CASE ~ChunkUsable(read.cache, ChunkOf(b))
  BY <1>1, <1>2, <1>4, UnusedGood
<1> QED BY <1>3, <1>4

(* What is read is expected, if the bitmap could be read. *)
LEMMA IntoIsExpected ==
    ASSUME NEW c, NEW m, NEW d, NEW w, Good(c, m, d, w), NEW b \in Blocks
    PROVE  \/ Into(c, b) \in m[b] \cup w[b]
           \/ Into(c, b) = Zero /\ ~Cached(c, BitmapBlock(ChunkOf(b)))
<1>1. KeptAt(c, b, m, d, w)
  BY DEF Good, Kept
<1> QED BY <1>1, UsableIsInUse DEF Into, KeptAt, ChunkUsable

-----------------------------------------------------------------------------
(***************************************************************************)
(* The steps.                                                              *)
(***************************************************************************)

LEMMA IndInvIs ==
    IndInv <=> Good(bc, may, durable, wrong) /\ ReadsAreExpected
BY DEF IndInv, Good

(* The same of the next state. *)
LEMMA NextIs ==
    ASSUME Good(bc', may', durable', wrong'), ReadsAreExpected'
    PROVE  IndInv'
<1>1. /\ GoodCache(bc') /\ Kept(bc', may', durable', wrong')
      /\ may' \in Accounts /\ durable' \in Accounts /\ wrong' \in Accounts
  BY DEF Good
<1>2. GoodCache(bc)' /\ Kept(bc, may, durable, wrong)'
  BY <1>1 DEF GoodCache, Kept, KeptAt, InUse, StoredInUse, Newest, Labelled, CleanIsOnDisk, Cached
<1> QED BY <1>1, <1>2 DEF IndInv, Accounts

(* A cache that was just created holds no block. *)
LEMMA CreatedCache ==
    ASSUME NEW f \in [Addresses -> Contents], NEW g \in [Slots -> Contents]
    PROVE  LET c == bcache_create(f, g)
           IN  /\ GoodCache(c) /\ c.base = f
               /\ \A b \in Blocks : InUse(c, ChunkOf(b)) <=> StoredInUse(c, ChunkOf(b))
<1> DEFINE c == bcache_create(f, g)
           ix == [s \in Slots |-> NoBlock]
           dr == [s \in Slots |-> FALSE]
<1>1. /\ c \in Caches /\ c.base = f /\ c.data = g /\ c.indexes = ix /\ c.dirty = dr
  <2>1. ix \in [Slots -> Addresses \cup {NoBlock}] /\ dr \in [Slots -> BOOLEAN]
    OBVIOUS
  <2>2. c = [base |-> f, data |-> g, indexes |-> ix, dirty |-> dr]
    BY DEF bcache_create
  <2> HIDE DEF c, ix, dr
  <2> QED BY <2>1, <2>2, CacheRecord
<1> HIDE DEF c
<1>2. \A a \in Addresses : ~Cached(c, a)
  BY <1>1, HashAssumption, NoBlockAssumption DEF Cached
<1>3. Labelled(c) /\ CleanIsOnDisk(c)
  BY <1>1, <1>2 DEF Labelled, CleanIsOnDisk
<1>4. \A b \in Blocks : InUse(c, ChunkOf(b)) <=> StoredInUse(c, ChunkOf(b))
  BY <1>2, BitmapSize DEF InUse, StoredInUse, Newest
<1> QED BY <1>1, <1>2, <1>3, <1>4 DEF GoodCache, c

(* What the process leaves behind when it dies. *)
LEMMA CrashGood ==
    ASSUME NEW c, NEW m, NEW d, NEW w, Good(c, m, d, w)
    PROVE  Good(bcache_create(c.base, c.data), d, d, w)
<1> DEFINE e == bcache_create(c.base, c.data)
<1>1. /\ GoodCache(e) /\ e.base = c.base
      /\ \A b \in Blocks : InUse(e, ChunkOf(b)) <=> StoredInUse(e, ChunkOf(b))
  BY CreatedCache DEF Good, GoodCache, Caches
<1> HIDE DEF e
<1>2. \A b \in Blocks : StoredInUse(e, ChunkOf(b)) <=> StoredInUse(c, ChunkOf(b))
  BY <1>1 DEF StoredInUse
<1>3. ASSUME NEW b \in Blocks PROVE KeptAt(e, b, d, d, w)
  BY <1>1, <1>2 DEF Good, Kept, KeptAt
<1> QED BY <1>1, <1>3 DEF Good, Kept, e

(* bcache_flush stores the bitmap as it is, but for the bits it drops. *)
LEMMA FlushGood ==
    ASSUME NEW c, NEW m, NEW d, NEW w, Good(c, m, d, w), NEW F \in WriteBackFaults(c, Slots)
    PROVE  Good(bcache_flush(c, F), m, m, Zeroed(w, Dropped(c, F)))
<1> DEFINE e == bcache_flush(c, F)
           g == Zeroed(w, Dropped(c, F))
<1>1. GoodCache(c) /\ Kept(c, m, d, w) /\ w \in Accounts
  BY DEF Good
<1>2. F \in SUBSET Slots
  <2>1. {} \in SUBSET Slots
    OBVIOUS
  <2> QED BY <2>1 DEF WriteBackFaults
<1>3. /\ Follows(c, e, F)
      /\ \A a \in Addresses : Cached(e, a) <=> Cached(c, a) /\ HashSlot(a) \notin Slots
  BY <1>1, <1>2, EvictFollows DEF bcache_flush
<1> HIDE DEF e
<1>4. Kept(e, m, d, g) /\ GoodCache(e) /\ g \in Accounts
  BY <1>1, <1>3, FollowsKept, ZeroedIs
<1>5. \A b \in Blocks : StoredInUse(e, ChunkOf(b)) <=> InUse(e, ChunkOf(b))
  BY <1>3, BitmapSize, HashAssumption DEF StoredInUse, InUse, Newest
<1> HIDE DEF g
<1>6. ASSUME NEW b \in Blocks PROVE KeptAt(e, b, m, m, g)
  BY <1>4, <1>5 DEF Kept, KeptAt
<1> QED BY <1>4, <1>6 DEF Good, Kept, e, g

(* bcache_clear does the same. *)
LEMMA ClearIsFlush ==
    ASSUME NEW c, c \in Caches, NEW F
    PROVE  bcache_clear(c, F) = bcache_flush(c, F)
BY DEF bcache_clear, bcache_flush, bcache_evict, Emptied

LEMMA InitIndInv == Init => IndInv
<1> SUFFICES ASSUME Init PROVE IndInv
  OBVIOUS
<1>1. PICK old \in [Addresses -> {Zero} \cup WriteValues] :
         bc = bcache_create(CreatedBase(old), [s \in Slots |-> Zero])
  BY DEF Init
<1>2. CreatedBase(old) \in [Addresses -> Contents] /\ [s \in Slots |-> Zero] \in [Slots -> Contents]
  BY ZeroIsContents, HeaderAssumption, ValueAssumption DEF CreatedBase
<1>3. /\ GoodCache(bc) /\ bc.base \in [Addresses -> Contents]
      /\ \A b \in Blocks : InUse(bc, ChunkOf(b)) <=> StoredInUse(bc, ChunkOf(b))
  BY <1>1, <1>2, CreatedCache
<1>4. \A b \in Blocks : /\ may[b] = {Zero} /\ durable[b] = {Zero}
                        /\ wrong[b] = IF InUse(bc, ChunkOf(b)) THEN {bc.base[DataAddress(b)]} ELSE {}
  BY DEF Init
<1>5. may \in Accounts /\ durable \in Accounts /\ wrong \in Accounts
  <2>1. \A b \in Blocks : bc.base[DataAddress(b)] \in Contents
    BY <1>3, DataIsBehind
  <2> QED BY <2>1, ZeroIsContents DEF Init, Accounts
<1>6. ASSUME NEW b \in Blocks PROVE KeptAt(bc, b, may, durable, wrong)
  BY <1>3, <1>4 DEF KeptAt
<1>7. ReadsAreExpected
  BY DEF Init, ReadsAreExpected
<1> QED BY <1>3, <1>5, <1>6, <1>7, IndInvIs DEF Good, Kept

LEMMA NextIndInv == IndInv /\ [Next]_vars => IndInv'
<1> SUFFICES ASSUME IndInv, [Next]_vars PROVE IndInv'
  OBVIOUS
<1>0. Good(bc, may, durable, wrong) /\ ReadsAreExpected
  BY IndInvIs
<1>1. reply' = NoReply => ReadsAreExpected'
  BY DEF ReadsAreExpected
<1>2. ASSUME NEW b \in Blocks, ReadBlock(b) PROVE IndInv'
  <2>1. PICK read \in BitmapReads(bc, wrong, b) :
           /\ bc' = read.cache /\ wrong' = read.wrong
           /\ reply' = [at |-> b, val |-> Into(read.cache, b)] \/ reply' = NoReply
           /\ may' = may /\ durable' = durable
    BY <1>2 DEF ReadBlock
  <2>2. Good(bc', may', durable', wrong')
    BY <1>0, <2>1, ReadGood
  <2>3. \/ Into(bc', b) \in may'[b] \cup wrong'[b]
        \/ Into(bc', b) = Zero /\ ~Cached(bc', BitmapBlock(ChunkOf(b)))
    BY <2>2, IntoIsExpected
  <2>4. ReadsAreExpected'
    <3>1. CASE reply' = NoReply
      BY <3>1, <1>1
    <3>2. CASE reply' = [at |-> b, val |-> Into(bc', b)]
      <4>1. reply'.at = b /\ reply'.val = Into(bc', b)
        BY <3>2
      <4> QED BY <4>1, <2>3 DEF ReadsAreExpected, Expected, Cached
    <3> QED BY <3>1, <3>2, <2>1
  <2> QED BY <2>2, <2>4, NextIs
<1>3. ASSUME NEW b \in Blocks, NEW v \in WriteValues, WriteBlock(b, v) PROVE IndInv'
  <2>1. WriteFrom(bc, wrong, b, {v}, {}, v, FALSE) /\ reply' = NoReply
    BY <1>3 DEF WriteBlock
  <2> DEFINE one == {v}
             none == {}
             no == FALSE
  <2>2. one \in SUBSET Contents /\ none \in SUBSET Contents /\ v \in one \cup none /\ no \in BOOLEAN
    BY ValueAssumption
  <2>3. WriteFrom(bc, wrong, b, one, none, v, no)
    BY <2>1
  <2> HIDE DEF one, none, no
  <2>4. Good(bc', may', durable', wrong')
    BY <1>0, <2>2, <2>3, WriteFromGood
  <2> QED BY <1>1, <2>1, <2>4, NextIs
<1>4. ASSUME NEW b \in Blocks, NEW v \in WriteValues, NEW part \in Parts, WriteBytes(b, v, part)
      PROVE  IndInv'
  <2> DEFINE Misread(read) ==
                IF Cached(read.cache, BitmapBlock(ChunkOf(b))) THEN {} ELSE {Zero}
             Spoilt(read) ==
                {Merged(x, v, part) : x \in read.wrong[b] \cup Misread(read)}
             promised == {Merged(x, v, part) : x \in may[b]}
             From(read) == Merged(Into(read.cache, b), v, part)
             yes == TRUE
  <2>1. PICK read \in BitmapReads(bc, wrong, b) :
           \/ WriteFrom(read.cache, read.wrong, b, promised, Spoilt(read), From(read), yes)
           \/ bc' = read.cache /\ wrong' = read.wrong /\ may' = may /\ durable' = durable
    BY <1>4 DEF WriteBytes
  <2>2. Good(read.cache, may, durable, read.wrong)
    BY <1>0, ReadGood
  <2>3. \A x \in Contents : Merged(x, v, part) \in Contents
    BY ValueAssumption, GeometryAssumption DEF Merged
  <2>4. /\ promised \in SUBSET Contents /\ Spoilt(read) \in SUBSET Contents
    <3>1. may[b] \subseteq Contents /\ read.wrong[b] \subseteq Contents /\ Misread(read) \subseteq Contents
      BY <2>2, ZeroIsContents DEF Good, Accounts
    <3> QED BY <3>1, <2>3
  <2>5. From(read) \in promised \cup Spoilt(read)
    <3>1. Into(read.cache, b) \in may[b] \cup (read.wrong[b] \cup Misread(read))
      BY <2>2, IntoIsExpected
    <3> QED BY <3>1
  <2> DEFINE from == From(read)
             sp == Spoilt(read)
  <2>6. /\ sp \in SUBSET Contents /\ from \in promised \cup sp /\ yes \in BOOLEAN
        /\ \/ WriteFrom(read.cache, read.wrong, b, promised, sp, from, yes)
           \/ bc' = read.cache /\ wrong' = read.wrong /\ may' = may /\ durable' = durable
    BY <2>1, <2>4, <2>5
  <2> HIDE DEF from, sp, promised, yes
  <2>7. Good(bc', may', durable', wrong')
    BY <2>2, <2>4, <2>6, WriteFromGood
  <2> QED BY <1>1, <1>4, <2>7, NextIs DEF WriteBytes
<1>5. CASE Flush \/ ClearCaches
  <2>1. PICK F \in WriteBackFaults(bc, Slots) :
           /\ bc' = bcache_flush(bc, F) /\ wrong' = Zeroed(wrong, Dropped(bc, F))
           /\ durable' = may /\ may' = may /\ reply' = NoReply
    BY <1>0, <1>5, ClearIsFlush DEF Flush, ClearCaches, Good, GoodCache
  <2>2. Good(bc', may', durable', wrong')
    BY <1>0, <2>1, FlushGood
  <2> QED BY <1>1, <2>1, <2>2, NextIs
<1>6. CASE Close
  <2>1. PICK F \in WriteBackFaults(bc, Slots) :
           /\ bc' = bcache_create(bcache_flush(bc, F).base, bcache_flush(bc, F).data)
           /\ wrong' = Zeroed(wrong, Dropped(bc, F))
           /\ durable' = may /\ may' = may /\ reply' = NoReply
    BY <1>6 DEF Close
  <2> DEFINE e == bcache_flush(bc, F)
             g == Zeroed(wrong, Dropped(bc, F))
  <2>2. Good(e, may, may, g)
    BY <1>0, FlushGood
  <2>3. bc' = bcache_create(e.base, e.data) /\ wrong' = g
    BY <2>1
  <2> HIDE DEF e, g
  <2>4. Good(bc', may', durable', wrong')
    BY <2>1, <2>2, <2>3, CrashGood
  <2> QED BY <1>1, <2>1, <2>4, NextIs
<1>7. CASE Crash
  <2>1. /\ bc' = bcache_create(bc.base, bc.data)
        /\ durable' = durable /\ may' = durable /\ wrong' = wrong /\ reply' = NoReply
    BY <1>7 DEF Crash
  <2>2. Good(bc', may', durable', wrong')
    BY <1>0, <2>1, CrashGood
  <2> QED BY <1>1, <2>1, <2>2, NextIs
<1>8. CASE Open
  <2>1. Good(bc', may', durable', wrong') /\ reply' = NoReply
    BY <1>0, <1>8 DEF Open
  <2> QED BY <1>1, <2>1, NextIs
<1>9. CASE UNCHANGED vars
  <2>1. Good(bc', may', durable', wrong')
    BY <1>0, <1>9 DEF vars
  <2>2. ReadsAreExpected'
    BY <1>0, <1>9 DEF vars, ReadsAreExpected, Expected, Cached
  <2> QED BY <2>1, <2>2, NextIs
<1>10. Written \subseteq Blocks
  BY FaultAssumption
<1> QED BY <1>2, <1>3, <1>4, <1>5, <1>6, <1>7, <1>8, <1>9, <1>10 DEF Next

(***************************************************************************)
(* IndInv holds throughout: the bits of the bitmap, cached and stored, and *)
(* the clearing of chunks go together.                                     *)
(***************************************************************************)
THEOREM LazyZeroInvariant == Spec => []IndInv
BY InitIndInv, NextIndInv, PTL DEF Spec

(***************************************************************************)
(* Whatever the size of chunks, blocks and cache, and whichever reads and  *)
(* writes fail, the writes back of the bitmap included, every block of an  *)
(* open device would read as what was last written to it, or as zeroes if  *)
(* it never was, or as what one of the named mishaps left there.           *)
(***************************************************************************)
THEOREM LazyZeroEveryBlockIsExpected == Spec => []EveryBlockIsExpected
<1>1. IndInv => EveryBlockIsExpected
  BY DEF IndInv, Kept, KeptAt, ReadsAs, Expected, EveryBlockIsExpected
<1> QED BY <1>1, LazyZeroInvariant, PTL

(***************************************************************************)
(* lazyzero_read_block returns what is expected of the block or, when it   *)
(* could not read the bitmap, zeroes.                                      *)
(***************************************************************************)
THEOREM LazyZeroReadsAreExpected == Spec => []ReadsAreExpected
<1>1. IndInv => ReadsAreExpected
  BY DEF IndInv
<1> QED BY <1>1, LazyZeroInvariant, PTL
=============================================================================
