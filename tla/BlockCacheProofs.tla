-------------------------- MODULE BlockCacheProofs --------------------------
(***************************************************************************)
(* Proofs about the block cache, for any number of slots, any set of       *)
(* blocks, any contents and any hash function: whatever reads and write    *)
(* backs fail and whenever the process dies, a read is explained by the    *)
(* history; and when write backs succeed the cache is a block device.      *)
(***************************************************************************)
EXTENDS BlockCacheDevice, TLAPS

USE DEF Slots

Accounts == [Addresses -> SUBSET Contents]

(* A cache is put together from its four arrays. *)
LEMMA CacheRecord ==
    ASSUME NEW b \in [Addresses -> Contents], NEW dt \in [Slots -> Contents],
           NEW ix \in [Slots -> Addresses \cup {NoBlock}],
           NEW dr \in [Slots -> BOOLEAN], NEW c,
           c = [base |-> b, data |-> dt, indexes |-> ix, dirty |-> dr]
    PROVE  /\ c \in Caches
           /\ c.base = b /\ c.data = dt /\ c.indexes = ix /\ c.dirty = dr
  BY DEF Caches

(* Evicting slots, with or without failures, keeps the cache coherent. *)
LEMMA EvictCoherent ==
    ASSUME IndInv, NEW S \in SUBSET Slots, NEW F \in SUBSET Slots
    PROVE  /\ Coherent(bcache_evict(bc, S, F), MayAfter(S, F), DurableAfter(S, F))
           /\ MayAfter(S, F) \in Accounts
           /\ DurableAfter(S, F) \in Accounts
           /\ \A a \in Addresses : MayAfter(S, F)[a] \subseteq DurableAfter(S, F)[a]
  <1> DEFINE e == bcache_evict(bc, S, F)
             m == MayAfter(S, F)
             d == DurableAfter(S, F)
  <1>1. /\ bc \in Caches /\ may \in Accounts /\ durable \in Accounts
        /\ Labelled(bc) /\ CleanIsOnDisk(bc)
        /\ HoldsNewest(bc, may) /\ SurvivesCrash(bc, durable)
        /\ NewestMaySurvive
    BY DEF IndInv, TypeOK, Coherent, Dev!DeviceTypeOK, Accounts
  <1>2. /\ m \in Accounts /\ d \in Accounts
        /\ \A a \in Addresses : m[a] \subseteq d[a]
    BY <1>1 DEF MayAfter, DurableAfter, Accounts, NewestMaySurvive
  <1>3. /\ e \in Caches
        /\ e.data = bc.data
        /\ e.base = WrittenBack(bc, S \ F)
        /\ \A s \in Slots : /\ e.dirty[s] = (s \notin S /\ bc.dirty[s])
                            /\ e.indexes[s] = IF s \in S THEN NoBlock ELSE bc.indexes[s]
    BY <1>1 DEF bcache_evict, Caches, WrittenBack, Emptied, Cleaned
  <1>4. \A a \in Addresses :
           /\ Cached(e, a) <=> Cached(bc, a) /\ HashSlot(a) \notin S
           /\ e.base[a] = IF a \in Evicted(S) \ Lost(S, F) THEN Newest(bc, a)
                          ELSE bc.base[a]
    BY <1>1, <1>3, HashAssumption, NoBlockAssumption
       DEF Cached, WrittenBack, Evicted, Lost, Newest, CleanIsOnDisk
  <1> HIDE DEF e, m, d
  <1>5. Labelled(e)
    BY <1>1, <1>3 DEF Labelled
  <1>6. CleanIsOnDisk(e)
    BY <1>1, <1>3, <1>4, HashAssumption DEF CleanIsOnDisk, Evicted
  <1>7. HoldsNewest(e, m)
    <2> SUFFICES ASSUME NEW a \in Addresses PROVE Newest(e, a) \in m[a]
      BY DEF HoldsNewest
    <2>1. m[a] = IF a \in Lost(S, F) THEN durable[a] ELSE may[a]
      BY DEF m, MayAfter
    <2>2. Newest(bc, a) \in may[a] /\ bc.base[a] \in durable[a]
      BY <1>1 DEF HoldsNewest, SurvivesCrash
    <2>3. CASE Cached(e, a)
      BY <1>3, <1>4, <2>1, <2>2, <2>3 DEF Newest, Lost, Evicted
    <2>4. CASE ~Cached(e, a)
      BY <1>4, <2>1, <2>2, <2>4 DEF Newest, Lost, Evicted
    <2> QED BY <2>3, <2>4
  <1>8. SurvivesCrash(e, d)
    <2> SUFFICES ASSUME NEW a \in Addresses PROVE e.base[a] \in d[a]
      BY DEF SurvivesCrash
    <2>1. d[a] = IF a \in Evicted(S) \ Lost(S, F) THEN may[a] ELSE durable[a]
      BY DEF d, DurableAfter
    <2> QED BY <1>1, <1>4, <2>1 DEF HoldsNewest, SurvivesCrash
  <1> QED BY <1>2, <1>3, <1>5, <1>6, <1>7, <1>8 DEF Coherent, e, m, d

(* So does bcache_read_block, which returns the newest value or NULL. *)
LEMMA ReadCoherent ==
    ASSUME IndInv, NEW which \in Addresses, NEW readable \in BOOLEAN,
           NEW F \in SUBSET Slots
    PROVE  LET c == bcache_read_block(bc, which, readable, F)
               m == MayAfter(SlotsFor(which), F)
               d == DurableAfter(SlotsFor(which), F)
           IN  /\ Coherent(c, m, d)
               /\ m \in Accounts
               /\ d \in Accounts
               /\ \A a \in Addresses : m[a] \subseteq d[a]
  <1> DEFINE s == HashSlot(which)
             e == bcache_evict(bc, SlotsFor(which), F)
             c == bcache_read_block(bc, which, readable, F)
             m == MayAfter(SlotsFor(which), F)
             d == DurableAfter(SlotsFor(which), F)
  <1>0. s \in Slots
    BY HashAssumption
  <1>1. SlotsFor(which) \in SUBSET Slots
    BY <1>0 DEF SlotsFor
  <1>2. /\ Coherent(e, m, d)
        /\ m \in Accounts
        /\ d \in Accounts
        /\ \A a \in Addresses : m[a] \subseteq d[a]
    BY <1>1, EvictCoherent
  <1>3. CASE Cached(bc, which)
    <2>1. SlotsFor(which) = {}
      BY <1>3 DEF SlotsFor
    <2>2. c = bc
      BY <1>3 DEF bcache_read_block
    <2>3. \A a \in Addresses : m[a] = may[a] /\ d[a] = durable[a]
      BY <2>1 DEF MayAfter, DurableAfter, Lost, Evicted
    <2>4. Coherent(bc, may, durable)
      BY DEF IndInv
    <2>5. Coherent(c, m, d)
      BY <2>2, <2>3, <2>4 DEF Coherent, HoldsNewest, SurvivesCrash
    <2> QED BY <1>2, <2>5
  <1>4. CASE ~Cached(bc, which)
    <2>1. SlotsFor(which) = {s}
      BY <1>4 DEF SlotsFor
    <2>2. e.indexes[s] = NoBlock /\ ~e.dirty[s]
      <3>1. bc \in Caches
        BY DEF IndInv, TypeOK
      <3> QED BY <1>0, <2>1, <3>1 DEF bcache_evict, Caches, Emptied, Cleaned
    <2>3. CASE ~readable
      <3>1. c = e
        BY <1>4, <2>1, <2>3 DEF bcache_read_block
      <3> QED BY <1>2, <3>1
    <2>4. CASE readable
      <3> HIDE DEF m, d
      <3>1. c = [base |-> e.base, data |-> [e.data EXCEPT ![s] = e.base[which]],
                 indexes |-> [e.indexes EXCEPT ![s] = which], dirty |-> e.dirty]
        BY <1>4, <2>1, <2>4 DEF bcache_read_block
      <3> HIDE DEF e, s
      <3>2. s = HashSlot(which)
        BY DEF s
      <3>3. /\ e \in Caches /\ Labelled(e) /\ CleanIsOnDisk(e)
            /\ HoldsNewest(e, m) /\ SurvivesCrash(e, d)
        BY <1>2 DEF Coherent
      <3>4. /\ c \in Caches
            /\ c.base = e.base /\ c.dirty = e.dirty
            /\ c.data[s] = e.base[which] /\ c.indexes[s] = which
            /\ \A t \in Slots \ {s} : /\ c.data[t] = e.data[t]
                                      /\ c.indexes[t] = e.indexes[t]
        <4>1. /\ e.base \in [Addresses -> Contents]
              /\ e.data \in [Slots -> Contents]
              /\ e.indexes \in [Slots -> Addresses \cup {NoBlock}]
              /\ e.dirty \in [Slots -> BOOLEAN]
          BY <3>3 DEF Caches
        <4>2. /\ [e.data EXCEPT ![s] = e.base[which]] \in [Slots -> Contents]
              /\ [e.indexes EXCEPT ![s] = which] \in [Slots -> Addresses \cup {NoBlock}]
          BY <4>1
        <4> DEFINE dt == [e.data EXCEPT ![s] = e.base[which]]
                   ix == [e.indexes EXCEPT ![s] = which]
        <4>3. c = [base |-> e.base, data |-> dt, indexes |-> ix, dirty |-> e.dirty]
          BY <3>1
        <4>4. dt \in [Slots -> Contents] /\ ix \in [Slots -> Addresses \cup {NoBlock}]
          BY <4>2
        <4> HIDE DEF c, dt, ix
        <4>5. /\ c \in Caches
              /\ c.base = e.base /\ c.dirty = e.dirty
              /\ c.data = dt /\ c.indexes = ix
          BY <4>1, <4>3, <4>4, CacheRecord
        <4> QED BY <1>0, <4>1, <4>5 DEF dt, ix
      <3> HIDE DEF c
      <3>5. Labelled(c)
        BY <1>0, <2>2, <3>2, <3>3, <3>4 DEF Labelled
      <3>6. ~Cached(e, which) /\ \A a \in Addresses : HashSlot(a) = s => ~Cached(e, a)
        BY <2>2, <3>2, NoBlockAssumption DEF Cached
      <3>7. \A a \in Addresses : /\ Cached(c, a) <=> a = which \/ Cached(e, a)
                                 /\ Newest(c, a) = Newest(e, a)
        BY <1>0, <3>2, <3>4, <3>6, HashAssumption DEF Cached, Newest
      <3>8. CleanIsOnDisk(c)
        BY <1>0, <3>2, <3>3, <3>4, <3>6, <3>7, HashAssumption DEF CleanIsOnDisk
      <3>9. HoldsNewest(c, m) /\ SurvivesCrash(c, d)
        BY <3>3, <3>4, <3>7 DEF HoldsNewest, SurvivesCrash
      <3>10. Coherent(c, m, d)
        BY <3>3, <3>4, <3>5, <3>8, <3>9 DEF Coherent
      <3> QED BY <1>2, <3>10 DEF c, e, m, d, s
    <2> QED BY <2>3, <2>4
  <1> QED BY <1>3, <1>4

(* A write to a block that is in its slot keeps the cache coherent. *)
LEMMA WriteCoherent ==
    ASSUME NEW c, NEW m \in Accounts, NEW d \in Accounts, Coherent(c, m, d),
           NEW which \in Addresses, NEW v \in Contents, Cached(c, which)
    PROVE  Coherent(bcache_write_block(c, which, v, {}),
                    [m EXCEPT ![which] = {v}], [d EXCEPT ![which] = @ \cup {v}])
  <1> DEFINE s == HashSlot(which)
             w == bcache_write_block(c, which, v, {})
             mm == [m EXCEPT ![which] = {v}]
             dd == [d EXCEPT ![which] = @ \cup {v}]
  <1>1. s \in Slots
    BY HashAssumption
  <1>2. w = [base |-> c.base, data |-> [c.data EXCEPT ![s] = v],
             indexes |-> c.indexes, dirty |-> [c.dirty EXCEPT ![s] = TRUE]]
    BY DEF bcache_write_block
  <1>3. /\ c \in Caches /\ Labelled(c) /\ CleanIsOnDisk(c)
        /\ HoldsNewest(c, m) /\ SurvivesCrash(c, d)
    BY DEF Coherent
  <1> HIDE DEF s
  <1>4. s = HashSlot(which)
    BY DEF s
  <1>5. /\ w \in Caches
        /\ w.base = c.base /\ w.indexes = c.indexes
        /\ w.data[s] = v /\ w.dirty[s] = TRUE
        /\ \A t \in Slots \ {s} : w.data[t] = c.data[t] /\ w.dirty[t] = c.dirty[t]
    <2>1. /\ c.base \in [Addresses -> Contents]
          /\ c.data \in [Slots -> Contents]
          /\ c.indexes \in [Slots -> Addresses \cup {NoBlock}]
          /\ c.dirty \in [Slots -> BOOLEAN]
      BY <1>3 DEF Caches
    <2>2. /\ [c.data EXCEPT ![s] = v] \in [Slots -> Contents]
          /\ [c.dirty EXCEPT ![s] = TRUE] \in [Slots -> BOOLEAN]
      BY <2>1
    <2> DEFINE dt == [c.data EXCEPT ![s] = v]
               dr == [c.dirty EXCEPT ![s] = TRUE]
    <2>3. w = [base |-> c.base, data |-> dt, indexes |-> c.indexes, dirty |-> dr]
      BY <1>2
    <2>4. dt \in [Slots -> Contents] /\ dr \in [Slots -> BOOLEAN]
      BY <2>2
    <2> HIDE DEF w, dt, dr
    <2>5. /\ w \in Caches
          /\ w.base = c.base /\ w.indexes = c.indexes
          /\ w.data = dt /\ w.dirty = dr
      BY <2>1, <2>3, <2>4, CacheRecord
    <2> QED BY <1>1, <2>1, <2>5 DEF dt, dr
  <1>6. \A a \in Addresses : /\ mm[a] = IF a = which THEN {v} ELSE m[a]
                             /\ dd[a] = IF a = which THEN d[a] \cup {v} ELSE d[a]
    BY DEF Accounts
  <1> HIDE DEF w, mm, dd
  <1>7. \A a \in Addresses : Cached(w, a) <=> Cached(c, a)
    BY <1>5 DEF Cached
  <1>8. \A a \in Addresses : a # which /\ Cached(c, a) => HashSlot(a) # s
    BY <1>4 DEF Cached
  <1>9. Labelled(w)
    <2>1. c.indexes[s] # NoBlock
      BY <1>4, NoBlockAssumption DEF Cached
    <2> QED BY <1>3, <1>5, <2>1 DEF Labelled
  <1>10. CleanIsOnDisk(w)
    BY <1>1, <1>3, <1>4, <1>5, <1>7, <1>8, HashAssumption DEF CleanIsOnDisk
  <1>11. HoldsNewest(w, mm)
    BY <1>1, <1>3, <1>4, <1>5, <1>6, <1>7, <1>8, HashAssumption DEF HoldsNewest, Newest
  <1>12. SurvivesCrash(w, dd)
    BY <1>3, <1>5, <1>6 DEF SurvivesCrash
  <1> QED BY <1>5, <1>9, <1>10, <1>11, <1>12 DEF Coherent, w, mm, dd

(* The parts of the promise that every call keeps well formed. *)
LEMMA Parts ==
    ASSUME NEW c, NEW m \in Accounts, NEW d \in Accounts, Coherent(c, m, d),
           \A a \in Addresses : m[a] \subseteq d[a],
           bc' = c, may' = m, durable' = d,
           reply' = NoReply \/ \E a \in Addresses :
                                  reply' = [at |-> a, val |-> Newest(c, a)]
    PROVE  IndInv'
  <1>1. Coherent(bc, may, durable)'
    BY DEF Coherent, Labelled, CleanIsOnDisk, HoldsNewest, SurvivesCrash
  <1>2. NewestMaySurvive'
    BY DEF NewestMaySurvive
  <1>3. ReadsAreExplained'
    BY ReplyAssumption DEF ReadsAreExplained, Dev!ReadsAreExplained, Coherent, HoldsNewest
  <1>4. TypeOK'
    <2>1. \A a \in Addresses : Newest(c, a) \in Contents
      BY DEF Coherent, HoldsNewest, Accounts
    <2> QED BY <2>1 DEF TypeOK, Dev!DeviceTypeOK, Coherent, Accounts
  <1> QED BY <1>1, <1>2, <1>3, <1>4 DEF IndInv

(* An empty cache over a coherent one's device is coherent. *)
LEMMA EmptyCoherent ==
    ASSUME NEW c, NEW m, NEW d, Coherent(c, m, d),
           \A a \in Addresses : ~Cached(c, a)
    PROVE  Coherent(bcache_create(c.base, c.data), m, d)
  <1> DEFINE n == bcache_create(c.base, c.data)
  <1>1. c \in Caches
    BY DEF Coherent
  <1>2. /\ n \in Caches
        /\ n.base = c.base
        /\ \A s \in Slots : n.indexes[s] = NoBlock /\ n.dirty[s] = FALSE
    BY <1>1 DEF bcache_create, Caches
  <1> HIDE DEF n
  <1>3. \A a \in Addresses : ~Cached(n, a)
    BY <1>2, HashAssumption, NoBlockAssumption DEF Cached
  <1>4. Labelled(n) /\ CleanIsOnDisk(n)
    BY <1>2, <1>3 DEF Labelled, CleanIsOnDisk
  <1>5. HoldsNewest(n, m) /\ SurvivesCrash(n, d)
    BY <1>2, <1>3 DEF Coherent, HoldsNewest, SurvivesCrash, Newest
  <1> QED BY <1>2, <1>4, <1>5 DEF Coherent, n

(* bcache_create over any device establishes the invariant. *)
LEMMA InitIndInv == Init => IndInv
  <1> SUFFICES ASSUME Init PROVE IndInv
    OBVIOUS
  <1>1. PICK base \in [Addresses -> Contents], data \in [Slots -> Contents] :
           bc = bcache_create(base, data)
    BY DEF Init
  <1>2. /\ bc \in Caches
        /\ \A s \in Slots : bc.indexes[s] = NoBlock /\ bc.dirty[s] = FALSE
    BY <1>1 DEF bcache_create, Caches
  <1>3. \A a \in Addresses : /\ ~Cached(bc, a)
                             /\ bc.base[a] \in Contents
                             /\ may[a] = {bc.base[a]} /\ durable[a] = may[a]
    BY <1>2, HashAssumption, NoBlockAssumption DEF Cached, Init, Caches
  <1>4. may \in Accounts /\ durable \in Accounts
    BY <1>3 DEF Init, Accounts
  <1>5. Coherent(bc, may, durable)
    BY <1>2, <1>3 DEF Coherent, Labelled, CleanIsOnDisk, HoldsNewest, SurvivesCrash, Newest
  <1>6. TypeOK
    BY <1>2, <1>4 DEF TypeOK, Dev!DeviceTypeOK, Accounts, Init
  <1>7. NewestMaySurvive /\ ReadsAreExplained
    BY <1>3 DEF NewestMaySurvive, ReadsAreExplained, Dev!ReadsAreExplained, Init
  <1> QED BY <1>5, <1>6, <1>7 DEF IndInv

(* Every call, and the death of the process, preserves the invariant. *)
LEMMA NextIndInv == IndInv /\ [Next]_vars => IndInv'
  <1> SUFFICES ASSUME IndInv, [Next]_vars PROVE IndInv'
    OBVIOUS
  <1> USE FaultAssumption DEF Readable
  <1>1. ASSUME NEW which \in Addresses, ReadBlock(which) PROVE IndInv'
    <2>1. PICK readable \in Readable, F \in WriteFaults :
            LET c == bcache_read_block(bc, which, readable, F)
            IN  /\ bc' = c
                /\ reply' = IF Cached(c, which)
                            THEN [at |-> which, val |-> c.data[HashSlot(which)]]
                            ELSE NoReply
                /\ may' = MayAfter(SlotsFor(which), F)
                /\ durable' = DurableAfter(SlotsFor(which), F)
      BY <1>1 DEF ReadBlock
    <2> DEFINE c == bcache_read_block(bc, which, readable, F)
               m == MayAfter(SlotsFor(which), F)
               d == DurableAfter(SlotsFor(which), F)
    <2>2. readable \in BOOLEAN /\ F \in SUBSET Slots
      OBVIOUS
    <2>3. /\ Coherent(c, m, d) /\ m \in Accounts /\ d \in Accounts
          /\ \A a \in Addresses : m[a] \subseteq d[a]
      BY <2>2, ReadCoherent
    <2>4. reply' = NoReply \/ reply' = [at |-> which, val |-> Newest(c, which)]
      BY <2>1 DEF Newest
    <2>5. bc' = c /\ may' = m /\ durable' = d
      BY <2>1
    <2> HIDE DEF c, m, d
    <2> QED BY <2>3, <2>4, <2>5, Parts
  <1>2. ASSUME NEW which \in Addresses, NEW v \in Contents, UpdateBlock(which, v)
        PROVE  IndInv'
    <2>1. PICK readable \in Readable, F \in WriteFaults :
            LET c == bcache_read_block(bc, which, readable, F)
                S == SlotsFor(which)
            IN  /\ reply' = NoReply
                /\ IF Cached(c, which)
                   THEN /\ bc' = bcache_write_block(c, which, v, {})
                        /\ may' = [MayAfter(S, F) EXCEPT ![which] = {v}]
                        /\ durable' = [DurableAfter(S, F) EXCEPT ![which] = @ \cup {v}]
                   ELSE /\ bc' = c
                        /\ may' = MayAfter(S, F)
                        /\ durable' = DurableAfter(S, F)
      BY <1>2 DEF UpdateBlock
    <2> DEFINE c == bcache_read_block(bc, which, readable, F)
               m == MayAfter(SlotsFor(which), F)
               d == DurableAfter(SlotsFor(which), F)
               mm == [m EXCEPT ![which] = {v}]
               dd == [d EXCEPT ![which] = @ \cup {v}]
    <2>2. readable \in BOOLEAN /\ F \in SUBSET Slots
      OBVIOUS
    <2>3. /\ Coherent(c, m, d) /\ m \in Accounts /\ d \in Accounts
          /\ \A a \in Addresses : m[a] \subseteq d[a]
      BY <2>2, ReadCoherent
    <2>4. reply' = NoReply
      BY <2>1
    <2>5. CASE Cached(c, which)
      <3>1. /\ bc' = bcache_write_block(c, which, v, {})
            /\ may' = mm /\ durable' = dd
        BY <2>1, <2>5
      <3> HIDE DEF c, m, d
      <3>2. Coherent(bcache_write_block(c, which, v, {}), mm, dd)
        BY <2>3, <2>5, WriteCoherent
      <3>3. /\ mm \in Accounts /\ dd \in Accounts
            /\ \A a \in Addresses : mm[a] \subseteq dd[a]
        BY <2>3 DEF Accounts
      <3> HIDE DEF mm, dd
      <3> QED BY <2>4, <3>1, <3>2, <3>3, Parts
    <2>6. CASE ~Cached(c, which)
      <3>1. bc' = c /\ may' = m /\ durable' = d
        BY <2>1, <2>6
      <3> HIDE DEF c, m, d
      <3> QED BY <2>3, <2>4, <3>1, Parts
    <2> QED BY <2>5, <2>6
  <1>3. ASSUME FlushClearOrDestroy PROVE IndInv'
    <2>1. PICK F \in WriteFaults :
            /\ \/ bc' = bcache_flush(bc, F)
               \/ bc' = bcache_clear(bc, F)
               \/ LET c == bcache_flush(bc, F) IN bc' = bcache_create(c.base, c.data)
            /\ reply' = NoReply
            /\ may' = MayAfter(Slots, F)
            /\ durable' = DurableAfter(Slots, F)
      BY <1>3 DEF FlushClearOrDestroy
    <2> DEFINE e == bcache_evict(bc, Slots, F)
               m == MayAfter(Slots, F)
               d == DurableAfter(Slots, F)
    <2>2. /\ Coherent(e, m, d) /\ m \in Accounts /\ d \in Accounts
          /\ \A a \in Addresses : m[a] \subseteq d[a]
      BY EvictCoherent
    <2>3. /\ \A s \in Slots : e.indexes[s] = NoBlock
          /\ e = [base |-> e.base, data |-> e.data, dirty |-> e.dirty,
                  indexes |-> [s \in Slots |-> NoBlock]]
      BY DEF bcache_evict, Emptied
    <2>4. bcache_flush(bc, F) = e /\ bcache_clear(bc, F) = e
      BY <2>3 DEF bcache_flush, bcache_clear
    <2> HIDE DEF e, m, d
    <2>5. \A a \in Addresses : ~Cached(e, a)
      BY <2>3, HashAssumption, NoBlockAssumption DEF Cached
    <2>6. Coherent(bcache_create(e.base, e.data), m, d)
      BY <2>2, <2>5, EmptyCoherent
    <2>7. /\ reply' = NoReply /\ may' = m /\ durable' = d
          /\ bc' = e \/ bc' = bcache_create(e.base, e.data)
      BY <2>1, <2>4 DEF m, d
    <2>8. CASE bc' = e
      BY <2>2, <2>7, <2>8, Parts
    <2>9. CASE bc' = bcache_create(e.base, e.data)
      BY <2>2, <2>6, <2>7, <2>9, Parts
    <2> QED BY <2>7, <2>8, <2>9
  <1>4. ASSUME Crash PROVE IndInv'
    <2>1. PICK n \in 0 .. Size :
            LET c == bcache_evict(bc, {s \in Slots : s < n}, {})
            IN  /\ bc' = bcache_create(c.base, c.data)
                /\ reply' = NoReply
                /\ may' = durable
                /\ UNCHANGED durable
      BY <1>4 DEF Crash
    <2> DEFINE S == {s \in Slots : s < n}
               c == bcache_evict(bc, S, {})
    <2>2. Coherent(c, MayAfter(S, {}), DurableAfter(S, {}))
      BY EvictCoherent
    <2>3. /\ \A a \in Addresses : DurableAfter(S, {})[a] \subseteq durable[a]
          /\ durable \in Accounts
      BY DEF DurableAfter, IndInv, NewestMaySurvive, TypeOK, Dev!DeviceTypeOK, Accounts
    <2>4. /\ bc' = bcache_create(c.base, c.data) /\ reply' = NoReply
          /\ may' = durable /\ durable' = durable
      BY <2>1
    <2> HIDE DEF c, S
    <2>5. /\ c \in Caches
          /\ \A a \in Addresses : c.base[a] \in durable[a]
      BY <2>2, <2>3 DEF Coherent, SurvivesCrash
    <2> DEFINE n0 == bcache_create(c.base, c.data)
    <2>6. /\ n0 \in Caches /\ n0.base = c.base
          /\ \A s \in Slots : n0.indexes[s] = NoBlock /\ n0.dirty[s] = FALSE
      BY <2>5 DEF bcache_create, Caches
    <2> HIDE DEF n0
    <2>7. \A a \in Addresses : ~Cached(n0, a)
      BY <2>6, HashAssumption, NoBlockAssumption DEF Cached
    <2>8. Coherent(n0, durable, durable)
      BY <2>5, <2>6, <2>7
         DEF Coherent, Labelled, CleanIsOnDisk, HoldsNewest, SurvivesCrash, Newest
    <2>9. bc' = n0
      BY <2>4 DEF n0
    <2> QED BY <2>3, <2>4, <2>8, <2>9, Parts
  <1>5. CASE UNCHANGED vars
    BY <1>5 DEF vars, IndInv, TypeOK, Dev!DeviceTypeOK, NewestMaySurvive,
                ReadsAreExplained, Dev!ReadsAreExplained, Coherent, Labelled,
                CleanIsOnDisk, HoldsNewest, SurvivesCrash, Newest, Cached
  <1> QED BY <1>1, <1>2, <1>3, <1>4, <1>5 DEF Next

(* The invariant holds whatever reads and write backs fail. *)
THEOREM CacheInvariant == Spec => []IndInv
  BY InitIndInv, NextIndInv, PTL DEF Spec

(* A read through the cache is explained by the history of its block. *)
THEOREM CacheReadsAreExplained == Spec => []ReadsAreExplained
  <1>1. IndInv => ReadsAreExplained
    BY DEF IndInv
  <1> QED BY <1>1, CacheInvariant, PTL

(* A dirty slot has a label, and a labelled slot the label of its block. *)
THEOREM CacheSlotsAreLabelled == Spec => []SlotsAreLabelled
  <1>1. IndInv => SlotsAreLabelled
    BY DEF IndInv, Coherent, SlotsAreLabelled
  <1> QED BY <1>1, CacheInvariant, PTL

-----------------------------------------------------------------------------
(* Without failed write backs, an eviction only settles what it evicts. *)
LEMMA EvictionSettles ==
    ASSUME IndInv, NEW S
    PROVE  /\ MayAfter(S, {}) = may
           /\ DurableAfter(S, {}) = Dev!Settled(Evicted(S))
           /\ Evicted(S) \in SUBSET Addresses
  <1>1. Lost(S, {}) = {}
    BY DEF Lost
  <1>2. may = [a \in Addresses |-> may[a]]
    BY DEF IndInv, TypeOK, Dev!DeviceTypeOK
  <1> QED BY <1>1, <1>2 DEF MayAfter, DurableAfter, Dev!Settled, Evicted

(* Every call is a call of a block device. *)
LEMMA NextIsDeviceNext ==
    ASSUME WriteFaults = {{}}, IndInv, IndInv', Next
    PROVE  Dev!DeviceNext
  <1>1. ASSUME NEW which \in Addresses, ReadBlock(which) PROVE Dev!DeviceNext
    <2> DEFINE S == Evicted(SlotsFor(which))
    <2>1. PICK readable \in Readable :
            LET c == bcache_read_block(bc, which, readable, {})
            IN  /\ bc' = c
                /\ reply' = IF Cached(c, which)
                            THEN [at |-> which, val |-> c.data[HashSlot(which)]]
                            ELSE NoReply
                /\ may' = MayAfter(SlotsFor(which), {})
                /\ durable' = DurableAfter(SlotsFor(which), {})
      BY <1>1 DEF ReadBlock
    <2>2. /\ may' = may /\ durable' = Dev!Settled(S) /\ S \in SUBSET Addresses
      BY <2>1, EvictionSettles
    <2>3. CASE reply' = NoReply
      BY <2>2, <2>3 DEF Dev!DeviceNext, Dev!Quiet
    <2>4. CASE reply' # NoReply
      <3> DEFINE v == bcache_read_block(bc, which, readable, {}).data[HashSlot(which)]
      <3>1. reply' = [at |-> which, val |-> v]
        BY <2>1, <2>4
      <3> HIDE DEF v, S
      <3>2. reply'.val \in may'[reply'.at]
        BY <2>4 DEF IndInv, ReadsAreExplained, Dev!ReadsAreExplained
      <3>3. v \in may[which]
        BY <2>2, <3>1, <3>2
      <3>4. v \in Contents
        BY <3>3 DEF IndInv, TypeOK, Dev!DeviceTypeOK
      <3>5. Dev!ReadOk(which, v, S)
        BY <2>2, <3>1, <3>3 DEF Dev!ReadOk
      <3> QED BY <2>2, <3>4, <3>5 DEF Dev!DeviceNext
    <2> QED BY <2>3, <2>4
  <1>2. ASSUME NEW which \in Addresses, NEW v \in Contents, UpdateBlock(which, v)
        PROVE  Dev!DeviceNext
    <2> DEFINE S == Evicted(SlotsFor(which))
    <2>1. /\ MayAfter(SlotsFor(which), {}) = may
          /\ DurableAfter(SlotsFor(which), {}) = Dev!Settled(S)
          /\ S \in SUBSET Addresses
      BY EvictionSettles
    <2> HIDE DEF S
    <2>2. /\ reply' = NoReply
          /\ \/ /\ may' = [may EXCEPT ![which] = {v}]
                /\ durable' = [Dev!Settled(S) EXCEPT ![which] = @ \cup {v}]
             \/ may' = may /\ durable' = Dev!Settled(S)
      BY <1>2, <2>1 DEF UpdateBlock
    <2>3. CASE may' = may /\ durable' = Dev!Settled(S)
      BY <2>1, <2>2, <2>3 DEF Dev!DeviceNext, Dev!Quiet
    <2>4. CASE /\ may' = [may EXCEPT ![which] = {v}]
               /\ durable' = [Dev!Settled(S) EXCEPT ![which] = @ \cup {v}]
      <3>1. Dev!WriteOk(which, v, S)
        BY <2>2, <2>4 DEF Dev!WriteOk
      <3> QED BY <2>1, <3>1 DEF Dev!DeviceNext
    <2> QED BY <2>2, <2>3, <2>4
  <1>3. ASSUME FlushClearOrDestroy PROVE Dev!DeviceNext
    <2>1. /\ may' = MayAfter(Slots, {}) /\ durable' = DurableAfter(Slots, {})
          /\ reply' = NoReply
      BY <1>3 DEF FlushClearOrDestroy
    <2> QED BY <2>1, EvictionSettles DEF Dev!DeviceNext, Dev!Quiet
  <1>4. ASSUME Crash PROVE Dev!DeviceNext
    BY <1>4 DEF Crash, Dev!DeviceNext, Dev!Restart
  <1> QED BY <1>1, <1>2, <1>3, <1>4 DEF Next

(***************************************************************************)
(* When no write back fails, the cache of block-cache.c, for any number of *)
(* slots and any hash function, is a block device that loses only what was *)
(* not flushed when the process dies.                                      *)
(***************************************************************************)
THEOREM CacheImplementsBlockDevice ==
    ASSUME WriteFaults = {{}} PROVE Spec => ImplementsBlockDevice
  <1>1. Init => Dev!DeviceInit
    <2> SUFFICES ASSUME Init PROVE Dev!DeviceInit
      OBVIOUS
    <2>1. bc \in Caches
      BY InitIndInv DEF IndInv, TypeOK
    <2>2. bc.base \in [Addresses -> Contents]
      BY <2>1 DEF Caches
    <2> QED BY <2>2 DEF Init, Dev!DeviceInit
  <1>2. IndInv /\ IndInv' /\ [Next]_vars => [Dev!DeviceNext]_(Dev!devvars)
    BY NextIsDeviceNext DEF vars, Dev!devvars
  <1> QED BY <1>1, <1>2, CacheInvariant, PTL DEF Spec, ImplementsBlockDevice, Dev!DeviceSpec
=============================================================================
