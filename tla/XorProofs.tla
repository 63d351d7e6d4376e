----------------------------- MODULE XorProofs -----------------------------
(***************************************************************************)
(* Proofs about Xor, for any number of devices and slices and any sets of  *)
(* devices that may fail together.                                         *)
(***************************************************************************)
EXTENDS Xor, FiniteSetTheorems, TLAPS

(***************************************************************************)
(* Facts about natural numbers and about parity.                           *)
(***************************************************************************)

(* The sum of bits modulo two is a group. *)
LEMMA PlusFacts ==
    ASSUME NEW x \in Bit, NEW y \in Bit, NEW z \in Bit
    PROVE  /\ Plus(x, y) \in Bit
           /\ Plus(x, y) = Plus(y, x)
           /\ Plus(x, Plus(y, z)) = Plus(Plus(x, y), z)
           /\ Plus(x, x) = 0
           /\ Plus(x, 0) = x
           /\ Plus(x, y) = 0 => x = y
BY DEF Plus, Bit

(* Taking the old block out of the parity and putting the new one in. *)
LEMMA ParityUpdate ==
    ASSUME NEW p \in Bit, NEW d \in Bit, NEW v \in Bit, NEW y \in Bit,
           Plus(p, Plus(p, Plus(v, d))) = Plus(y, d)
    PROVE  Plus(y, v) = 0
BY DEF Plus, Bit

(* The devices of a row that hold a one can be counted. *)
LEMMA FiniteOnes ==
    ASSUME NEW row, NEW D \in SUBSET Devs
    PROVE  /\ IsFiniteSet({d \in D : row[d] = 1})
           /\ Cardinality({d \in D : row[d] = 1}) \in Nat
           /\ XorOf(row, D) \in Bit
<1> DEFINE S == {d \in D : row[d] = 1}
<1>1. IsFiniteSet(Devs)
  BY NAssumption, FS_Interval DEF Devs
<1>2. S \in SUBSET Devs
  OBVIOUS
<1>3. IsFiniteSet(S)
  BY <1>1, <1>2, FS_Subset
<1>4. Cardinality(S) \in Nat
  BY <1>3, FS_CardinalityType
<1>5. Cardinality(S) % 2 \in Bit
  BY <1>4 DEF Bit
<1> QED BY <1>3, <1>4, <1>5 DEF XorOf

(* The parity of a row splits at any one device. *)
LEMMA XorSplits ==
    ASSUME NEW row \in [Devs -> Bit], NEW d \in Devs
    PROVE  XorOf(row, Devs) = Plus(XorOf(row, Devs \ {d}), row[d])
<1> DEFINE S == {e \in Devs : row[e] = 1}
           T == {e \in Devs \ {d} : row[e] = 1}
<1>1. IsFiniteSet(T) /\ Cardinality(T) \in Nat
  BY FiniteOnes
<1>2. d \notin T
  OBVIOUS
<1>3. CASE row[d] = 1
  <2>1. S = T \cup {d}
    BY <1>3
  <2>2. Cardinality(S) = Cardinality(T) + 1
    BY <2>1, <1>1, <1>2, FS_AddElement
  <2>3. ASSUME NEW c \in Nat PROVE (c + 1) % 2 = ((c % 2) + 1) % 2
    BY <2>3
  <2> HIDE DEF S, T
  <2>4. Cardinality(S) % 2 = ((Cardinality(T) % 2) + 1) % 2
    BY <2>2, <2>3, <1>1
  <2> QED BY <2>4, <1>3 DEF S, T, XorOf, Plus
<1>4. CASE row[d] # 1
  <2>1. S = T
    BY <1>4
  <2>2. row[d] = 0
    BY <1>4 DEF Bit
  <2>3. ASSUME NEW c \in Nat PROVE c % 2 = ((c % 2) + 0) % 2
    OBVIOUS
  <2> HIDE DEF S, T
  <2>4. Cardinality(S) % 2 = ((Cardinality(T) % 2) + 0) % 2
    BY <2>1, <2>3, <1>1
  <2> QED BY <2>4, <2>2 DEF S, T, XorOf, Plus
<1> QED BY <1>3, <1>4

(* Parity looks only at the devices it ranges over. *)
LEMMA XorAgrees ==
    ASSUME NEW row, NEW other, NEW D, \A d \in D : row[d] = other[d]
    PROVE  XorOf(row, D) = XorOf(other, D)
<1>1. {d \in D : row[d] = 1} = {d \in D : other[d] = 1}
  OBVIOUS
<1> QED BY <1>1 DEF XorOf

(* In a row of parity zero each block is the parity of the others. *)
LEMMA EvenRowIsRedundant ==
    ASSUME NEW row \in EvenRows, NEW d \in Devs
    PROVE  XorOf(row, Devs \ {d}) = row[d]
<1>1. Plus(XorOf(row, Devs \ {d}), row[d]) = 0
  BY XorSplits DEF EvenRows
<1>2. XorOf(row, Devs \ {d}) \in Bit
  BY FiniteOnes
<1>3. row[d] \in Bit
  BY DEF EvenRows
<1> QED BY <1>1, <1>2, <1>3, PlusFacts

(* The parity update of xor_write_block keeps the parity at zero. *)
LEMMA WriteKeepsParity ==
    ASSUME NEW row \in EvenRows, NEW d \in Devs, NEW p \in Devs, d # p,
           NEW v \in Bit
    PROVE  [row EXCEPT ![p] = Plus(@, Plus(v, row[d])), ![d] = v] \in EvenRows
<1> DEFINE new == [row EXCEPT ![p] = Plus(@, Plus(v, row[d])), ![d] = v]
           mid == [row EXCEPT ![p] = Plus(@, Plus(v, row[d]))]
           x == XorOf(row, Devs \ {p})
           y == XorOf(mid, Devs \ {d})
<1>0. row \in [Devs -> Bit] /\ row[d] \in Bit /\ row[p] \in Bit
  BY DEF EvenRows
<1>1. mid \in [Devs -> Bit] /\ new \in [Devs -> Bit]
  BY <1>0, PlusFacts
<1>2. mid[p] = Plus(row[p], Plus(v, row[d])) /\ mid[d] = row[d] /\ new[d] = v
  BY <1>0
<1>3. x = row[p]
  BY EvenRowIsRedundant
<1>4. XorOf(mid, Devs) = Plus(x, mid[p])
  <2>1. XorOf(mid, Devs \ {p}) = x
    BY XorAgrees, <1>0
  <2> QED BY <2>1, <1>1, XorSplits
<1>5. XorOf(mid, Devs) = Plus(y, row[d])
  BY <1>1, <1>2, XorSplits
<1>6. XorOf(new, Devs) = Plus(y, v)
  <2>1. \A e \in Devs \ {d} : new[e] = mid[e]
    BY <1>0
  <2>2. XorOf(new, Devs \ {d}) = y
    <3> HIDE DEF new, mid
    <3> QED BY <2>1, XorAgrees
  <2>3. XorOf(new, Devs) = Plus(XorOf(new, Devs \ {d}), new[d])
    BY <1>1, XorSplits
  <2> QED BY <2>2, <2>3, <1>2
<1>7. y \in Bit
  BY FiniteOnes
<1> HIDE DEF new, mid, x, y
<1>8. Plus(y, v) = 0
  <2>1. Plus(row[p], Plus(row[p], Plus(v, row[d]))) = Plus(y, row[d])
    BY <1>2, <1>3, <1>4, <1>5
  <2> QED BY <2>1, <1>0, <1>7, ParityUpdate
<1> QED BY <1>1, <1>6, <1>8 DEF EvenRows, new

-----------------------------------------------------------------------------
(***************************************************************************)
(* Where blocks live.                                                      *)
(***************************************************************************)

(* The defining equation of quotient and remainder. *)
LEMMA DivMod ==
    ASSUME NEW a \in Nat, NEW m \in Nat \ {0}
    PROVE  /\ a \div m \in Nat
           /\ a % m \in 0 .. m-1
           /\ a = m * (a \div m) + (a % m)
OBVIOUS

(* A quotient is below n when the dividend is below n times the divisor. *)
LEMMA QuotientBound ==
    ASSUME NEW a \in Nat, NEW m \in Nat \ {0}, NEW n \in Nat, a < n * m
    PROVE  a \div m < n
<1> DEFINE q == a \div m
<1>1. q \in Nat /\ a % m \in 0 .. m-1 /\ a = m * q + (a % m)
  BY DivMod
<1>2. ASSUME q >= n PROVE FALSE
  <2>1. m * q >= m * n
    BY <1>1, <1>2
  <2> QED BY <2>1, <1>1
<1> QED BY <1>1, <1>2

(* The data of a block has a device of its own, which is not the parity's. *)
LEMMA Placement ==
    ASSUME NEW b \in Blocks
    PROVE  /\ b \in Nat
           /\ SliceOf(b) \in SliceNos
           /\ DataAt(b) \in Devs
           /\ ParityAt(SliceOf(b)) \in Devs
           /\ DataAt(b) # ParityAt(SliceOf(b))
           /\ b \in BlocksOf(SliceOf(b))
<1> DEFINE m == N - 1
<1>1. m \in Nat \ {0} /\ b \in Nat /\ b < SliceCount * m
  BY NAssumption, SliceCountAssumption DEF Blocks
<1>2. b \div m \in Nat /\ b % m \in 0 .. m-1
  BY <1>1, DivMod
<1>3. b \div m < SliceCount
  BY <1>1, QuotientBound, SliceCountAssumption
<1>4. (b \div m) % N \in 0 .. N-1
  <2> DEFINE q == b \div m
  <2>1. q \in Nat /\ N \in Nat \ {0}
    BY <1>2, NAssumption
  <2> HIDE DEF q
  <2>2. q % N \in 0 .. N-1
    BY <2>1, DivMod
  <2> QED BY <2>2 DEF q
<1> QED
  BY <1>1, <1>2, <1>3, <1>4, NAssumption, SliceCountAssumption
     DEF SliceOf, SliceNos, DataAt, ParityAt, Devs, BlocksOf

(* No two blocks of a slice share a device. *)
LEMMA PlacementInjective ==
    ASSUME NEW b \in Blocks, NEW c \in Blocks, SliceOf(b) = SliceOf(c),
           DataAt(b) = DataAt(c)
    PROVE  b = c
<1> DEFINE m == N - 1
<1>1. m \in Nat \ {0} /\ b \in Nat /\ c \in Nat
  BY NAssumption, SliceCountAssumption DEF Blocks
<1>2. /\ b % m \in 0 .. m-1 /\ b = m * (b \div m) + (b % m)
      /\ c % m \in 0 .. m-1 /\ c = m * (c \div m) + (c % m)
      /\ b \div m \in Nat
  BY <1>1, DivMod
<1>3. b \div m = c \div m
  BY DEF SliceOf
<1>4. (b \div m) % N \in 0 .. N-1
  <2> DEFINE q == b \div m
  <2>1. q \in Nat /\ N \in Nat \ {0}
    BY <1>2, NAssumption
  <2> HIDE DEF q
  <2>2. q % N \in 0 .. N-1
    BY <2>1, DivMod
  <2> QED BY <2>2 DEF q
<1>5. b % m = c % m
  <2> DEFINE p == (b \div m) % N
             x == b % m
             y == c % m
  <2>1. (IF p <= x THEN x + 1 ELSE x) = (IF p <= y THEN y + 1 ELSE y)
    BY <1>3 DEF DataAt, ParityAt, SliceOf
  <2>2. p \in Nat /\ x \in Nat /\ y \in Nat
    BY <1>1, <1>2, <1>4, NAssumption
  <2> HIDE DEF p, x, y
  <2>3. x = y
    BY <2>1, <2>2
  <2> QED BY <2>3 DEF x, y
<1> QED BY <1>2, <1>3, <1>5

-----------------------------------------------------------------------------
(***************************************************************************)
(* What the functions of the layer do to a state of it, for any failures.  *)
(***************************************************************************)
Disks == [SliceNos -> [Devs -> Bit \cup {Bad}]]
Promises == [Blocks -> SUBSET Bit]
Machines == [disk : Disks, slice : [Devs -> Bit], index : SliceNos \cup {NoSlice},
             dirty : BOOLEAN, may : Promises, durable : Promises,
             torn : SUBSET SliceNos]

(* What Sound says of one slice on the devices. *)
Fits(m, s, promise) ==
    Holds(m.disk[s], s, promise) /\ (s \notin m.torn => Accounted(m.disk, s, promise))
SliceSound(m, s) ==
    Fits(m, s, m.durable) /\ (~(m.dirty /\ m.index = s) => Fits(m, s, m.may))

Promising(m) == \A b \in Blocks : m.may[b] \subseteq m.durable[b]
CacheSound(m) ==
    m.index # NoSlice => /\ Keeps(m.slice, m.index, m.may)
                         /\ m.slice \in EvenRows \/ m.index \in m.torn

(* The cached slice is torn, or the devices have it. *)
Kept(m) ==
    m.index \notin m.torn => m.slice \in EvenRows /\ Encodes(m.disk[m.index], m.slice)

LEMMA SoundParts ==
    ASSUME NEW m
    PROVE  Sound(m) <=> Promising(m) /\ CacheSound(m) /\ \A s \in SliceNos : SliceSound(m, s)
BY DEF Sound, SliceSound, Fits, Promising, CacheSound

LEMMA NoSliceIsNone == NoSlice \notin SliceNos
BY SentinelAssumption, SliceCountAssumption DEF SliceNos

LEMMA Placed ==
    ASSUME NEW s, NEW b \in BlocksOf(s)
    PROVE  b \in Blocks /\ SliceOf(b) = s /\ DataAt(b) \in Devs
BY Placement DEF BlocksOf

(* A slice that is as it was stays sound while promises only get weaker. *)
LEMMA FitsCarries ==
    ASSUME NEW m, NEW n, NEW s, NEW strong, NEW weak, Fits(m, s, strong),
           n.disk[s] = m.disk[s], s \in m.torn => s \in n.torn,
           \A b \in BlocksOf(s) : strong[b] \subseteq weak[b]
    PROVE  Fits(n, s, weak)
<1>1. Holds(n.disk[s], s, weak)
  BY DEF Fits, Holds
<1>2. ASSUME s \notin n.torn, AtMostOne({d \in Devs : n.disk[s][d] = Bad})
      PROVE  \E row \in EvenRows : Encodes(n.disk[s], row) /\ Keeps(row, s, weak)
  <2>1. PICK row \in EvenRows : Encodes(m.disk[s], row) /\ Keeps(row, s, strong)
    BY <1>2 DEF Fits, Accounted
  <2>2. Keeps(row, s, weak)
    BY <2>1 DEF Keeps
  <2> QED BY <2>1, <2>2
<1> QED BY <1>1, <1>2 DEF Fits, Accounted

LEMMA SliceCarries ==
    ASSUME NEW m, NEW n, NEW s, SliceSound(m, s),
           n.disk[s] = m.disk[s], s \in m.torn => s \in n.torn,
           m.dirty /\ m.index = s => n.dirty /\ n.index = s,
           \A b \in BlocksOf(s) : /\ m.may[b] \subseteq n.may[b]
                                  /\ m.durable[b] \subseteq n.durable[b]
    PROVE  SliceSound(n, s)
BY FitsCarries DEF SliceSound

(* A slice that encodes a row is sound if the row keeps the promise. *)
LEMMA EncodedFits ==
    ASSUME NEW m, NEW s, NEW promise, NEW row \in EvenRows,
           Encodes(m.disk[s], row), Keeps(row, s, promise)
    PROVE  Fits(m, s, promise)
<1>1. ASSUME NEW b \in BlocksOf(s)
      PROVE  m.disk[s][DataAt(b)] \in promise[b] \cup {Bad}
  BY Placed DEF Encodes, Keeps
<1> QED BY <1>1 DEF Fits, Holds, Accounted

LEMMA KeepsMore ==
    ASSUME NEW row, NEW s, NEW strong, NEW weak, Keeps(row, s, strong),
           \A b \in BlocksOf(s) : strong[b] \subseteq weak[b]
    PROVE  Keeps(row, s, weak)
BY DEF Keeps

LEMMA EncodedSlice ==
    ASSUME NEW m, NEW s, NEW row \in EvenRows, Encodes(m.disk[s], row),
           Keeps(row, s, m.may), Promising(m)
    PROVE  SliceSound(m, s)
<1>1. \A b \in BlocksOf(s) : m.may[b] \subseteq m.durable[b]
  BY Placed DEF Promising
<1>2. Keeps(row, s, m.durable)
  BY <1>1, KeepsMore
<1> QED BY <1>2, EncodedFits DEF SliceSound

(***************************************************************************)
(* Device writes to the cached slice, each of which leaves the old block,  *)
(* the cached one or none: if one of them failed the slice may be torn.    *)
(***************************************************************************)
LEMMA StoredIsSound ==
    ASSUME NEW m \in Machines, Sound(m), m.index \in SliceNos,
           NEW row \in [Devs -> Bit \cup {Bad}], NEW fails,
           \A d \in Devs : row[d] \in {m.disk[m.index][d], m.slice[d], Bad},
           fails \/ Encodes(row, m.slice),
           NEW n, n = Stored(m, row, fails)
    PROVE  /\ n \in Machines /\ Sound(n) /\ Kept(n)
           /\ n.slice = m.slice /\ n.index = m.index /\ n.dirty = m.dirty
           /\ n.may = m.may /\ n.durable = m.durable
           /\ n.disk[m.index] = row
           /\ \A t \in SliceNos : t # m.index => (t \in n.torn <=> t \in m.torn)
<1> DEFINE s == m.index
           x == [m EXCEPT !.disk = [m.disk EXCEPT ![s] = row]]
<1>1. /\ x \in Machines /\ x.disk = [m.disk EXCEPT ![s] = row] /\ x.slice = m.slice
      /\ x.index = s /\ x.torn = m.torn
  BY DEF Machines, Disks
<1>2. n = [x EXCEPT !.torn = Torn(x, fails)]
  BY DEF Stored
<1>3. x.disk[s] = row /\ \A t \in SliceNos : t # s => x.disk[t] = m.disk[t]
  BY <1>1 DEF Machines, Disks
<1>4. /\ Torn(x, fails) \in {m.torn \ {s}, m.torn \cup {s}, m.torn}
      /\ Torn(x, fails) \in SUBSET SliceNos
  BY <1>1 DEF Torn, Machines
<1>5. s \notin Torn(x, fails) => m.slice \in EvenRows /\ Encodes(row, m.slice)
  <2>1. m.slice \in EvenRows \/ s \in m.torn
    BY NoSliceIsNone DEF Sound
  <2> QED BY <1>1, <1>3, <2>1 DEF Torn
<1> HIDE DEF x
<1>6. /\ n \in Machines /\ n.slice = m.slice /\ n.index = s /\ n.dirty = m.dirty
      /\ n.may = m.may /\ n.durable = m.durable /\ n.disk = x.disk
      /\ n.torn = Torn(x, fails)
  BY <1>1, <1>2, <1>4 DEF Machines, x
<1>7. Promising(n) /\ Promising(m)
  BY <1>6 DEF Sound, Promising
<1>8. CacheSound(n)
  BY <1>4, <1>5, <1>6, NoSliceIsNone DEF Sound, CacheSound
<1>9. Kept(n)
  BY <1>3, <1>5, <1>6 DEF Kept
<1>10. ASSUME NEW t \in SliceNos, t # s PROVE SliceSound(n, t)
  <2>1. SliceSound(m, t)
    BY SoundParts
  <2>2. n.disk[t] = m.disk[t] /\ (t \in m.torn => t \in n.torn)
    BY <1>3, <1>4, <1>6, <1>10
  <2> QED BY <1>6, <2>1, <2>2, SliceCarries
<1>11. SliceSound(n, s)
  <2>1. Keeps(m.slice, s, m.may) /\ Keeps(m.slice, s, n.may)
    BY <1>6, NoSliceIsNone DEF Sound
  <2>2. CASE s \notin n.torn
    BY <2>1, <2>2, <1>3, <1>5, <1>6, <1>7, EncodedSlice
  <2>3. CASE s \in n.torn
    <3>1. ASSUME NEW b \in BlocksOf(s), NEW promise, Holds(m.disk[s], s, promise),
                 Keeps(m.slice, s, promise)
          PROVE  row[DataAt(b)] \in promise[b] \cup {Bad}
      BY <3>1, Placed DEF Holds, Keeps
    <3>2. Keeps(m.slice, s, m.durable)
      <4>1. \A b \in BlocksOf(s) : m.may[b] \subseteq m.durable[b]
        BY <1>7, Placed DEF Promising
      <4> QED BY <2>1, <4>1, KeepsMore
    <3>3. Holds(row, s, m.durable)
      BY <3>1, <3>2 DEF Sound, Holds
    <3>4. ~m.dirty => Holds(row, s, m.may)
      BY <3>1, <2>1 DEF Sound, Holds
    <3> QED BY <2>3, <3>3, <3>4, <1>3, <1>6 DEF SliceSound, Fits
  <2> QED BY <2>2, <2>3
<1>12. Sound(n)
  BY <1>7, <1>8, <1>10, <1>11, SoundParts
<1>13. /\ n.disk[s] = row
       /\ \A t \in SliceNos : t # s => (t \in n.torn <=> t \in m.torn)
  BY <1>3, <1>4, <1>6
<1> QED BY <1>6, <1>9, <1>12, <1>13

(* Where the devices missed some of the cached slice, the promise lapses. *)
LEMMA LapsedIsSound ==
    ASSUME NEW m \in Machines, Sound(m), Kept(m), m.index \in SliceNos,
           NEW n \in Machines, n.disk = m.disk, n.torn = m.torn, CacheSound(n),
           \A b \in Blocks :
              /\ m.may[b] \subseteq n.may[b]
              /\ b \in Missed(m) => n.may[b] = m.durable[b] /\ n.durable[b] = m.durable[b]
              /\ b \notin Missed(m) => n.may[b] = m.may[b]
              /\ n.durable[b] \in {m.may[b], m.durable[b]}
    PROVE  Sound(n)
<1> DEFINE s == m.index
<1>1. Promising(m) /\ Promising(n)
  BY DEF Sound, Promising
<1>2. Keeps(m.slice, s, m.may) /\ Keeps(m.slice, s, n.may)
  <2>1. Keeps(m.slice, s, m.may)
    BY NoSliceIsNone DEF Sound
  <2> QED BY <2>1, Placed DEF Keeps
<1>3. ASSUME NEW t \in SliceNos, t # s PROVE SliceSound(n, t)
  <2>1. Fits(m, t, m.may)
    BY <1>3, SoundParts DEF SliceSound
  <2>2. \A b \in BlocksOf(t) : b \in Blocks /\ b \notin Missed(m)
    BY <1>3, Placed DEF Missed
  <2>3. \A b \in BlocksOf(t) : m.may[b] \subseteq n.may[b] /\ m.may[b] \subseteq n.durable[b]
    BY <2>2, <1>1 DEF Promising
  <2> QED BY <2>1, <2>3, FitsCarries DEF SliceSound
<1>4. SliceSound(n, s)
  <2>1. CASE s \notin m.torn
    BY <2>1, <1>1, <1>2, EncodedSlice DEF Kept
  <2>2. CASE s \in m.torn
    <3>1. ASSUME NEW b \in BlocksOf(s)
          PROVE  m.disk[s][DataAt(b)] \in n.may[b] \cup {Bad}
      <4>1. b \in Blocks
        BY Placed
      <4>2. CASE b \in Missed(m)
        <5>1. m.disk[s][DataAt(b)] \in m.durable[b] \cup {Bad}
          BY DEF Sound, Holds
        <5> QED BY <4>1, <4>2, <5>1
      <4>3. CASE b \notin Missed(m)
        <5>1. m.disk[s][DataAt(b)] \in {m.slice[DataAt(b)], Bad}
          BY <4>3 DEF Missed
        <5>2. m.slice[DataAt(b)] \in n.may[b]
          BY <1>2 DEF Keeps
        <5> QED BY <5>1, <5>2
      <4> QED BY <4>2, <4>3
    <3>2. Holds(n.disk[s], s, n.may)
      BY <3>1 DEF Holds
    <3>3. Holds(n.disk[s], s, n.durable)
      BY <3>2, <1>1, Placed DEF Holds, Promising
    <3> QED BY <2>2, <3>2, <3>3 DEF SliceSound, Fits
  <2> QED BY <2>1, <2>2
<1> QED BY <1>1, <1>3, <1>4, SoundParts

-----------------------------------------------------------------------------
(* n is m, some blocks of which are as certain after a crash as they are now. *)
Quietly(m, n) ==
    /\ n.may = m.may
    /\ \E S \in SUBSET Blocks :
          n.durable = [b \in Blocks |-> IF b \in S THEN m.may[b] ELSE m.durable[b]]

LEMMA QuietlySame ==
    ASSUME NEW m \in Machines, NEW n, n.may = m.may, n.durable = m.durable
    PROVE  Quietly(m, n)
<1>1. m.durable = [b \in Blocks |-> IF b \in {} THEN m.may[b] ELSE m.durable[b]]
  BY DEF Machines, Promises
<1>2. {} \in SUBSET Blocks
  OBVIOUS
<1> QED BY <1>1, <1>2 DEF Quietly

(* A row of which some writes failed and some were not reached. *)
LEMMA FlushedRowIs ==
    ASSUME NEW m \in Machines, m.index \in SliceNos, NEW W \in SUBSET Devs, NEW k \in Nat,
           NEW row \in FlushedRows(m, W, k)
    PROVE  /\ row \in [Devs -> Bit \cup {Bad}]
           /\ \A d \in Devs : row[d] \in {m.disk[m.index][d], m.slice[d], Bad}
           /\ W = {} /\ k = N => row = m.slice
           /\ W = {} => \A d \in Devs : row[d] \in {m.disk[m.index][d], m.slice[d]}
<1>1. PICK o \in [W -> Outcomes] : row = FlushedRow(m, W, o, k)
  BY DEF FlushedRows
<1>2. m.disk[m.index] \in [Devs -> Bit \cup {Bad}] /\ m.slice \in [Devs -> Bit]
  BY DEF Machines, Disks
<1>3. ASSUME NEW d \in Devs PROVE row[d] \in {m.disk[m.index][d], m.slice[d], Bad}
  <2>1. d \in W => o[d] \in Outcomes
    OBVIOUS
  <2> QED BY <1>1, <2>1 DEF FlushedRow, AfterWrite, Outcomes
<1>4. row \in [Devs -> Bit \cup {Bad}]
  <2>1. row = [d \in Devs |-> row[d]]
    BY <1>1 DEF FlushedRow
  <2>2. \A d \in Devs : row[d] \in Bit \cup {Bad}
    BY <1>2, <1>3
  <2> QED BY <2>1, <2>2
<1>5. ASSUME W = {}, k = N PROVE row = m.slice
  <2>1. \A d \in Devs : d < k
    BY <1>5, NAssumption DEF Devs
  <2>2. row = [d \in Devs |-> m.slice[d]]
    BY <1>1, <1>5, <2>1 DEF FlushedRow, FlushReaches, AfterWrite
  <2> QED BY <1>2, <2>2
<1>6. ASSUME W = {}, NEW d \in Devs PROVE row[d] \in {m.disk[m.index][d], m.slice[d]}
  BY <1>1, <1>6 DEF FlushedRow, AfterWrite
<1> QED BY <1>3, <1>4, <1>5, <1>6

Flushed(m, n, W) ==
    /\ n \in Machines /\ Sound(n) /\ Kept(n)
    /\ n.index = m.index /\ n.slice = m.slice
    /\ n.dirty = (m.dirty /\ ~FlushSucceeds(W))
    /\ \A t \in SliceNos : t # m.index => (t \in n.torn <=> t \in m.torn)
    /\ n.index \notin n.torn => Quietly(m, n)
    /\ W = {} => Quietly(m, n) /\ n.disk = [m.disk EXCEPT ![m.index] = m.slice]

(* xor_flush_slice, whatever writes fail and whatever they leave. *)
LEMMA FlushIsSound ==
    ASSUME NEW m \in Machines, Sound(m), m.index \in SliceNos, NEW W \in SUBSET Devs,
           NEW n \in FlushSlice(m, W)
    PROVE  Flushed(m, n, W)
<1> DEFINE s == m.index
           fails == W # {}
<1>1. PICK row \in FlushedRows(m, W, N) :
        LET x == [Stored(m, row, W # {}) EXCEPT !.dirty = DirtyAfter(m, W)]
        IN  n = IF FlushSucceeds(W)
                THEN Lapsed(Settled(x, BlocksOf(m.index) \ Missed(x)), Missed(x)) ELSE x
  BY DEF FlushSlice
<1>2. /\ row \in [Devs -> Bit \cup {Bad}]
      /\ \A d \in Devs : row[d] \in {m.disk[m.index][d], m.slice[d], Bad}
      /\ W = {} => row = m.slice
  BY FlushedRowIs, NAssumption
<1>3. fails \/ Encodes(row, m.slice)
  BY <1>2 DEF Encodes
<1> DEFINE y == Stored(m, row, fails)
           x == [y EXCEPT !.dirty = DirtyAfter(m, W)]
<1>4. /\ y \in Machines /\ Sound(y) /\ Kept(y)
      /\ y.slice = m.slice /\ y.index = m.index /\ y.dirty = m.dirty
      /\ y.may = m.may /\ y.durable = m.durable
      /\ y.disk[s] = row
      /\ \A t \in SliceNos : t # s => (t \in y.torn <=> t \in m.torn)
  <2>1. y = Stored(m, row, fails)
    OBVIOUS
  <2> HIDE DEF fails, y
  <2> QED BY <2>1, <1>2, <1>3, StoredIsSound
<1>5. n = IF FlushSucceeds(W)
          THEN Lapsed(Settled(x, BlocksOf(s) \ Missed(x)), Missed(x)) ELSE x
  BY <1>1
<1>6. W = {} => y.disk = [m.disk EXCEPT ![s] = m.slice]
  BY <1>2 DEF Stored
<1> HIDE DEF y, fails
<1>7. /\ x \in Machines /\ x.slice = y.slice /\ x.index = y.index /\ x.disk = y.disk
      /\ x.may = y.may /\ x.durable = y.durable /\ x.torn = y.torn
      /\ x.dirty = (m.dirty /\ ~FlushSucceeds(W))
  BY <1>4 DEF Machines, DirtyAfter
<1>8. Missed(x) = Missed(y) /\ Missed(y) \subseteq BlocksOf(s) /\ BlocksOf(s) \subseteq Blocks
  BY <1>4, <1>7 DEF Missed, BlocksOf
<1> HIDE DEF x
<1>9. CASE ~FlushSucceeds(W)
  <2>1. n = x
    BY <1>5, <1>9
  <2>2. x = y
    BY <1>4, <1>7, <1>9 DEF Machines
  <2>3. Quietly(m, n)
    BY <2>1, <1>4, <1>7, QuietlySame
  <2>4. W # {}
    BY <1>9 DEF FlushSucceeds
  <2> QED BY <2>1, <2>2, <2>3, <2>4, <1>4, <1>7, <1>9 DEF Flushed
<1>10. CASE FlushSucceeds(W)
  <2> DEFINE settled == [b \in Blocks |-> IF b \in BlocksOf(s) \ Missed(y)
                                          THEN m.may[b] ELSE m.durable[b]]
             lapsed == [b \in Blocks |-> IF b \in Missed(y) THEN settled[b] ELSE m.may[b]]
  <2>1. /\ n.may = lapsed /\ n.durable = settled
        /\ n.slice = m.slice /\ n.index = s /\ n.dirty = FALSE /\ n.disk = y.disk
        /\ n.torn = y.torn /\ n \in Machines
    <3>1. settled \in Promises /\ lapsed \in Promises
      BY DEF Machines, Promises
    <3> QED BY <3>1, <1>4, <1>5, <1>7, <1>8, <1>10 DEF Lapsed, Settled, Machines
  <2>2. m.may \in Promises /\ m.durable \in Promises /\ Promising(m)
    BY DEF Machines, Sound, Promising
  <2>3. \A b \in Blocks :
          /\ y.may[b] \subseteq n.may[b]
          /\ b \in Missed(y) => n.may[b] = y.durable[b] /\ n.durable[b] = y.durable[b]
          /\ b \notin Missed(y) => n.may[b] = y.may[b]
          /\ n.durable[b] \in {y.may[b], y.durable[b]}
    BY <1>4, <2>1, <2>2 DEF Promising
  <2>4. CacheSound(n)
    <3>1. Keeps(m.slice, s, m.may) /\ (m.slice \in EvenRows \/ s \in y.torn)
      BY <1>4, NoSliceIsNone DEF Sound
    <3>2. Keeps(m.slice, s, n.may)
      BY <3>1, <2>3, <1>4, Placed DEF Keeps
    <3> QED BY <3>1, <3>2, <2>1 DEF CacheSound
  <2>5. Sound(n)
    <3> HIDE DEF settled, lapsed
    <3>1. y.index \in SliceNos
      BY <1>4
    <3> QED BY <3>1, <1>4, <2>1, <2>3, <2>4, LapsedIsSound
  <2>6. Kept(n)
    BY <1>4, <2>1 DEF Kept
  <2>7. ASSUME s \notin y.torn \/ W = {} PROVE Quietly(m, n)
    <3>1. Missed(y) = {}
      <4>1. ASSUME W = {} PROVE y.disk[s] = y.slice
        BY <4>1, <1>2, <1>4
      <4>2. s \notin y.torn => Encodes(y.disk[s], y.slice)
        BY <1>4 DEF Kept
      <4>3. Encodes(y.disk[s], y.slice)
        BY <2>7, <4>1, <4>2 DEF Encodes
      <4> QED BY <4>3, <1>4, Placed DEF Missed, Encodes
    <3>2. n.may = m.may
      BY <3>1, <2>1, <2>2 DEF Promises
    <3>3. n.durable = [b \in Blocks |-> IF b \in BlocksOf(s) THEN m.may[b] ELSE m.durable[b]]
      BY <3>1, <2>1
    <3> QED BY <3>2, <3>3, <1>8 DEF Quietly
  <2> HIDE DEF settled, lapsed
  <2> QED BY <2>1, <2>5, <2>6, <2>7, <1>4, <1>6, <1>10 DEF Flushed
<1> QED BY <1>9, <1>10

-----------------------------------------------------------------------------
(* The reconstruction of the one block that could not be read. *)
LEMMA RebuildRecovers ==
    ASSUME NEW stored \in [Devs -> Bit \cup {Bad}], NEW row \in EvenRows,
           NEW f \in Devs, \A d \in Devs \ {f} : stored[d] = row[d]
    PROVE  RebuildSlicePart(stored, f) = row
<1>1. XorOf(stored, Devs \ {f}) = row[f]
  BY XorAgrees, EvenRowIsRedundant
<1>2. row \in [Devs -> Bit]
  BY DEF EvenRows
<1> QED BY <1>1, <1>2 DEF RebuildSlicePart

(* Whatever the other blocks are, a rebuilt one makes their parity zero. *)
LEMMA RebuildIsEven ==
    ASSUME NEW stored \in [Devs -> Bit \cup {Bad}], NEW f \in Devs,
           \A d \in Devs \ {f} : stored[d] \in Bit
    PROVE  /\ RebuildSlicePart(stored, f) \in EvenRows
           /\ \A d \in Devs \ {f} : RebuildSlicePart(stored, f)[d] = stored[d]
<1> DEFINE whole == RebuildSlicePart(stored, f)
<1>1. XorOf(stored, Devs \ {f}) \in Bit
  BY FiniteOnes
<1>2. /\ whole \in [Devs -> Bit] /\ whole[f] = XorOf(stored, Devs \ {f})
      /\ \A d \in Devs \ {f} : whole[d] = stored[d]
  BY <1>1 DEF RebuildSlicePart
<1> HIDE DEF whole
<1>3. XorOf(whole, Devs \ {f}) = whole[f]
  BY <1>2, XorAgrees
<1>4. XorOf(whole, Devs) = 0
  BY <1>1, <1>2, <1>3, XorSplits, PlusFacts
<1> QED BY <1>2, <1>4 DEF EvenRows, whole

(* A row taken into the cache, of which nothing is claimed of the blocks of B. *)
LEMMA TakenIsSound ==
    ASSUME NEW m \in Machines, Sound(m), ~m.dirty, NEW s \in SliceNos,
           NEW c \in [Devs -> Bit], NEW B \in SUBSET BlocksOf(s),
           c \in EvenRows \/ s \in m.torn,
           \A b \in BlocksOf(s) : b \notin B => c[DataAt(b)] \in m.may[b],
           NEW n \in Machines, n.slice = c, n.index = s, n.dirty = m.dirty,
           n.disk = m.disk, n.torn = m.torn,
           n.may = [b \in Blocks |-> IF b \in B THEN Bit ELSE m.may[b]],
           n.durable = [b \in Blocks |-> IF b \in B THEN Bit ELSE m.durable[b]]
    PROVE  Sound(n) /\ (B = {} => n.may = m.may /\ n.durable = m.durable)
<1>1. m.may \in Promises /\ m.durable \in Promises /\ Promising(m)
  BY DEF Machines, Sound, Promising
<1>2. B = {} => n.may = m.may /\ n.durable = m.durable
  BY <1>1 DEF Promises
<1>3. Promising(n)
  BY <1>1 DEF Promising
<1>4. CacheSound(n)
  <2>1. \A b \in BlocksOf(s) : c[DataAt(b)] \in n.may[b]
    BY Placed
  <2> QED BY <2>1 DEF CacheSound, Keeps
<1>5. ASSUME NEW t \in SliceNos PROVE SliceSound(n, t)
  <2>1. \A b \in Blocks : m.may[b] \subseteq n.may[b] /\ m.durable[b] \subseteq n.durable[b]
    BY <1>1 DEF Promises
  <2>2. SliceSound(m, t)
    BY SoundParts
  <2> QED BY <2>1, <2>2, Placed, SliceCarries
<1> QED BY <1>2, <1>3, <1>4, <1>5, SoundParts

Loaded(m, n, s, R) ==
    /\ n \in Machines /\ Sound(n) /\ ~n.dirty
    /\ n.index \in {s, NoSlice}
    /\ \A t \in SliceNos : t # s => (t \in n.torn <=> t \in m.torn)
    /\ s \notin m.torn => n.may = m.may /\ n.durable = m.durable
    /\ R = {} /\ (\A d \in Devs : m.disk[s][d] # Bad) =>
           n.may = m.may /\ n.durable = m.durable /\ n.disk = m.disk

(* The second half of xor_switch_slice, whatever reads and repairs fail. *)
LEMMA LoadIsSound ==
    ASSUME NEW m \in Machines, Sound(m), ~m.dirty, NEW s \in SliceNos, NEW R, NEW V,
           NEW n \in LoadSlice(m, s, R, V)
    PROVE  Loaded(m, n, s, R)
<1> DEFINE failed == {d \in Devs : m.disk[s][d] = Bad \/ d \in R}
           f == CHOOSE d \in failed : TRUE
           whole == RebuildSlicePart(m.disk[s], f)
           made_up == {b \in BlocksOf(s) : s \in m.torn /\ DataAt(b) = f}
           As(c) == [m EXCEPT !.slice = c, !.index = s]
<1>0. /\ m.disk[s] \in [Devs -> Bit \cup {Bad}]
      /\ \A b \in BlocksOf(s) : m.disk[s][DataAt(b)] \in m.may[b] \cup {Bad}
      /\ s \notin m.torn => Accounted(m.disk, s, m.may)
  BY DEF Machines, Disks, Sound, Holds
<1>1. CASE \E d, e \in failed : d # e
  <2>1. n = [m EXCEPT !.slice = DeadSlice, !.index = NoSlice]
    BY <1>1 DEF LoadSlice
  <2>2. /\ n \in Machines /\ n.index = NoSlice /\ n.disk = m.disk /\ n.torn = m.torn
        /\ n.may = m.may /\ n.durable = m.durable /\ n.dirty = m.dirty
    BY <2>1 DEF Machines, DeadSlice, Bit
  <2>3. Sound(n)
    BY <2>2 DEF Sound
  <2> QED BY <2>2, <2>3 DEF Loaded
<1>2. CASE failed = {}
  <2> DEFINE c == m.disk[s]
             P == As(c)
  <2>1. n = Stored(P, c, FALSE)
    BY <1>2 DEF LoadSlice
  <2>2. \A d \in Devs : c[d] # Bad
    BY <1>2
  <2>3. c \in [Devs -> Bit]
    BY <1>0, <2>2
  <2>4. c \in EvenRows \/ s \in m.torn
    <3>1. ASSUME s \notin m.torn PROVE c \in EvenRows
      <4>1. PICK row \in EvenRows : Encodes(c, row)
        BY <3>1, <1>0, <2>2 DEF Accounted, AtMostOne
      <4>2. c = row
        BY <4>1, <2>2, <2>3 DEF Encodes, EvenRows
      <4> QED BY <4>1, <4>2
    <3> QED BY <3>1
  <2>5. \A b \in BlocksOf(s) : c[DataAt(b)] \in m.may[b]
    BY <1>0, <2>2, Placed
  <2>6. /\ P \in Machines /\ P.slice = c /\ P.index = s /\ P.dirty = m.dirty
        /\ P.disk = m.disk /\ P.torn = m.torn /\ P.may = m.may /\ P.durable = m.durable
    BY <2>3 DEF Machines
  <2>7. /\ P \in Machines /\ Sound(P) /\ P.slice = c /\ P.index = s /\ ~P.dirty
        /\ P.disk = m.disk /\ P.torn = m.torn
        /\ P.may = m.may /\ P.durable = m.durable
    <3> DEFINE B == {}
    <3>1. B \in SUBSET BlocksOf(s) /\ \A b \in BlocksOf(s) : b \notin B => c[DataAt(b)] \in m.may[b]
      BY <2>5
    <3>2. /\ P.may = [b \in Blocks |-> IF b \in B THEN Bit ELSE m.may[b]]
          /\ P.durable = [b \in Blocks |-> IF b \in B THEN Bit ELSE m.durable[b]]
      BY <2>6 DEF Machines, Promises
    <3> HIDE DEF c, B, P
    <3> QED BY <3>1, <3>2, <2>3, <2>4, <2>6, TakenIsSound
  <2>8. [m.disk EXCEPT ![s] = c] = m.disk
    BY DEF Machines, Disks
  <2>9. n.disk = m.disk
    BY <2>1, <2>7, <2>8 DEF Stored
  <2>10. /\ n \in Machines /\ Sound(n)
         /\ n.slice = P.slice /\ n.index = P.index /\ n.dirty = P.dirty
         /\ n.may = P.may /\ n.durable = P.durable
         /\ \A t \in SliceNos : t # P.index => (t \in n.torn <=> t \in P.torn)
    <3>1. Encodes(c, P.slice)
      BY <2>7 DEF Encodes
    <3>2. \A d \in Devs : c[d] \in {P.disk[P.index][d], P.slice[d], Bad}
      BY <2>7
    <3>3. P.index \in SliceNos /\ c \in [Devs -> Bit \cup {Bad}]
      BY <1>0, <2>7
    <3> DEFINE fails == FALSE
    <3>4. n = Stored(P, c, fails)
      BY <2>1
    <3> HIDE DEF c, P, fails
    <3> QED BY <3>1, <3>2, <3>3, <3>4, <2>7, StoredIsSound
  <2> QED BY <2>7, <2>9, <2>10 DEF Loaded
<1>3. CASE failed # {} /\ ~ \E d, e \in failed : d # e
  <2>1. f \in failed /\ f \in Devs
    BY <1>3
  <2>2. PICK o \in Outcomes :
          n = Voided(Stored(As(whole),
                            [m.disk[s] EXCEPT ![f] = AfterWrite(@, whole[f], o)], FALSE),
                     made_up)
    BY <1>3 DEF LoadSlice, Outcomes
  <2> DEFINE row == [m.disk[s] EXCEPT ![f] = AfterWrite(@, whole[f], o)]
             P == Voided(As(whole), made_up)
             torn_before == s \in m.torn
  <2> HIDE DEF f
  <2>3. \A d \in Devs \ {f} : m.disk[s][d] \in Bit
    <3>1. \A d \in Devs \ {f} : d \notin failed
      BY <1>3, <2>1
    <3> QED BY <3>1, <1>0
  <2>4. whole \in EvenRows /\ whole \in [Devs -> Bit]
        /\ \A d \in Devs \ {f} : whole[d] = m.disk[s][d]
    BY <1>0, <2>1, <2>3, RebuildIsEven DEF EvenRows
  <2>5. ASSUME ~torn_before
        PROVE  /\ m.disk[s][f] \in {whole[f], Bad}
               /\ \A b \in BlocksOf(s) : whole[DataAt(b)] \in m.may[b]
    <3>1. AtMostOne({d \in Devs : m.disk[s][d] = Bad})
      BY <1>3 DEF AtMostOne
    <3>2. PICK r \in EvenRows : Encodes(m.disk[s], r) /\ Keeps(r, s, m.may)
      BY <3>1, <2>5, <1>0 DEF Accounted
    <3>3. \A d \in Devs \ {f} : m.disk[s][d] = r[d]
      <4>1. \A d \in Devs \ {f} : m.disk[s][d] # Bad
        BY <2>3, SentinelAssumption
      <4> QED BY <3>2, <4>1 DEF Encodes
    <3>4. whole = r
      BY <3>3, <1>0, <2>1, RebuildRecovers
    <3> QED BY <3>2, <3>4, <2>1 DEF Encodes, Keeps
  <2>6. \A b \in BlocksOf(s) : b \notin made_up => whole[DataAt(b)] \in m.may[b]
    <3>1. ASSUME torn_before, NEW b \in BlocksOf(s) \ made_up
          PROVE  whole[DataAt(b)] \in m.may[b]
      <4>1. DataAt(b) \in Devs \ {f}
        BY <3>1, Placed
      <4>2. m.disk[s][DataAt(b)] # Bad
        BY <4>1, <2>3, SentinelAssumption
      <4> QED BY <4>1, <4>2, <2>4, <1>0
    <3> QED BY <3>1, <2>5
  <2>7. made_up \in SUBSET BlocksOf(s) /\ (~torn_before => made_up = {})
    OBVIOUS
  <2>8. /\ P \in Machines /\ Sound(P) /\ P.slice = whole /\ P.index = s /\ ~P.dirty
        /\ P.disk = m.disk /\ P.torn = m.torn
        /\ ~torn_before => P.may = m.may /\ P.durable = m.durable
    <3>1. whole \in EvenRows \/ s \in m.torn
      BY <2>4
    <3>2. whole \in [Devs -> Bit]
      BY <2>4
    <3>3. /\ P \in Machines /\ P.slice = whole /\ P.index = s /\ P.dirty = m.dirty
          /\ P.disk = m.disk /\ P.torn = m.torn
          /\ P.may = [b \in Blocks |-> IF b \in made_up THEN Bit ELSE m.may[b]]
          /\ P.durable = [b \in Blocks |-> IF b \in made_up THEN Bit ELSE m.durable[b]]
      <4> HIDE DEF whole, made_up
      <4> QED BY <3>2 DEF Voided, Machines, Promises
    <3> HIDE DEF whole, made_up, P, torn_before
    <3> QED BY <3>1, <3>2, <3>3, <2>6, <2>7, TakenIsSound
  <2>9. /\ row \in [Devs -> Bit \cup {Bad}]
        /\ \A d \in Devs : row[d] \in {m.disk[s][d], whole[d], Bad}
        /\ (m.disk[s][f] \in {whole[f], Bad} => Encodes(row, whole))
    <3>1. AfterWrite(m.disk[s][f], whole[f], o) \in {m.disk[s][f], whole[f], Bad}
      BY DEF AfterWrite, Outcomes
    <3> HIDE DEF whole
    <3> QED BY <3>1, <2>1, <2>4, <1>0 DEF Encodes
  <2>10. n = Stored(P, row, torn_before)
    <3> DEFINE D == [m.disk EXCEPT ![s] = row]
               x == [As(whole) EXCEPT !.disk = D]
               z == [P EXCEPT !.disk = D]
    <3>1. Stored(As(whole), row, FALSE) = [x EXCEPT !.torn = Torn(x, FALSE)]
      BY DEF Stored
    <3>2. Stored(P, row, torn_before) = [z EXCEPT !.torn = Torn(z, torn_before)]
      BY <2>8 DEF Stored
    <3>3. /\ x.slice = z.slice /\ x.disk = z.disk /\ x.index = z.index /\ x.torn = z.torn
          /\ x.torn = m.torn /\ x.index = s
      BY <2>8 DEF Machines
    <3>4. Torn(x, FALSE) = Torn(z, torn_before)
      <4>1. torn_before => m.torn \cup {s} = m.torn
        OBVIOUS
      <4> HIDE DEF x, z
      <4> QED BY <3>3, <4>1 DEF Torn
    <3>5. Voided([x EXCEPT !.torn = Torn(x, FALSE)], made_up)
            = [z EXCEPT !.torn = Torn(x, FALSE)]
      <4> DEFINE T == Torn(x, FALSE)
      <4> HIDE DEF T, D, row, whole, made_up
      <4>1. Voided([x EXCEPT !.torn = T], made_up) = [z EXCEPT !.torn = T]
        BY DEF Voided, Machines
      <4> QED BY <4>1 DEF T
    <3> QED BY <2>2, <3>1, <3>2, <3>4, <3>5
  <2> HIDE DEF P, whole, row, torn_before
  <2>11. torn_before \/ Encodes(row, whole)
    BY <2>5, <2>9
  <2>12. /\ n \in Machines /\ Sound(n)
         /\ n.slice = P.slice /\ n.index = P.index /\ n.dirty = P.dirty
         /\ n.may = P.may /\ n.durable = P.durable
         /\ \A t \in SliceNos : t # P.index => (t \in n.torn <=> t \in P.torn)
    <3> QED BY <2>8, <2>9, <2>10, <2>11, StoredIsSound
  <2>13. ~(R = {} /\ \A d \in Devs : m.disk[s][d] # Bad)
    BY <2>1
  <2> QED BY <2>8, <2>12, <2>13 DEF Loaded, torn_before
<1> QED BY <1>1, <1>2, <1>3

(* No block of the devices is lost. *)
Solid(m) == \A s \in SliceNos, d \in Devs : m.disk[s][d] # Bad

(* Nothing is torn, before and after; or nothing fails and nothing is lost. *)
Calm(m, n, f) ==
    \/ m.torn = {} /\ n.torn = {}
    \/ f = NoFault /\ Solid(m)

Switched(m, n, f) ==
    /\ n \in Machines /\ Sound(n)
    /\ Calm(m, n, f) => Quietly(m, n)
    /\ f = NoFault /\ Solid(m) => Solid(n)

FaultSets == [flush : SUBSET Devs, read : SUBSET Devs, repair : SUBSET Devs]

(* xor_switch_slice, where it does not run into the assertion. *)
LEMMA SwitchIsSound ==
    ASSUME NEW m \in Machines, Sound(m), NEW s \in SliceNos, NEW f \in FaultSets,
           m.index # s /\ m.dirty => m.index \in SliceNos,
           NEW n \in SwitchSlice(m, s, f)
    PROVE  Switched(m, n, f)
<1>0. f.flush \in SUBSET Devs /\ (f = NoFault => f.flush = {} /\ f.read = {})
  BY DEF FaultSets, NoFault
<1>1. CASE m.index = s
  <2>1. n = m
    BY <1>1 DEF SwitchSlice
  <2> QED BY <2>1, QuietlySame DEF Switched
<1>2. CASE m.index # s /\ ~m.dirty
  <2>1. Loaded(m, n, s, f.read)
    BY <1>2, LoadIsSound DEF SwitchSlice
  <2>2. Calm(m, n, f) => n.may = m.may /\ n.durable = m.durable
    BY <2>1, <1>0 DEF Loaded, Calm, Solid
  <2>3. f = NoFault /\ Solid(m) => n.disk = m.disk
    BY <2>1, <1>0 DEF Loaded, Solid
  <2> QED BY <2>1, <2>2, <2>3, QuietlySame DEF Switched, Loaded, Solid
<1>3. CASE m.index # s /\ m.dirty
  <2>1. m.index \in SliceNos
    BY <1>3
  <2>2. ASSUME NEW x \in FlushSlice(m, f.flush), f = NoFault, Solid(m)
        PROVE  Solid(x) /\ Quietly(m, x)
    <3>1. x.disk = [m.disk EXCEPT ![m.index] = m.slice] /\ Quietly(m, x)
      BY <2>1, <2>2, <1>0, FlushIsSound DEF Flushed
    <3>2. \A d \in Devs : m.slice[d] # Bad
      BY SentinelAssumption DEF Machines
    <3> QED BY <3>1, <3>2, <2>1, <2>2 DEF Solid, Machines, Disks
  <2>3. CASE ~FlushSucceeds(f.flush)
    <3>1. n \in FlushSlice(m, f.flush)
      BY <1>3, <2>3 DEF SwitchSlice
    <3>2. Flushed(m, n, f.flush)
      BY <3>1, <2>1, <1>0, FlushIsSound
    <3>3. Calm(m, n, f) => Quietly(m, n)
      BY <3>1, <3>2, <2>2 DEF Calm, Flushed
    <3> QED BY <3>1, <3>2, <3>3, <2>2 DEF Flushed, Switched
  <2>4. CASE FlushSucceeds(f.flush)
    <3>1. PICK x \in FlushSlice(m, f.flush) : n \in LoadSlice(x, s, f.read, f.repair)
      BY <1>3, <2>4 DEF SwitchSlice
    <3>2. Flushed(m, x, f.flush) /\ ~x.dirty
      BY <3>1, <2>1, <2>4, <1>0, FlushIsSound DEF Flushed
    <3>3. x \in Machines /\ Sound(x)
      BY <3>2 DEF Flushed
    <3>4. Loaded(x, n, s, f.read)
      BY <3>1, <3>2, <3>3, LoadIsSound
    <3>5. ASSUME m.torn = {}, n.torn = {}
          PROVE  Quietly(m, x) /\ n.may = x.may /\ n.durable = x.durable
      <4>1. x.index \notin x.torn
        <5>1. x.index \notin n.torn /\ x.index # s /\ x.index \in SliceNos
          BY <3>2, <3>5, <1>3, <2>1 DEF Flushed
        <5> QED BY <5>1, <3>4 DEF Loaded
      <4>2. s \notin x.torn
        BY <3>2, <3>5, <1>3 DEF Flushed
      <4> QED BY <4>1, <4>2, <3>2, <3>4 DEF Flushed, Loaded
    <3>6. ASSUME f = NoFault, Solid(m)
          PROVE  /\ Quietly(m, x) /\ n.may = x.may /\ n.durable = x.durable
                 /\ Solid(n)
      <4>1. Solid(x) /\ Quietly(m, x)
        BY <3>1, <3>6, <2>2
      <4>2. n.may = x.may /\ n.durable = x.durable /\ n.disk = x.disk
        BY <4>1, <3>4, <3>6, <1>0 DEF Loaded, Solid
      <4> QED BY <4>1, <4>2 DEF Solid
    <3>7. Calm(m, n, f) => Quietly(m, n)
      BY <3>5, <3>6 DEF Calm, Quietly
    <3> QED BY <3>4, <3>6, <3>7 DEF Loaded, Switched
  <2> QED BY <2>3, <2>4
<1> QED BY <1>1, <1>2, <1>3

(* The part of xor_write_block after the switch. *)
LEMMA WrittenIsSound ==
    ASSUME NEW m \in Machines, Sound(m), NEW b \in Blocks, m.index = SliceOf(b),
           NEW v \in Bit
    PROVE  LET n == Written(m, b, v) IN n \in Machines /\ Sound(n)
<1> DEFINE s == SliceOf(b)
           d == DataAt(b)
           p == ParityAt(s)
           new == [m.slice EXCEPT ![p] = Plus(@, Plus(v, m.slice[d])), ![d] = v]
           n == Written(m, b, v)
<1>1. s \in SliceNos /\ b \in BlocksOf(s) /\ d \in Devs /\ p \in Devs /\ d # p
  BY Placement
<1>2. m.slice \in [Devs -> Bit] /\ m.slice[d] \in Bit /\ m.slice[p] \in Bit
  BY <1>1 DEF Machines
<1>3. new \in [Devs -> Bit] /\ new[d] = v
      /\ \A e \in Devs : e # d /\ e # p => new[e] = m.slice[e]
  <2>1. Plus(m.slice[p], Plus(v, m.slice[d])) \in Bit
    BY <1>2, PlusFacts
  <2> QED BY <2>1, <1>1, <1>2
<1>4. m.slice \in EvenRows => new \in EvenRows
  BY <1>1, WriteKeepsParity
<1>5. m.may \in Promises /\ m.durable \in Promises /\ Promising(m)
  BY DEF Machines, Sound, Promising
<1>6. /\ n.slice = new /\ n.index = s /\ n.dirty = TRUE /\ n.disk = m.disk
      /\ n.torn = m.torn
      /\ n.may = [m.may EXCEPT ![b] = {v}]
      /\ n.durable = [m.durable EXCEPT ![b] = @ \cup {v}]
      /\ n \in Machines
  <2> DEFINE x == [m.may EXCEPT ![b] = {v}]
             y == [m.durable EXCEPT ![b] = @ \cup {v}]
  <2>1. n = [m EXCEPT !.slice = new, !.dirty = TRUE, !.may = x, !.durable = y]
    BY DEF Written
  <2>2. new \in [Devs -> Bit] /\ x \in Promises /\ y \in Promises
    BY <1>3, <1>5 DEF Promises
  <2>3. m.index = s
    OBVIOUS
  <2> HIDE DEF n, new, x, y, s
  <2>4. /\ n.slice = new /\ n.index = s /\ n.dirty = TRUE /\ n.disk = m.disk
        /\ n.torn = m.torn /\ n.may = x /\ n.durable = y /\ n \in Machines
    BY <2>1, <2>2, <2>3 DEF Machines
  <2> QED BY <2>4 DEF x, y
<1> HIDE DEF n, new, s, d, p
<1>7. /\ \A c \in Blocks : m.durable[c] \subseteq n.durable[c]
      /\ \A c \in Blocks : c # b => n.may[c] = m.may[c]
      /\ n.may[b] = {v} /\ v \in n.durable[b]
  BY <1>5, <1>6 DEF Promises
<1>8. Promising(n)
  BY <1>5, <1>7 DEF Promising
<1>9. CacheSound(n)
  <2>1. Keeps(m.slice, s, m.may) /\ (m.slice \in EvenRows \/ s \in m.torn)
    BY <1>1, NoSliceIsNone DEF Sound, s
  <2>2. ASSUME NEW c \in BlocksOf(s) PROVE new[DataAt(c)] \in n.may[c]
    <3>1. CASE c = b
      BY <3>1, <1>3, <1>7 DEF d
    <3>2. CASE c # b
      <4>1. c \in Blocks /\ SliceOf(c) = s
        BY Placed
      <4>2. DataAt(c) \in Devs /\ DataAt(c) # d /\ DataAt(c) # p
        BY <4>1, <3>2, Placement, PlacementInjective DEF d, p, s
      <4>3. m.slice[DataAt(c)] \in m.may[c]
        BY <2>1 DEF Keeps
      <4> QED BY <4>1, <4>2, <4>3, <3>2, <1>3, <1>7
    <3> QED BY <3>1, <3>2
  <2> QED BY <2>1, <2>2, <1>4, <1>6 DEF CacheSound, Keeps
<1>10. ASSUME NEW t \in SliceNos PROVE SliceSound(n, t)
  <2>1. SliceSound(m, t)
    BY SoundParts
  <2>2. CASE t = s
    <3>1. \A c \in BlocksOf(t) : m.durable[c] \subseteq n.durable[c]
      BY <1>7, Placed
    <3>2. Fits(m, t, m.durable) /\ n.disk[t] = m.disk[t] /\ n.torn = m.torn
      BY <2>1, <1>6 DEF SliceSound
    <3>3. Fits(n, t, n.durable)
      BY <3>1, <3>2, FitsCarries
    <3> QED BY <3>3, <2>2, <1>6 DEF SliceSound
  <2>3. CASE t # s
    <3>1. \A c \in BlocksOf(t) : c \in Blocks /\ c # b
      BY <2>3, Placed DEF s
    <3>2. m.index # t
      BY <2>3 DEF s
    <3> QED BY <2>1, <3>1, <3>2, <1>6, <1>7, SliceCarries
  <2> QED BY <2>2, <2>3
<1> QED BY <1>6, <1>8, <1>9, <1>10, SoundParts DEF n

(* xor_clear_caches, after its flush. *)
LEMMA ClearedIsSound ==
    ASSUME NEW m \in Machines, Sound(m), Kept(m), m.index \in SliceNos
    PROVE  LET n == Cleared(m)
           IN  /\ n \in Machines /\ Sound(n)
               /\ n.disk = m.disk /\ n.torn = m.torn /\ n.durable = m.durable
               /\ Encodes(m.disk[m.index], m.slice) => n.may = m.may
<1> DEFINE n == Cleared(m)
           lapsed == [b \in Blocks |-> IF b \in Missed(m) THEN m.durable[b] ELSE m.may[b]]
<1>1. m.may \in Promises /\ m.durable \in Promises /\ Promising(m)
  BY DEF Machines, Sound, Promising
<1>2. lapsed \in Promises /\ DeadSlice \in [Devs -> Bit]
  BY <1>1 DEF Promises, DeadSlice, Bit
<1>3. /\ n.disk = m.disk /\ n.torn = m.torn /\ n.durable = m.durable /\ n.may = lapsed
      /\ n.index = NoSlice /\ n \in Machines
  <2> HIDE DEF lapsed
  <2>1. n = [m EXCEPT !.may = lapsed, !.slice = DeadSlice, !.index = NoSlice]
    BY DEF Cleared, Lapsed, lapsed
  <2> QED BY <2>1, <1>2 DEF Machines
<1> HIDE DEF n
<1>4. CacheSound(n)
  BY <1>3 DEF CacheSound
<1>5. \A b \in Blocks :
        /\ m.may[b] \subseteq n.may[b]
        /\ b \in Missed(m) => n.may[b] = m.durable[b] /\ n.durable[b] = m.durable[b]
        /\ b \notin Missed(m) => n.may[b] = m.may[b]
        /\ n.durable[b] \in {m.may[b], m.durable[b]}
  BY <1>1, <1>3 DEF Promising
<1>6. Sound(n)
  <2> HIDE DEF lapsed
  <2> QED BY <1>3, <1>4, <1>5, LapsedIsSound
<1>7. ASSUME Encodes(m.disk[m.index], m.slice) PROVE n.may = m.may
  <2>1. Missed(m) = {}
    BY <1>7, Placed DEF Missed, Encodes
  <2> QED BY <2>1, <1>1, <1>3 DEF Promises
<1> QED BY <1>3, <1>6, <1>7 DEF n

-----------------------------------------------------------------------------
(***************************************************************************)
(* The steps.  Each keeps the invariant; it is one of a block device while *)
(* nothing is torn, and also where no device ever fails, whatever crashes  *)
(* tear.                                                                   *)
(***************************************************************************)
Replies == [at : Blocks, val : Bit] \cup {NoReply}
NothingFails == Faults = {NoFault} /\ Decaying = {}
Unharmed == NothingFails /\ Solid(Here)
Stepped ==
    /\ IndInv'
    /\ (torn = {} /\ torn' = {}) \/ Unharmed => Dev!DeviceNext
    /\ Unharmed => Solid(Here)'

LEMMA HereIsTyped ==
    ASSUME IndInv
    PROVE  /\ Here \in Machines /\ Sound(Here)
           /\ Here.disk = disk /\ Here.slice = slice /\ Here.index = slice_index
           /\ Here.dirty = slice_dirty /\ Here.may = may /\ Here.durable = durable
           /\ Here.torn = torn
           /\ aborted \in BOOLEAN /\ reply \in Replies /\ faults \in 0 .. MaxFaults
           /\ slice_index \in SliceNos \cup {NoSlice}
BY DEF IndInv, TypeOK, Here, Machines, Disks, Promises, Dev!DeviceTypeOK, Replies

LEMMA BecomeIs ==
    ASSUME NEW n, Become(n), n \in Machines
    PROVE  /\ Here' = n
           /\ disk' = n.disk /\ slice' = n.slice /\ slice_index' = n.index
           /\ slice_dirty' = n.dirty /\ may' = n.may /\ durable' = n.durable
           /\ torn' = n.torn
BY DEF Become, Here, Machines

LEMMA BecomeIsSound ==
    ASSUME NEW n \in Machines, Sound(n), Become(n), aborted' \in BOOLEAN,
           reply' \in Replies, faults' \in 0 .. MaxFaults,
           reply' # NoReply => reply'.val \in n.may[reply'.at]
    PROVE  IndInv'
<1>1. /\ Here' = n
      /\ disk' = n.disk /\ slice' = n.slice /\ slice_index' = n.index
      /\ slice_dirty' = n.dirty /\ may' = n.may /\ durable' = n.durable
      /\ torn' = n.torn
  BY BecomeIs
<1>2. TypeOK'
  BY <1>1 DEF TypeOK, Machines, Disks, Promises, Dev!DeviceTypeOK, Replies
<1>3. Sound(Here)'
  BY <1>1 DEF Sound, Promising
<1>4. ReadsAreExplained'
  BY <1>1 DEF ReadsAreExplained, Dev!ReadsAreExplained
<1> QED BY <1>2, <1>3, <1>4 DEF IndInv

LEMMA CountsIsTyped ==
    ASSUME faults \in 0 .. MaxFaults, NEW n, NEW Rest, Counts(n, Rest)
    PROVE  faults' \in 0 .. MaxFaults
BY FaultAssumption DEF Counts

LEMMA FailingIs ==
    ASSUME NEW f \in Failing
    PROVE  f \in FaultSets /\ f.flush \in SUBSET Devs /\ (NothingFails => f = NoFault)
<1>1. f \in Faults
  BY FaultAssumption DEF Failing
<1>2. f \in FaultSets
  BY <1>1, FaultAssumption DEF FaultSets
<1> QED BY <1>1, <1>2 DEF FaultSets, NothingFails

(* A call that changes nothing a caller can tell. *)
LEMMA QuietStep ==
    ASSUME Quietly(Here, Here'), reply' = NoReply
    PROVE  Dev!DeviceNext
<1>1. PICK S \in SUBSET Blocks :
        durable' = [b \in Blocks |-> IF b \in S THEN may[b] ELSE durable[b]]
  BY DEF Quietly, Here
<1>2. Dev!Quiet(S)
  BY <1>1 DEF Quietly, Here, Dev!Quiet, Dev!Settled
<1> QED BY <1>2 DEF Dev!DeviceNext

(* What a switch of slices does for the callers of the layer. *)
LEMMA SwitchedFor ==
    ASSUME IndInv, NEW f \in Failing, NEW n, Switched(Here, n, f), torn' = n.torn
    PROVE  /\ (torn = {} /\ torn' = {}) \/ Unharmed => Quietly(Here, n)
           /\ Unharmed => Solid(n)
<1>1. Unharmed => f = NoFault /\ Solid(Here)
  BY FailingIs DEF Unharmed
<1>2. Here.torn = torn
  BY HereIsTyped
<1>3. (torn = {} /\ torn' = {}) \/ Unharmed => Calm(Here, n, f)
  BY <1>1, <1>2 DEF Calm
<1>4. /\ Calm(Here, n, f) => Quietly(Here, n)
      /\ f = NoFault /\ Solid(Here) => Solid(n)
  BY DEF Switched
<1> QED BY <1>1, <1>3, <1>4

LEMMA ReadStep ==
    ASSUME IndInv, NEW b \in Blocks, ReadBlock(b)
    PROVE  Stepped
<1> DEFINE s == SliceOf(b)
<1>1. PICK f \in Failing : \E n \in SwitchSlice(Here, s, f) :
        /\ Counts(n, SwitchSlice(Here, s, NoFault))
        /\ Become(n)
        /\ reply' = IF n.index = s THEN [at |-> b, val |-> n.slice[DataAt(b)]]
                                   ELSE NoReply
  BY DEF ReadBlock
<1>2. PICK n \in SwitchSlice(Here, s, f) :
        /\ Counts(n, SwitchSlice(Here, s, NoFault))
        /\ Become(n)
        /\ reply' = IF n.index = s THEN [at |-> b, val |-> n.slice[DataAt(b)]]
                                   ELSE NoReply
  BY <1>1
<1>3. /\ s \in SliceNos /\ b \in BlocksOf(s) /\ DataAt(b) \in Devs
      /\ s # NoSlice
  BY Placement, NoSliceIsNone
<1>4. slice_index # s /\ slice_dirty => slice_index \in SliceNos
  BY HereIsTyped DEF ReadBlock, SwitchAsserts
<1> HIDE DEF s
<1>5. Switched(Here, n, f)
  BY <1>2, <1>3, <1>4, HereIsTyped, FailingIs, SwitchIsSound
<1>6. n \in Machines /\ Sound(n) /\ Here' = n /\ may' = n.may /\ durable' = n.durable
      /\ torn' = n.torn
  BY <1>2, <1>5, BecomeIs DEF Switched
<1>7. n.index = s => n.slice[DataAt(b)] \in n.may[b] /\ n.slice[DataAt(b)] \in Bit
  BY <1>3, <1>6 DEF Sound, Keeps, Machines
<1>8. CASE n.index = s
  <2> DEFINE v == n.slice[DataAt(b)]
  <2>1. reply' = [at |-> b, val |-> v] /\ v \in n.may[b] /\ v \in Bit
    BY <1>2, <1>7, <1>8
  <2> HIDE DEF v
  <2>2. IndInv'
    BY <2>1, <1>2, <1>6, HereIsTyped, CountsIsTyped, BecomeIsSound DEF ReadBlock, Replies
  <2>3. ASSUME Quietly(Here, n) PROVE Dev!DeviceNext
    <3>1. Quietly(Here, n)
      BY <2>3
    <3>2. PICK S \in SUBSET Blocks :
            durable' = [c \in Blocks |-> IF c \in S THEN may[c] ELSE durable[c]]
      BY <3>1, <1>6 DEF Quietly, Here
    <3>3. may' = may
      BY <3>1, <1>6 DEF Quietly, Here
    <3>4. Dev!ReadOk(b, v, S)
      BY <2>1, <3>2, <3>3, <1>6 DEF Dev!ReadOk, Dev!Settled
    <3> QED BY <3>4, <2>1 DEF Dev!DeviceNext
  <2> QED BY <2>2, <2>3, <1>5, <1>6, SwitchedFor DEF Stepped
<1>9. CASE n.index # s
  <2>1. reply' = NoReply
    BY <1>2, <1>9
  <2>2. IndInv'
    BY <2>1, <1>2, <1>6, HereIsTyped, CountsIsTyped, BecomeIsSound DEF ReadBlock, Replies
  <2>3. Quietly(Here, n) => Dev!DeviceNext
    BY <2>1, <1>6, QuietStep
  <2> QED BY <2>2, <2>3, <1>5, <1>6, SwitchedFor DEF Stepped
<1> QED BY <1>8, <1>9

LEMMA WriteStep ==
    ASSUME IndInv, NEW b \in Blocks, NEW v \in Bit, WriteBlock(b, v)
    PROVE  Stepped
<1> DEFINE s == SliceOf(b)
<1>1. PICK f \in Failing : \E n \in SwitchSlice(Here, s, f) :
        /\ Counts(n, SwitchSlice(Here, s, NoFault))
        /\ Become(IF n.index = s THEN Written(n, b, v) ELSE n)
  BY DEF WriteBlock
<1>2. PICK n \in SwitchSlice(Here, s, f) :
        /\ Counts(n, SwitchSlice(Here, s, NoFault))
        /\ Become(IF n.index = s THEN Written(n, b, v) ELSE n)
  BY <1>1
<1>3. s \in SliceNos
  BY Placement
<1>4. slice_index # s /\ slice_dirty => slice_index \in SliceNos
  BY HereIsTyped DEF WriteBlock, SwitchAsserts
<1>5. Switched(Here, n, f)
  <2> HIDE DEF s
  <2> QED BY <1>2, <1>3, <1>4, HereIsTyped, FailingIs, SwitchIsSound
<1>6. reply' = NoReply /\ aborted' \in BOOLEAN /\ faults' \in 0 .. MaxFaults
      /\ reply' \in Replies
  BY <1>2, HereIsTyped, CountsIsTyped DEF WriteBlock, Replies
<1>7. CASE n.index # s
  <2>1. n \in Machines /\ Sound(n) /\ Here' = n /\ torn' = n.torn /\ Become(n)
    BY <1>2, <1>5, <1>7, BecomeIs DEF Switched
  <2>2. IndInv'
    BY <2>1, <1>6, BecomeIsSound
  <2>3. Quietly(Here, n) => Dev!DeviceNext
    BY <2>1, <1>6, QuietStep
  <2> QED BY <2>1, <2>2, <2>3, <1>5, SwitchedFor DEF Stepped
<1>8. CASE n.index = s
  <2> DEFINE w == Written(n, b, v)
  <2>0. n \in Machines /\ Sound(n) /\ Become(w)
    BY <1>2, <1>5, <1>8 DEF Switched
  <2>1. w \in Machines /\ Sound(w)
    BY <2>0, <1>8, WrittenIsSound
  <2>2. /\ w.may = [n.may EXCEPT ![b] = {v}]
        /\ w.durable = [n.durable EXCEPT ![b] = @ \cup {v}]
        /\ w.disk = n.disk /\ w.torn = n.torn
    BY <2>0 DEF Written, Machines
  <2> HIDE DEF w, s
  <2>3. IndInv'
    BY <2>0, <2>1, <1>6, BecomeIsSound
  <2>4. Here' = w /\ may' = w.may /\ durable' = w.durable /\ torn' = w.torn
    BY <2>0, <2>1, BecomeIs
  <2>5. ASSUME Quietly(Here, n) PROVE Dev!DeviceNext
    <3>1. Quietly(Here, n)
      BY <2>5
    <3>2. PICK S \in SUBSET Blocks :
            n.durable = [c \in Blocks |-> IF c \in S THEN may[c] ELSE durable[c]]
      BY <3>1, HereIsTyped DEF Quietly
    <3>3. n.may = may
      BY <3>1, HereIsTyped DEF Quietly
    <3>4. n.durable = Dev!Settled(S)
      BY <3>2 DEF Dev!Settled
    <3>5. durable' = [Dev!Settled(S) EXCEPT ![b] = Dev!Settled(S)[b] \cup {v}]
      BY <3>4, <2>2, <2>4
    <3>6. Dev!WriteOk(b, v, S)
      BY <3>3, <3>5, <2>2, <2>4, <1>6 DEF Dev!WriteOk
    <3> QED BY <3>6 DEF Dev!DeviceNext
  <2>6. /\ (torn = {} /\ torn' = {}) \/ Unharmed => Quietly(Here, n)
        /\ Unharmed => Solid(n)
    BY <2>2, <2>4, <1>5, SwitchedFor
  <2>7. Solid(n) => Solid(w)
    BY <2>2 DEF Solid
  <2> QED BY <2>3, <2>4, <2>5, <2>6, <2>7 DEF Stepped
<1> QED BY <1>7, <1>8

(* A step that touches nothing but the reply and the assertion. *)
LEMMA AbortStep ==
    ASSUME IndInv, Abort
    PROVE  Stepped
<1>1. Here' = Here /\ Become(Here) /\ reply' = NoReply /\ aborted' = TRUE /\ faults' = faults
  BY DEF Abort, Here, Become
<1>2. IndInv'
  BY <1>1, HereIsTyped, BecomeIsSound DEF Replies
<1>3. Quietly(Here, Here')
  BY <1>1, HereIsTyped, QuietlySame
<1> QED BY <1>1, <1>2, <1>3, QuietStep DEF Stepped, Unharmed

(* xor_flush, xor_sync and xor_clear_caches. *)
LEMMA FlushStep ==
    ASSUME IndInv, Flush \/ ClearCaches
    PROVE  Stepped
<1>1. CASE slice_index = NoSlice
  BY <1>1, AbortStep DEF Flush, ClearCaches
<1>2. CASE slice_index # NoSlice
  <2>1. PICK f \in Failing : \E n \in FlushSlice(Here, f.flush) :
          Counts(n, FlushSlice(Here, {})) /\ (Become(n) \/ Become(Cleared(n)))
    BY <1>2 DEF Flush, ClearCaches
  <2>2. PICK n \in FlushSlice(Here, f.flush) :
          Counts(n, FlushSlice(Here, {})) /\ (Become(n) \/ Become(Cleared(n)))
    BY <2>1
  <2>3. Here \in Machines /\ Sound(Here) /\ Here.index \in SliceNos
    BY <1>2, HereIsTyped
  <2>4. Flushed(Here, n, f.flush)
    BY <2>2, <2>3, FailingIs, FlushIsSound
  <2>5. n \in Machines /\ Sound(n) /\ Kept(n) /\ n.index \in SliceNos
    BY <2>3, <2>4 DEF Flushed
  <2>6. PICK c : /\ c \in {n, Cleared(n)} /\ Become(c)
    BY <2>2
  <2>7. /\ c \in Machines /\ Sound(c)
        /\ c.disk = n.disk /\ c.torn = n.torn /\ c.durable = n.durable
        /\ Encodes(n.disk[n.index], n.slice) => c.may = n.may
    BY <2>5, <2>6, ClearedIsSound
  <2>8. reply' = NoReply /\ reply' \in Replies /\ aborted' \in BOOLEAN
        /\ faults' \in 0 .. MaxFaults
    BY <1>2, <2>2, HereIsTyped, CountsIsTyped DEF Flush, ClearCaches, Replies
  <2>9. IndInv'
    BY <2>6, <2>7, <2>8, BecomeIsSound
  <2>10. Here' = c /\ torn' = c.torn
    BY <2>6, <2>7, BecomeIs
  <2>11. ASSUME torn = {}, torn' = {} PROVE Quietly(Here, c)
    <3>1. n.index \notin n.torn
      BY <2>7, <2>10, <2>11
    <3>2. Quietly(Here, n) /\ Encodes(n.disk[n.index], n.slice)
      BY <3>1, <2>4 DEF Flushed, Kept
    <3> QED BY <3>2, <2>7 DEF Quietly
  <2>12. ASSUME Unharmed PROVE Quietly(Here, c) /\ Solid(c)
    <3>1. f.flush = {}
      BY <2>12, FailingIs DEF Unharmed, NoFault
    <3>2. Quietly(Here, n) /\ n.disk = [Here.disk EXCEPT ![Here.index] = Here.slice]
          /\ n.index = Here.index /\ n.slice = Here.slice
      BY <3>1, <2>4 DEF Flushed
    <3>3. Encodes(n.disk[n.index], n.slice)
      BY <3>2, <2>3 DEF Encodes, Machines, Disks
    <3>4. \A d \in Devs : Here.slice[d] # Bad
      BY <2>3, SentinelAssumption DEF Machines
    <3>5. Solid(n)
      BY <3>2, <3>4, <2>3, <2>12 DEF Unharmed, Solid, Machines, Disks
    <3> QED BY <3>2, <3>3, <3>5, <2>7 DEF Quietly, Solid
  <2> QED BY <2>8, <2>9, <2>10, <2>11, <2>12, QuietStep DEF Stepped
<1> QED BY <1>1, <1>2

(* xor_close or the end of the process, then xor_open. *)
LEMMA ReopenStep ==
    ASSUME IndInv, Reopen
    PROVE  Stepped
<1> DEFINE n == Here'
<1>1. /\ disk' = disk /\ slice' = DeadSlice /\ slice_index' = NoSlice
      /\ slice_dirty' = FALSE /\ aborted' = FALSE /\ may' = durable
      /\ durable' = durable /\ torn' = torn /\ reply' = NoReply /\ faults' = faults
  BY DEF Reopen
<1>2. DeadSlice \in [Devs -> Bit]
  BY DEF DeadSlice, Bit
<1>3. /\ n \in Machines /\ n.disk = disk /\ n.index = NoSlice /\ n.dirty = FALSE
      /\ n.may = durable /\ n.durable = durable /\ n.torn = torn
  BY <1>1, <1>2, HereIsTyped DEF Here, Machines
<1>4. Sound(n)
  <2> HIDE DEF n
  <2>1. CacheSound(n) /\ Promising(n)
    BY <1>3 DEF CacheSound, Promising
  <2>2. ASSUME NEW s \in SliceNos PROVE SliceSound(n, s)
    <3>1. Fits(Here, s, durable)
      BY HereIsTyped, SoundParts DEF SliceSound
    <3> QED BY <3>1, <1>3, HereIsTyped DEF SliceSound, Fits
  <2> QED BY <2>1, <2>2, SoundParts
<1>5. Become(n)
  BY DEF Become, Here
<1>6. IndInv'
  <2> HIDE DEF n
  <2> QED BY <1>1, <1>3, <1>4, <1>5, HereIsTyped, BecomeIsSound DEF Replies
<1>7. Dev!DeviceNext
  BY <1>1 DEF Dev!DeviceNext, Dev!Restart
<1>8. Unharmed => Solid(n)
  BY <1>1 DEF Unharmed, Solid, Here
<1> QED BY <1>6, <1>7, <1>8 DEF Stepped

(* The process dies in the middle of a flush. *)
LEMMA KillStep ==
    ASSUME IndInv, NEW k \in 1 .. N, KilledInFlush(k)
    PROVE  Stepped
<1>1. PICK f \in Failing : \E row \in FlushedRows(Here, f.flush, k) :
        Become(Stored(Here, row, TRUE))
  BY DEF KilledInFlush
<1>2. PICK row \in FlushedRows(Here, f.flush, k) : Become(Stored(Here, row, TRUE))
  BY <1>1
<1>3. Here \in Machines /\ Sound(Here) /\ Here.index \in SliceNos /\ k \in Nat
  BY HereIsTyped, NAssumption DEF KilledInFlush
<1>4. /\ row \in [Devs -> Bit \cup {Bad}]
      /\ \A d \in Devs : row[d] \in {Here.disk[Here.index][d], Here.slice[d], Bad}
      /\ f.flush = {} => \A d \in Devs : row[d] \in {Here.disk[Here.index][d], Here.slice[d]}
  BY <1>2, <1>3, FailingIs, FlushedRowIs
<1> DEFINE fails == TRUE
           n == Stored(Here, row, fails)
<1>5. /\ n \in Machines /\ Sound(n) /\ n.may = Here.may /\ n.durable = Here.durable
      /\ n.disk[Here.index] = row
  <2>1. n = Stored(Here, row, fails)
    OBVIOUS
  <2>2. fails \/ Encodes(row, Here.slice)
    OBVIOUS
  <2> HIDE DEF fails, n
  <2> QED BY <2>1, <2>2, <1>3, <1>4, StoredIsSound
<1>6. n.disk = [Here.disk EXCEPT ![Here.index] = row]
  BY DEF Stored
<1>7. Become(n)
  BY <1>2
<1> HIDE DEF n
<1>8. Here' = n
  BY <1>5, <1>7, BecomeIs
<1>9. reply' = NoReply /\ aborted' = TRUE /\ faults' \in 0 .. MaxFaults
  BY HereIsTyped, CountsIsTyped DEF KilledInFlush
<1>10. IndInv'
  BY <1>5, <1>7, <1>9, BecomeIsSound DEF Replies
<1>11. Dev!DeviceNext
  BY <1>3, <1>5, <1>8, <1>9, QuietlySame, QuietStep
<1>12. ASSUME Unharmed PROVE Solid(n)
  <2>1. f.flush = {}
    BY <1>12, FailingIs DEF Unharmed, NoFault
  <2>2. \A d \in Devs : Here.slice[d] # Bad
    BY <1>3, SentinelAssumption DEF Machines
  <2>3. \A d \in Devs : row[d] # Bad
    BY <2>1, <2>2, <1>3, <1>4, <1>12 DEF Unharmed, Solid
  <2> QED BY <2>3, <1>3, <1>6, <1>12 DEF Unharmed, Solid, Machines, Disks
<1> QED BY <1>8, <1>10, <1>11, <1>12 DEF Stepped

(* A device loses a block. *)
LEMMA DecayStep ==
    ASSUME IndInv, NEW s \in SliceNos, NEW d \in Decaying, Decay(s, d)
    PROVE  Stepped
<1> DEFINE n == Here'
<1>0. d \in Devs
  BY FaultAssumption
<1>1. /\ disk' = [disk EXCEPT ![s][d] = Bad] /\ reply' = NoReply
      /\ UNCHANGED <<slice, slice_index, slice_dirty, aborted, may, durable, torn>>
      /\ faults' \in 0 .. MaxFaults
  BY HereIsTyped, CountsIsTyped DEF Decay
<1>2. /\ n \in Machines /\ n.slice = slice /\ n.index = slice_index /\ n.dirty = slice_dirty
      /\ n.may = may /\ n.durable = durable /\ n.torn = torn
      /\ n.disk = [disk EXCEPT ![s][d] = Bad]
  BY <1>0, <1>1, HereIsTyped DEF Here, Machines, Disks
<1>3. ASSUME NEW t \in SliceNos, NEW e \in Devs
      PROVE  n.disk[t][e] \in {disk[t][e], Bad} /\ (disk[t][e] = Bad => n.disk[t][e] = Bad)
  <2> HIDE DEF n
  <2> QED BY <1>0, <1>2, HereIsTyped DEF Machines, Disks
<1>4. ASSUME NEW t \in SliceNos, NEW promise, Fits(Here, t, promise)
      PROVE  Fits(n, t, promise)
  <2> HIDE DEF n
  <2>1. Holds(n.disk[t], t, promise)
    <3>1. ASSUME NEW b \in BlocksOf(t) PROVE n.disk[t][DataAt(b)] \in promise[b] \cup {Bad}
      <4>1. disk[t][DataAt(b)] \in promise[b] \cup {Bad}
        BY <1>4, HereIsTyped DEF Fits, Holds
      <4> QED BY <4>1, <1>3, Placed
    <3> QED BY <3>1 DEF Holds
  <2>2. ASSUME t \notin torn, AtMostOne({e \in Devs : n.disk[t][e] = Bad})
        PROVE  \E row \in EvenRows : Encodes(n.disk[t], row) /\ Keeps(row, t, promise)
    <3>1. AtMostOne({e \in Devs : disk[t][e] = Bad})
      BY <2>2, <1>3 DEF AtMostOne
    <3>2. PICK row \in EvenRows : Encodes(disk[t], row) /\ Keeps(row, t, promise)
      BY <3>1, <2>2, <1>4, HereIsTyped DEF Fits, Accounted
    <3> QED BY <3>2, <1>3 DEF Encodes
  <2> QED BY <2>1, <2>2, <1>2 DEF Fits, Accounted
<1>5. Sound(n)
  <2>1. CacheSound(n) /\ Promising(n)
    <3> HIDE DEF n
    <3> QED BY <1>2, HereIsTyped DEF Sound, CacheSound, Promising
  <2>2. ASSUME NEW t \in SliceNos PROVE SliceSound(n, t)
    <3>1. SliceSound(Here, t)
      BY HereIsTyped, SoundParts
    <3> HIDE DEF n
    <3> QED BY <3>1, <1>2, <1>4, HereIsTyped DEF SliceSound
  <2> QED BY <2>1, <2>2, SoundParts
<1>6. Become(n)
  BY DEF Become, Here
<1>7. IndInv'
  <2> HIDE DEF n
  <2> QED BY <1>1, <1>2, <1>5, <1>6, HereIsTyped, BecomeIsSound DEF Replies
<1>8. Dev!DeviceNext
  BY <1>1, <1>2, HereIsTyped, QuietlySame, QuietStep
<1>9. ~Unharmed
  BY DEF Unharmed, NothingFails
<1> QED BY <1>7, <1>8, <1>9 DEF Stepped

-----------------------------------------------------------------------------
LEMMA InitIndInv == Init => IndInv /\ Dev!DeviceInit /\ Solid(Here)
<1> SUFFICES ASSUME Init PROVE IndInv /\ Dev!DeviceInit /\ Solid(Here)
  OBVIOUS
<1>1. \A s \in SliceNos : disk[s] \in EvenRows
  BY InitialRowsAssumption DEF Init
<1>2. disk \in [SliceNos -> [Devs -> Bit]]
  BY InitialRowsAssumption DEF Init, EvenRows
<1>3. may = [b \in Blocks |-> {disk[SliceOf(b)][DataAt(b)]}] /\ durable = may
      /\ may \in Promises
  BY <1>2, Placement DEF Init, Promises
<1>4. TypeOK
  <2>1. DeadSlice \in [Devs -> Bit]
    BY DEF DeadSlice, Bit
  <2>2. faults \in 0 .. MaxFaults
    BY FaultAssumption DEF Init
  <2>3. Dev!DeviceTypeOK
    BY <1>3 DEF Init, Dev!DeviceTypeOK, Promises
  <2>4. disk \in [SliceNos -> [Devs -> Bit \cup {Bad}]]
    BY <1>2
  <2> QED BY <2>1, <2>2, <2>3, <2>4 DEF Init, TypeOK
<1>5. Sound(Here)
  <2>1. Promising(Here) /\ CacheSound(Here)
    BY <1>3 DEF Init, Here, Promising, CacheSound
  <2>2. ASSUME NEW s \in SliceNos PROVE SliceSound(Here, s)
    <3>1. Keeps(disk[s], s, may) /\ Encodes(disk[s], disk[s])
      BY <1>3, Placed DEF Keeps, Encodes
    <3> QED BY <3>1, <2>1, <1>1, EncodedSlice DEF Here
  <2> QED BY <2>1, <2>2, SoundParts
<1>6. ReadsAreExplained
  BY DEF Init, ReadsAreExplained, Dev!ReadsAreExplained
<1>7. Dev!DeviceInit
  <2> DEFINE c == [b \in Blocks |-> disk[SliceOf(b)][DataAt(b)]]
  <2>1. c \in [Blocks -> Bit]
    BY <1>2, Placement
  <2>2. may = [b \in Blocks |-> {c[b]}]
    BY <1>3
  <2> QED BY <2>1, <2>2 DEF Init, Dev!DeviceInit
<1>8. Solid(Here)
  BY <1>2, SentinelAssumption DEF Solid, Here
<1> QED BY <1>4, <1>5, <1>6, <1>7, <1>8 DEF IndInv

LEMMA NextStep ==
    ASSUME IndInv, Next
    PROVE  Stepped
<1>1. ASSUME NEW b \in Blocks, AccessAborts(b) PROVE Stepped
  BY <1>1, AbortStep DEF AccessAborts
<1>2. ASSUME NEW w \in Writes, WriteBlock(w[1], w[2]) PROVE Stepped
  <2>1. w[1] \in Blocks /\ w[2] \in Bit
    BY FaultAssumption
  <2> QED BY <2>1, <1>2, WriteStep
<1> QED BY <1>1, <1>2, ReadStep, FlushStep, ReopenStep, KillStep, DecayStep
        DEF Next, Sync

LEMMA NextIndInv == IndInv /\ [Next]_vars => IndInv'
<1> SUFFICES ASSUME IndInv, [Next]_vars PROVE IndInv'
  OBVIOUS
<1>1. CASE UNCHANGED vars
  <2>1. TypeOK' /\ Here' = Here /\ ReadsAreExplained'
    BY <1>1 DEF vars, IndInv, TypeOK, Dev!DeviceTypeOK, Here, ReadsAreExplained,
                Dev!ReadsAreExplained
  <2> QED BY <2>1 DEF IndInv, Sound
<1> QED BY <1>1, NextStep DEF Stepped

(* The layer keeps its invariant whatever devices fail, whatever a failed  *)
(* write leaves behind, and wherever the process dies.                     *)
THEOREM XorInvariant ==
    Spec => []IndInv
BY InitIndInv, NextIndInv, PTL DEF Spec

(* The types of the layer's state. *)
THEOREM XorTypeOK ==
    Spec => []TypeOK
<1>1. IndInv => TypeOK
  BY DEF IndInv
<1> QED BY <1>1, XorInvariant, PTL

(* Every successful read is explained by what was written, flushed and torn. *)
THEOREM XorReadsAreExplained ==
    Spec => []ReadsAreExplained
<1>1. IndInv => ReadsAreExplained
  BY DEF IndInv
<1> QED BY <1>1, XorInvariant, PTL

(* A clean slice is on the devices, or they know what of it they have lost. *)
THEOREM XorCleanSlicesAreNewest ==
    Spec => []CleanSlicesAreNewest
<1>1. IndInv => CleanSlicesAreNewest
  BY DEF IndInv, Sound, CleanSlicesAreNewest, Here
<1> QED BY <1>1, XorInvariant, PTL

(* Each block of a slice that is not torn is the parity of the others. *)
THEOREM XorEachBlockIsRedundant ==
    Spec => []EachBlockIsRedundant
<1>1. IndInv => EachBlockIsRedundant
  <2> SUFFICES ASSUME IndInv, NEW s \in SliceNos \ torn, BadAt(s) = {}, NEW d \in Devs
               PROVE  XorOf(disk[s], Devs \ {d}) = disk[s][d]
    BY DEF EachBlockIsRedundant
  <2>1. \A e \in Devs : disk[s][e] # Bad
    BY DEF BadAt
  <2>2. Accounted(disk, s, durable)
    BY HereIsTyped DEF Sound
  <2>3. PICK row \in EvenRows : Encodes(disk[s], row)
    BY <2>1, <2>2 DEF Accounted, AtMostOne
  <2>4. disk[s] = row
    BY <2>1, <2>3, HereIsTyped DEF Encodes, EvenRows, Machines, Disks
  <2> QED BY <2>3, <2>4, EvenRowIsRedundant
<1> QED BY <1>1, XorInvariant, PTL

(* While no slice is torn the layer is a block device that loses nothing,  *)
(* whatever fails meanwhile.                                               *)
THEOREM XorImplementsBlockDevice ==
    Spec => ImplementsBlockDevice
<1>1. IndInv /\ [Next]_vars
        => [torn = {} /\ torn' = {} => Dev!DeviceNext]_<<may, durable, reply>>
  BY NextStep DEF Stepped, vars
<1>2. Init => IndInv /\ Dev!DeviceInit
  BY InitIndInv
<1> QED BY <1>1, <1>2, XorInvariant, PTL DEF Spec, ImplementsBlockDevice

(***************************************************************************)
(* A process that dies between any two device writes loses only blocks it  *)
(* had not flushed: over devices that never fail the layer is a block      *)
(* device, torn slices or not.                                             *)
(***************************************************************************)
THEOREM XorTornImplementsBlockDevice ==
    ASSUME NothingFails
    PROVE  Spec => Dev!DeviceSpec
<1>1. Init => Solid(Here) /\ Dev!DeviceInit
  BY InitIndInv
<1>2. IndInv /\ Solid(Here) /\ [Next]_vars => Solid(Here)'
  BY NextStep DEF Stepped, Unharmed, vars, Solid, Here
<1>3. IndInv /\ Solid(Here) /\ [Next]_vars => [Dev!DeviceNext]_(Dev!devvars)
  BY NextStep DEF Stepped, Unharmed, vars, Dev!devvars
<1> QED BY <1>1, <1>2, <1>3, XorInvariant, PTL DEF Spec, Dev!DeviceSpec
=============================================================================
