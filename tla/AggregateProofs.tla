--------------------------- MODULE AggregateProofs ---------------------------
(***************************************************************************)
(* Proofs about Aggregate, for any number of slices, wherever they lie,    *)
(* any number of devices in the stripe and any sizes.                      *)
(***************************************************************************)
EXTENDS Aggregate, WellFoundedInduction, TLAPS

(***************************************************************************)
(* Facts about natural numbers.                                            *)
(***************************************************************************)

(* Every nonempty set of natural numbers has a least element. *)
LEMMA LeastElement ==
    ASSUME NEW S \in SUBSET Nat, S # {}
    PROVE  \E m \in S : \A k \in S : m <= k
<1>1. IsWellFoundedOn(OpToRel(<, Nat), Nat)
  BY NatLessThanWellFounded
<1>2. PICK m \in S : \A k \in S : ~ (<<k, m>> \in OpToRel(<, Nat))
  BY <1>1, WFMin
<1>3. ASSUME NEW k \in S PROVE m <= k
  <2>1. ~ (k < m)
    BY <1>2 DEF OpToRel
  <2> QED BY <2>1
<1> QED BY <1>3

(* Min of the community modules, which concat_find and stripe_open use. *)
LEMMA MinIsLeast ==
    ASSUME NEW S \in SUBSET Nat, S # {}
    PROVE  Min(S) \in S /\ \A k \in S : Min(S) <= k
BY LeastElement DEF Min

(* Quotient and remainder are unique and bounded. *)
LEMMA DivMod ==
    ASSUME NEW x \in Nat, NEW m \in Nat \ {0}
    PROVE  x \div m \in Nat /\ x % m \in 0 .. m-1 /\ x = m * (x \div m) + (x % m)
OBVIOUS

LEMMA QuotientBound ==
    ASSUME NEW x \in Nat, NEW m \in Nat \ {0}, NEW n \in Nat, x < n * m
    PROVE  x \div m < n
<1> DEFINE q == x \div m
<1>1. q \in Nat /\ x % m \in 0 .. m-1 /\ x = m * q + (x % m)
  BY DivMod
<1> HIDE DEF q
<1>2. ASSUME n <= q PROVE FALSE
  <2>1. PICK k \in Nat : q = n + k
    <3>1. q - n \in Nat /\ q = n + (q - n)
      BY <1>1, <1>2
    <3> QED BY <3>1
  <2>2. m * q = n * m + k * m /\ k * m \in Nat
    BY <2>1
  <2> QED BY <1>1, <2>2
<1>3. q < n
  BY <1>1, <1>2
<1> QED BY <1>3 DEF q

-----------------------------------------------------------------------------
(***************************************************************************)
(* The layout: where the parts of the concat begin, and where a block is.  *)
(***************************************************************************)

(* stripe_open: the stripe is as long as its shortest device, Count times. *)
LEMMA StripeSize ==
    /\ min_drive_size \in Nat \ {0}
    /\ \A d \in Striped : min_drive_size <= Sizes[d]
    /\ StripeBlocks \in Nat \ {0}
    /\ StripeBlocks = min_drive_size * Count
<1> DEFINE S == {Sizes[d] : d \in Striped}
<1>1. S \in SUBSET Nat /\ S # {} /\ 0 \notin S
  <2>1. Striped \subseteq Devs /\ 1 \in Striped
    BY DevicesAssumption DEF Striped, Devs
  <2> QED BY <2>1, DevicesAssumption
<1>2. min_drive_size = Min(S)
  BY DEF min_drive_size
<1>3. Min(S) \in S /\ \A k \in S : Min(S) <= k
  BY <1>1, MinIsLeast
<1>4. /\ min_drive_size \in Nat \ {0}
      /\ \A d \in Striped : min_drive_size <= Sizes[d]
  BY <1>1, <1>2, <1>3
<1>5. min_drive_size * Count \in Nat \ {0}
  BY <1>4, DevicesAssumption
<1> QED BY <1>4, <1>5 DEF StripeBlocks

(* No part is empty. *)
LEMMA PartSize ==
    ASSUME NEW p
    PROVE  /\ p \in Slices => PartBlocks(p) = Len[p] /\ Start[p] \in Nat
           /\ p \notin Slices => PartBlocks(p) = StripeBlocks
           /\ PartBlocks(p) \in Nat \ {0}
BY StripeSize, SliceAssumption DEF PartBlocks

(* The recursion of Offset has a solution. *)
LEMMA OffsetEquation ==
    Offset = [p \in 0 .. SliceCount+1 |->
                 IF p = 0 THEN 0 ELSE Offset[p-1] + PartBlocks(p-1)]
<1> DEFINE Solves(n, f) == f = [p \in 0 .. n |->
                                   IF p = 0 THEN 0 ELSE f[p-1] + PartBlocks(p-1)]
           S == {n \in Nat : ~ \E f : Solves(n, f)}
<1>1. S = {}
  <2> SUFFICES ASSUME S # {} PROVE FALSE
    OBVIOUS
  <2>1. PICK m \in S : \A k \in S : m <= k
    BY LeastElement
  <2>2. CASE m = 0
    <3> DEFINE f == [p \in 0 .. 0 |-> 0]
    <3>1. Solves(0, f)
      OBVIOUS
    <3> QED BY <3>1, <2>1, <2>2
  <2>3. CASE m # 0
    <3>1. m \in Nat /\ m - 1 \in Nat /\ m - 1 \notin S
      <4>1. S \in SUBSET Nat
        OBVIOUS
      <4> HIDE DEF S
      <4>2. m \in Nat /\ m - 1 \in Nat
        BY <4>1, <2>3
      <4>3. ~(m <= m - 1)
        BY <4>2
      <4> QED BY <4>2, <4>3, <2>1
    <3>2. PICK g : Solves(m - 1, g)
      BY <3>1
    <3> DEFINE f == [p \in 0 .. m |->
                        IF p = m THEN g[m-1] + PartBlocks(m-1) ELSE g[p]]
    <3>3. ASSUME NEW p \in 0 .. m
          PROVE  f[p] = IF p = 0 THEN 0 ELSE f[p-1] + PartBlocks(p-1)
      <4>1. CASE p = m
        <5>1. m - 1 \in 0 .. m /\ m - 1 # m
          BY <3>1
        <5> QED BY <4>1, <5>1, <2>3
      <4>2. CASE p # m
        <5>1. p \in 0 .. m-1
          BY <4>2, <3>1
        <5>2. f[p] = g[p]
          BY <4>2
        <5>3. g[p] = IF p = 0 THEN 0 ELSE g[p-1] + PartBlocks(p-1)
          BY <3>2, <5>1
        <5>4. p # 0 => p - 1 \in 0 .. m /\ p - 1 # m
          BY <5>1, <3>1
        <5>5. p # 0 => f[p-1] = g[p-1]
          BY <5>4
        <5> QED BY <5>2, <5>3, <5>5
      <4> QED BY <4>1, <4>2
    <3>4. Solves(m, f)
      <4>1. f = [p \in 0 .. m |-> f[p]]
        OBVIOUS
      <4> HIDE DEF f
      <4> QED BY <4>1, <3>3
    <3> QED BY <3>4, <2>1
  <2> QED BY <2>2, <2>3
<1>2. SliceCount + 1 \in Nat
  BY SliceAssumption
<1>3. \E f : Solves(SliceCount + 1, f)
  BY <1>1, <1>2
<1> QED BY <1>3 DEF Offset

(* Every part begins where the one before it ends. *)
LEMMA OffsetSteps ==
    /\ Offset[0] = 0
    /\ \A p \in Parts : Offset[p+1] = Offset[p] + PartBlocks(p)
<1>1. SliceCount \in Nat
  BY SliceAssumption
<1>2. Offset[0] = 0
  BY <1>1, OffsetEquation
<1>3. ASSUME NEW p \in Parts PROVE Offset[p+1] = Offset[p] + PartBlocks(p)
  <2>1. p \in Nat /\ p + 1 \in 0 .. SliceCount+1 /\ p + 1 # 0 /\ (p + 1) - 1 = p
    BY <1>1 DEF Parts
  <2>2. Offset[p+1] = IF p + 1 = 0 THEN 0 ELSE Offset[(p+1)-1] + PartBlocks((p+1)-1)
    BY <2>1, OffsetEquation
  <2> QED BY <2>1, <2>2
<1> QED BY <1>2, <1>3

LEMMA OffsetIsNat == \A p \in 0 .. SliceCount+1 : Offset[p] \in Nat
<1> DEFINE S == {n \in 0 .. SliceCount+1 : Offset[n] \notin Nat}
<1>0. SliceCount \in Nat
  BY SliceAssumption
<1>1. S = {}
  <2> SUFFICES ASSUME S # {} PROVE FALSE
    OBVIOUS
  <2>0. S \in SUBSET Nat
    BY <1>0
  <2>1. PICK m \in S : \A k \in S : m <= k
    BY <2>0, LeastElement
  <2>2. m # 0
    BY OffsetSteps
  <2>3. m - 1 \in Parts /\ m - 1 \notin S /\ m - 1 \in 0 .. SliceCount+1 /\ (m - 1) + 1 = m
    BY <1>0, <2>0, <2>1, <2>2 DEF Parts
  <2>4. Offset[m] = Offset[m-1] + PartBlocks(m-1)
    BY <2>3, OffsetSteps
  <2>5. Offset[m-1] \in Nat /\ PartBlocks(m-1) \in Nat
    BY <2>3, PartSize
  <2> QED BY <2>4, <2>5
<1> QED BY <1>1

(* A later part begins behind every earlier one. *)
LEMMA OffsetGrows ==
    ASSUME NEW p \in Parts, NEW q \in 0 .. SliceCount+1, p < q
    PROVE  Offset[p] + PartBlocks(p) <= Offset[q]
<1> DEFINE S == {n \in 0 .. SliceCount+1 : p < n /\ ~(Offset[p] + PartBlocks(p) <= Offset[n])}
<1>0. SliceCount \in Nat /\ p \in Nat /\ p \in 0 .. SliceCount+1
  BY SliceAssumption DEF Parts
<1>1. S = {}
  <2> SUFFICES ASSUME S # {} PROVE FALSE
    OBVIOUS
  <2>0. S \in SUBSET Nat
    BY <1>0
  <2>1. PICK m \in S : \A k \in S : m <= k
    BY <2>0, LeastElement
  <2>2. /\ m \in Nat /\ m \in 0 .. SliceCount+1 /\ p < m
        /\ ~(Offset[p] + PartBlocks(p) <= Offset[m])
        /\ m - 1 \in Parts /\ m - 1 \in 0 .. SliceCount+1 /\ (m - 1) + 1 = m
    BY <1>0, <2>0, <2>1 DEF Parts
  <2>3. m - 1 \notin S
    BY <2>1, <2>2
  <2>4. Offset[m] = Offset[m-1] + PartBlocks(m-1)
    BY <2>2, OffsetSteps
  <2>5. /\ Offset[p] \in Nat /\ Offset[m-1] \in Nat /\ Offset[m] \in Nat
        /\ PartBlocks(p) \in Nat /\ PartBlocks(m-1) \in Nat
    BY <2>2, <1>0, OffsetIsNat, PartSize
  <2>6. CASE p = m - 1
    BY <2>2, <2>4, <2>5, <2>6
  <2>7. CASE p # m - 1
    <3>1. p < m - 1
      BY <2>2, <2>7, <1>0
    <3>2. Offset[p] + PartBlocks(p) <= Offset[m-1]
      BY <2>2, <2>3, <3>1
    <3> QED BY <2>2, <2>4, <2>5, <3>2
  <2> QED BY <2>6, <2>7
<1> QED BY <1>1

Within(b, p) == Offset[p] <= b /\ b < Offset[p] + PartBlocks(p)

(* A block lies in one part only ... *)
LEMMA PartIsUnique ==
    ASSUME NEW b \in Nat, NEW p \in Parts, NEW q \in Parts, Within(b, p), Within(b, q)
    PROVE  p = q
<1>1. /\ p \in Nat /\ q \in Nat /\ p \in 0 .. SliceCount+1 /\ q \in 0 .. SliceCount+1
  BY SliceAssumption DEF Parts
<1>2. /\ Offset[p] \in Nat /\ Offset[q] \in Nat /\ PartBlocks(p) \in Nat /\ PartBlocks(q) \in Nat
  BY <1>1, OffsetIsNat, PartSize
<1>3. ~(p < q)
  BY <1>1, <1>2, OffsetGrows DEF Within
<1>4. ~(q < p)
  BY <1>1, <1>2, OffsetGrows DEF Within
<1> QED BY <1>1, <1>3, <1>4

(* ... and it is the first that it does not lie behind, as concat_find looks. *)
LEMMA FirstPart ==
    ASSUME NEW b \in Blocks
    PROVE  LET p == Min({q \in Parts : b - Offset[q] < PartBlocks(q)})
           IN  p \in Parts /\ Within(b, p)
<1> DEFINE S == {q \in Parts : b - Offset[q] < PartBlocks(q)}
           p == Min(S)
<1>0. /\ SliceCount \in Nat /\ Parts \subseteq Nat
      /\ Parts \subseteq 0 .. SliceCount+1 /\ SliceCount \in Parts
      /\ \A q \in 0 .. SliceCount+1 : Offset[q] \in Nat
      /\ \A q \in Parts : PartBlocks(q) \in Nat
  BY SliceAssumption, OffsetIsNat, PartSize DEF Parts
<1>1. b \in Nat /\ b < Offset[SliceCount+1]
  <2>1. Offset[SliceCount+1] \in Nat
    BY <1>0
  <2> QED BY <2>1 DEF Blocks
<1>2. SliceCount \in S
  <2>1. Offset[SliceCount+1] = Offset[SliceCount] + PartBlocks(SliceCount)
    BY <1>0, OffsetSteps
  <2>2. Offset[SliceCount] \in Nat /\ PartBlocks(SliceCount) \in Nat
    BY <1>0
  <2> QED BY <1>0, <1>1, <2>1, <2>2
<1>3. p \in S /\ \A k \in S : p <= k
  <2>1. S \in SUBSET Nat /\ S # {}
    BY <1>0, <1>2
  <2> HIDE DEF S
  <2> QED BY <2>1, MinIsLeast
<1> HIDE DEF p
<1>4. p \in Parts /\ p \in Nat /\ b < Offset[p] + PartBlocks(p)
  BY <1>0, <1>1, <1>3
<1>5. Offset[p] <= b
  <2>1. CASE p = 0
    BY <2>1, <1>1, OffsetSteps
  <2>2. CASE p # 0
    <3>1. p - 1 \in Parts /\ p - 1 \notin S /\ (p - 1) + 1 = p
      BY <1>0, <1>3, <1>4, <2>2 DEF Parts
    <3>2. Offset[p] = Offset[p-1] + PartBlocks(p-1)
      BY <3>1, OffsetSteps
    <3>3. Offset[p-1] \in Nat /\ PartBlocks(p-1) \in Nat
      BY <3>1, <1>0
    <3> QED BY <3>1, <3>2, <3>3, <1>1
  <2> QED BY <2>1, <2>2
<1> QED BY <1>4, <1>5 DEF Within, p

(* Where a block lies: in a slice, so behind the header of device 0 ... *)
InSlice(b, p, r) ==
    /\ p \in Slices
    /\ r = [dev |-> 0, block |-> Start[p] + (b - Offset[p]) + 1]
    /\ b - Offset[p] \in 0 .. Len[p] - 1

(* ... or in the stripe. *)
InStripe(b, r) ==
    /\ b - Offset[SliceCount] \in Nat
    /\ b - Offset[SliceCount] < min_drive_size * Count
    /\ r = [dev |-> 1 + ((b - Offset[SliceCount]) % Count),
            block |-> (b - Offset[SliceCount]) \div Count]

(* The home of a block is in the part that the block is in. *)
LEMMA HomeIs ==
    ASSUME NEW b \in Blocks
    PROVE  \/ \E p \in Slices : InSlice(b, p, Home(b))
           \/ InStripe(b, Home(b))
<1>1. PICK p \in Parts : Within(b, p)
  BY FirstPart
<1>2. /\ SliceCount \in Nat /\ p \in Nat /\ p <= SliceCount /\ p \in 0 .. SliceCount+1
      /\ p \in Slices <=> p # SliceCount
  BY SliceAssumption DEF Parts, Slices
<1>3. b \in Nat /\ Offset[p] \in Nat /\ PartBlocks(p) \in Nat
  <2>1. SliceCount + 1 \in 0 .. SliceCount+1
    BY <1>2
  <2> QED BY <2>1, <1>2, OffsetIsNat, PartSize DEF Blocks
<1>4. PartOf(b) = p
  <2>1. \A q \in Parts : Offset[q] <= b /\ b < Offset[q] + PartBlocks(q) => q = p
    BY <1>1, <1>3, PartIsUnique DEF Within
  <2> QED BY <1>1, <2>1 DEF PartOf, Within
<1>5. b - Offset[p] \in Nat /\ b - Offset[p] < PartBlocks(p)
  BY <1>1, <1>3 DEF Within
<1>6. CASE p \in Slices
  <2>1. PartBlocks(p) = Len[p] /\ Start[p] \in Nat /\ Len[p] \in Nat
    BY <1>6, PartSize, SliceAssumption
  <2>2. Home(b) = [dev |-> 0, block |-> ((b - Offset[p]) + Start[p]) + 1]
    BY <1>4, <1>6 DEF Home, SliceRoute, BaseBlock
  <2>3. ((b - Offset[p]) + Start[p]) + 1 = Start[p] + (b - Offset[p]) + 1
    BY <1>5, <2>1
  <2>4. b - Offset[p] \in 0 .. Len[p] - 1
    BY <1>5, <2>1
  <2> QED BY <2>2, <2>3, <2>4, <1>6 DEF InSlice
<1>7. CASE p \notin Slices
  <2>1. p = SliceCount /\ PartBlocks(p) = min_drive_size * Count
    BY <1>2, <1>7, PartSize, StripeSize
  <2>2. Home(b) = StripeRoute(b - Offset[p])
    BY <1>4, <1>7 DEF Home
  <2> QED BY <2>1, <2>2, <1>5 DEF InStripe, StripeRoute
<1> QED BY <1>6, <1>7

(* A home in a slice is a block of device 0, and not the header. *)
LEMMA SliceHome ==
    ASSUME NEW b \in Blocks, NEW p \in Slices, NEW r, InSlice(b, p, r)
    PROVE  /\ r.dev = 0 /\ r.block \in 1 .. Sizes[0] - 1
           /\ Start[p] <= r.block - 1 /\ r.block - 1 < Start[p] + Len[p]
           /\ r.block = Start[p] + (b - Offset[p]) + 1
           /\ Sizes[0] \in Nat
<1>1. /\ Start[p] \in Nat /\ Len[p] \in Nat \ {0} /\ Start[p] + Len[p] - 1 + 1 < Sizes[0]
  BY SliceAssumption DEF BaseBlock
<1>2. Sizes[0] \in Nat
  BY DevicesAssumption DEF Devs
<1> DEFINE k == b - Offset[p]
<1>3. k \in 0 .. Len[p] - 1 /\ r.dev = 0 /\ r.block = Start[p] + k + 1
  BY DEF InSlice
<1> HIDE DEF k
<1>4. /\ r.block \in 1 .. Sizes[0] - 1
      /\ Start[p] <= r.block - 1 /\ r.block - 1 < Start[p] + Len[p]
  BY <1>1, <1>2, <1>3
<1> QED BY <1>2, <1>3, <1>4 DEF k

(* A home in the stripe is a block that every device of it has. *)
LEMMA StripeHome ==
    ASSUME NEW b \in Blocks, NEW r, InStripe(b, r)
    PROVE  /\ r.dev \in Striped /\ r.block \in Nat
           /\ \A e \in Striped : r.block < Sizes[e]
           /\ \A e \in Striped : Sizes[e] \in Nat
           /\ b - Offset[SliceCount] = Count * r.block + (r.dev - 1)
<1> DEFINE x == b - Offset[SliceCount]
<1>1. /\ x \in Nat /\ x < min_drive_size * Count
      /\ r = [dev |-> 1 + (x % Count), block |-> x \div Count]
  BY DEF InStripe
<1> HIDE DEF x
<1>2. Count \in Nat \ {0} /\ min_drive_size \in Nat
  BY StripeSize, DevicesAssumption
<1>3. x \div Count \in Nat /\ x % Count \in 0 .. Count-1 /\ x = Count * (x \div Count) + (x % Count)
  BY <1>1, <1>2, DivMod
<1>4. x \div Count < min_drive_size
  BY <1>1, <1>2, QuotientBound
<1>5. \A e \in Striped : Sizes[e] \in Nat /\ min_drive_size <= Sizes[e]
  BY StripeSize, DevicesAssumption DEF Striped, Devs
<1> DEFINE q == x \div Count
           m == x % Count
<1>6. /\ r.dev = 1 + m /\ r.block = q /\ q \in Nat /\ m \in 0 .. Count-1
      /\ x = Count * q + m /\ q < min_drive_size
  BY <1>1, <1>3, <1>4
<1> HIDE DEF q, m
<1>7. r.dev \in Striped /\ r.dev - 1 = m
  BY <1>2, <1>6 DEF Striped
<1>8. \A e \in Striped : r.block < Sizes[e]
  BY <1>2, <1>5, <1>6
<1> QED BY <1>5, <1>6, <1>7, <1>8 DEF x

(* A home is a block of a device, and one that the stack may use. *)
LEMMA HomeIsThere ==
    ASSUME NEW b \in Blocks
    PROVE  /\ Home(b).dev \in Devs /\ Home(b).block \in BlocksOf(Home(b).dev)
           /\ Home(b) = [dev |-> Home(b).dev, block |-> Home(b).block]
           /\ Used(Home(b).dev, Home(b).block)
           /\ Home(b).dev = 0 => Home(b).block \in 1 .. Sizes[0] - 1
<1>1. ASSUME NEW p \in Slices, InSlice(b, p, Home(b))
      PROVE  /\ Home(b).dev = 0 /\ Home(b).block \in 1 .. Sizes[0] - 1
             /\ Home(b).block \in BlocksOf(0) /\ Used(0, Home(b).block)
  BY <1>1, SliceHome DEF BlocksOf, Used
<1>2. ASSUME InStripe(b, Home(b))
      PROVE  /\ Home(b).dev \in Striped /\ Home(b).dev # 0
             /\ Home(b).block \in BlocksOf(Home(b).dev)
             /\ Used(Home(b).dev, Home(b).block)
  BY <1>2, StripeHome, DevicesAssumption DEF BlocksOf, Used, Striped
<1>3. 0 \in Devs /\ Striped \subseteq Devs
  BY DevicesAssumption DEF Devs, Striped
<1>4. Home(b) = [dev |-> Home(b).dev, block |-> Home(b).block]
  BY HomeIs DEF InSlice, InStripe
<1> QED BY <1>1, <1>2, <1>3, <1>4, HomeIs

(* No two blocks share a home. *)
LEMMA HomesAreApart ==
    ASSUME NEW b \in Blocks, NEW c \in Blocks, Home(b) = Home(c)
    PROVE  b = c
<1>0. /\ b \in Nat /\ c \in Nat /\ \A p \in 0 .. SliceCount+1 : Offset[p] \in Nat
      /\ SliceCount \in Nat
  <2>1. SliceCount \in Nat /\ SliceCount + 1 \in 0 .. SliceCount+1
    BY SliceAssumption
  <2> QED BY <2>1, OffsetIsNat DEF Blocks
<1>1. ASSUME NEW p \in Slices, NEW q \in Slices,
             InSlice(b, p, Home(b)), InSlice(c, q, Home(c))
      PROVE  b = c
  <2>1. /\ p \in Nat /\ q \in Nat /\ Offset[p] \in Nat /\ Offset[q] \in Nat
        /\ Start[p] \in Nat /\ Start[q] \in Nat /\ Len[p] \in Nat /\ Len[q] \in Nat
        /\ p < q => Start[p] + Len[p] <= Start[q]
        /\ q < p => Start[q] + Len[q] <= Start[p]
    BY <1>0, SliceAssumption DEF Slices
  <2>2. Start[p] + (b - Offset[p]) + 1 = Start[q] + (c - Offset[q]) + 1
    <3>1. Home(b).block = Start[p] + (b - Offset[p]) + 1
      BY <1>1, SliceHome
    <3>2. Home(c).block = Start[q] + (c - Offset[q]) + 1
      BY <1>1, SliceHome
    <3> QED BY <3>1, <3>2
  <2>3. b - Offset[p] \in 0 .. Len[p] - 1 /\ c - Offset[q] \in 0 .. Len[q] - 1
    BY <1>1 DEF InSlice
  <2>4. p = q
    BY <2>1, <2>2, <2>3, <1>0
  <2> QED BY <2>1, <2>2, <2>4, <1>0
<1>2. ASSUME InStripe(b, Home(b)), InStripe(c, Home(c)) PROVE b = c
  <2>1. b - Offset[SliceCount] = c - Offset[SliceCount]
    BY <1>2, StripeHome
  <2>2. Offset[SliceCount] \in Nat
    BY <1>0
  <2> QED BY <2>1, <2>2, <1>0
<1>3. ASSUME NEW d \in Blocks, NEW e \in Blocks, NEW p \in Slices,
             InSlice(d, p, Home(d)), InStripe(e, Home(e))
      PROVE  Home(d) # Home(e)
  <2>1. Home(d).dev = 0
    BY <1>3, SliceHome
  <2>2. Home(e).dev # 0
    BY <1>3, StripeHome, DevicesAssumption DEF Striped
  <2> QED BY <2>1, <2>2
<1> QED BY <1>1, <1>2, <1>3, HomeIs

(***************************************************************************)
(* concat_find, whatever device it found last, finds the part of a block:  *)
(* what it remembers changes nothing.                                      *)
(***************************************************************************)
LEMMA RouteIsHome ==
    ASSUME FoundIsAPart, NEW b \in Blocks
    PROVE  /\ Route(b) = Home(b)
           /\ \E p \in Parts : Found(b) = <<p, Offset[p], PartBlocks(p)>>
<1>1. PICK p \in Parts : last = p /\ last_offset = Offset[p] /\ last_len = PartBlocks(p)
  BY DEF FoundIsAPart, found
<1> DEFINE m == Min({q \in Parts : b - Offset[q] < PartBlocks(q)})
           q == IF AlreadyFound(b) THEN p ELSE m
<1>2. m \in Parts /\ Within(b, m)
  BY FirstPart
<1>3. AlreadyFound(b) <=> Within(b, p)
  BY <1>1 DEF AlreadyFound, Within
<1>4. q \in Parts /\ Within(b, q) /\ Found(b) = <<q, Offset[q], PartBlocks(q)>>
  <2>1. Found(b) = IF AlreadyFound(b) THEN <<p, Offset[p], PartBlocks(p)>>
                   ELSE <<m, Offset[m], PartBlocks(m)>>
    BY <1>1 DEF Found, found
  <2> HIDE DEF m
  <2> QED BY <2>1, <1>2, <1>3
<1> HIDE DEF q
<1>5. PartOf(b) = q
  <2>1. b \in Nat
    <3>1. Offset[SliceCount+1] \in Nat
      BY OffsetIsNat, SliceAssumption
    <3> QED BY <3>1 DEF Blocks
  <2>2. \A r \in Parts : Offset[r] <= b /\ b < Offset[r] + PartBlocks(r) => r = q
    BY <2>1, <1>4, PartIsUnique DEF Within
  <2> QED BY <1>4, <2>2 DEF PartOf, Within
<1>6. Route(b) = Home(b)
  BY <1>4, <1>5 DEF Route, Home
<1> QED BY <1>4, <1>6

-----------------------------------------------------------------------------
(***************************************************************************)
(* The cipher.                                                             *)
(***************************************************************************)

(* The blocks of device 0 behind the header have streams. *)
LEMMA StreamOfBlock ==
    ASSUME NEW i \in 1 .. Sizes[0] - 1
    PROVE  Stream(TheIo, i - 1) \in Streams
<1>1. Sizes[0] \in Nat
  BY DevicesAssumption DEF Devs
<1>2. i - 1 \in 0 .. Sizes[0] - 2
  BY <1>1
<1> QED BY <1>2 DEF Streams

(* The stream that is added to a block. *)
LEMMA Ofb64Of ==
    ASSUME NEW t, NEW on, NEW s
    PROVE  Ofb64([text |-> t, streams |-> on], s) =
               [text |-> t, streams |-> (on \ {s}) \cup ({s} \ on)]
BY DEF Ofb64

(* To add a stream again takes it away. *)
LEMMA Ofb64Twice ==
    ASSUME NEW x \in Cells, NEW s \in Streams
    PROVE  Ofb64(x, s) \in Cells /\ Ofb64(Ofb64(x, s), s) = x
<1>1. PICK t \in Values \cup {Zero, TheHeader.text}, on \in SUBSET Streams :
         x = [text |-> t, streams |-> on]
  BY DEF Cells
<1> DEFINE flip == (on \ {s}) \cup ({s} \ on)
<1>2. flip \in SUBSET Streams /\ (flip \ {s}) \cup ({s} \ flip) = on
  OBVIOUS
<1>3. Ofb64(x, s) = [text |-> t, streams |-> flip]
  BY <1>1, Ofb64Of
<1> HIDE DEF flip
<1>4. Ofb64([text |-> t, streams |-> flip], s) =
          [text |-> t, streams |-> (flip \ {s}) \cup ({s} \ flip)]
  BY Ofb64Of
<1>5. [text |-> t, streams |-> flip] \in Cells
  BY <1>2 DEF Cells
<1> QED BY <1>1, <1>2, <1>3, <1>4, <1>5

(* What is written by way of the layers is read by way of them. *)
LEMMA CodedTwice ==
    ASSUME NEW b \in Blocks, NEW x \in Cells
    PROVE  /\ Coded(Home(b), x, TheIo) \in Cells
           /\ Coded(Home(b), Coded(Home(b), x, TheIo), TheIo) = x
<1>1. CASE Home(b).dev = 0
  BY <1>1, HomeIsThere, StreamOfBlock, Ofb64Twice DEF Coded
<1>2. CASE Home(b).dev # 0
  BY <1>2 DEF Coded
<1> QED BY <1>1, <1>2

(* Texts are cells, and written or read before a write they are contents. *)
LEMMA PlainCells ==
    /\ \A v \in Values \cup {Zero} : Plain(v) \in Cells /\ Plain(v) \in Contents
    /\ TheHeader \in Cells
    /\ Written \subseteq Contents /\ Written \subseteq Cells
    /\ \A b \in Blocks : Coded(Home(b), Plain(Zero), TheIo) \in Contents
<1>1. /\ \A v \in Values \cup {Zero} : Plain(v) \in Cells /\ Plain(v) \in Contents
      /\ TheHeader \in Cells
  BY DEF Plain, Cells, Contents, TheHeader, Header
<1>2. Written \subseteq Contents /\ Written \subseteq Cells
  BY <1>1 DEF Written
<1>3. ASSUME NEW b \in Blocks PROVE Coded(Home(b), Plain(Zero), TheIo) \in Contents
  <2>1. CASE Home(b).dev = 0
    BY <2>1, HomeIsThere, StreamOfBlock DEF Coded, Contents
  <2>2. CASE Home(b).dev # 0
    BY <2>2, <1>1 DEF Coded
  <2> QED BY <2>1, <2>2
<1> QED BY <1>1, <1>2, <1>3

-----------------------------------------------------------------------------
(***************************************************************************)
(* The steps.                                                              *)
(***************************************************************************)

(* Changing one block of one device. *)
LEMMA OneBlock ==
    ASSUME NEW T, NEW f, DOMAIN f = Devs, \A d \in Devs : f[d] \in [BlocksOf(d) -> T],
           NEW e \in Devs, NEW j \in BlocksOf(e), NEW x \in T,
           NEW g, g = [f EXCEPT ![e][j] = x]
    PROVE  /\ DOMAIN g = Devs /\ \A d \in Devs : g[d] \in [BlocksOf(d) -> T]
           /\ g[e][j] = x
           /\ \A d \in Devs : \A i \in BlocksOf(d) :
                 d # e \/ i # j => g[d][i] = f[d][i]
<1>1. /\ DOMAIN g = Devs /\ g[e] = [f[e] EXCEPT ![j] = x]
      /\ \A d \in Devs : d # e => g[d] = f[d]
  OBVIOUS
<1>2. /\ g[e] \in [BlocksOf(e) -> T] /\ g[e][j] = x
      /\ \A i \in BlocksOf(e) : i # j => g[e][i] = f[e][i]
  BY <1>1
<1> QED BY <1>1, <1>2

(* The stack is opened over devices of zeroes. *)
LEMMA InitIndInv == Init => IndInv
<1> SUFFICES ASSUME Init PROVE IndInv
  OBVIOUS
<1>1. FoundIsAPart
  <2>1. 0 \in Parts
    BY SliceAssumption DEF Parts
  <2> QED BY <2>1, OffsetSteps DEF Init, FoundIsAPart, found
<1>2. DevicesTypeOK
  <2>1. Plain(Zero) \in Cells
    BY PlainCells
  <2> QED BY <2>1 DEF Init, DevicesTypeOK
<1>3. may = [b \in Blocks |-> {Coded(Home(b), Plain(Zero), TheIo)}] /\ durable = may
  BY <1>1, RouteIsHome DEF Init
<1>4. Dev!DeviceTypeOK
  <2>1. may \in [Blocks -> SUBSET Contents]
    BY <1>3, PlainCells
  <2> QED BY <2>1, <1>3 DEF Init, Dev!DeviceTypeOK
<1>5. HomesKeepThePromise
  <2> SUFFICES ASSUME NEW b \in Blocks
               PROVE  /\ Coded(Home(b), now[Home(b).dev][Home(b).block], TheIo) \in may[b]
                      /\ \A x \in saved[Home(b).dev][Home(b).block] :
                            Coded(Home(b), x, TheIo) \in durable[b]
    BY DEF HomesKeepThePromise
  <2>1. /\ now[Home(b).dev][Home(b).block] = Plain(Zero)
        /\ saved[Home(b).dev][Home(b).block] = {Plain(Zero)}
    BY HomeIsThere DEF Init
  <2> QED BY <2>1, <1>3
<1>6. OthersAreOld
  BY DEF Init, OthersAreOld
<1> QED BY <1>1, <1>2, <1>4, <1>5, <1>6 DEF Init, IndInv, Dev!ReadsAreExplained

(* Whatever concat_find finds is a part. *)
LEMMA FindKeeps ==
    ASSUME FoundIsAPart, NEW b \in Blocks, Find(b)
    PROVE  FoundIsAPart'
<1>1. PICK p \in Parts : Found(b) = <<p, Offset[p], PartBlocks(p)>>
  BY RouteIsHome
<1>2. last' = p /\ last_offset' = Offset[p] /\ last_len' = PartBlocks(p)
  BY <1>1 DEF Find
<1> QED BY <1>2 DEF FoundIsAPart, found

(* Another block has another home. *)
LEMMA ElsewhereIsHome ==
    ASSUME NEW b \in Blocks, NEW c \in Blocks, b # c
    PROVE  Home(c).dev # Home(b).dev \/ Home(c).block # Home(b).block
BY HomesAreApart, HomeIsThere

(* A step that leaves the devices and the promise alone. *)
LEMMA DevicesAlone ==
    ASSUME IndInv, now' = now, saved' = saved, may' = may, durable' = durable
    PROVE  DevicesTypeOK' /\ HomesKeepThePromise' /\ OthersAreOld'
<1>1. DevicesTypeOK /\ HomesKeepThePromise /\ OthersAreOld
  BY DEF IndInv
<1>2. DevicesTypeOK'
  BY <1>1 DEF DevicesTypeOK
<1>3. HomesKeepThePromise'
  BY <1>1 DEF HomesKeepThePromise
<1>4. OthersAreOld'
  BY <1>1 DEF OthersAreOld
<1> QED BY <1>2, <1>3, <1>4

LEMMA ReadIndInv ==
    ASSUME IndInv, NEW b \in Blocks, ReadBlock(b)
    PROVE  IndInv'
<1> DEFINE r == Home(b)
           v == Coded(r, now[r.dev][r.block], TheIo)
<1>1. FoundIsAPart /\ io = TheIo /\ Route(b) = r
  BY RouteIsHome DEF IndInv, ReadBlock
<1>2. v \in may[b] /\ may[b] \in SUBSET Contents
  BY DEF IndInv, HomesKeepThePromise, Dev!DeviceTypeOK
<1>3. reply' \in {[at |-> b, val |-> v], NoReply}
  BY <1>1 DEF ReadBlock
<1> HIDE DEF v
<1>4. FoundIsAPart'
  BY <1>1, FindKeeps DEF ReadBlock
<1>5. DevicesTypeOK' /\ HomesKeepThePromise' /\ OthersAreOld'
  BY DevicesAlone DEF ReadBlock
<1>6. may' = may /\ durable' = durable /\ io' = io
  BY DEF ReadBlock
<1>7. Dev!DeviceTypeOK'
  BY <1>2, <1>3, <1>6 DEF IndInv, Dev!DeviceTypeOK
<1>8. Dev!ReadsAreExplained'
  BY <1>2, <1>3, <1>6 DEF Dev!ReadsAreExplained
<1> QED BY <1>1, <1>4, <1>5, <1>6, <1>7, <1>8 DEF IndInv

LEMMA WriteIndInv ==
    ASSUME IndInv, NEW b \in Blocks, NEW v \in Written, WriteBlock(b, v)
    PROVE  IndInv'
<1> DEFINE e == Home(b).dev
           j == Home(b).block
           x == Coded(Home(b), v, TheIo)
<1>1. FoundIsAPart /\ io = TheIo /\ Route(b) = Home(b)
  BY RouteIsHome DEF IndInv, WriteBlock
<1>2. /\ saved' = [saved EXCEPT ![e][j] = @ \cup {x}]
      /\ durable' = [durable EXCEPT ![b] = @ \cup {v}]
      /\ \/ /\ now' = [now EXCEPT ![e][j] = x]
            /\ may' \in {[may EXCEPT ![b] = {v}], [may EXCEPT ![b] = @ \cup {v}]}
         \/ now' = now /\ may' = [may EXCEPT ![b] = @ \cup {v}]
      /\ reply' = NoReply /\ io' = io
  BY <1>1 DEF WriteBlock
<1>3. e \in Devs /\ j \in BlocksOf(e) /\ Used(e, j)
  BY HomeIsThere
<1>4. v \in Cells /\ v \in Contents /\ x \in Cells /\ Coded(Home(b), x, TheIo) = v
  BY PlainCells, CodedTwice
<1>5. \A c \in Blocks : c # b => Home(c).dev # e \/ Home(c).block # j
  BY ElsewhereIsHome
<1> HIDE DEF e, j, x
<1>6. /\ DOMAIN now' = Devs /\ \A d \in Devs : now'[d] \in [BlocksOf(d) -> Cells]
      /\ now'[e][j] = x \/ (now' = now /\ may' = [may EXCEPT ![b] = @ \cup {v}])
      /\ \A d \in Devs : \A i \in BlocksOf(d) :
            d # e \/ i # j => now'[d][i] = now[d][i]
  <2>0. DOMAIN now = Devs /\ \A d \in Devs : now[d] \in [BlocksOf(d) -> Cells]
    BY DEF IndInv, DevicesTypeOK
  <2>1. CASE now' = [now EXCEPT ![e][j] = x]
    BY <2>0, <2>1, <1>3, <1>4, OneBlock
  <2>2. CASE now' = now /\ may' = [may EXCEPT ![b] = @ \cup {v}]
    BY <2>0, <2>2
  <2> QED BY <2>1, <2>2, <1>2
<1>7. /\ DOMAIN saved' = Devs /\ \A d \in Devs : saved'[d] \in [BlocksOf(d) -> SUBSET Cells]
      /\ saved'[e][j] = saved[e][j] \cup {x}
      /\ \A d \in Devs : \A i \in BlocksOf(d) :
            d # e \/ i # j => saved'[d][i] = saved[d][i]
  <2>0. DOMAIN saved = Devs /\ \A d \in Devs : saved[d] \in [BlocksOf(d) -> SUBSET Cells]
    BY DEF IndInv, DevicesTypeOK
  <2> DEFINE y == saved[e][j] \cup {x}
  <2>1. y \in SUBSET Cells
    BY <2>0, <1>3, <1>4
  <2>2. saved' = [saved EXCEPT ![e][j] = y]
    BY <1>2, <2>0, <1>3
  <2> HIDE DEF y
  <2>3. /\ DOMAIN saved' = Devs /\ \A d \in Devs : saved'[d] \in [BlocksOf(d) -> SUBSET Cells]
        /\ saved'[e][j] = y
        /\ \A d \in Devs : \A i \in BlocksOf(d) :
              d # e \/ i # j => saved'[d][i] = saved[d][i]
    BY <2>0, <2>1, <2>2, <1>3, OneBlock
  <2> QED BY <2>3 DEF y
<1>8. /\ may' \in [Blocks -> SUBSET Contents] /\ durable' \in [Blocks -> SUBSET Contents]
      /\ v \in may'[b] /\ v \in durable'[b]
      /\ durable[b] \subseteq durable'[b]
      /\ \A c \in Blocks : c # b => may'[c] = may[c] /\ durable'[c] = durable[c]
      /\ may' = [may EXCEPT ![b] = @ \cup {v}] => may[b] \subseteq may'[b]
  <2>1. may \in [Blocks -> SUBSET Contents] /\ durable \in [Blocks -> SUBSET Contents]
    BY DEF IndInv, Dev!DeviceTypeOK
  <2> QED BY <2>1, <1>2, <1>4
<1>9. HomesKeepThePromise'
  <2> SUFFICES ASSUME NEW c \in Blocks
               PROVE  /\ Coded(Home(c), now'[Home(c).dev][Home(c).block], TheIo) \in may'[c]
                      /\ \A y \in saved'[Home(c).dev][Home(c).block] :
                            Coded(Home(c), y, TheIo) \in durable'[c]
    BY DEF HomesKeepThePromise, Coded, Home, PartOf, SliceRoute, StripeRoute
  <2>0. /\ Coded(Home(c), now[Home(c).dev][Home(c).block], TheIo) \in may[c]
        /\ \A y \in saved[Home(c).dev][Home(c).block] : Coded(Home(c), y, TheIo) \in durable[c]
    BY DEF IndInv, HomesKeepThePromise
  <2>1. CASE c # b
    <3>1. Home(c).dev \in Devs /\ Home(c).block \in BlocksOf(Home(c).dev)
      BY HomeIsThere
    <3>2. /\ now'[Home(c).dev][Home(c).block] = now[Home(c).dev][Home(c).block]
          /\ saved'[Home(c).dev][Home(c).block] = saved[Home(c).dev][Home(c).block]
      BY <3>1, <2>1, <1>5, <1>6, <1>7
    <3> QED BY <3>2, <2>0, <2>1, <1>8
  <2>2. CASE c = b
    <3>0. Home(c).dev = e /\ Home(c).block = j
      BY <2>2 DEF e, j
    <3>1. Coded(Home(c), now'[e][j], TheIo) \in may'[c]
      BY <3>0, <2>0, <2>2, <1>4, <1>6, <1>8
    <3>2. \A y \in saved'[e][j] : Coded(Home(c), y, TheIo) \in durable'[c]
      BY <3>0, <2>0, <2>2, <1>4, <1>7, <1>8
    <3> QED BY <3>0, <3>1, <3>2
  <2> QED BY <2>1, <2>2
<1>10. OthersAreOld'
  <2> SUFFICES ASSUME NEW d \in Devs, NEW i \in BlocksOf(d), ~Used(d, i)
               PROVE  saved'[d][i] \cup {now'[d][i]}
                         \subseteq {Plain(Zero)} \cup IF d = 0 /\ i = 0 THEN {TheHeader} ELSE {}
    BY DEF OthersAreOld, Used, BlocksOf
  <2>1. now'[d][i] = now[d][i] /\ saved'[d][i] = saved[d][i]
    BY <1>3, <1>6, <1>7
  <2> QED BY <2>1 DEF IndInv, OthersAreOld
<1>11. DevicesTypeOK'
  BY <1>6, <1>7 DEF DevicesTypeOK, BlocksOf
<1>12. FoundIsAPart'
  BY <1>1, FindKeeps DEF WriteBlock
<1>13. Dev!DeviceTypeOK' /\ Dev!ReadsAreExplained' /\ io' = TheIo
  BY <1>1, <1>2, <1>8 DEF Dev!DeviceTypeOK, Dev!ReadsAreExplained
<1> QED BY <1>9, <1>10, <1>11, <1>12, <1>13 DEF IndInv

(* A flush leaves nothing that a crash could take. *)
LEMMA FlushIndInv ==
    ASSUME IndInv, FlushSyncOrClearCaches
    PROVE  IndInv'
<1>1. /\ saved' = [d \in Devs |-> [i \in BlocksOf(d) |-> {now[d][i]}]]
      /\ durable' = may /\ may' = may /\ now' = now /\ reply' = NoReply
      /\ last' = last /\ last_offset' = last_offset /\ last_len' = last_len /\ io' = io
  BY DEF FlushSyncOrClearCaches, Flushed
<1>2. FoundIsAPart' /\ io' \in {Closed, TheIo}
  BY <1>1 DEF IndInv, FoundIsAPart, found
<1>3. DevicesTypeOK'
  <2>1. DOMAIN now = Devs /\ \A d \in Devs : now[d] \in [BlocksOf(d) -> Cells]
    BY DEF IndInv, DevicesTypeOK
  <2>2. DOMAIN saved' = Devs
    BY <1>1
  <2>3. ASSUME NEW d \in Devs PROVE saved'[d] \in [BlocksOf(d) -> SUBSET Cells]
    <3>1. saved'[d] = [i \in BlocksOf(d) |-> {now[d][i]}]
      BY <1>1
    <3>2. \A i \in BlocksOf(d) : {now[d][i]} \in SUBSET Cells
      BY <2>1
    <3> QED BY <3>1, <3>2
  <2> QED BY <1>1, <2>1, <2>2, <2>3 DEF DevicesTypeOK, BlocksOf
<1>4. Dev!DeviceTypeOK' /\ Dev!ReadsAreExplained'
  BY <1>1 DEF IndInv, Dev!DeviceTypeOK, Dev!ReadsAreExplained
<1>5. HomesKeepThePromise'
  <2> SUFFICES ASSUME NEW c \in Blocks
               PROVE  /\ Coded(Home(c), now'[Home(c).dev][Home(c).block], TheIo) \in may'[c]
                      /\ \A y \in saved'[Home(c).dev][Home(c).block] :
                            Coded(Home(c), y, TheIo) \in durable'[c]
    BY DEF HomesKeepThePromise, Coded, Home, PartOf, SliceRoute, StripeRoute
  <2>1. saved'[Home(c).dev][Home(c).block] = {now[Home(c).dev][Home(c).block]}
    BY <1>1, HomeIsThere
  <2> QED BY <2>1, <1>1 DEF IndInv, HomesKeepThePromise
<1>6. OthersAreOld'
  <2> SUFFICES ASSUME NEW d \in Devs, NEW i \in BlocksOf(d), ~Used(d, i)
               PROVE  saved'[d][i] \cup {now'[d][i]}
                         \subseteq {Plain(Zero)} \cup IF d = 0 /\ i = 0 THEN {TheHeader} ELSE {}
    BY DEF OthersAreOld, Used, BlocksOf
  <2>1. now'[d][i] = now[d][i] /\ saved'[d][i] = {now[d][i]}
    BY <1>1
  <2> QED BY <2>1 DEF IndInv, OthersAreOld
<1> QED BY <1>2, <1>3, <1>4, <1>5, <1>6 DEF IndInv

(* The header is written to no block's home, and is nobody else's. *)
LEMMA CreateIndInv ==
    ASSUME IndInv, EncryptCreate
    PROVE  IndInv'
<1>1. /\ saved' = [saved EXCEPT ![0][0] = @ \cup {TheHeader}]
      /\ now' \in {[now EXCEPT ![0][0] = TheHeader], now}
      /\ may' = may /\ durable' = durable /\ reply' = reply
      /\ last' = last /\ last_offset' = last_offset /\ last_len' = last_len /\ io' = io
  BY DEF EncryptCreate
<1>2. FoundIsAPart' /\ io' \in {Closed, TheIo}
  BY <1>1 DEF IndInv, FoundIsAPart, found
<1>3. Dev!DeviceTypeOK' /\ Dev!ReadsAreExplained'
  BY <1>1 DEF IndInv, Dev!DeviceTypeOK, Dev!ReadsAreExplained
<1>4. 0 \in Devs /\ 0 \in BlocksOf(0) /\ TheHeader \in Cells
  BY PlainCells, DevicesAssumption DEF Devs, BlocksOf
<1>5. /\ DOMAIN now' = Devs /\ \A d \in Devs : now'[d] \in [BlocksOf(d) -> Cells]
      /\ now'[0][0] \in {now[0][0], TheHeader}
      /\ \A d \in Devs : \A i \in BlocksOf(d) :
            d # 0 \/ i # 0 => now'[d][i] = now[d][i]
  <2>0. DOMAIN now = Devs /\ \A d \in Devs : now[d] \in [BlocksOf(d) -> Cells]
    BY DEF IndInv, DevicesTypeOK
  <2>1. CASE now' = [now EXCEPT ![0][0] = TheHeader]
    BY <2>0, <2>1, <1>4, OneBlock
  <2>2. CASE now' = now
    BY <2>0, <2>2
  <2> QED BY <2>1, <2>2, <1>1
<1>6. /\ DOMAIN saved' = Devs /\ \A d \in Devs : saved'[d] \in [BlocksOf(d) -> SUBSET Cells]
      /\ saved'[0][0] = saved[0][0] \cup {TheHeader}
      /\ \A d \in Devs : \A i \in BlocksOf(d) :
            d # 0 \/ i # 0 => saved'[d][i] = saved[d][i]
  <2>0. DOMAIN saved = Devs /\ \A d \in Devs : saved[d] \in [BlocksOf(d) -> SUBSET Cells]
    BY DEF IndInv, DevicesTypeOK
  <2> DEFINE y == saved[0][0] \cup {TheHeader}
  <2>1. y \in SUBSET Cells
    BY <2>0, <1>4
  <2>2. saved' = [saved EXCEPT ![0][0] = y]
    BY <1>1, <2>0, <1>4
  <2> HIDE DEF y
  <2>3. /\ DOMAIN saved' = Devs /\ \A d \in Devs : saved'[d] \in [BlocksOf(d) -> SUBSET Cells]
        /\ saved'[0][0] = y
        /\ \A d \in Devs : \A i \in BlocksOf(d) :
              d # 0 \/ i # 0 => saved'[d][i] = saved[d][i]
    BY <2>0, <2>1, <2>2, <1>4, OneBlock
  <2> QED BY <2>3 DEF y
<1>7. HomesKeepThePromise'
  <2> SUFFICES ASSUME NEW c \in Blocks
               PROVE  /\ Coded(Home(c), now'[Home(c).dev][Home(c).block], TheIo) \in may'[c]
                      /\ \A y \in saved'[Home(c).dev][Home(c).block] :
                            Coded(Home(c), y, TheIo) \in durable'[c]
    BY DEF HomesKeepThePromise, Coded, Home, PartOf, SliceRoute, StripeRoute
  <2>1. /\ Home(c).dev \in Devs /\ Home(c).block \in BlocksOf(Home(c).dev)
        /\ Home(c).dev # 0 \/ Home(c).block # 0
    <3>1. 0 \notin 1 .. Sizes[0] - 1
      OBVIOUS
    <3> QED BY <3>1, HomeIsThere
  <2>2. /\ now'[Home(c).dev][Home(c).block] = now[Home(c).dev][Home(c).block]
        /\ saved'[Home(c).dev][Home(c).block] = saved[Home(c).dev][Home(c).block]
    BY <2>1, <1>5, <1>6
  <2> QED BY <2>2, <1>1 DEF IndInv, HomesKeepThePromise
<1>8. OthersAreOld'
  <2> SUFFICES ASSUME NEW d \in Devs, NEW i \in BlocksOf(d), ~Used(d, i)
               PROVE  saved'[d][i] \cup {now'[d][i]}
                         \subseteq {Plain(Zero)} \cup IF d = 0 /\ i = 0 THEN {TheHeader} ELSE {}
    BY DEF OthersAreOld, Used, BlocksOf
  <2>0. saved[d][i] \cup {now[d][i]}
            \subseteq {Plain(Zero)} \cup IF d = 0 /\ i = 0 THEN {TheHeader} ELSE {}
    BY DEF IndInv, OthersAreOld
  <2>1. CASE d = 0 /\ i = 0
    BY <2>0, <2>1, <1>5, <1>6
  <2>2. CASE ~(d = 0 /\ i = 0)
    <3>1. now'[d][i] = now[d][i] /\ saved'[d][i] = saved[d][i]
      BY <2>2, <1>5, <1>6
    <3> QED BY <2>0, <3>1
  <2> QED BY <2>1, <2>2
<1>9. DevicesTypeOK'
  BY <1>5, <1>6 DEF DevicesTypeOK, BlocksOf
<1> QED BY <1>2, <1>3, <1>7, <1>8, <1>9 DEF IndInv

(* Only the key of the header opens the device, and with its base iv. *)
LEMMA OpenIndInv ==
    ASSUME IndInv, NEW key \in Keys, Open(key)
    PROVE  IndInv'
<1>1. io' = TheIo
  <2>1. now[0][0] = TheHeader /\ TheHeader.text.kv = key
    BY DEF Open, Accepts
  <2>2. TheHeader.text.kv = Key
    BY DEF TheHeader, Header, Plain
  <2> QED BY <2>1, <2>2 DEF Open, TheIo
<1>2. FoundIsAPart'
  <2>1. 0 \in Parts /\ Offset[0] = 0
    BY SliceAssumption, OffsetSteps DEF Parts
  <2> QED BY <2>1 DEF Open, FoundIsAPart, found
<1>3. now' = now /\ saved' = saved /\ may' = may /\ durable' = durable /\ reply' = reply
  BY DEF Open
<1>4. DevicesTypeOK' /\ HomesKeepThePromise' /\ OthersAreOld'
  BY <1>3, DevicesAlone
<1>5. Dev!DeviceTypeOK' /\ Dev!ReadsAreExplained'
  BY <1>3 DEF IndInv, Dev!DeviceTypeOK, Dev!ReadsAreExplained
<1> QED BY <1>1, <1>2, <1>4, <1>5 DEF IndInv

LEMMA CloseIndInv ==
    ASSUME IndInv, CloseAll
    PROVE  IndInv'
<1>1. /\ now' = now /\ saved' = saved /\ may' = may /\ durable' = durable /\ reply' = NoReply
      /\ last' = last /\ last_offset' = last_offset /\ last_len' = last_len /\ io' = Closed
  BY DEF CloseAll
<1>2. DevicesTypeOK' /\ HomesKeepThePromise' /\ OthersAreOld'
  BY <1>1, DevicesAlone
<1>3. FoundIsAPart' /\ Dev!DeviceTypeOK' /\ Dev!ReadsAreExplained'
  BY <1>1 DEF IndInv, FoundIsAPart, found, Dev!DeviceTypeOK, Dev!ReadsAreExplained
<1> QED BY <1>1, <1>2, <1>3 DEF IndInv

(* What survives on every block is one of the versions that might. *)
LEMMA SurvivorsAreSaved ==
    ASSUME NEW f \in Survivors
    PROVE  DOMAIN f = Devs /\ \A d \in Devs : f[d] \in Images(d)
<1>1. PICK g \in Images(0), h \in StripeImages : f = [d \in Devs |-> IF d = 0 THEN g ELSE h[d]]
  BY DEF Survivors
<1>2. ASSUME NEW d \in Devs, d # 0 PROVE h[d] \in Images(d)
  <2>1. d \in Striped
    BY <1>2, DevicesAssumption DEF Devs, Striped
  <2> QED BY <2>1 DEF StripeImages
<1> QED BY <1>1, <1>2

LEMMA CrashIndInv ==
    ASSUME IndInv, Crash
    PROVE  IndInv'
<1>1. /\ saved' = saved /\ may' = durable /\ durable' = durable /\ reply' = NoReply
      /\ last' = last /\ last_offset' = last_offset /\ last_len' = last_len /\ io' = Closed
  BY DEF Crash
<1>2. /\ DOMAIN now' = Devs
      /\ \A d \in Devs : now'[d] \in Images(d)
  BY SurvivorsAreSaved DEF Crash
<1>3. /\ DOMAIN saved = Devs /\ \A d \in Devs : saved[d] \in [BlocksOf(d) -> SUBSET Cells]
  BY DEF IndInv, DevicesTypeOK
<1>4. ASSUME NEW d \in Devs
      PROVE  /\ now'[d] \in [BlocksOf(d) -> Cells]
             /\ \A i \in BlocksOf(d) : now'[d][i] \in saved[d][i]
  <2>1. /\ now'[d] \in [BlocksOf(d) -> UNION {saved[d][b] : b \in BlocksOf(d)}]
        /\ \A i \in BlocksOf(d) : now'[d][i] \in saved[d][i]
    BY <1>2 DEF Images
  <2>2. \A i \in BlocksOf(d) : saved[d][i] \in SUBSET Cells
    BY <1>3
  <2> QED BY <2>1, <2>2
<1>5. DevicesTypeOK'
  BY <1>1, <1>2, <1>3, <1>4 DEF DevicesTypeOK, BlocksOf
<1>6. HomesKeepThePromise'
  <2> SUFFICES ASSUME NEW c \in Blocks
               PROVE  /\ Coded(Home(c), now'[Home(c).dev][Home(c).block], TheIo) \in may'[c]
                      /\ \A y \in saved'[Home(c).dev][Home(c).block] :
                            Coded(Home(c), y, TheIo) \in durable'[c]
    BY DEF HomesKeepThePromise, Coded, Home, PartOf, SliceRoute, StripeRoute
  <2>1. now'[Home(c).dev][Home(c).block] \in saved[Home(c).dev][Home(c).block]
    BY <1>4, HomeIsThere
  <2> QED BY <2>1, <1>1 DEF IndInv, HomesKeepThePromise
<1>7. OthersAreOld'
  <2> SUFFICES ASSUME NEW d \in Devs, NEW i \in BlocksOf(d), ~Used(d, i)
               PROVE  saved'[d][i] \cup {now'[d][i]}
                         \subseteq {Plain(Zero)} \cup IF d = 0 /\ i = 0 THEN {TheHeader} ELSE {}
    BY DEF OthersAreOld, Used, BlocksOf
  <2>1. saved[d][i]
            \subseteq {Plain(Zero)} \cup IF d = 0 /\ i = 0 THEN {TheHeader} ELSE {}
    BY DEF IndInv, OthersAreOld
  <2> QED BY <2>1, <1>1, <1>4
<1>8. FoundIsAPart' /\ Dev!DeviceTypeOK' /\ Dev!ReadsAreExplained'
  BY <1>1 DEF IndInv, FoundIsAPart, found, Dev!DeviceTypeOK, Dev!ReadsAreExplained
<1> QED BY <1>1, <1>5, <1>6, <1>7, <1>8 DEF IndInv

(* Every step keeps the invariant. *)
LEMMA NextIndInv == IndInv /\ [Next]_vars => IndInv'
<1> SUFFICES ASSUME IndInv, [Next]_vars PROVE IndInv'
  OBVIOUS
<1>1. CASE UNCHANGED vars
  <2>1. DevicesTypeOK' /\ HomesKeepThePromise' /\ OthersAreOld'
    BY <1>1, DevicesAlone DEF vars
  <2>2. /\ FoundIsAPart' /\ io' \in {Closed, TheIo}
        /\ Dev!DeviceTypeOK' /\ Dev!ReadsAreExplained'
    BY <1>1 DEF IndInv, FoundIsAPart, found, vars, Dev!DeviceTypeOK, Dev!ReadsAreExplained
  <2> QED BY <2>1, <2>2 DEF IndInv
<1> QED BY <1>1, ReadIndInv, WriteIndInv, FlushIndInv, CreateIndInv, OpenIndInv, CloseIndInv,
           CrashIndInv DEF Next

(***************************************************************************)
(* IndInv holds throughout: what concat_find remembers is right, and the   *)
(* home of a block has what was promised for it.                           *)
(***************************************************************************)
THEOREM AggregateInvariant == Spec => []IndInv
BY InitIndInv, NextIndInv, PTL DEF Spec

(***************************************************************************)
(* However many slices and striped devices there are and however long they *)
(* are, every block has a place of its own on a device that has it, which  *)
(* is not the header, whatever concat_find found last.                     *)
(***************************************************************************)
THEOREM AggregateRoutesAreApart == Spec => []RoutesAreApart
<1>1. IndInv => RoutesAreApart
  <2> SUFFICES ASSUME IndInv PROVE RoutesAreApart
    OBVIOUS
  <2>1. \A b \in Blocks : Route(b) = Home(b)
    BY RouteIsHome DEF IndInv
  <2>2. ASSUME NEW b \in Blocks
        PROVE  /\ Route(b).dev \in Devs /\ Route(b).block \in BlocksOf(Route(b).dev)
               /\ Route(b) # HeaderAt
    <3>1. 0 \notin 1 .. Sizes[0] - 1 /\ HeaderAt.dev = 0 /\ HeaderAt.block = 0
      BY DEF HeaderAt
    <3> QED BY <3>1, <2>1, HomeIsThere
  <2>3. \A b, c \in Blocks : b # c => Route(b) # Route(c)
    BY <2>1, HomesAreApart
  <2> QED BY <2>2, <2>3 DEF RoutesAreApart
<1> QED BY <1>1, AggregateInvariant, PTL

(***************************************************************************)
(* Nothing but the header is ever written outside the slices, or behind    *)
(* the length of the shortest device of the stripe.                        *)
(***************************************************************************)
THEOREM AggregateOthersUntouched == Spec => []OthersUntouched
<1>1. IndInv => OthersUntouched
  <2> SUFFICES ASSUME IndInv, NEW d \in Devs, NEW i \in BlocksOf(d), now[d][i] # Plain(Zero)
               PROVE  \/ Used(d, i)
                      \/ d = 0 /\ i = 0 /\ now[d][i] = TheHeader
    BY DEF OthersUntouched, Used
  <2> QED BY DEF IndInv, OthersAreOld
<1> QED BY <1>1, AggregateInvariant, PTL

-----------------------------------------------------------------------------
(***************************************************************************)
(* The stack is a block device: each call is a step of one.                *)
(***************************************************************************)

(* A layer without a cache writes nothing else back. *)
LEMMA NothingSettled ==
    ASSUME durable \in [Blocks -> SUBSET Contents]
    PROVE  Dev!Settled({}) = durable
BY DEF Dev!Settled

LEMMA ReadRefines ==
    ASSUME IndInv, NEW b \in Blocks, ReadBlock(b)
    PROVE  Dev!DeviceNext
<1> DEFINE v == Coded(Home(b), now[Home(b).dev][Home(b).block], TheIo)
<1>1. v \in may[b] /\ v \in Contents
  BY DEF IndInv, HomesKeepThePromise, Dev!DeviceTypeOK
<1>2. reply' \in {[at |-> b, val |-> v], NoReply}
  BY RouteIsHome DEF IndInv, ReadBlock
<1>3. Dev!Settled({}) = durable
  BY NothingSettled DEF IndInv, Dev!DeviceTypeOK
<1>4. may' = may /\ durable' = durable
  BY DEF ReadBlock
<1> HIDE DEF v
<1>5. Dev!ReadOk(b, v, {}) \/ Dev!Quiet({})
  BY <1>1, <1>2, <1>3, <1>4 DEF Dev!ReadOk, Dev!Quiet
<1> QED BY <1>1, <1>5 DEF Dev!DeviceNext

LEMMA WriteRefines ==
    ASSUME IndInv, NEW b \in Blocks, NEW v \in Written, WriteBlock(b, v)
    PROVE  Dev!DeviceNext
<1>1. v \in Contents
  BY PlainCells
<1>2. Dev!Settled({}) = durable
  BY NothingSettled DEF IndInv, Dev!DeviceTypeOK
<1>3. /\ durable' = [durable EXCEPT ![b] = durable[b] \cup {v}]
      /\ may' \in {[may EXCEPT ![b] = {v}], [may EXCEPT ![b] = @ \cup {v}]}
      /\ reply' = NoReply
  BY DEF WriteBlock
<1>4. Dev!WriteOk(b, v, {}) \/ Dev!WriteFail(b, v, {})
  <2>1. CASE may' = [may EXCEPT ![b] = {v}]
    BY <2>1, <1>2, <1>3 DEF Dev!WriteOk
  <2>2. CASE may' = [may EXCEPT ![b] = @ \cup {v}]
    BY <2>2, <1>2, <1>3 DEF Dev!WriteFail
  <2> QED BY <2>1, <2>2, <1>3
<1> QED BY <1>1, <1>4 DEF Dev!DeviceNext

(* Every step is a step of a block device, or leaves the promise alone. *)
LEMMA NextRefines ==
    ASSUME IndInv, [Next]_vars
    PROVE  [Dev!DeviceNext]_(Dev!devvars)
<1>0. /\ may \in [Blocks -> SUBSET Contents] /\ durable \in [Blocks -> SUBSET Contents]
  BY DEF IndInv, Dev!DeviceTypeOK
<1>1. ASSUME NEW b \in Blocks, ReadBlock(b) PROVE Dev!DeviceNext
  BY <1>1, ReadRefines
<1>2. ASSUME NEW b \in Blocks, NEW v \in Written, WriteBlock(b, v) PROVE Dev!DeviceNext
  BY <1>2, WriteRefines
<1>3. CASE FlushSyncOrClearCaches
  <2>1. Dev!Settled(Blocks) = may
    BY <1>0 DEF Dev!Settled
  <2>2. Dev!Quiet(Blocks)
    BY <2>1, <1>3 DEF FlushSyncOrClearCaches, Dev!Quiet
  <2> QED BY <2>2 DEF Dev!DeviceNext
<1>4. CASE EncryptCreate \/ \E key \in Keys : Open(key)
  BY <1>4 DEF EncryptCreate, Open, Dev!devvars
<1>5. CASE CloseAll
  <2>1. Dev!Quiet({})
    BY <1>0, <1>5, NothingSettled DEF CloseAll, Dev!Quiet
  <2> QED BY <2>1 DEF Dev!DeviceNext
<1>6. CASE Crash
  BY <1>6 DEF Crash, Dev!Restart, Dev!DeviceNext
<1>7. CASE UNCHANGED vars
  BY <1>7 DEF vars, Dev!devvars
<1> QED BY <1>1, <1>2, <1>3, <1>4, <1>5, <1>6, <1>7 DEF Next

(* A stack that was just opened reads as one value for each block. *)
LEMMA InitRefines == Init => Dev!DeviceInit
<1> SUFFICES ASSUME Init PROVE Dev!DeviceInit
  OBVIOUS
<1> DEFINE c == [b \in Blocks |-> Coded(Route(b), Plain(Zero), TheIo)]
<1>1. \A b \in Blocks : Route(b) = Home(b)
  BY InitIndInv, RouteIsHome DEF IndInv
<1>2. c \in [Blocks -> Contents]
  BY <1>1, PlainCells
<1>3. may = [b \in Blocks |-> {c[b]}]
  BY DEF Init
<1> HIDE DEF c
<1> QED BY <1>2, <1>3 DEF Init, Dev!DeviceInit

(***************************************************************************)
(* Over devices that are block devices, an encrypted device cut into       *)
(* slices and joined with a stripe is a block device too: for any layout,  *)
(* whatever keys are tried, and with the header lost in a crash or not.    *)
(***************************************************************************)
THEOREM AggregateImplementsBlockDevice == Spec => ImplementsBlockDevice
<1>1. IndInv /\ [Next]_vars => [Dev!DeviceNext]_(Dev!devvars)
  BY NextRefines
<1> QED BY <1>1, InitRefines, AggregateInvariant, PTL
        DEF Spec, ImplementsBlockDevice, Dev!DeviceSpec
=============================================================================
