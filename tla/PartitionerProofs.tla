--------------------------- MODULE PartitionerProofs ---------------------------
(***************************************************************************)
(* Proofs about the partitioner, for every geometry of the device, every   *)
(* number of partitions and every place where a call fails or the process  *)
(* dies.                                                                   *)
(***************************************************************************)
EXTENDS Partitioner, WellFoundedInduction, TLAPS

-----------------------------------------------------------------------------
(* Arithmetic of the layout. *)

LEMMA DivMod ==
    ASSUME NEW x \in Nat, NEW m \in Nat \ {0}
    PROVE  x \div m \in Nat /\ x % m \in 0 .. m-1 /\ x = m * (x \div m) + (x % m)
OBVIOUS

LEMMA FactorLess ==
    ASSUME NEW a \in Nat, NEW b \in Nat, NEW m \in Nat \ {0}, m * a < m * b
    PROVE  a < b
<1>1. ASSUME b <= a PROVE FALSE
  <2>1. PICK k \in Nat : a = b + k
    <3>1. a - b \in Nat /\ a = b + (a - b)
      BY <1>1
    <3> QED BY <3>1
  <2>2. m * a = m * b + m * k /\ m * k \in Nat /\ m * b \in Nat
    BY <2>1
  <2> QED BY <2>2
<1> QED BY <1>1

(* A number is found again from its quotient and its remainder. *)
LEMMA SameDivMod ==
    ASSUME NEW x \in Nat, NEW y \in Nat, NEW m \in Nat \ {0},
           x \div m = y \div m, x % m = y % m
    PROVE  x = y
BY DivMod

(* What it means to round up. *)
LEMMA CeilIs ==
    ASSUME NEW a \in Nat, NEW m \in Nat \ {0}
    PROVE  Ceil(a, m) \in Nat /\ a <= m * Ceil(a, m) /\ m * Ceil(a, m) < a + m
<1> DEFINE y == a + m - 1
           q == y \div m
           r == y % m
           mq == m * q
<1>1. y \in Nat /\ Ceil(a, m) = q
  BY DEF Ceil
<1>2. q \in Nat /\ r \in 0 .. m-1 /\ y = m * q + r
  BY <1>1, DivMod
<1>3. mq \in Nat /\ y = mq + r
  BY <1>2
<1>4. a <= mq /\ mq < a + m
  <2>1. y = a + m - 1
    OBVIOUS
  <2> HIDE DEF mq, r, q, y
  <2> QED BY <1>2, <1>3, <2>1
<1> HIDE DEF q
<1> QED BY <1>1, <1>2, <1>4

LEMMA CeilAbove ==
    ASSUME NEW x \in Nat, NEW a \in Nat, x < a, NEW m \in Nat \ {0}
    PROVE  x \div m < Ceil(a, m)
<1> DEFINE q == x \div m
           r == x % m
           c == Ceil(a, m)
<1>1. q \in Nat /\ r \in 0 .. m-1 /\ x = m * q + r
  BY DivMod
<1>2. c \in Nat /\ a <= m * c
  BY CeilIs
<1> HIDE DEF q, r, c
<1>3. m * q \in Nat /\ m * c \in Nat
  BY <1>1, <1>2
<1>4. m * q < m * c
  BY <1>1, <1>2, <1>3
<1>5. q < c
  BY <1>1, <1>2, <1>4, FactorLess
<1> QED BY <1>5 DEF q, c

LEMMA CeilGrows ==
    ASSUME NEW a \in Nat, NEW b \in Nat, a <= b, NEW m \in Nat \ {0}
    PROVE  Ceil(a, m) <= Ceil(b, m)
<1> DEFINE c == Ceil(a, m)
           d == Ceil(b, m)
<1>1. c \in Nat /\ d \in Nat /\ m * c < a + m /\ b <= m * d
  BY CeilIs
<1> HIDE DEF c, d
<1>2. m * c \in Nat /\ m * d \in Nat /\ m * (d + 1) = m * d + m
  BY <1>1
<1>3. m * c < m * (d + 1) /\ d + 1 \in Nat
  BY <1>1, <1>2
<1>4. c < d + 1
  BY <1>1, <1>3, FactorLess
<1>5. c <= d
  BY <1>1, <1>4
<1> QED BY <1>5 DEF c, d

LEMMA CeilOfSum ==
    ASSUME NEW a \in Nat, NEW b \in Nat, NEW m \in Nat \ {0}
    PROVE  Ceil(a + b, m) <= Ceil(a, m) + Ceil(b, m)
<1> DEFINE c == Ceil(a, m)
           d == Ceil(b, m)
           s == Ceil(a + b, m)
<1>1. c \in Nat /\ d \in Nat /\ s \in Nat
  <2>1. a + b \in Nat
    OBVIOUS
  <2> QED BY CeilIs, <2>1
<1>2. a <= m * c /\ b <= m * d /\ m * s < a + b + m
  <2>1. a + b \in Nat
    OBVIOUS
  <2> QED BY CeilIs, <2>1
<1> HIDE DEF c, d, s
<1>3. /\ m * c \in Nat /\ m * d \in Nat /\ m * s \in Nat
      /\ m * (c + d + 1) = m * c + m * d + m
  BY <1>1
<1>4. m * s < m * (c + d + 1) /\ c + d + 1 \in Nat
  BY <1>1, <1>2, <1>3
<1>5. s < c + d + 1
  BY <1>1, <1>4, FactorLess
<1>6. s <= c + d
  BY <1>1, <1>5
<1> QED BY <1>6 DEF c, d, s

LEMMA DivBelowCeil ==
    ASSUME NEW a \in Nat, NEW m \in Nat \ {0}
    PROVE  a \div m <= Ceil(a, m)
<1> DEFINE q == a \div m
           r == a % m
           c == Ceil(a, m)
<1>1. q \in Nat /\ r \in 0 .. m-1 /\ a = m * q + r
  BY DivMod
<1>2. c \in Nat /\ a <= m * c
  BY CeilIs
<1> HIDE DEF q, r, c
<1>3. m * q \in Nat /\ m * c \in Nat /\ m * (c + 1) = m * c + m
  BY <1>1, <1>2
<1>4. m * q < m * (c + 1) /\ c + 1 \in Nat
  BY <1>1, <1>2, <1>3
<1>5. q < c + 1
  BY <1>1, <1>4, FactorLess
<1>6. q <= c
  BY <1>1, <1>2, <1>5
<1> QED BY <1>6 DEF q, c

LEMMA CeilOfZero == ASSUME NEW m \in Nat \ {0} PROVE Ceil(0, m) = 0
<1> DEFINE c == Ceil(0, m)
<1>1. c \in Nat /\ m * c < m
  BY CeilIs
<1> HIDE DEF c
<1>2. m * c < m * 1
  BY <1>1
<1>3. c < 1
  BY <1>1, <1>2, FactorLess
<1> QED BY <1>1, <1>3 DEF c

LEMMA Constants ==
    /\ N \in Nat \ {0} /\ Bits \in Nat \ {0} /\ Maps \in Nat \ {0} /\ PartCount \in Nat \ {0}
    /\ MaxSize \in Nat /\ MaxTotal \in Nat
BY GeometryAssumption

(* Where things are. *)
LEMMA Regions ==
    /\ bitmap_len \in Nat \ {0} /\ MAPS_START = 1 + bitmap_len
    /\ \A t \in Nat : DATA_START(t) \in Nat /\ MAPS_START <= DATA_START(t)
    /\ \A t, u \in Nat : t <= u => DATA_START(t) <= DATA_START(u)
    /\ DATA_START(MaxTotal) < N
    /\ DATA_START(0) = MAPS_START
<1>1. bitmap_len \in Nat
  BY Constants, CeilIs DEF bitmap_len
<1>2. bitmap_len # 0
  <2>1. 0 \div Bits < bitmap_len
    BY Constants, CeilAbove DEF bitmap_len
  <2>2. 0 \div Bits \in Nat
    BY Constants, DivMod
  <2> QED BY <2>1, <2>2
<1>3. MAPS_START = 1 + bitmap_len
  BY DEF MAPS_START, BITMAP_START
<1>4. ASSUME NEW t \in Nat PROVE DATA_START(t) \in Nat /\ MAPS_START <= DATA_START(t)
  <2>1. Ceil(t, Maps) \in Nat
    BY Constants, CeilIs
  <2> QED BY <1>1, <1>3, <2>1 DEF DATA_START
<1>5. ASSUME NEW t \in Nat, NEW u \in Nat, t <= u PROVE DATA_START(t) <= DATA_START(u)
  <2>1. Ceil(t, Maps) \in Nat /\ Ceil(u, Maps) \in Nat
    BY Constants, CeilIs
  <2>2. Ceil(t, Maps) <= Ceil(u, Maps)
    BY <1>5, Constants, CeilGrows
  <2> QED BY <2>1, <2>2, <1>1, <1>3 DEF DATA_START
<1>6. DATA_START(0) = MAPS_START
  BY <1>1, <1>3, Constants, CeilOfZero DEF DATA_START
<1> QED BY <1>1, <1>2, <1>3, <1>4, <1>5, <1>6, GeometryAssumption

LEMMA BitmapAddresses ==
    ASSUME NEW b \in Addresses
    PROVE  /\ BitmapAddress(b) \in 1 .. MAPS_START - 1 /\ BitmapAddress(b) \in Addresses
           /\ b % Bits \in 0 .. Bits - 1
<1>1. b \in Nat /\ b < N
  BY Constants DEF Addresses
<1>2. b \div Bits \in Nat /\ b \div Bits < bitmap_len /\ b % Bits \in 0 .. Bits - 1
  BY <1>1, Constants, CeilAbove, DivMod DEF bitmap_len
<1>3. /\ bitmap_len \in Nat /\ MAPS_START = 1 + bitmap_len
      /\ MAPS_START <= DATA_START(MaxTotal) /\ DATA_START(MaxTotal) < N /\ DATA_START(MaxTotal) \in Nat
  BY Regions, Constants
<1>4. BitmapAddress(b) = b \div Bits + 1
  BY DEF BitmapAddress, BITMAP_START
<1> QED BY <1>2, <1>3, <1>4, Constants DEF Addresses

LEMMA MapAddresses ==
    ASSUME NEW t \in 0 .. MaxTotal, NEW e \in 0 .. t - 1
    PROVE  /\ MapAddress(e) \in MAPS_START .. DATA_START(t) - 1 /\ MapAddress(e) \in Addresses
           /\ e % Maps \in 0 .. Maps - 1
<1>1. e \in Nat /\ t \in Nat /\ e < t /\ t <= MaxTotal /\ MaxTotal \in Nat
  BY Constants
<1>2. e \div Maps \in Nat /\ e \div Maps < Ceil(t, Maps) /\ e % Maps \in 0 .. Maps - 1
  BY <1>1, Constants, CeilAbove, DivMod
<1>3. Ceil(t, Maps) \in Nat
  BY <1>1, Constants, CeilIs
<1>4. /\ MAPS_START \in Nat /\ DATA_START(t) = MAPS_START + Ceil(t, Maps)
      /\ DATA_START(t) <= DATA_START(MaxTotal) /\ DATA_START(MaxTotal) < N
      /\ DATA_START(MaxTotal) \in Nat
  BY <1>1, Regions DEF DATA_START
<1> QED BY <1>2, <1>3, <1>4, Constants DEF MapAddress, Addresses

-----------------------------------------------------------------------------
(* Types. *)

Contents == {0, 1} \cup UNION {Values[p] : p \in Parts}
Bitmaps == SUBSET (0 .. Bits - 1)
Locations == [0 .. Maps - 1 -> 0 .. N]
SizeTables == [Parts -> 0 .. MaxSize]

Images ==
         [is : {"header"}, of : SizeTables]
    \cup [is : {"bits"}, of : Bitmaps]
    \cup [is : {"locs"}, of : Locations]
    \cup [is : {"data"}, of : Contents]

Disks == [Addresses -> Images]

Handles ==
    [part : Parts \cup {-1}, count : Nat, offset : Nat, total : 0 .. MaxTotal,
     free_scan_from : Addresses,
     bitmap_block : Bitmaps, bitmap_block_which : 0 .. MAPS_START - 1,
     map_block : Locations, map_block_which : {0} \cup MAPS_START .. N - 1]

(* What the calls that go on leave behind. *)
Notes == {"ignored", "full", "in the way"}

Machines ==
    [disk : Disks, io : Handles, left : Int, how : Ways, junk : Nat, ok : BOOLEAN,
     notes : SUBSET Notes]

(* What a handle has in its buffers is what is on the disk. *)
Buffered(io0, d) ==
    /\ io0.bitmap_block_which # 0 => io0.bitmap_block = BitsOf(d[io0.bitmap_block_which])
    /\ io0.map_block_which # 0 => io0.map_block = LocsOf(d[io0.map_block_which])

Goods == {m \in Machines : Buffered(m.io, m.disk)}

(* What n, reached from m by calls of the device, has in common with m. *)
Follows(n, m) ==
    /\ n.notes = m.notes /\ n.how = m.how /\ (n.ok => m.ok) /\ (~m.ok => n = m)
    /\ n.io.part = m.io.part /\ n.io.count = m.io.count
    /\ n.io.offset = m.io.offset /\ n.io.total = m.io.total

LEMMA Blank == 0 \in Contents /\ Data(0) \in Images
BY DEF Contents, Data, Images

LEMMA ImageViews ==
    ASSUME NEW c \in Images
    PROVE  BitsOf(c) \in Bitmaps /\ LocsOf(c) \in Locations /\ SizesOf(c) \in SizeTables
<1>1. BitsOf(c) \in Bitmaps
  <2>1. 0 .. Bits - 1 \in Bitmaps /\ {} \in Bitmaps
    BY DEF Bitmaps
  <2>2. c.is = "bits" => c.of \in Bitmaps
    BY DEF Images
  <2> QED BY <2>1, <2>2 DEF BitsOf
<1>2. LocsOf(c) \in Locations
  <2>1. 0 \in 0 .. N /\ N \in 0 .. N
    BY Constants
  <2>2. c.is = "locs" => c.of \in Locations
    BY DEF Images
  <2> QED BY <2>1, <2>2 DEF LocsOf, Locations
<1>3. SizesOf(c) \in SizeTables
  <2>1. c.is = "header" => c.of \in SizeTables
    BY DEF Images
  <2>2. 0 \in 0 .. MaxSize
    BY Constants
  <2> QED BY <2>1, <2>2 DEF SizesOf, IsHeader, SizeTables
<1> QED BY <1>1, <1>2, <1>3

LEMMA BitmapImage ==
    ASSUME NEW b \in Bitmaps
    PROVE  Bitmap(b) \in Images /\ BitsOf(Bitmap(b)) = b /\ ~IsHeader(Bitmap(b))
BY DEF Bitmap, Images, BitsOf, IsHeader

LEMMA MapImage ==
    ASSUME NEW l \in Locations
    PROVE  MapBlock(l) \in Images /\ LocsOf(MapBlock(l)) = l /\ ~IsHeader(MapBlock(l))
<1>1. MapBlock(l).is = "locs" /\ MapBlock(l).of = l /\ MapBlock(l) \in Images
  BY DEF MapBlock, Images
<1>2. LocsOf(MapBlock(l)) = [e \in 0 .. Maps - 1 |-> l[e]]
  BY <1>1 DEF LocsOf
<1> QED BY <1>1, <1>2 DEF Locations, IsHeader

LEMMA HeaderImage ==
    ASSUME NEW s \in SizeTables
    PROVE  Header(s) \in Images /\ SizesOf(Header(s)) = s /\ IsHeader(Header(s))
<1>1. Header(s).is = "header" /\ Header(s).of = s /\ Header(s) \in Images
  BY DEF Header, Images
<1>2. SizesOf(Header(s)) = [p \in Parts |-> s[p]]
  BY <1>1 DEF SizesOf, IsHeader
<1> QED BY <1>1, <1>2 DEF SizeTables, IsHeader

LEMMA DataImage ==
    ASSUME NEW v \in Contents
    PROVE  Data(v) \in Images /\ DataOf(Data(v)) = v /\ ~IsHeader(Data(v))
BY DEF Data, Images, DataOf, IsHeader

-----------------------------------------------------------------------------
(* Calls of the device. *)

LEMMA LeftIsInt ==
    ASSUME NEW m \in Machines, NEW n \in Nat
    PROVE  AfterFault(m) \in Int /\ Spent(m, n) \in Int
<1>1. m.left \in Int
  BY DEF Machines
<1> QED BY <1>1 DEF AfterFault, Spent

LEMMA ReadsDo ==
    ASSUME NEW m \in Machines, NEW n \in Nat
    PROVE  LET r == BaseReads(m, n)
           IN  /\ r \in Machines /\ Follows(r, m)
               /\ r.disk = m.disk /\ r.io = m.io
<1> DEFINE r == BaseReads(m, n)
<1>1. CASE ~m.ok
  BY <1>1 DEF BaseReads, Then, Follows, Machines
<1>2. CASE m.ok /\ m.left \in 0 .. n - 1
  <2>1. r = [m EXCEPT !.ok = FALSE, !.left = AfterFault(m)]
    BY <1>2 DEF BaseReads, Then
  <2> HIDE DEF r
  <2>2. r \in Machines
    BY <2>1, LeftIsInt DEF Machines
  <2>3. r.notes = m.notes /\ r.how = m.how /\ r.disk = m.disk /\ r.io = m.io /\ r.ok = FALSE
    BY <2>1 DEF Machines
  <2>4. Follows(r, m)
    BY <1>2, <2>3 DEF Follows
  <2> QED BY <2>2, <2>3, <2>4 DEF r
<1>3. CASE m.ok /\ m.left \notin 0 .. n - 1
  <2>1. r = [m EXCEPT !.left = Spent(m, n)]
    BY <1>3 DEF BaseReads, Then
  <2> HIDE DEF r
  <2>2. r \in Machines
    BY <2>1, LeftIsInt DEF Machines
  <2>3. Follows(r, m) /\ r.disk = m.disk /\ r.io = m.io
    BY <1>3, <2>1 DEF Follows, Machines
  <2> QED BY <2>2, <2>3 DEF r
<1> QED BY <1>1, <1>2, <1>3

LEMMA ReadDoes ==
    ASSUME NEW m \in Machines
    PROVE  /\ BaseRead(m) \in Machines /\ Follows(BaseRead(m), m)
           /\ BaseRead(m).disk = m.disk /\ BaseRead(m).io = m.io
BY ReadsDo DEF BaseRead

LEMMA WriteDoes ==
    ASSUME NEW m \in Machines, NEW at \in Addresses, NEW c \in Images
    PROVE  LET r == BaseWrite(m, at, c)
               written == [m.disk EXCEPT ![at] = c]
           IN  /\ r \in Machines /\ Follows(r, m) /\ r.io = m.io
               /\ written \in Disks
               /\ r.disk \in {m.disk, written}
               /\ r.ok => r.disk = written
<1> DEFINE written == [m.disk EXCEPT ![at] = c]
           r == BaseWrite(m, at, c)
<1>1. written \in Disks /\ m.disk \in Disks
  BY DEF Disks, Machines
<1>2. CASE ~m.ok
  BY <1>1, <1>2 DEF BaseWrite, Then, Follows, Machines
<1>3. CASE m.ok /\ Fails(m)
  <2>1. r = [m EXCEPT !.ok = FALSE, !.left = AfterFault(m),
                      !.disk = IF m.how = "lands" THEN written ELSE m.disk]
    BY <1>3 DEF BaseWrite, Then
  <2> HIDE DEF written, r
  <2>2. r \in Machines
    BY <1>1, <2>1, LeftIsInt DEF Machines
  <2>3. /\ r.notes = m.notes /\ r.how = m.how /\ r.io = m.io
        /\ r.disk \in {m.disk, written} /\ r.ok = FALSE
    BY <2>1 DEF Machines
  <2>4. Follows(r, m)
    BY <1>3, <2>3 DEF Follows
  <2> QED BY <1>1, <2>2, <2>3, <2>4 DEF r, written
<1>4. CASE m.ok /\ ~Fails(m)
  <2>1. r = [m EXCEPT !.left = Spent(m, 1), !.disk = written]
    BY <1>4 DEF BaseWrite, Then
  <2> HIDE DEF written, r
  <2>2. r \in Machines
    BY <1>1, <2>1, LeftIsInt DEF Machines
  <2>3. r.notes = m.notes /\ r.how = m.how /\ r.io = m.io /\ r.disk = written
    BY <2>1 DEF Machines
  <2>4. Follows(r, m)
    BY <1>4, <2>3 DEF Follows
  <2> QED BY <1>1, <2>2, <2>3, <2>4 DEF r, written
<1>5. m.ok \in BOOLEAN
  BY DEF Machines
<1> QED BY <1>2, <1>3, <1>4, <1>5

(* The disk with one bit of the bitmap, or one entry of the map, changed. *)
Marked(d, b, used) ==
    [d EXCEPT ![BitmapAddress(b)] =
        Bitmap(IF used THEN BitsOf(d[BitmapAddress(b)]) \cup {b % Bits}
               ELSE BitsOf(d[BitmapAddress(b)]) \ {b % Bits})]

Mapped(d, e, to) ==
    [d EXCEPT ![MapAddress(e)] = MapBlock([LocsOf(d[MapAddress(e)]) EXCEPT ![e % Maps] = to])]

LEMMA OpenBitmapDoes ==
    ASSUME NEW m \in Goods, NEW b \in Addresses
    PROVE  LET r == OpenBitmap(m, b)
           IN  /\ r \in Goods /\ Follows(r, m) /\ r.disk = m.disk
               /\ r.io.free_scan_from = m.io.free_scan_from
               /\ r.io.map_block_which = m.io.map_block_which
               /\ r.ok => /\ r.io.bitmap_block_which = BitmapAddress(b)
                          /\ r.io.bitmap_block = BitsOf(m.disk[BitmapAddress(b)])
<1> DEFINE at == BitmapAddress(b)
           o == OpenBitmap(m, b)
<1>0. m \in Machines /\ m.io \in Handles /\ m.disk \in Disks /\ Buffered(m.io, m.disk)
  BY DEF Goods, Machines
<1>1. /\ at \in 1 .. MAPS_START - 1 /\ at \in Addresses /\ BitsOf(m.disk[at]) \in Bitmaps
      /\ MAPS_START \in Nat
  BY <1>0, BitmapAddresses, ImageViews, Regions DEF Disks
<1>2. CASE ~m.ok
  BY <1>2 DEF OpenBitmap, Then, Follows
<1>3. CASE m.ok /\ m.io.bitmap_block_which = at
  <2>1. o = m
    BY <1>3 DEF OpenBitmap, Then
  <2>2. m.io.bitmap_block = BitsOf(m.disk[at])
    BY <1>0, <1>1, <1>3 DEF Buffered
  <2> QED BY <1>3, <2>1, <2>2 DEF Follows
<1>4. CASE m.ok /\ m.io.bitmap_block_which # at
  <2> DEFINE r == BaseRead(m)
             which == IF r.ok THEN at ELSE 0
             block == IF r.ok THEN BitsOf(m.disk[at]) ELSE m.io.bitmap_block
             i == [m.io EXCEPT !.bitmap_block_which = which, !.bitmap_block = block]
  <2>1. o = [r EXCEPT !.io = i]
    BY <1>4 DEF OpenBitmap, Then
  <2>2. /\ r \in Machines /\ Follows(r, m) /\ r.disk = m.disk /\ r.io = m.io
    BY <1>0, ReadDoes
  <2>3. which \in 0 .. MAPS_START - 1 /\ block \in Bitmaps
    <3>1. m.io.bitmap_block \in Bitmaps
      BY <1>0 DEF Handles
    <3> QED BY <1>1, <3>1
  <2> HIDE DEF o, r, at
  <2>4. i \in Handles /\ i.free_scan_from = m.io.free_scan_from
        /\ i.part = m.io.part /\ i.count = m.io.count /\ i.offset = m.io.offset /\ i.total = m.io.total
        /\ i.map_block_which = m.io.map_block_which /\ i.map_block = m.io.map_block
        /\ i.bitmap_block_which = which /\ i.bitmap_block = block
    <3> HIDE DEF which, block
    <3> QED BY <1>0, <2>3 DEF Handles
  <2> HIDE DEF i
  <2>5. /\ o \in Machines /\ o.io = i /\ o.disk = m.disk /\ o.notes = r.notes /\ o.how = r.how
        /\ o.ok = r.ok
    BY <2>1, <2>2, <2>4 DEF Machines
  <2>6. Follows(o, m)
    BY <1>4, <2>2, <2>4, <2>5 DEF Follows
  <2>7. Buffered(i, m.disk)
    BY <1>0, <2>4 DEF Buffered
  <2>8. o.ok => i.bitmap_block_which = at /\ i.bitmap_block = BitsOf(m.disk[at])
    BY <2>4, <2>5
  <2> QED BY <2>4, <2>5, <2>6, <2>7, <2>8 DEF Goods, o, at
<1>5. m.ok \in BOOLEAN
  BY <1>0 DEF Machines
<1> QED BY <1>2, <1>3, <1>4, <1>5

LEMMA MarkedIs ==
    ASSUME NEW d \in Disks, NEW b \in Addresses, NEW used \in BOOLEAN
    PROVE  /\ Marked(d, b, used) \in Disks
           /\ \A x \in Addresses \ {BitmapAddress(b)} : Marked(d, b, used)[x] = d[x]
           /\ ~IsHeader(Marked(d, b, used)[BitmapAddress(b)])
           /\ \A x \in Addresses : Used(Marked(d, b, used), x) <=> IF x = b THEN used ELSE Used(d, x)
<1> DEFINE at == BitmapAddress(b)
           old == BitsOf(d[at])
           bits == IF used THEN old \cup {b % Bits} ELSE old \ {b % Bits}
           n == Marked(d, b, used)
<1>1. at \in Addresses /\ b % Bits \in 0 .. Bits - 1 /\ d[at] \in Images
  BY BitmapAddresses DEF Disks
<1>2. old \in Bitmaps /\ bits \in Bitmaps
  BY <1>1, ImageViews DEF Bitmaps
<1>3. /\ Bitmap(bits) \in Images /\ BitsOf(Bitmap(bits)) = bits /\ ~IsHeader(Bitmap(bits))
  BY <1>2, BitmapImage
<1>4. n = [d EXCEPT ![at] = Bitmap(bits)]
  BY DEF Marked
<1>5. /\ n \in Disks /\ n[at] = Bitmap(bits) /\ \A x \in Addresses \ {at} : n[x] = d[x]
  <2> HIDE DEF n, bits, at
  <2> QED BY <1>1, <1>3, <1>4 DEF Disks
<1>6. ASSUME NEW x \in Addresses PROVE Used(n, x) <=> IF x = b THEN used ELSE Used(d, x)
  <2> DEFINE ax == BitmapAddress(x)
  <2>1. ax \in Addresses /\ Used(n, x) = (x % Bits \in BitsOf(n[ax])) /\ Used(d, x) = (x % Bits \in BitsOf(d[ax]))
    BY BitmapAddresses DEF Used
  <2>2. CASE ax # at
    BY <1>5, <2>1, <2>2
  <2>3. CASE ax = at
    <3>1. x \in Nat /\ b \in Nat /\ x \div Bits \in Nat /\ b \div Bits \in Nat
      BY Constants, DivMod DEF Addresses
    <3>2. x \div Bits = b \div Bits
      BY <2>3, <3>1 DEF BitmapAddress, BITMAP_START
    <3>3. x % Bits = b % Bits => x = b
      BY <3>1, <3>2, Constants, SameDivMod
    <3>4. BitsOf(n[ax]) = bits
      BY <1>3, <1>5, <2>3
    <3> HIDE DEF n, ax
    <3> QED BY <2>1, <2>3, <3>3, <3>4
  <2> QED BY <2>2, <2>3
<1> QED BY <1>3, <1>5, <1>6

LEMMA MarkDoes ==
    ASSUME NEW m \in Goods, NEW b \in Addresses, NEW used \in BOOLEAN
    PROVE  LET r == MarkAs(m, b, used)
           IN  /\ r \in Goods /\ Follows(r, m)
               /\ r.io.free_scan_from = m.io.free_scan_from
               /\ r.io.map_block_which = m.io.map_block_which
               /\ r.disk \in {m.disk, Marked(m.disk, b, used)}
               /\ r.ok => r.disk = Marked(m.disk, b, used)
<1> DEFINE at == BitmapAddress(b)
           o == OpenBitmap(m, b)
           r == MarkAs(m, b, used)
<1>1. /\ o \in Goods /\ Follows(o, m) /\ o.disk = m.disk
      /\ o.io.free_scan_from = m.io.free_scan_from
      /\ o.io.map_block_which = m.io.map_block_which
      /\ o.ok => o.io.bitmap_block_which = at /\ o.io.bitmap_block = BitsOf(m.disk[at])
  BY OpenBitmapDoes
<1>2. /\ o \in Machines /\ o.io \in Handles /\ o.disk \in Disks /\ Buffered(o.io, o.disk)
      /\ o.ok \in BOOLEAN
  BY <1>1 DEF Goods, Machines
<1>3. at \in 1 .. MAPS_START - 1 /\ at \in Addresses /\ b % Bits \in 0 .. Bits - 1 /\ MAPS_START \in Nat
  BY BitmapAddresses, Regions
<1>4. CASE ~o.ok
  <2>1. r = o
    BY <1>4 DEF MarkAs, Then
  <2> QED BY <1>1, <1>4, <2>1
<1>5. CASE o.ok
  <2> DEFINE bits == IF used THEN o.io.bitmap_block \cup {b % Bits} ELSE o.io.bitmap_block \ {b % Bits}
             w == BaseWrite(o, at, Bitmap(bits))
             which == IF w.ok THEN at ELSE 0
             i == [o.io EXCEPT !.bitmap_block_which = which, !.bitmap_block = bits]
             new == [o.disk EXCEPT ![at] = Bitmap(bits)]
  <2>1. r = [w EXCEPT !.io = i]
    BY <1>5 DEF MarkAs, Then
  <2>2. bits \in Bitmaps
    BY <1>2, <1>3 DEF Handles, Bitmaps
  <2>3. Bitmap(bits) \in Images /\ BitsOf(Bitmap(bits)) = bits
    BY <2>2, BitmapImage
  <2>4. new = Marked(m.disk, b, used)
    BY <1>1, <1>5 DEF Marked
  <2> HIDE DEF o, at, bits, r
  <2>5. /\ w \in Machines /\ Follows(w, o) /\ w.io = o.io /\ w.disk \in {o.disk, new} /\ (w.ok => w.disk = new)
        /\ new \in Disks /\ w.disk \in Disks
    BY <1>2, <1>3, <2>3, WriteDoes
  <2>6. which \in 0 .. MAPS_START - 1
    BY <1>3
  <2> HIDE DEF w, which
  <2>7. i \in Handles /\ i.free_scan_from = o.io.free_scan_from
        /\ i.part = o.io.part /\ i.count = o.io.count /\ i.offset = o.io.offset /\ i.total = o.io.total
        /\ i.map_block_which = o.io.map_block_which /\ i.map_block = o.io.map_block
        /\ i.bitmap_block_which = which /\ i.bitmap_block = bits
    BY <1>2, <2>2, <2>6 DEF Handles
  <2> HIDE DEF i
  <2>8. /\ r \in Machines /\ r.io = i /\ r.disk = w.disk /\ r.notes = w.notes /\ r.how = w.how
        /\ r.ok = w.ok
    BY <2>1, <2>5, <2>7 DEF Machines
  <2>9. Follows(r, m)
    BY <1>1, <1>5, <2>5, <2>7, <2>8 DEF Follows
  <2>10. Buffered(i, w.disk)
    <3>1. which # 0 => w.ok /\ which = at
      BY DEF which
    <3>2. which # 0 => w.disk[which] = Bitmap(bits)
      BY <1>2, <1>3, <2>5, <3>1 DEF Disks
    <3>3. i.map_block_which # 0 => w.disk[i.map_block_which] = o.disk[i.map_block_which]
      <4>1. i.map_block_which # 0 => i.map_block_which # at /\ i.map_block_which \in Addresses
        BY <1>2, <1>3, <2>7, Constants DEF Handles, Addresses
      <4> QED BY <4>1, <1>2, <2>5 DEF Disks
    <3> QED BY <1>2, <2>3, <2>7, <3>2, <3>3 DEF Buffered
  <2> QED BY <1>1, <2>4, <2>5, <2>7, <2>8, <2>9, <2>10 DEF Goods, o, r
<1> QED BY <1>2, <1>4, <1>5

(* The entries that the device has a block for. *)
Places == {e \in Nat : MapAddress(e) < N}

LEMMA PlaceOf ==
    ASSUME NEW e \in Places
    PROVE  /\ MapAddress(e) \in MAPS_START .. N - 1 /\ MapAddress(e) \in Addresses
           /\ e % Maps \in 0 .. Maps - 1 /\ e \in Nat /\ e \div Maps \in Nat
<1>1. e \in Nat /\ MapAddress(e) < N
  BY DEF Places
<1>2. e \div Maps \in Nat /\ e % Maps \in 0 .. Maps - 1
  BY <1>1, Constants, DivMod
<1>3. MAPS_START \in Nat
  BY Regions
<1> QED BY <1>1, <1>2, <1>3, Constants DEF MapAddress, Addresses

LEMMA OpenMapDoes ==
    ASSUME NEW m \in Goods, NEW e \in Places
    PROVE  LET r == OpenMap(m, e)
           IN  /\ r \in Goods /\ Follows(r, m) /\ r.disk = m.disk
               /\ r.io.free_scan_from = m.io.free_scan_from
               /\ r.io.map_block_which \in {0, MapAddress(e), m.io.map_block_which}
               /\ r.ok => /\ r.io.map_block_which = MapAddress(e)
                          /\ r.io.map_block = LocsOf(m.disk[MapAddress(e)])
                          /\ MapLoc(r, e) = Entry(m.disk, e)
<1> DEFINE at == MapAddress(e)
           o == OpenMap(m, e)
<1>0. m \in Machines /\ m.io \in Handles /\ m.disk \in Disks /\ Buffered(m.io, m.disk)
  BY DEF Goods, Machines
<1>1. /\ at \in MAPS_START .. N - 1 /\ at \in Addresses /\ LocsOf(m.disk[at]) \in Locations
      /\ MAPS_START \in Nat \ {0}
  BY <1>0, PlaceOf, ImageViews, Regions DEF Disks
<1>2. CASE ~m.ok
  BY <1>2 DEF OpenMap, Then, Follows
<1>3. CASE m.ok /\ m.io.map_block_which = at
  <2>1. o = m
    BY <1>3 DEF OpenMap, Then
  <2>2. m.io.map_block = LocsOf(m.disk[at])
    BY <1>0, <1>1, <1>3 DEF Buffered
  <2>3. MapLoc(o, e) = Entry(m.disk, e)
    BY <2>1, <2>2 DEF MapLoc, Entry
  <2> QED BY <1>3, <2>1, <2>2, <2>3 DEF Follows
<1>4. CASE m.ok /\ m.io.map_block_which # at
  <2> DEFINE r == BaseRead(m)
             which == IF r.ok THEN at ELSE 0
             block == IF r.ok THEN LocsOf(m.disk[at]) ELSE m.io.map_block
             i == [m.io EXCEPT !.map_block_which = which, !.map_block = block]
  <2>1. o = [r EXCEPT !.io = i]
    BY <1>4 DEF OpenMap, Then
  <2>2. r \in Machines /\ Follows(r, m) /\ r.disk = m.disk /\ r.io = m.io
    BY <1>0, ReadDoes
  <2>3. which \in {0} \cup MAPS_START .. N - 1 /\ block \in Locations
    <3>1. m.io.map_block \in Locations
      BY <1>0 DEF Handles
    <3> QED BY <1>1, <3>1
  <2> HIDE DEF o, r, at
  <2>4. i \in Handles /\ i.free_scan_from = m.io.free_scan_from
        /\ i.part = m.io.part /\ i.count = m.io.count /\ i.offset = m.io.offset /\ i.total = m.io.total
        /\ i.bitmap_block_which = m.io.bitmap_block_which /\ i.bitmap_block = m.io.bitmap_block
        /\ i.map_block_which = which /\ i.map_block = block
    <3> HIDE DEF which, block
    <3> QED BY <1>0, <2>3 DEF Handles
  <2> HIDE DEF i
  <2>5. /\ o \in Machines /\ o.io = i /\ o.disk = m.disk /\ o.notes = r.notes /\ o.how = r.how
        /\ o.ok = r.ok
    BY <2>1, <2>2, <2>4 DEF Machines
  <2>6. Follows(o, m)
    BY <1>4, <2>2, <2>4, <2>5 DEF Follows
  <2>7. Buffered(i, m.disk)
    BY <1>0, <2>4 DEF Buffered
  <2>8. o.ok => i.map_block_which = at /\ i.map_block = LocsOf(m.disk[at])
    BY <2>4, <2>5
  <2>9. o.ok => MapLoc(o, e) = Entry(m.disk, e)
    BY <2>5, <2>8 DEF MapLoc, Entry, at
  <2>10. o.io.map_block_which \in {0, at, m.io.map_block_which}
    BY <2>4, <2>5
  <2> QED BY <2>4, <2>5, <2>6, <2>7, <2>8, <2>9, <2>10 DEF Goods, o, at
<1>5. m.ok \in BOOLEAN
  BY <1>0 DEF Machines
<1> QED BY <1>2, <1>3, <1>4, <1>5

LEMMA MappedIs ==
    ASSUME NEW d \in Disks, NEW e \in Places, NEW to \in 0 .. N
    PROVE  /\ Mapped(d, e, to) \in Disks
           /\ \A x \in Addresses \ {MapAddress(e)} : Mapped(d, e, to)[x] = d[x]
           /\ ~IsHeader(Mapped(d, e, to)[MapAddress(e)])
           /\ \A x \in Places : Entry(Mapped(d, e, to), x) = IF x = e THEN to ELSE Entry(d, x)
<1> DEFINE at == MapAddress(e)
           old == LocsOf(d[at])
           locs == [old EXCEPT ![e % Maps] = to]
           n == Mapped(d, e, to)
<1>1. at \in Addresses /\ e % Maps \in 0 .. Maps - 1 /\ d[at] \in Images
  BY PlaceOf DEF Disks
<1>2. old \in Locations
  BY <1>1, ImageViews
<1>3. locs \in Locations /\ locs[e % Maps] = to /\ \A k \in 0 .. Maps - 1 : k # e % Maps => locs[k] = old[k]
  <2> HIDE DEF old
  <2> QED BY <1>1, <1>2 DEF Locations
<1>4. MapBlock(locs) \in Images /\ LocsOf(MapBlock(locs)) = locs /\ ~IsHeader(MapBlock(locs))
  BY <1>3, MapImage
<1>5. n = [d EXCEPT ![at] = MapBlock(locs)]
  BY DEF Mapped
<1>6. n \in Disks /\ n[at] = MapBlock(locs) /\ \A x \in Addresses \ {at} : n[x] = d[x]
  <2> HIDE DEF n, locs, at
  <2> QED BY <1>1, <1>4, <1>5 DEF Disks
<1>7. ASSUME NEW x \in Places PROVE Entry(n, x) = IF x = e THEN to ELSE Entry(d, x)
  <2> DEFINE ax == MapAddress(x)
  <2>1. /\ ax \in Addresses /\ x % Maps \in 0 .. Maps - 1
        /\ Entry(n, x) = LocsOf(n[ax])[x % Maps] /\ Entry(d, x) = LocsOf(d[ax])[x % Maps]
    BY PlaceOf DEF Entry
  <2>2. CASE ax # at
    BY <1>6, <2>1, <2>2
  <2>3. CASE ax = at
    <3>1. x \in Nat /\ e \in Nat /\ x \div Maps \in Nat /\ e \div Maps \in Nat /\ MAPS_START \in Nat
      BY PlaceOf, Regions
    <3>2. x \div Maps = e \div Maps
      BY <2>3, <3>1 DEF MapAddress
    <3>3. x % Maps = e % Maps => x = e
      BY <3>1, <3>2, Constants, SameDivMod
    <3>4. LocsOf(n[ax]) = locs
      BY <1>4, <1>6, <2>3
    <3> HIDE DEF n, ax, locs
    <3> QED BY <1>3, <2>1, <2>3, <3>3, <3>4
  <2> QED BY <2>2, <2>3
<1> QED BY <1>4, <1>6, <1>7

LEMMA SetMapLocDoes ==
    ASSUME NEW m \in Goods, NEW e \in Places, NEW to \in 0 .. N
    PROVE  LET r == SetMapLoc(m, e, to)
           IN  /\ r \in Goods /\ Follows(r, m)
               /\ r.io.free_scan_from = m.io.free_scan_from
               /\ r.io.map_block_which \in {0, MapAddress(e), m.io.map_block_which}
               /\ r.disk \in {m.disk, Mapped(m.disk, e, to)}
               /\ r.ok => r.disk = Mapped(m.disk, e, to)
<1> DEFINE at == MapAddress(e)
           o == OpenMap(m, e)
           r == SetMapLoc(m, e, to)
<1>1. /\ o \in Goods /\ Follows(o, m) /\ o.disk = m.disk
      /\ o.io.free_scan_from = m.io.free_scan_from
      /\ o.io.map_block_which \in {0, at, m.io.map_block_which}
      /\ o.ok => o.io.map_block_which = at /\ o.io.map_block = LocsOf(m.disk[at])
  BY OpenMapDoes
<1>2. /\ o \in Machines /\ o.io \in Handles /\ o.disk \in Disks /\ Buffered(o.io, o.disk)
      /\ o.ok \in BOOLEAN
  BY <1>1 DEF Goods, Machines
<1>3. /\ at \in MAPS_START .. N - 1 /\ at \in Addresses /\ e % Maps \in 0 .. Maps - 1
      /\ MAPS_START \in Nat \ {0}
  BY PlaceOf, Regions
<1>4. CASE ~o.ok
  <2>1. r = o
    BY <1>4 DEF SetMapLoc, Then
  <2> QED BY <1>1, <1>4, <2>1
<1>5. CASE o.ok
  <2> DEFINE locs == [o.io.map_block EXCEPT ![e % Maps] = to]
             w == BaseWrite(o, at, MapBlock(locs))
             which == IF w.ok THEN at ELSE 0
             i == [o.io EXCEPT !.map_block_which = which, !.map_block = locs]
             new == [o.disk EXCEPT ![at] = MapBlock(locs)]
  <2>1. r = [w EXCEPT !.io = i]
    BY <1>5 DEF SetMapLoc, Then
  <2>2. locs \in Locations
    <3>1. o.io.map_block \in Locations
      BY <1>2 DEF Handles
    <3> QED BY <3>1, <1>3 DEF Locations
  <2>3. MapBlock(locs) \in Images /\ LocsOf(MapBlock(locs)) = locs
    BY <2>2, MapImage
  <2>4. new = Mapped(m.disk, e, to)
    BY <1>1, <1>5 DEF Mapped
  <2> HIDE DEF o, at, locs, r
  <2>5. /\ w \in Machines /\ Follows(w, o) /\ w.io = o.io /\ w.disk \in {o.disk, new} /\ (w.ok => w.disk = new)
        /\ new \in Disks /\ w.disk \in Disks
    BY <1>2, <1>3, <2>3, WriteDoes
  <2>6. which \in {0} \cup MAPS_START .. N - 1
    BY <1>3
  <2> HIDE DEF w, which
  <2>7. i \in Handles /\ i.free_scan_from = o.io.free_scan_from
        /\ i.part = o.io.part /\ i.count = o.io.count /\ i.offset = o.io.offset /\ i.total = o.io.total
        /\ i.bitmap_block_which = o.io.bitmap_block_which /\ i.bitmap_block = o.io.bitmap_block
        /\ i.map_block_which = which /\ i.map_block = locs
    BY <1>2, <2>2, <2>6 DEF Handles
  <2> HIDE DEF i
  <2>8. /\ r \in Machines /\ r.io = i /\ r.disk = w.disk /\ r.notes = w.notes /\ r.how = w.how
        /\ r.ok = w.ok
    BY <2>1, <2>5, <2>7 DEF Machines
  <2>9. Follows(r, m)
    BY <1>1, <1>5, <2>5, <2>7, <2>8 DEF Follows
  <2>10. Buffered(i, w.disk)
    <3>1. which # 0 => w.ok /\ which = at
      BY DEF which
    <3>2. which # 0 => w.disk[which] = MapBlock(locs)
      BY <1>2, <1>3, <2>5, <3>1 DEF Disks
    <3>3. i.bitmap_block_which # 0 => w.disk[i.bitmap_block_which] = o.disk[i.bitmap_block_which]
      <4>1. i.bitmap_block_which # 0 => i.bitmap_block_which # at /\ i.bitmap_block_which \in Addresses
        <5>1. i.bitmap_block_which \in 0 .. MAPS_START - 1
          BY <2>7 DEF Handles
        <5> QED BY <5>1, <1>3, Constants DEF Addresses
      <4> QED BY <4>1, <1>2, <2>5 DEF Disks
    <3> QED BY <1>2, <2>3, <2>7, <3>2, <3>3 DEF Buffered
  <2>11. r.io.map_block_which \in {0, at, m.io.map_block_which}
    BY <2>7, <2>8 DEF which
  <2> QED BY <1>1, <2>4, <2>5, <2>7, <2>8, <2>9, <2>10, <2>11 DEF Goods, o, r, at
<1> QED BY <1>2, <1>4, <1>5

(* The header goes where the bitmap was. *)
LEMMA ReadHeaderDoes ==
    ASSUME NEW m \in Goods
    PROVE  /\ ReadHeader(m) \in Goods /\ Follows(ReadHeader(m), m) /\ ReadHeader(m).disk = m.disk
           /\ ReadHeader(m).io.free_scan_from = m.io.free_scan_from
           /\ ReadHeader(m).io.map_block_which = m.io.map_block_which
<1> DEFINE l == IF Fails(m) THEN AfterFault(m) ELSE Spent(m, 1)
           i == [m.io EXCEPT !.bitmap_block = {}, !.bitmap_block_which = 0]
           r == ReadHeader(m)
           k == ~Died(m)
<1>0. m \in Machines /\ m.io \in Handles /\ m.disk \in Disks /\ Buffered(m.io, m.disk) /\ m.ok \in BOOLEAN
  BY DEF Goods, Machines
<1>1. CASE ~m.ok
  BY <1>1 DEF ReadHeader, Then, Follows
<1>2. CASE m.ok
  <2>1. r = [m EXCEPT !.ok = k, !.left = l, !.io = i]
    BY <1>2 DEF ReadHeader, Then
  <2>2. l \in Int /\ k \in BOOLEAN
    BY <1>0, LeftIsInt
  <2>3. {} \in Bitmaps /\ 0 \in 0 .. MAPS_START - 1
    BY Regions DEF Bitmaps
  <2> HIDE DEF r, l, k
  <2>4. i \in Handles /\ i.free_scan_from = m.io.free_scan_from
        /\ i.part = m.io.part /\ i.count = m.io.count /\ i.offset = m.io.offset /\ i.total = m.io.total
        /\ i.map_block_which = m.io.map_block_which /\ i.map_block = m.io.map_block
        /\ i.bitmap_block_which = 0
    BY <1>0, <2>3 DEF Handles
  <2> HIDE DEF i
  <2>5. r \in Machines
    BY <1>0, <2>1, <2>2, <2>4 DEF Machines
  <2>6. r.io = i /\ r.disk = m.disk /\ r.notes = m.notes /\ r.how = m.how
    BY <1>0, <2>1 DEF Machines
  <2>7. Follows(r, m)
    BY <1>2, <2>4, <2>6 DEF Follows
  <2>8. Buffered(i, m.disk)
    BY <1>0, <2>4 DEF Buffered
  <2> QED BY <2>4, <2>5, <2>6, <2>7, <2>8 DEF Goods, r
<1> QED BY <1>0, <1>1, <1>2

-----------------------------------------------------------------------------
(* Loops. *)

(* Every nonempty set of natural numbers has a least element. *)
LEMMA LeastElement ==
    ASSUME NEW S \in SUBSET Nat, S # {}
    PROVE  \E m \in S : \A k \in S : m <= k
<1>1. IsWellFoundedOn(OpToRel(<, Nat), Nat)
  BY NatLessThanWellFounded
<1>2. PICK m \in S : \A k \in S : ~ (<<k, m>> \in OpToRel(<, Nat))
  BY <1>1, WFMin
<1>3. ASSUME NEW k \in S PROVE m <= k
  <2>1. ~ (k < m)
    BY <1>2 DEF OpToRel
  <2> QED BY <2>1
<1> QED BY <1>3

LEMMA Induction ==
    ASSUME NEW G, 0 \in G, \A n \in Nat : n \in G => n + 1 \in G
    PROVE  \A n \in Nat : n \in G
<1> DEFINE S == {n \in Nat : n \notin G}
<1>1. S = {}
  <2> SUFFICES ASSUME S # {} PROVE FALSE
    OBVIOUS
  <2>1. PICK m \in S : \A k \in S : m <= k
    BY LeastElement
  <2>2. m \in Nat /\ m # 0 /\ m - 1 \in Nat /\ m = (m - 1) + 1 /\ ~(m <= m - 1)
    BY <2>1
  <2>3. m - 1 \in G
    BY <2>1, <2>2
  <2> QED BY <2>1, <2>2, <2>3
<1> QED BY <1>1

(* The same for the turns of a loop that is done n times. *)
LEMMA LoopInduction ==
    ASSUME NEW n \in Nat, NEW G, 0 \in G, \A k \in 1 .. n : k - 1 \in G => k \in G
    PROVE  n \in G
<1> DEFINE H == {k \in Nat : k <= n => k \in G}
<1>1. 0 \in H
  OBVIOUS
<1>2. ASSUME NEW k \in Nat, k \in H PROVE k + 1 \in H
  <2>1. k + 1 <= n => k + 1 \in 1 .. n /\ (k + 1) - 1 = k /\ k \in G
    BY <1>2
  <2> QED BY <2>1
<1> HIDE DEF H
<1>3. n \in H
  BY <1>1, <1>2, Induction
<1> QED BY <1>3 DEF H

LEMMA ScanRuns ==
    ASSUME NEW m
    PROVE  \E f : /\ f[0] = [m |-> m, loc |-> 0, on |-> TRUE]
                  /\ \A k \in 1 .. N : f[k] = ScanStep(f[k - 1], m.io.free_scan_from)
                  /\ ScanFree(m) = f[N]
<1> DEFINE base == [m |-> m, loc |-> 0, on |-> TRUE]
           Step(x, k) == ScanStep(x, m.io.free_scan_from)
           Runs(n, f) == f = [k \in 0 .. n |-> IF k = 0 THEN base ELSE Step(f[k - 1], k)]
<1>0. N \in Nat
  BY Constants
<1>1. \E f : Runs(N, f)
  <2> DEFINE G == {n \in Nat : \E f : Runs(n, f)}
  <2> HIDE DEF base, Step
  <2>1. 0 \in G
    <3> DEFINE f == [k \in 0 .. 0 |-> base]
    <3>1. Runs(0, f)
      OBVIOUS
    <3> QED BY <3>1
  <2>2. ASSUME NEW n \in Nat, n \in G PROVE n + 1 \in G
    <3>1. PICK g : Runs(n, g)
      BY <2>2
    <3> DEFINE f == [k \in 0 .. n + 1 |-> IF k = n + 1 THEN Step(g[n], n + 1) ELSE g[k]]
    <3>2. ASSUME NEW k \in 0 .. n + 1 PROVE f[k] = IF k = 0 THEN base ELSE Step(f[k - 1], k)
      BY <3>1
    <3>3. Runs(n + 1, f)
      BY <3>2
    <3> HIDE DEF f, Runs
    <3> QED BY <3>3
  <2> HIDE DEF G
  <2>3. N \in G
    BY <1>0, <2>1, <2>2, Induction
  <2> QED BY <2>3 DEF G
<1> DEFINE f == CHOOSE f : Runs(N, f)
<1>2. Runs(N, f)
  BY <1>1
<1>3. ScanFree(m) = f[N]
  BY DEF ScanFree
<1> HIDE DEF f, base, Step
<1>4. f[0] = base
  BY <1>0, <1>2
<1>5. ASSUME NEW k \in 1 .. N PROVE f[k] = Step(f[k - 1], k)
  BY <1>0, <1>2
<1> QED BY <1>3, <1>4, <1>5 DEF base, Step

LEMMA ClearBitmapRuns ==
    ASSUME NEW m
    PROVE  \E f : /\ f[0] = m
                  /\ \A k \in 1 .. bitmap_len : f[k] = Ignoring(BaseWrite(f[k - 1], BITMAP_START + k - 1, Bitmap({})))
                  /\ ClearBitmap(m) = f[bitmap_len]
<1> DEFINE base == m
           Step(x, k) == Ignoring(BaseWrite(x, BITMAP_START + k - 1, Bitmap({})))
           Runs(n, f) == f = [k \in 0 .. n |-> IF k = 0 THEN base ELSE Step(f[k - 1], k)]
<1>0. bitmap_len \in Nat
  BY Regions
<1>1. \E f : Runs(bitmap_len, f)
  <2> DEFINE G == {n \in Nat : \E f : Runs(n, f)}
  <2> HIDE DEF base, Step
  <2>1. 0 \in G
    <3> DEFINE f == [k \in 0 .. 0 |-> base]
    <3>1. Runs(0, f)
      OBVIOUS
    <3> QED BY <3>1
  <2>2. ASSUME NEW n \in Nat, n \in G PROVE n + 1 \in G
    <3>1. PICK g : Runs(n, g)
      BY <2>2
    <3> DEFINE f == [k \in 0 .. n + 1 |-> IF k = n + 1 THEN Step(g[n], n + 1) ELSE g[k]]
    <3>2. ASSUME NEW k \in 0 .. n + 1 PROVE f[k] = IF k = 0 THEN base ELSE Step(f[k - 1], k)
      BY <3>1
    <3>3. Runs(n + 1, f)
      BY <3>2
    <3> HIDE DEF f, Runs
    <3> QED BY <3>3
  <2> HIDE DEF G
  <2>3. bitmap_len \in G
    BY <1>0, <2>1, <2>2, Induction
  <2> QED BY <2>3 DEF G
<1> DEFINE f == CHOOSE f : Runs(bitmap_len, f)
<1>2. Runs(bitmap_len, f)
  BY <1>1
<1>3. ClearBitmap(m) = f[bitmap_len]
  BY DEF ClearBitmap
<1> HIDE DEF f, base, Step
<1>4. f[0] = base
  BY <1>0, <1>2
<1>5. ASSUME NEW k \in 1 .. bitmap_len PROVE f[k] = Step(f[k - 1], k)
  BY <1>0, <1>2
<1> QED BY <1>3, <1>4, <1>5 DEF base, Step

(* f[k] is the machine after k turns. *)
Marks(f, m, first, count) ==
    /\ f[0] = m
    /\ \A k \in 1 .. count : f[k] = Ignoring(MarkAs(f[k - 1], first + k - 1, TRUE))

LEMMA MarkRangeRuns ==
    ASSUME NEW m, NEW first \in Nat, NEW count \in Nat
    PROVE  \E f : Marks(f, m, first, count) /\ MarkRange(m, first, count) = f[count]
<1> DEFINE base == m
           Step(x, k) == Ignoring(MarkAs(x, first + k - 1, TRUE))
           Runs(n, f) == f = [k \in 0 .. n |-> IF k = 0 THEN base ELSE Step(f[k - 1], k)]
<1>0. count \in Nat
  OBVIOUS
<1>1. \E f : Runs(count, f)
  <2> DEFINE G == {n \in Nat : \E f : Runs(n, f)}
  <2> HIDE DEF base, Step
  <2>1. 0 \in G
    <3> DEFINE f == [k \in 0 .. 0 |-> base]
    <3>1. Runs(0, f)
      OBVIOUS
    <3> QED BY <3>1
  <2>2. ASSUME NEW n \in Nat, n \in G PROVE n + 1 \in G
    <3>1. PICK g : Runs(n, g)
      BY <2>2
    <3> DEFINE f == [k \in 0 .. n + 1 |-> IF k = n + 1 THEN Step(g[n], n + 1) ELSE g[k]]
    <3>2. ASSUME NEW k \in 0 .. n + 1 PROVE f[k] = IF k = 0 THEN base ELSE Step(f[k - 1], k)
      BY <3>1
    <3>3. Runs(n + 1, f)
      BY <3>2
    <3> HIDE DEF f, Runs
    <3> QED BY <3>3
  <2> HIDE DEF G
  <2>3. count \in G
    BY <1>0, <2>1, <2>2, Induction
  <2> QED BY <2>3 DEF G
<1> DEFINE f == CHOOSE f : Runs(count, f)
<1>2. Runs(count, f)
  BY <1>1
<1>3. MarkRange(m, first, count) = f[count]
  BY DEF MarkRange
<1> HIDE DEF f, base, Step
<1>4. f[0] = base
  BY <1>0, <1>2
<1>5. ASSUME NEW k \in 1 .. count PROVE f[k] = Step(f[k - 1], k)
  BY <1>0, <1>2
<1>6. Marks(f, m, first, count)
  BY <1>4, <1>5 DEF base, Step, Marks
<1> QED BY <1>3, <1>6

LEMMA RemapAllRuns ==
    ASSUME NEW m, NEW bad, m.io.total \in Nat
    PROVE  \E f : /\ f[0] = m
                  /\ \A k \in 1 .. m.io.total : f[k] = RemapStep(f[k - 1], k - 1, bad)
                  /\ RemapAll(m, bad) = f[m.io.total]
<1> DEFINE base == m
           Step(x, k) == RemapStep(x, k - 1, bad)
           Runs(n, f) == f = [k \in 0 .. n |-> IF k = 0 THEN base ELSE Step(f[k - 1], k)]
<1>0. m.io.total \in Nat
  OBVIOUS
<1>1. \E f : Runs(m.io.total, f)
  <2> DEFINE G == {n \in Nat : \E f : Runs(n, f)}
  <2> HIDE DEF base, Step
  <2>1. 0 \in G
    <3> DEFINE f == [k \in 0 .. 0 |-> base]
    <3>1. Runs(0, f)
      OBVIOUS
    <3> QED BY <3>1
  <2>2. ASSUME NEW n \in Nat, n \in G PROVE n + 1 \in G
    <3>1. PICK g : Runs(n, g)
      BY <2>2
    <3> DEFINE f == [k \in 0 .. n + 1 |-> IF k = n + 1 THEN Step(g[n], n + 1) ELSE g[k]]
    <3>2. ASSUME NEW k \in 0 .. n + 1 PROVE f[k] = IF k = 0 THEN base ELSE Step(f[k - 1], k)
      BY <3>1
    <3>3. Runs(n + 1, f)
      BY <3>2
    <3> HIDE DEF f, Runs
    <3> QED BY <3>3
  <2> HIDE DEF G
  <2>3. m.io.total \in G
    BY <1>0, <2>1, <2>2, Induction
  <2> QED BY <2>3 DEF G
<1> DEFINE f == CHOOSE f : Runs(m.io.total, f)
<1>2. Runs(m.io.total, f)
  BY <1>1
<1>3. RemapAll(m, bad) = f[m.io.total]
  BY DEF RemapAll
<1> HIDE DEF f, base, Step
<1>4. f[0] = base
  BY <1>0, <1>2
<1>5. ASSUME NEW k \in 1 .. m.io.total PROVE f[k] = Step(f[k - 1], k)
  BY <1>0, <1>2
<1> QED BY <1>3, <1>4, <1>5 DEF base, Step

LEMMA SizesBeforeRuns ==
    ASSUME NEW m, NEW p \in Nat
    PROVE  \E f : /\ f[0] = [m |-> m, sum |-> 0]
                  /\ \A k \in 1 .. p : f[k] = [m |-> ReadHeader(f[k - 1].m), sum |-> f[k - 1].sum + HeaderSizes(f[k - 1].m)[k - 1]]
                  /\ SizesBefore(m, p) = f[p]
<1> DEFINE base == [m |-> m, sum |-> 0]
           Step(x, k) == [m |-> ReadHeader(x.m), sum |-> x.sum + HeaderSizes(x.m)[k - 1]]
           Runs(n, f) == f = [k \in 0 .. n |-> IF k = 0 THEN base ELSE Step(f[k - 1], k)]
<1>0. p \in Nat
  OBVIOUS
<1>1. \E f : Runs(p, f)
  <2> DEFINE G == {n \in Nat : \E f : Runs(n, f)}
  <2> HIDE DEF base, Step
  <2>1. 0 \in G
    <3> DEFINE f == [k \in 0 .. 0 |-> base]
    <3>1. Runs(0, f)
      OBVIOUS
    <3> QED BY <3>1
  <2>2. ASSUME NEW n \in Nat, n \in G PROVE n + 1 \in G
    <3>1. PICK g : Runs(n, g)
      BY <2>2
    <3> DEFINE f == [k \in 0 .. n + 1 |-> IF k = n + 1 THEN Step(g[n], n + 1) ELSE g[k]]
    <3>2. ASSUME NEW k \in 0 .. n + 1 PROVE f[k] = IF k = 0 THEN base ELSE Step(f[k - 1], k)
      BY <3>1
    <3>3. Runs(n + 1, f)
      BY <3>2
    <3> HIDE DEF f, Runs
    <3> QED BY <3>3
  <2> HIDE DEF G
  <2>3. p \in G
    BY <1>0, <2>1, <2>2, Induction
  <2> QED BY <2>3 DEF G
<1> DEFINE f == CHOOSE f : Runs(p, f)
<1>2. Runs(p, f)
  BY <1>1
<1>3. SizesBefore(m, p) = f[p]
  BY DEF SizesBefore
<1> HIDE DEF f, base, Step
<1>4. f[0] = base
  BY <1>0, <1>2
<1>5. ASSUME NEW k \in 1 .. p PROVE f[k] = Step(f[k - 1], k)
  BY <1>0, <1>2
<1> QED BY <1>3, <1>4, <1>5 DEF base, Step

LEMMA ShiftAllRuns ==
    ASSUME NEW m, NEW count \in Nat, NEW shift
    PROVE  \E f : /\ f[0] = m
                  /\ \A k \in 1 .. count : f[k] = ShiftStep(f[k - 1], m.io.total - k, shift)
                  /\ ShiftAll(m, count, shift) = f[count]
<1> DEFINE base == m
           Step(x, k) == ShiftStep(x, m.io.total - k, shift)
           Runs(n, f) == f = [k \in 0 .. n |-> IF k = 0 THEN base ELSE Step(f[k - 1], k)]
<1>0. count \in Nat
  OBVIOUS
<1>1. \E f : Runs(count, f)
  <2> DEFINE G == {n \in Nat : \E f : Runs(n, f)}
  <2> HIDE DEF base, Step
  <2>1. 0 \in G
    <3> DEFINE f == [k \in 0 .. 0 |-> base]
    <3>1. Runs(0, f)
      OBVIOUS
    <3> QED BY <3>1
  <2>2. ASSUME NEW n \in Nat, n \in G PROVE n + 1 \in G
    <3>1. PICK g : Runs(n, g)
      BY <2>2
    <3> DEFINE f == [k \in 0 .. n + 1 |-> IF k = n + 1 THEN Step(g[n], n + 1) ELSE g[k]]
    <3>2. ASSUME NEW k \in 0 .. n + 1 PROVE f[k] = IF k = 0 THEN base ELSE Step(f[k - 1], k)
      BY <3>1
    <3>3. Runs(n + 1, f)
      BY <3>2
    <3> HIDE DEF f, Runs
    <3> QED BY <3>3
  <2> HIDE DEF G
  <2>3. count \in G
    BY <1>0, <2>1, <2>2, Induction
  <2> QED BY <2>3 DEF G
<1> DEFINE f == CHOOSE f : Runs(count, f)
<1>2. Runs(count, f)
  BY <1>1
<1>3. ShiftAll(m, count, shift) = f[count]
  BY DEF ShiftAll
<1> HIDE DEF f, base, Step
<1>4. f[0] = base
  BY <1>0, <1>2
<1>5. ASSUME NEW k \in 1 .. count PROVE f[k] = Step(f[k - 1], k)
  BY <1>0, <1>2
<1> QED BY <1>3, <1>4, <1>5 DEF base, Step

(* f[k] is the machine after k turns. *)
Clears(f, m, first, count) ==
    /\ f[0] = m
    /\ \A k \in 1 .. count : f[k] = Then(f[k - 1], Ignoring(SetMapLoc(f[k - 1], first + k - 1, 0)))

LEMMA ClearEntriesRuns ==
    ASSUME NEW m, NEW first \in Nat, NEW count \in Nat
    PROVE  \E f : Clears(f, m, first, count) /\ ClearEntries(m, first, count) = f[count]
<1> DEFINE base == m
           Step(x, k) == Then(x, Ignoring(SetMapLoc(x, first + k - 1, 0)))
           Runs(n, f) == f = [k \in 0 .. n |-> IF k = 0 THEN base ELSE Step(f[k - 1], k)]
<1>0. count \in Nat
  OBVIOUS
<1>1. \E f : Runs(count, f)
  <2> DEFINE G == {n \in Nat : \E f : Runs(n, f)}
  <2> HIDE DEF base, Step
  <2>1. 0 \in G
    <3> DEFINE f == [k \in 0 .. 0 |-> base]
    <3>1. Runs(0, f)
      OBVIOUS
    <3> QED BY <3>1
  <2>2. ASSUME NEW n \in Nat, n \in G PROVE n + 1 \in G
    <3>1. PICK g : Runs(n, g)
      BY <2>2
    <3> DEFINE f == [k \in 0 .. n + 1 |-> IF k = n + 1 THEN Step(g[n], n + 1) ELSE g[k]]
    <3>2. ASSUME NEW k \in 0 .. n + 1 PROVE f[k] = IF k = 0 THEN base ELSE Step(f[k - 1], k)
      BY <3>1
    <3>3. Runs(n + 1, f)
      BY <3>2
    <3> HIDE DEF f, Runs
    <3> QED BY <3>3
  <2> HIDE DEF G
  <2>3. count \in G
    BY <1>0, <2>1, <2>2, Induction
  <2> QED BY <2>3 DEF G
<1> DEFINE f == CHOOSE f : Runs(count, f)
<1>2. Runs(count, f)
  BY <1>1
<1>3. ClearEntries(m, first, count) = f[count]
  BY DEF ClearEntries
<1> HIDE DEF f, base, Step
<1>4. f[0] = base
  BY <1>0, <1>2
<1>5. ASSUME NEW k \in 1 .. count PROVE f[k] = Step(f[k - 1], k)
  BY <1>0, <1>2
<1>6. Clears(f, m, first, count)
  BY <1>4, <1>5 DEF base, Step, Clears
<1> QED BY <1>3, <1>6

LEMMA OffsetsRun ==
    ASSUME NEW sizes
    PROVE  \E f : /\ f[0] = 0
                  /\ \A k \in 1 .. PartCount : f[k] = f[k - 1] + sizes[k - 1]
                  /\ Offsets(sizes) = f
<1> DEFINE base == 0
           Step(x, k) == x + sizes[k - 1]
           Runs(n, f) == f = [k \in 0 .. n |-> IF k = 0 THEN base ELSE Step(f[k - 1], k)]
<1>0. PartCount \in Nat
  BY Constants
<1>1. \E f : Runs(PartCount, f)
  <2> DEFINE G == {n \in Nat : \E f : Runs(n, f)}
  <2> HIDE DEF base, Step
  <2>1. 0 \in G
    <3> DEFINE f == [k \in 0 .. 0 |-> base]
    <3>1. Runs(0, f)
      OBVIOUS
    <3> QED BY <3>1
  <2>2. ASSUME NEW n \in Nat, n \in G PROVE n + 1 \in G
    <3>1. PICK g : Runs(n, g)
      BY <2>2
    <3> DEFINE f == [k \in 0 .. n + 1 |-> IF k = n + 1 THEN Step(g[n], n + 1) ELSE g[k]]
    <3>2. ASSUME NEW k \in 0 .. n + 1 PROVE f[k] = IF k = 0 THEN base ELSE Step(f[k - 1], k)
      BY <3>1
    <3>3. Runs(n + 1, f)
      BY <3>2
    <3> HIDE DEF f, Runs
    <3> QED BY <3>3
  <2> HIDE DEF G
  <2>3. PartCount \in G
    BY <1>0, <2>1, <2>2, Induction
  <2> QED BY <2>3 DEF G
<1> DEFINE f == CHOOSE f : Runs(PartCount, f)
<1>2. Runs(PartCount, f)
  BY <1>1
<1>3. Offsets(sizes) = f
  BY DEF Offsets
<1> HIDE DEF f, base, Step
<1>4. f[0] = base
  BY <1>0, <1>2
<1>5. ASSUME NEW k \in 1 .. PartCount PROVE f[k] = Step(f[k - 1], k)
  BY <1>0, <1>2
<1> QED BY <1>3, <1>4, <1>5 DEF base, Step

LEMMA OffsetSteps ==
    ASSUME NEW s
    PROVE  /\ TrueOffset(s, 0) = 0
           /\ \A p \in Parts : TrueOffset(s, p + 1) = TrueOffset(s, p) + s[p]
           /\ Total(s) = TrueOffset(s, PartCount)
<1>1. PICK f : /\ f[0] = 0
               /\ \A k \in 1 .. PartCount : f[k] = f[k - 1] + s[k - 1]
               /\ Offsets(s) = f
  BY OffsetsRun
<1>2. ASSUME NEW p \in Parts PROVE f[p + 1] = f[p] + s[p]
  <2>1. p + 1 \in 1 .. PartCount /\ (p + 1) - 1 = p
    BY Constants DEF Parts
  <2> QED BY <1>1, <2>1
<1> QED BY <1>1, <1>2 DEF TrueOffset, Total

LEMMA OffsetIsNat ==
    ASSUME NEW s \in SizeTables
    PROVE  \A p \in 0 .. PartCount : TrueOffset(s, p) \in Nat
<1> DEFINE G == {n \in Nat : n <= PartCount => TrueOffset(s, n) \in Nat}
<1>1. 0 \in G
  BY OffsetSteps
<1>2. ASSUME NEW n \in Nat, n \in G PROVE n + 1 \in G
  <2>1. CASE n + 1 <= PartCount
    <3>1. n \in Parts /\ TrueOffset(s, n) \in Nat /\ s[n] \in Nat
      BY <1>2, <2>1, Constants DEF Parts, SizeTables
    <3> QED BY <3>1, OffsetSteps
  <2> QED BY <2>1
<1> HIDE DEF G
<1>3. \A n \in Nat : n \in G
  BY <1>1, <1>2, Induction
<1> QED BY <1>3, Constants DEF G

(* A later partition begins behind every earlier one. *)
LEMMA OffsetGrows ==
    ASSUME NEW s \in SizeTables, NEW p \in Parts, NEW q \in 0 .. PartCount, p < q
    PROVE  TrueOffset(s, p) + s[p] <= TrueOffset(s, q)
<1> DEFINE G == {n \in Nat : p < n /\ n <= PartCount => TrueOffset(s, p) + s[p] <= TrueOffset(s, n)}
<1>0. p \in Nat /\ p \in 0 .. PartCount /\ PartCount \in Nat /\ s[p] \in Nat
  BY Constants DEF Parts, SizeTables
<1>1. 0 \in G
  BY <1>0
<1>2. ASSUME NEW n \in Nat, n \in G PROVE n + 1 \in G
  <2>1. CASE p < n + 1 /\ n + 1 <= PartCount
    <3>1. n \in Parts /\ n \in 0 .. PartCount /\ s[n] \in Nat
      BY <2>1, Constants DEF Parts, SizeTables
    <3>2. TrueOffset(s, n + 1) = TrueOffset(s, n) + s[n] /\ TrueOffset(s, n) \in Nat /\ TrueOffset(s, p) \in Nat
      BY <1>0, <3>1, OffsetSteps, OffsetIsNat
    <3>3. CASE p = n
      BY <1>0, <3>1, <3>2, <3>3
    <3>4. CASE p # n
      <4>1. TrueOffset(s, p) + s[p] <= TrueOffset(s, n)
        BY <1>0, <1>2, <2>1, <3>1, <3>4
      <4> QED BY <1>0, <3>1, <3>2, <4>1
    <3> QED BY <3>3, <3>4
  <2> QED BY <2>1
<1> HIDE DEF G
<1>3. q \in G /\ q \in Nat
  BY <1>0, <1>1, <1>2, Induction
<1> QED BY <1>0, <1>3 DEF G

(* Entries of the map are one to one with blocks of partitions. *)
LEMMA EntryOfBlock ==
    ASSUME NEW s \in SizeTables, NEW p \in Parts, NEW b \in 0 .. s[p] - 1
    PROVE  /\ TrueOffset(s, p) + b \in 0 .. Total(s) - 1 /\ TrueOffset(s, p) \in Nat /\ Total(s) \in Nat
           /\ \A q \in Parts : \A c \in 0 .. s[q] - 1 :
                 <<p, b>> # <<q, c>> => TrueOffset(s, p) + b # TrueOffset(s, q) + c
<1>0. /\ p \in Nat /\ p \in 0 .. PartCount /\ PartCount \in Nat /\ PartCount \in 0 .. PartCount
      /\ s[p] \in Nat /\ p < PartCount /\ b \in Nat /\ b < s[p]
  BY Constants DEF Parts, SizeTables
<1>1. TrueOffset(s, p) + s[p] <= Total(s) /\ TrueOffset(s, p) \in Nat /\ Total(s) \in Nat
  BY <1>0, OffsetGrows, OffsetIsNat, OffsetSteps
<1>2. ASSUME NEW q \in Parts, NEW c \in 0 .. s[q] - 1, <<p, b>> # <<q, c>>
      PROVE  TrueOffset(s, p) + b # TrueOffset(s, q) + c
  <2>0. q \in Nat /\ q \in 0 .. PartCount /\ s[q] \in Nat /\ c \in Nat /\ c < s[q] /\ TrueOffset(s, q) \in Nat
    <3>1. q \in Nat /\ q \in 0 .. PartCount /\ s[q] \in Nat
      BY <1>0 DEF Parts, SizeTables
    <3>2. c \in Nat /\ c < s[q]
      BY <3>1
    <3>3. TrueOffset(s, q) \in Nat
      BY <3>1, OffsetIsNat
    <3> QED BY <3>1, <3>2, <3>3
  <2>1. CASE p = q
    BY <1>0, <1>1, <1>2, <2>0, <2>1
  <2>2. CASE p < q
    <3>1. TrueOffset(s, p) + s[p] <= TrueOffset(s, q)
      BY <2>0, <2>2, OffsetGrows
    <3>2. TrueOffset(s, p) + b < TrueOffset(s, p) + s[p]
      BY <1>0, <1>1
    <3> QED BY <1>0, <1>1, <2>0, <3>1, <3>2
  <2>3. CASE q < p
    <3>1. TrueOffset(s, q) + s[q] <= TrueOffset(s, p)
      BY <1>0, <2>3, OffsetGrows
    <3>2. TrueOffset(s, q) + c < TrueOffset(s, q) + s[q]
      BY <2>0
    <3> QED BY <1>0, <1>1, <2>0, <3>1, <3>2
  <2> QED BY <1>0, <2>0, <2>1, <2>2, <2>3
<1> QED BY <1>0, <1>1, <1>2

(* The offsets when one size is changed. *)
LEMMA OffsetChange ==
    ASSUME NEW s \in SizeTables, NEW p \in Parts, NEW n \in 0 .. MaxSize
    PROVE  LET t == [s EXCEPT ![p] = n]
           IN  /\ t \in SizeTables
               /\ \A q \in 0 .. PartCount :
                     TrueOffset(t, q) = IF q <= p THEN TrueOffset(s, q) ELSE TrueOffset(s, q) - s[p] + n
               /\ Total(t) = Total(s) - s[p] + n
<1> DEFINE t == [s EXCEPT ![p] = n]
           G == {k \in Nat : k <= PartCount =>
                    TrueOffset(t, k) = IF k <= p THEN TrueOffset(s, k) ELSE TrueOffset(s, k) - s[p] + n}
<1>1. t \in SizeTables /\ t[p] = n /\ \A q \in Parts \ {p} : t[q] = s[q]
  BY DEF SizeTables
<1>2. p \in Nat /\ PartCount \in Nat /\ s[p] \in Nat /\ n \in Nat /\ p < PartCount
  BY Constants DEF Parts, SizeTables
<1> HIDE DEF t
<1>3. 0 \in G
  BY <1>2, OffsetSteps
<1>4. ASSUME NEW k \in Nat, k \in G PROVE k + 1 \in G
  <2>1. CASE k + 1 <= PartCount
    <3>1. k \in Parts /\ k \in 0 .. PartCount /\ s[k] \in Nat
      BY <2>1, <1>2, Constants DEF Parts, SizeTables
    <3>2. /\ TrueOffset(s, k + 1) = TrueOffset(s, k) + s[k] /\ TrueOffset(s, k) \in Nat
          /\ TrueOffset(t, k + 1) = TrueOffset(t, k) + t[k]
      BY <3>1, OffsetSteps, OffsetIsNat
    <3>3. TrueOffset(t, k) = IF k <= p THEN TrueOffset(s, k) ELSE TrueOffset(s, k) - s[p] + n
      BY <1>4, <2>1, <1>2
    <3>4. CASE k < p
      BY <1>1, <1>2, <3>1, <3>2, <3>3, <3>4
    <3>5. CASE k = p
      BY <1>1, <1>2, <3>1, <3>2, <3>3, <3>5
    <3>6. CASE k > p
      BY <1>1, <1>2, <3>1, <3>2, <3>3, <3>6
    <3> QED BY <1>2, <3>4, <3>5, <3>6
  <2> QED BY <2>1
<1> HIDE DEF G
<1>5. \A k \in Nat : k \in G
  BY <1>3, <1>4, Induction
<1>6. ASSUME NEW q \in 0 .. PartCount
      PROVE  TrueOffset(t, q) = IF q <= p THEN TrueOffset(s, q) ELSE TrueOffset(s, q) - s[p] + n
  BY <1>2, <1>5 DEF G
<1>7. Total(t) = Total(s) - s[p] + n
  <2>1. PartCount \in 0 .. PartCount /\ ~(PartCount <= p)
    BY <1>2
  <2> QED BY <2>1, <1>6, OffsetSteps
<1> QED BY <1>1, <1>6, <1>7 DEF t

LEMMA NoPartitions ==
    LET s == [p \in Parts |-> 0] IN s \in SizeTables /\ Total(s) = 0
<1> DEFINE s == [p \in Parts |-> 0]
           G == {k \in Nat : k <= PartCount => TrueOffset(s, k) = 0}
<1>1. s \in SizeTables /\ \A p \in Parts : s[p] = 0
  BY Constants DEF SizeTables
<1> HIDE DEF s
<1>2. 0 \in G
  BY OffsetSteps
<1>3. ASSUME NEW k \in Nat, k \in G PROVE k + 1 \in G
  <2>1. CASE k + 1 <= PartCount
    <3>1. k \in Parts /\ TrueOffset(s, k) = 0
      BY <1>3, <2>1, Constants DEF Parts
    <3> QED BY <1>1, <3>1, OffsetSteps
  <2> QED BY <2>1
<1> HIDE DEF G
<1>4. PartCount \in G
  BY <1>2, <1>3, Induction, Constants
<1> QED BY <1>1, <1>4, OffsetSteps, Constants DEF G, s

-----------------------------------------------------------------------------
(* A scan finds a block that the bitmap of the disk has as free. *)

Scans(m) ==
    {x \in [m : Goods, loc : Addresses, on : BOOLEAN] :
        /\ Follows(x.m, m) /\ x.m.disk = m.disk
        /\ x.m.io.map_block_which = m.io.map_block_which
        /\ x.on => x.m.ok
        /\ x.loc # 0 => x.m.ok /\ ~Used(m.disk, x.loc)}

LEMMA ScanStepKeeps ==
    ASSUME NEW m \in Goods, m.ok, NEW x \in Scans(m), NEW start
    PROVE  ScanStep(x, start) \in Scans(m)
<1> DEFINE at == x.m.io.free_scan_from
           o == OpenBitmap(x.m, at)
           next == IF at + 1 >= N THEN 1 ELSE at + 1
           r == ScanStep(x, start)
<1>1. /\ x.m \in Goods /\ x.loc \in Addresses /\ x.on \in BOOLEAN /\ Follows(x.m, m)
      /\ x.m.disk = m.disk /\ (x.on => x.m.ok)
      /\ x.m.io.map_block_which = m.io.map_block_which
  BY DEF Scans
<1>2. at \in Addresses
  BY <1>1 DEF Goods, Machines, Handles
<1>3. /\ o \in Goods /\ Follows(o, x.m) /\ o.disk = m.disk
      /\ o.io.map_block_which = m.io.map_block_which
      /\ o.ok => o.io.bitmap_block = BitsOf(m.disk[BitmapAddress(at)])
  BY <1>1, <1>2, OpenBitmapDoes
<1>4. o \in Machines /\ o.io \in Handles /\ o.ok \in BOOLEAN /\ Buffered(o.io, o.disk)
  BY <1>3 DEF Goods, Machines
<1>5. Follows(o, m)
  BY <1>1, <1>3 DEF Follows
<1>6. 0 \in Addresses /\ next \in Addresses
  <2>1. 2 <= N
    BY Regions, Constants
  <2> QED BY <1>2, <2>1, Constants DEF Addresses
<1>7. CASE ~x.on
  BY <1>7 DEF ScanStep
<1>8. CASE x.on /\ ~o.ok
  <2> DEFINE k == ~Died(o)
             n == [o EXCEPT !.ok = k]
  <2>1. r = [m |-> n, loc |-> 0, on |-> FALSE]
    BY <1>8 DEF ScanStep
  <2>2. k \in BOOLEAN
    OBVIOUS
  <2> HIDE DEF k, o
  <2>3. /\ n \in Machines /\ n.io = o.io /\ n.disk = o.disk /\ n.notes = o.notes /\ n.how = o.how
    BY <1>4, <2>2 DEF Machines
  <2> HIDE DEF n
  <2>4. n \in Goods
    BY <1>4, <2>3 DEF Goods
  <2>5. Follows(n, m)
    BY <1>5, <2>3 DEF Follows
  <2> QED BY <1>3, <1>6, <2>1, <2>3, <2>4, <2>5 DEF Scans
<1>9. CASE x.on /\ o.ok /\ at % Bits \notin o.io.bitmap_block
  <2>1. r = [m |-> o, loc |-> at, on |-> FALSE]
    BY <1>9 DEF ScanStep
  <2>2. ~Used(m.disk, at)
    BY <1>3, <1>9 DEF Used
  <2> HIDE DEF o, at
  <2> QED BY <1>2, <1>3, <1>5, <1>9, <2>1, <2>2 DEF Scans
<1>10. CASE x.on /\ o.ok /\ at % Bits \in o.io.bitmap_block
  <2> DEFINE i == [o.io EXCEPT !.free_scan_from = next]
             n == [o EXCEPT !.io = i]
             on == next # start
  <2>1. r = [m |-> n, loc |-> 0, on |-> on]
    BY <1>10 DEF ScanStep
  <2>2. on \in BOOLEAN
    OBVIOUS
  <2> HIDE DEF on, next, o
  <2>3. /\ i \in Handles /\ i.part = o.io.part /\ i.count = o.io.count /\ i.offset = o.io.offset
        /\ i.total = o.io.total /\ i.bitmap_block = o.io.bitmap_block
        /\ i.bitmap_block_which = o.io.bitmap_block_which
        /\ i.map_block = o.io.map_block /\ i.map_block_which = o.io.map_block_which
    BY <1>4, <1>6 DEF Handles
  <2> HIDE DEF i
  <2>4. /\ n \in Machines /\ n.io = i /\ n.disk = o.disk /\ n.notes = o.notes /\ n.how = o.how
        /\ n.ok = o.ok
    BY <1>4, <2>3 DEF Machines
  <2> HIDE DEF n
  <2>5. n \in Goods
    BY <1>4, <2>3, <2>4 DEF Goods, Buffered
  <2>6. Follows(n, m)
    BY <1>5, <2>3, <2>4 DEF Follows
  <2>7. r \in [m : Goods, loc : Addresses, on : BOOLEAN] /\ r.m = n /\ r.loc = 0
    BY <1>6, <2>1, <2>2, <2>5
  <2>8. n.ok /\ n.disk = m.disk /\ n.io.map_block_which = m.io.map_block_which
    BY <1>3, <1>10, <2>3, <2>4
  <2> QED BY <2>6, <2>7, <2>8 DEF Scans
<1> QED BY <1>1, <1>4, <1>7, <1>8, <1>9, <1>10

LEMMA ScanFinds ==
    ASSUME NEW m \in Goods, m.ok
    PROVE  ScanFree(m) \in Scans(m)
<1>1. PICK f : /\ f[0] = [m |-> m, loc |-> 0, on |-> TRUE]
               /\ \A k \in 1 .. N : f[k] = ScanStep(f[k - 1], m.io.free_scan_from)
               /\ ScanFree(m) = f[N]
  BY ScanRuns
<1> DEFINE G == {k \in Nat : f[k] \in Scans(m)}
<1>2. 0 \in G
  <2>1. 0 \in Addresses
    BY Constants DEF Addresses
  <2>2. Follows(m, m)
    BY DEF Follows
  <2>3. f[0] \in [m : Goods, loc : Addresses, on : BOOLEAN] /\ f[0].m = m /\ f[0].loc = 0
    BY <1>1, <2>1
  <2> QED BY <2>2, <2>3 DEF Scans
<1>3. ASSUME NEW k \in 1 .. N, k - 1 \in G PROVE k \in G
  BY <1>1, <1>3, ScanStepKeeps
<1> HIDE DEF G
<1>4. N \in G
  BY <1>2, <1>3, Constants, LoopInduction
<1> QED BY <1>1, <1>4 DEF G

-----------------------------------------------------------------------------
(* Who owns what. *)

(* EachBlockHasOneOwner, of a disk with a map of t entries *)
Owned(d, t) ==
    /\ \A e \in 0 .. t - 1 : Entry(d, e) # 0 =>
          /\ Entry(d, e) \in DATA_START(t) .. N - 1
          /\ Used(d, Entry(d, e))
          /\ \A o \in (0 .. t - 1) \ {e} : Entry(d, o) # Entry(d, e)
    /\ \A b \in 0 .. DATA_START(t) - 1 : Used(d, b)

OneHeader(d) == \A b \in Addresses \ {0} : ~IsHeader(d[b])

(* What the block of a partition holds that has entry e of the map. *)
Val(d, e) == IF Entry(d, e) = 0 THEN 0 ELSE DataOf(d[Entry(d, e)])

(* A step from d to n that nobody who has a block can see. *)
Unseen(n, d, t) ==
    /\ n \in Disks /\ n[0] = d[0] /\ OneHeader(n) /\ Owned(n, t)
    /\ \A e \in 0 .. t - 1 : Val(n, e) = Val(d, e)

LEMMA TotalPlaces ==
    ASSUME NEW t \in 0 .. MaxTotal
    PROVE  /\ t \in Nat /\ DATA_START(t) \in Nat /\ MAPS_START \in Nat
           /\ 1 < MAPS_START /\ MAPS_START <= DATA_START(t) /\ DATA_START(t) < N
           /\ \A e \in 0 .. t - 1 :
                 e \in Places /\ MapAddress(e) \in MAPS_START .. DATA_START(t) - 1
<1>1. t \in Nat /\ t <= MaxTotal /\ MaxTotal \in Nat
  BY Constants
<1>2. /\ DATA_START(t) \in Nat /\ MAPS_START \in Nat /\ 1 < MAPS_START /\ MAPS_START <= DATA_START(t)
      /\ DATA_START(t) <= DATA_START(MaxTotal) /\ DATA_START(MaxTotal) < N /\ DATA_START(MaxTotal) \in Nat
  BY <1>1, Regions
<1>3. ASSUME NEW e \in 0 .. t - 1
      PROVE  e \in Places /\ MapAddress(e) \in MAPS_START .. DATA_START(t) - 1
  <2>1. MapAddress(e) \in MAPS_START .. DATA_START(t) - 1 /\ MapAddress(e) \in Addresses
    BY MapAddresses
  <2> QED BY <1>1, <2>1, Constants DEF Places, Addresses
<1> QED BY <1>1, <1>2, <1>3, Constants

LEMMA EntryIsAddress ==
    ASSUME NEW t \in 0 .. MaxTotal, NEW d, Owned(d, t), NEW e \in 0 .. t - 1, Entry(d, e) # 0
    PROVE  /\ Entry(d, e) \in Addresses /\ Entry(d, e) \in DATA_START(t) .. N - 1
           /\ Used(d, Entry(d, e))
BY TotalPlaces, Constants DEF Owned, Addresses

LEMMA SameMaps ==
    ASSUME NEW t \in 0 .. MaxTotal, NEW d, NEW n,
           \A x \in MAPS_START .. DATA_START(t) - 1 : n[x] = d[x]
    PROVE  \A e \in 0 .. t - 1 : Entry(n, e) = Entry(d, e)
BY TotalPlaces DEF Entry

LEMMA SameBitmap ==
    ASSUME NEW d, NEW n, \A x \in 1 .. MAPS_START - 1 : n[x] = d[x]
    PROVE  \A b \in Addresses : Used(n, b) <=> Used(d, b)
BY BitmapAddresses DEF Used

LEMMA OwnedFrame ==
    ASSUME NEW t \in 0 .. MaxTotal, NEW d, NEW n, Owned(d, t),
           \A e \in 0 .. t - 1 : Entry(n, e) = Entry(d, e),
           \A b \in Addresses :
              (b < DATA_START(t) \/ \E e \in 0 .. t - 1 : Entry(d, e) = b) /\ Used(d, b) => Used(n, b)
    PROVE  Owned(n, t)
<1>1. ASSUME NEW b \in 0 .. DATA_START(t) - 1 PROVE Used(n, b)
  <2>1. b \in Addresses /\ b < DATA_START(t)
    BY TotalPlaces, Constants DEF Addresses
  <2> QED BY <2>1 DEF Owned
<1>2. ASSUME NEW e \in 0 .. t - 1, Entry(n, e) # 0
      PROVE  /\ Entry(n, e) \in DATA_START(t) .. N - 1
             /\ Used(n, Entry(n, e))
             /\ \A o \in (0 .. t - 1) \ {e} : Entry(n, o) # Entry(n, e)
  BY <1>2, EntryIsAddress DEF Owned
<1> QED BY <1>1, <1>2 DEF Owned

LEMMA ValFrame ==
    ASSUME NEW d, NEW n, NEW e, Entry(n, e) = Entry(d, e),
           Entry(d, e) # 0 => n[Entry(d, e)] = d[Entry(d, e)]
    PROVE  Val(n, e) = Val(d, e)
BY DEF Val

(* A block that is free has no owner. *)
LEMMA FreeIsNobodys ==
    ASSUME NEW t \in 0 .. MaxTotal, NEW d, Owned(d, t), NEW b \in Addresses, ~Used(d, b)
    PROVE  /\ b \in DATA_START(t) .. N - 1 /\ b # 0
           /\ \A e \in 0 .. t - 1 : Entry(d, e) # b
<1>1. ~(b < DATA_START(t))
  BY TotalPlaces, Constants DEF Owned, Addresses
<1>2. b \in DATA_START(t) .. N - 1 /\ b # 0
  BY <1>1, TotalPlaces, Constants DEF Addresses
<1> QED BY <1>2 DEF Owned

LEMMA WriteToFree ==
    ASSUME NEW t \in 0 .. MaxTotal, NEW d \in Disks, Owned(d, t), OneHeader(d),
           NEW b \in Addresses, ~Used(d, b), NEW c \in Images, ~IsHeader(c)
    PROVE  /\ Unseen([d EXCEPT ![b] = c], d, t)
           /\ \A e \in 0 .. t - 1 : Entry([d EXCEPT ![b] = c], e) = Entry(d, e)
           /\ \A x \in Addresses : Used([d EXCEPT ![b] = c], x) <=> Used(d, x)
<1> DEFINE n == [d EXCEPT ![b] = c]
<1>1. /\ b \in DATA_START(t) .. N - 1 /\ b # 0 /\ \A e \in 0 .. t - 1 : Entry(d, e) # b
  BY FreeIsNobodys
<1>2. n \in Disks /\ n[b] = c /\ \A x \in Addresses \ {b} : n[x] = d[x]
  BY DEF Disks
<1> HIDE DEF n
<1>3. n[0] = d[0] /\ OneHeader(n)
  BY <1>1, <1>2, Constants DEF OneHeader, Addresses
<1>4. \A e \in 0 .. t - 1 : Entry(n, e) = Entry(d, e)
  BY <1>1, <1>2, TotalPlaces, SameMaps, Constants DEF Addresses
<1>5. \A x \in Addresses : Used(n, x) <=> Used(d, x)
  BY <1>1, <1>2, TotalPlaces, SameBitmap, Constants DEF Addresses
<1>6. Owned(n, t)
  BY <1>4, <1>5, OwnedFrame
<1>7. ASSUME NEW e \in 0 .. t - 1 PROVE Val(n, e) = Val(d, e)
  BY <1>1, <1>2, <1>4, EntryIsAddress, ValFrame
<1> QED BY <1>2, <1>3, <1>4, <1>5, <1>6, <1>7 DEF Unseen, n

LEMMA MarkIsUnseen ==
    ASSUME NEW t \in 0 .. MaxTotal, NEW d \in Disks, Owned(d, t), OneHeader(d),
           NEW b \in Addresses, NEW used \in BOOLEAN,
           ~used => b >= DATA_START(t) /\ \A e \in 0 .. t - 1 : Entry(d, e) # b
    PROVE  /\ Unseen(Marked(d, b, used), d, t)
           /\ \A e \in 0 .. t - 1 : Entry(Marked(d, b, used), e) = Entry(d, e)
<1> DEFINE n == Marked(d, b, used)
           at == BitmapAddress(b)
<1>1. /\ n \in Disks /\ \A x \in Addresses \ {at} : n[x] = d[x]
      /\ ~IsHeader(n[at])
      /\ \A x \in Addresses : Used(n, x) <=> IF x = b THEN used ELSE Used(d, x)
  BY MarkedIs
<1>2. at \in 1 .. MAPS_START - 1 /\ at \in Addresses
  BY BitmapAddresses
<1> HIDE DEF n, at
<1>3. n[0] = d[0] /\ OneHeader(n)
  BY <1>1, <1>2, Constants DEF OneHeader, Addresses
<1>4. \A e \in 0 .. t - 1 : Entry(n, e) = Entry(d, e)
  BY <1>1, <1>2, TotalPlaces, SameMaps, Constants DEF Addresses
<1>5. ASSUME NEW x \in Addresses, Used(d, x),
             x < DATA_START(t) \/ \E e \in 0 .. t - 1 : Entry(d, e) = x
      PROVE  Used(n, x)
  <2>1. CASE x # b
    BY <1>1, <1>5, <2>1
  <2>2. CASE x = b
    <3>1. used
      BY <1>5, <2>2, TotalPlaces, Constants DEF Addresses
    <3> QED BY <1>1, <2>2, <3>1
  <2> QED BY <2>1, <2>2
<1>6. Owned(n, t)
  BY <1>4, <1>5, OwnedFrame
<1>7. ASSUME NEW e \in 0 .. t - 1 PROVE Val(n, e) = Val(d, e)
  <2>1. Entry(d, e) # 0 => Entry(d, e) \in Addresses /\ Entry(d, e) # at
    BY <1>2, EntryIsAddress, TotalPlaces, Constants
  <2> QED BY <1>1, <1>4, <2>1, ValFrame
<1> QED BY <1>1, <1>3, <1>4, <1>6, <1>7 DEF Unseen, n

(* An entry is given a block that nobody has, and that is marked. *)
LEMMA OwnedMore ==
    ASSUME NEW t \in 0 .. MaxTotal, NEW d, NEW n, Owned(d, t),
           NEW e \in 0 .. t - 1, NEW to \in DATA_START(t) .. N - 1,
           \A o \in 0 .. t - 1 : Entry(d, o) # to,
           \A o \in 0 .. t - 1 : Entry(n, o) = IF o = e THEN to ELSE Entry(d, o),
           \A x \in Addresses : Used(d, x) => Used(n, x),
           Used(n, to)
    PROVE  Owned(n, t)
<1>1. ASSUME NEW b \in 0 .. DATA_START(t) - 1 PROVE Used(n, b)
  <2>1. b \in Addresses
    BY TotalPlaces, Constants DEF Addresses
  <2> QED BY <2>1 DEF Owned
<1>2. ASSUME NEW o \in 0 .. t - 1, Entry(n, o) # 0
      PROVE  /\ Entry(n, o) \in DATA_START(t) .. N - 1
             /\ Used(n, Entry(n, o))
             /\ \A q \in (0 .. t - 1) \ {o} : Entry(n, q) # Entry(n, o)
  <2>1. CASE o = e
    BY <2>1
  <2>2. CASE o # e
    <3>1. Entry(n, o) = Entry(d, o) /\ Entry(d, o) # 0
      BY <1>2, <2>2
    <3>2. Entry(d, o) \in Addresses /\ Entry(d, o) \in DATA_START(t) .. N - 1 /\ Used(d, Entry(d, o))
      BY <3>1, EntryIsAddress
    <3>3. \A q \in (0 .. t - 1) \ {o} : Entry(d, q) # Entry(d, o)
      BY <3>1 DEF Owned
    <3> QED BY <3>1, <3>2, <3>3
  <2> QED BY <2>1, <2>2
<1> QED BY <1>1, <1>2 DEF Owned

LEMMA MapToFree ==
    ASSUME NEW t \in 0 .. MaxTotal, NEW d \in Disks, Owned(d, t), OneHeader(d),
           NEW e \in 0 .. t - 1, NEW to \in DATA_START(t) .. N - 1,
           \A o \in 0 .. t - 1 : Entry(d, o) # to
    PROVE  LET n == Mapped(d, e, to)
           IN  /\ n \in Disks /\ n[0] = d[0] /\ OneHeader(n)
               /\ \A x \in Addresses : x >= DATA_START(t) => n[x] = d[x]
               /\ \A o \in 0 .. t - 1 : Entry(n, o) = IF o = e THEN to ELSE Entry(d, o)
               /\ \A x \in Addresses : Used(n, x) <=> Used(d, x)
               /\ Val(n, e) = DataOf(d[to])
               /\ \A o \in (0 .. t - 1) \ {e} : Val(n, o) = Val(d, o)
               /\ Used(d, to) => Owned(n, t)
<1> DEFINE n == Mapped(d, e, to)
           at == MapAddress(e)
<1>0. e \in Places /\ at \in MAPS_START .. DATA_START(t) - 1 /\ to \in 0 .. N /\ to \in Addresses /\ to # 0
  BY TotalPlaces, Constants DEF Addresses
<1>1. /\ n \in Disks /\ \A x \in Addresses \ {at} : n[x] = d[x]
      /\ ~IsHeader(n[at])
      /\ \A x \in Places : Entry(n, x) = IF x = e THEN to ELSE Entry(d, x)
  BY <1>0, MappedIs
<1> HIDE DEF n, at
<1>2. n[0] = d[0] /\ OneHeader(n)
  BY <1>0, <1>1, TotalPlaces, Constants DEF OneHeader, Addresses
<1>3. \A x \in Addresses : x >= DATA_START(t) => n[x] = d[x]
  BY <1>0, <1>1, TotalPlaces
<1>4. \A o \in 0 .. t - 1 : Entry(n, o) = IF o = e THEN to ELSE Entry(d, o)
  BY <1>1, TotalPlaces
<1>5. \A x \in Addresses : Used(n, x) <=> Used(d, x)
  BY <1>0, <1>1, TotalPlaces, SameBitmap, Constants DEF Addresses
<1>6. Val(n, e) = DataOf(d[to])
  BY <1>0, <1>3, <1>4 DEF Val
<1>7. ASSUME NEW o \in (0 .. t - 1) \ {e} PROVE Val(n, o) = Val(d, o)
  <2>1. Entry(d, o) # 0 => Entry(d, o) \in Addresses /\ Entry(d, o) >= DATA_START(t)
    BY EntryIsAddress, TotalPlaces
  <2> QED BY <1>3, <1>4, <2>1, ValFrame
<1>8. ASSUME Used(d, to) PROVE Owned(n, t)
  BY <1>0, <1>4, <1>5, <1>8, OwnedMore
<1> QED BY <1>1, <1>2, <1>3, <1>4, <1>5, <1>6, <1>7, <1>8 DEF n

(* A write to a block that has an owner. *)
(* A change of a disk by which only entry e can see that something happened. *)
OnlyFor(n, d, t, e) ==
    /\ n \in Disks /\ n[0] = d[0] /\ OneHeader(n) /\ Owned(n, t)
    /\ \A o \in (0 .. t - 1) \ {e} : Val(n, o) = Val(d, o)

LEMMA WriteToOwned ==
    ASSUME NEW t \in 0 .. MaxTotal, NEW d \in Disks, Owned(d, t), OneHeader(d),
           NEW e \in 0 .. t - 1, Entry(d, e) # 0, NEW c \in Images, ~IsHeader(c)
    PROVE  LET n == [d EXCEPT ![Entry(d, e)] = c]
           IN  OnlyFor(n, d, t, e) /\ Entry(n, e) = Entry(d, e) /\ Val(n, e) = DataOf(c)
<1> DEFINE b == Entry(d, e)
           n == [d EXCEPT ![b] = c]
<1>1. b \in Addresses /\ b \in DATA_START(t) .. N - 1 /\ b # 0
  BY EntryIsAddress
<1>2. \A o \in (0 .. t - 1) \ {e} : Entry(d, o) # b
  BY DEF Owned
<1>3. b = Entry(d, e)
  OBVIOUS
<1> HIDE DEF b
<1>4. n \in Disks /\ n[b] = c /\ \A x \in Addresses \ {b} : n[x] = d[x]
  BY <1>1 DEF Disks
<1> HIDE DEF n
<1>5. n[0] = d[0] /\ OneHeader(n)
  BY <1>1, <1>4, Constants DEF OneHeader, Addresses
<1>6. \A o \in 0 .. t - 1 : Entry(n, o) = Entry(d, o)
  BY <1>1, <1>4, TotalPlaces, SameMaps, Constants DEF Addresses
<1>7. \A x \in Addresses : Used(n, x) <=> Used(d, x)
  BY <1>1, <1>4, TotalPlaces, SameBitmap, Constants DEF Addresses
<1>8. Owned(n, t)
  BY <1>6, <1>7, OwnedFrame
<1>9. Val(n, e) = DataOf(c)
  BY <1>1, <1>3, <1>4, <1>6 DEF Val
<1>10. ASSUME NEW o \in (0 .. t - 1) \ {e} PROVE Val(n, o) = Val(d, o)
  BY <1>2, <1>4, <1>6, EntryIsAddress, ValFrame
<1>11. OnlyFor(n, d, t, e)
  BY <1>4, <1>5, <1>8, <1>10 DEF OnlyFor
<1> QED BY <1>6, <1>9, <1>11 DEF n, b

-----------------------------------------------------------------------------
(* The inductive invariant. *)

DiskIsSound ==
    /\ disk \in Disks /\ OneHeader(disk)
    /\ Total(Sizes(disk)) \in 0 .. MaxTotal
    /\ IsHeader(disk[0]) => Owned(disk, Total(Sizes(disk)))

HandleIsSound ==
    io # NoHandle =>
        /\ io \in Handles /\ Buffered(io, disk)
        /\ IsHeader(disk[0]) /\ io.part \in Parts

(* Blocks that the partition does not have yet hold zeroes when it gets them. *)
ContentsAreKept ==
    /\ may \in [Parts \X (0 .. MaxSize - 1) -> SUBSET (Contents \cup {NoReply})]
    /\ remains \in [Parts \X (0 .. MaxSize - 1) -> SUBSET (Contents \cup {NoReply})]
    /\ \A p \in Parts : \A b \in 0 .. MaxSize - 1 :
          IF b < Sizes(disk)[p]
            THEN Val(disk, TrueOffset(Sizes(disk), p) + b) \in may[<<p, b>>] \cup remains[<<p, b>>]
          ELSE 0 \in may[<<p, b>>]

IndInv == mishaps = {} => DiskIsSound /\ HandleIsSound /\ ContentsAreKept

LEMMA SizesAreSizes ==
    ASSUME NEW d \in Disks
    PROVE  /\ Sizes(d) \in SizeTables
           /\ \A p \in Parts : Sizes(d)[p] \in Nat /\ (~IsHeader(d[0]) => Sizes(d)[p] = 0)
           /\ ~IsHeader(d[0]) => Sizes(d) = [p \in Parts |-> 0]
<1>1. d[0] \in Images
  BY Constants DEF Disks, Addresses
<1>2. Sizes(d) \in SizeTables
  BY <1>1, ImageViews DEF Sizes
<1>3. ~IsHeader(d[0]) => Sizes(d) = [p \in Parts |-> 0]
  BY DEF Sizes, SizesOf
<1> QED BY <1>2, <1>3, Constants DEF SizeTables

(* Sizes are in the header, and nothing else is. *)
LEMMA SameHeader ==
    ASSUME NEW d, NEW n, n[0] = d[0]
    PROVE  Sizes(n) = Sizes(d) /\ (IsHeader(n[0]) <=> IsHeader(d[0]))
BY DEF Sizes

LEMMA FaultsAre ==
    ASSUME NEW n \in Nat, NEW f \in Faults(n)
    PROVE  f[1] \in Int /\ f[2] \in Ways
BY DEF Faults, Ways

LEMMA FreshHandle ==
    ASSUME DiskIsSound
    PROVE  FreshIo(disk) \in Handles /\ Buffered(FreshIo(disk), disk)
<1> DEFINE i == FreshIo(disk)
           at == MAPS_START - 1
<1>1. /\ at \in 0 .. MAPS_START - 1 /\ at # 0 /\ at \in Addresses
      /\ MAPS_START \in Nat
      /\ 0 \in Addresses /\ 1 \in Addresses
  BY Regions, Constants DEF Addresses
<1>2. disk[at] \in Images /\ BitsOf(disk[at]) \in Bitmaps
  BY <1>1, ImageViews DEF DiskIsSound, Disks
<1>3. [e \in 0 .. Maps - 1 |-> 0] \in Locations
  BY Constants DEF Locations
<1>4. Total(Sizes(disk)) \in 0 .. MaxTotal
  BY DEF DiskIsSound
<1>5. 0 \in 0 .. MaxSize /\ 0 \in Nat /\ -1 \in Parts \cup {-1}
  BY Constants
<1>6. i \in Handles
  BY <1>1, <1>2, <1>3, <1>4, <1>5 DEF FreshIo, Handles
<1>7. i.bitmap_block_which = at /\ i.bitmap_block = BitsOf(disk[at]) /\ i.map_block_which = 0
  BY DEF FreshIo
<1> QED BY <1>6, <1>7 DEF Buffered

LEMMA MachineIsGood ==
    ASSUME DiskIsSound, HandleIsSound, NEW n \in Nat, NEW f \in Faults(n), NEW j \in Nat
    PROVE  LET m == Misreading(f, j)
           IN  /\ m \in Goods /\ m.disk = disk /\ m.ok = TRUE /\ m.notes = {} 
               /\ m.io = IF io = NoHandle THEN FreshIo(disk) ELSE io
<1> DEFINE i == IF io = NoHandle THEN FreshIo(disk) ELSE io
<1>1. i \in Handles /\ Buffered(i, disk)
  BY FreshHandle DEF HandleIsSound
<1>2. Misreading(f, j) = [disk |-> disk, io |-> i, left |-> f[1], how |-> f[2], junk |-> j,
                          ok |-> TRUE, notes |-> {}]
  BY DEF Misreading
<1>3. f[1] \in Int /\ f[2] \in Ways /\ disk \in Disks
  BY FaultsAre DEF DiskIsSound
<1> HIDE DEF i
<1>4. Misreading(f, j) \in Machines
  BY <1>1, <1>2, <1>3 DEF Machines
<1> QED BY <1>1, <1>2, <1>4 DEF Goods, i

LEMMA MachineDoes ==
    ASSUME DiskIsSound, HandleIsSound, NEW n \in Nat, NEW f \in Faults(n)
    PROVE  LET m == Machine(f)
           IN  /\ m \in Goods /\ m.disk = disk /\ m.ok = TRUE /\ m.notes = {} 
               /\ m.io = IF io = NoHandle THEN FreshIo(disk) ELSE io
BY MachineIsGood DEF Machine

LEMMA InitIsSound == Init => IndInv
<1> SUFFICES ASSUME Init PROVE DiskIsSound /\ HandleIsSound /\ ContentsAreKept
  BY DEF IndInv
<1>1. Data(1) \in Images /\ ~IsHeader(Data(1))
  BY DataImage DEF Contents
<1>2. disk = [b \in Addresses |-> Data(1)] /\ 0 \in Addresses
  BY Constants DEF Init, Addresses
<1>3. disk \in Disks /\ ~IsHeader(disk[0]) /\ OneHeader(disk)
  BY <1>1, <1>2 DEF Disks, OneHeader
<1>4. Sizes(disk) = [p \in Parts |-> 0] /\ \A p \in Parts : Sizes(disk)[p] = 0
  BY <1>3, SizesAreSizes
<1>5. Total(Sizes(disk)) \in 0 .. MaxTotal
  BY <1>4, NoPartitions, Constants
<1>6. DiskIsSound /\ HandleIsSound
  BY <1>3, <1>5 DEF DiskIsSound, HandleIsSound, Init
<1>7. may = [pb \in Parts \X (0 .. MaxSize - 1) |-> {0}]
  BY DEF Init
<1>8. /\ may \in [Parts \X (0 .. MaxSize - 1) -> SUBSET (Contents \cup {NoReply})]
      /\ remains \in [Parts \X (0 .. MaxSize - 1) -> SUBSET (Contents \cup {NoReply})]
  BY <1>7 DEF Contents, Init
<1>9. ASSUME NEW p \in Parts, NEW b \in 0 .. MaxSize - 1
      PROVE  0 \in may[<<p, b>>] /\ ~(b < Sizes(disk)[p])
  BY <1>4, <1>7
<1>10. ContentsAreKept
  BY <1>8, <1>9 DEF ContentsAreKept
<1> QED BY <1>6, <1>10

(* The entry that a handle has for a block, and the block that has the entry. *)
LEMMA EntryIs ==
    ASSUME DiskIsSound, HandleIsSound, NEW b \in 0 .. MaxSize - 1, IsOnDevice(b)
    PROVE  /\ EntryOf(b) \in Places /\ io # NoHandle /\ EntryOf(b) = io.offset + b
           /\ io.part \in Parts /\ IsHeader(disk[0]) /\ io \in Handles
<1>1. /\ io # NoHandle /\ io \in Handles /\ IsHeader(disk[0]) /\ io.part \in Parts
      /\ MapAddress(EntryOf(b)) < N
  BY DEF IsOnDevice, HandleIsSound
<1>2. io.offset \in Nat /\ b \in Nat /\ EntryOf(b) = io.offset + b
  BY <1>1, Constants DEF Handles, EntryOf
<1>3. EntryOf(b) \in Places
  BY <1>1, <1>2 DEF Places
<1> QED BY <1>1, <1>2, <1>3

LEMMA OwnerIs ==
    ASSUME DiskIsSound, ContentsAreKept, NEW e, Owners(e) # {}
    PROVE  \E q \in Parts, c \in 0 .. MaxSize - 1 :
              /\ c < Sizes(disk)[q] /\ e = TrueOffset(Sizes(disk), q) + c
              /\ e \in 0 .. Total(Sizes(disk)) - 1 /\ Owners(e) = {<<q, c>>}
<1> DEFINE S == Sizes(disk)
<1>1. DOMAIN may = Parts \X (0 .. MaxSize - 1)
  BY DEF ContentsAreKept
<1>2. PICK pb \in DOMAIN may : pb[2] < S[pb[1]] /\ TrueOffset(S, pb[1]) + pb[2] = e
  BY DEF Owners
<1>3. PICK q \in Parts, c \in 0 .. MaxSize - 1 : pb = <<q, c>>
  BY <1>1
<1>4. S \in SizeTables /\ \A p \in Parts : S[p] \in Nat
  BY SizesAreSizes DEF DiskIsSound
<1>5. c < S[q] /\ e = TrueOffset(S, q) + c
  BY <1>2, <1>3
<1> HIDE DEF S
<1>6. c \in 0 .. S[q] - 1
  BY <1>3, <1>4, <1>5
<1>7. /\ e \in 0 .. Total(S) - 1
      /\ \A p \in Parts : \A b \in 0 .. S[p] - 1 : <<q, c>> # <<p, b>> => e # TrueOffset(S, p) + b
  BY <1>4, <1>5, <1>6, EntryOfBlock
<1>8. ASSUME NEW o \in Owners(e) PROVE o = <<q, c>>
  <2>1. PICK p \in Parts, b \in 0 .. MaxSize - 1 : o = <<p, b>>
    BY <1>1 DEF Owners
  <2>2. b < S[p] /\ TrueOffset(S, p) + b = e
    BY <2>1 DEF Owners, S
  <2>3. b \in 0 .. S[p] - 1
    BY <1>4, <2>1, <2>2
  <2> QED BY <1>7, <2>1, <2>2, <2>3
<1>9. <<q, c>> \in Owners(e)
  BY <1>1, <1>3, <1>5 DEF Owners, S
<1>10. Owners(e) = {<<q, c>>}
  BY <1>8, <1>9
<1> QED BY <1>3, <1>5, <1>7, <1>10 DEF S

(* The invariant of a state with the same disk and contents needs a look at the handle only. *)
LEMMA SameDisk ==
    ASSUME DiskIsSound, ContentsAreKept, disk' = disk, may' = may, remains' = remains, HandleIsSound'
    PROVE  IndInv'
<1>1. DiskIsSound'
  BY DEF DiskIsSound
<1>2. ContentsAreKept'
  BY DEF ContentsAreKept
<1> QED BY <1>1, <1>2 DEF IndInv

LEMMA CachesKeep == ASSUME IndInv, ClearCaches PROVE IndInv'
<1>1. DiskIsSound /\ HandleIsSound /\ ContentsAreKept
  BY DEF IndInv, ClearCaches
<1>2. /\ io \in Handles /\ io # NoHandle /\ disk' = disk /\ may' = may /\ remains' = remains
      /\ io' = [io EXCEPT !.bitmap_block_which = 0, !.map_block_which = 0]
  BY <1>1 DEF ClearCaches, HandleIsSound
<1>3. 0 \in 0 .. MAPS_START - 1
  BY Regions
<1>4. io' \in Handles /\ io'.bitmap_block_which = 0 /\ io'.map_block_which = 0
      /\ io'.part = io.part
  BY <1>2, <1>3 DEF Handles
<1>5. HandleIsSound'
  BY <1>1, <1>2, <1>4 DEF HandleIsSound, Buffered
<1> QED BY <1>1, <1>2, <1>5, SameDisk

LEMMA CloseKeeps == ASSUME IndInv, Close PROVE IndInv'
<1>1. DiskIsSound /\ HandleIsSound /\ ContentsAreKept
  BY DEF IndInv, Close
<1>2. HandleIsSound'
  BY DEF Close, HandleIsSound
<1> QED BY <1>1, <1>2, SameDisk DEF Close

LEMMA ReadBlockKeeps ==
    ASSUME IndInv, NEW b \in 0 .. MaxSize - 1, ReadBlock(b)
    PROVE  IndInv' /\ AlignedReadsAreTheirOwn'
<1>1. IsOnDevice(b) /\ disk' = disk /\ may' = may /\ remains' = remains /\ mishaps = {}
  BY DEF ReadBlock, Ends
<1>2. DiskIsSound /\ HandleIsSound /\ ContentsAreKept
  BY <1>1 DEF IndInv
<1> DEFINE e == EntryOf(b)
<1>3. /\ e \in Places /\ io # NoHandle /\ e = io.offset + b
      /\ io.part \in Parts /\ IsHeader(disk[0]) /\ io \in Handles
  BY <1>1, <1>2, EntryIs
<1> HIDE DEF e
<1>4. PICK f \in Faults(2) :
          LET o == OpenMap(Machine(f), e)
              loc == MapLoc(o, e)
              m == IF loc > 1 THEN BaseRead(o) ELSE o
          IN  /\ io' = IF Died(m) THEN NoHandle ELSE m.io
              /\ reply' = IF ~m.ok \/ Died(m) \/ loc = 1 THEN NoReply
                          ELSE [part |-> io.part, at |-> b,
                                val |-> IF loc = 0 THEN 0 ELSE DataOf(disk[loc])]
  BY DEF ReadBlock, e
<1> DEFINE o == OpenMap(Machine(f), e)
           loc == MapLoc(o, e)
           m == IF loc > 1 THEN BaseRead(o) ELSE o
<1>5. Machine(f) \in Goods /\ Machine(f).disk = disk /\ Machine(f).io = io
  BY <1>2, <1>3, MachineDoes
<1>6. /\ o \in Goods /\ Follows(o, Machine(f)) /\ o.disk = disk
      /\ o.ok => MapLoc(o, e) = Entry(disk, e)
  BY <1>3, <1>5, OpenMapDoes
<1>7. /\ m.io = o.io /\ (m.ok => o.ok)
  <2>1. o \in Machines
    BY <1>6 DEF Goods
  <2> HIDE DEF o
  <2> QED BY <2>1, ReadDoes DEF Follows
<1>8. /\ o.io \in Handles /\ Buffered(o.io, disk) /\ o.io.part = io.part
      /\ o.io.count = io.count /\ o.io.offset = io.offset
  BY <1>5, <1>6 DEF Goods, Machines, Follows
<1>9. /\ io' = IF Died(m) THEN NoHandle ELSE m.io
      /\ reply' = IF ~m.ok \/ Died(m) \/ loc = 1 THEN NoReply
                  ELSE [part |-> io.part, at |-> b,
                        val |-> IF loc = 0 THEN 0 ELSE DataOf(disk[loc])]
  BY <1>4
<1> HIDE DEF m, o
<1>10. HandleIsSound'
  BY <1>1, <1>2, <1>3, <1>7, <1>8, <1>9 DEF HandleIsSound
<1>11. IndInv'
  BY <1>1, <1>2, <1>10, SameDisk
<1>12. ASSUME reply' # NoReply, io' # NoHandle, io'.offset = TrueOffset(Sizes(disk), io'.part),
              reply'.at < Sizes(disk)[io'.part]
       PROVE  reply'.val \in may[<<reply'.part, reply'.at>>] \cup remains[<<reply'.part, reply'.at>>]
  <2>1. m.ok /\ reply' = [part |-> io.part, at |-> b, val |-> IF loc = 0 THEN 0 ELSE DataOf(disk[loc])]
    BY <1>9, <1>12
  <2>2. loc = Entry(disk, e)
    BY <1>6, <1>7, <2>1
  <2>3. io' = o.io /\ e = TrueOffset(Sizes(disk), io.part) + b
    BY <1>3, <1>7, <1>8, <1>9, <1>12
  <2>4. b < Sizes(disk)[io.part]
    BY <1>8, <1>12, <2>1, <2>3
  <2>5. Val(disk, e) \in may[<<io.part, b>>] \cup remains[<<io.part, b>>]
    BY <1>2, <1>3, <2>3, <2>4 DEF ContentsAreKept
  <2>6. Val(disk, e) = IF loc = 0 THEN 0 ELSE DataOf(disk[loc])
    BY <2>2 DEF Val
  <2> QED BY <2>1, <2>5, <2>6
<1> QED BY <1>1, <1>11, <1>12 DEF AlignedReadsAreTheirOwn

LEMMA SetupDoes ==
    ASSUME NEW m \in Goods, IsHeader(m.disk[0])
    PROVE  LET s == SetupIo(m)
           IN  s \in Goods /\ Follows(s, m) /\ s.disk = m.disk /\ s.io = m.io
<1> DEFINE h == BaseRead(m)
           s == BaseReads(h, bitmap_len)
<1>1. m \in Machines /\ Buffered(m.io, m.disk)
  BY DEF Goods
<1>2. h \in Machines /\ Follows(h, m) /\ h.disk = m.disk /\ h.io = m.io
  BY <1>1, ReadDoes
<1>3. SetupIo(m) = s
  BY DEF SetupIo
<1> HIDE DEF h
<1>4. s \in Machines /\ Follows(s, h) /\ s.disk = h.disk /\ s.io = h.io
  BY <1>2, ReadsDo, Regions
<1> HIDE DEF s
<1>5. Follows(s, m)
  BY <1>2, <1>4 DEF Follows
<1> QED BY <1>1, <1>2, <1>3, <1>4, <1>5 DEF Goods

LEMMA HeaderSizesAre ==
    ASSUME NEW m \in Machines
    PROVE  /\ \A p \in Parts : HeaderSizes(m)[p] \in Nat
           /\ ~Fails(m) => HeaderSizes(m) = Sizes(m.disk)
<1>1. m.disk \in Disks /\ m.junk \in Nat
  BY DEF Machines
<1> QED BY <1>1, SizesAreSizes DEF HeaderSizes

LEMMA OpenKeeps ==
    ASSUME IndInv, NEW p \in Parts, OpenPartition(p)
    PROVE  IndInv'
<1>1. io = NoHandle /\ IsHeader(disk[0]) /\ disk' = disk /\ may' = may /\ remains' = remains /\ mishaps = {}
  BY DEF OpenPartition, Ends
<1>2. DiskIsSound /\ HandleIsSound /\ ContentsAreKept
  BY <1>1 DEF IndInv
<1>3. 3 + bitmap_len \in Nat
  BY Regions
<1>4. PICK f \in Faults(3 + bitmap_len), j \in Junk :
          LET s == SetupIo(Misreading(f, j))
              h == ReadHeader(s)
              o == ReadHeader(h)
              size == HeaderSizes(s)[p]
              opened == [o.io EXCEPT !.part = p, !.count = size,
                                     !.offset = PartitionOffset(HeaderSizes(h), p)]
              m == IF size = 0 THEN h ELSE o
          IN  io' = IF m.ok /\ ~Died(m) /\ size > 0 THEN opened ELSE NoHandle
  BY DEF OpenPartition
<1> DEFINE s == SetupIo(Misreading(f, j))
           h == ReadHeader(s)
           o == ReadHeader(h)
           size == HeaderSizes(s)[p]
           offset == PartitionOffset(HeaderSizes(h), p)
           opened == [o.io EXCEPT !.part = p, !.count = size, !.offset = offset]
<1>5. io' # NoHandle => io' = opened
  BY <1>4
<1>6. Misreading(f, j) \in Goods /\ Misreading(f, j).disk = disk
  <2>1. j \in Nat
    BY GeometryAssumption
  <2> QED BY <1>2, <1>3, <2>1, MachineIsGood
<1>7. s \in Goods /\ s.disk = disk
  BY <1>1, <1>6, SetupDoes
<1> HIDE DEF s
<1>8. h \in Goods /\ h.disk = disk
  BY <1>7, ReadHeaderDoes
<1> HIDE DEF h
<1>9. o \in Goods /\ o.disk = disk
  BY <1>8, ReadHeaderDoes
<1> HIDE DEF o
<1>10. size \in Nat /\ HeaderSizes(h)[p] \in Nat
  BY <1>7, <1>8, HeaderSizesAre DEF Goods
<1>11. p \in Nat
  BY Constants DEF Parts
<1>12. offset \in Nat
  BY <1>10, <1>11 DEF PartitionOffset
<1> HIDE DEF size, offset
<1>13. o.io \in Handles /\ Buffered(o.io, disk)
  BY <1>9 DEF Goods, Machines
<1>14. /\ opened \in Handles /\ opened.part = p
       /\ opened.bitmap_block = o.io.bitmap_block /\ opened.bitmap_block_which = o.io.bitmap_block_which
       /\ opened.map_block = o.io.map_block /\ opened.map_block_which = o.io.map_block_which
  BY <1>10, <1>12, <1>13 DEF Handles
<1> HIDE DEF opened
<1>15. Buffered(opened, disk)
  BY <1>13, <1>14 DEF Buffered
<1>16. HandleIsSound'
  BY <1>1, <1>5, <1>14, <1>15 DEF HandleIsSound
<1> QED BY <1>1, <1>2, <1>16, SameDisk

LEMMA DataOfImage ==
    ASSUME NEW c \in Images
    PROVE  DataOf(c) \in Contents \cup {NoReply}
BY DEF DataOf, Images

(* A write behind the map does not touch what is in the buffers. *)
LEMMA WriteDataDoes ==
    ASSUME NEW t \in 0 .. MaxTotal, NEW m \in Goods, m.io.map_block_which < DATA_START(t),
           NEW at \in DATA_START(t) .. N - 1, NEW c \in Images
    PROVE  LET r == BaseWrite(m, at, c)
               written == [m.disk EXCEPT ![at] = c]
           IN  /\ r \in Goods /\ Follows(r, m) /\ r.io = m.io
               /\ r.disk \in {m.disk, written}
               /\ r.ok => r.disk = written
<1> DEFINE r == BaseWrite(m, at, c)
           written == [m.disk EXCEPT ![at] = c]
<1>0. /\ m \in Machines /\ m.io \in Handles /\ m.disk \in Disks /\ Buffered(m.io, m.disk)
      /\ at \in Addresses
  BY TotalPlaces, Constants DEF Goods, Machines, Addresses
<1>1. /\ r \in Machines /\ Follows(r, m) /\ r.io = m.io
      /\ r.disk \in {m.disk, written} /\ (r.ok => r.disk = written)
  BY <1>0, WriteDoes
<1>2. /\ m.io.map_block_which \in Addresses /\ m.io.map_block_which # at
      /\ m.io.bitmap_block_which \in Addresses /\ m.io.bitmap_block_which # at
  <2>1. m.io.map_block_which \in {0} \cup MAPS_START .. N - 1 /\ m.io.bitmap_block_which \in 0 .. MAPS_START - 1
    BY <1>0 DEF Handles
  <2> QED BY <2>1, TotalPlaces, Constants DEF Addresses
<1>3. /\ written[m.io.map_block_which] = m.disk[m.io.map_block_which]
      /\ written[m.io.bitmap_block_which] = m.disk[m.io.bitmap_block_which]
  BY <1>0, <1>2 DEF Disks
<1> HIDE DEF written, r
<1>4. Buffered(r.io, r.disk)
  BY <1>0, <1>1, <1>3 DEF Buffered
<1> QED BY <1>1, <1>4 DEF Goods, r, written

(* The disk with a new block for an entry, marked in the bitmap. *)
LEMMA AllocatedIs ==
    ASSUME NEW t \in 0 .. MaxTotal, NEW d \in Disks, Owned(d, t), OneHeader(d),
           NEW e \in 0 .. t - 1, NEW to \in Addresses, ~Used(d, to)
    PROVE  LET n == Marked(Mapped(d, e, to), to, TRUE)
           IN  OnlyFor(n, d, t, e) /\ Entry(n, e) = to /\ Val(n, e) = DataOf(d[to])
<1> DEFINE k == Mapped(d, e, to)
           n == Marked(k, to, TRUE)
           at == BitmapAddress(to)
<1>1. to \in DATA_START(t) .. N - 1 /\ to # 0 /\ \A o \in 0 .. t - 1 : Entry(d, o) # to
  BY FreeIsNobodys
<1>2. /\ k \in Disks /\ k[0] = d[0] /\ OneHeader(k)
      /\ \A x \in Addresses : x >= DATA_START(t) => k[x] = d[x]
      /\ \A o \in 0 .. t - 1 : Entry(k, o) = IF o = e THEN to ELSE Entry(d, o)
      /\ \A x \in Addresses : Used(k, x) <=> Used(d, x)
      /\ \A o \in (0 .. t - 1) \ {e} : Val(k, o) = Val(d, o)
  BY <1>1, MapToFree
<1> HIDE DEF k
<1>3. /\ n \in Disks /\ \A x \in Addresses \ {at} : n[x] = k[x]
      /\ ~IsHeader(n[at])
      /\ \A x \in Addresses : Used(n, x) <=> IF x = to THEN TRUE ELSE Used(k, x)
  <2>1. k \in Disks
    BY <1>2
  <2> QED BY <2>1, MarkedIs
<1>4. at \in 1 .. MAPS_START - 1 /\ at \in Addresses
  BY BitmapAddresses
<1> HIDE DEF n, at
<1>5. n[0] = d[0] /\ OneHeader(n)
  BY <1>2, <1>3, <1>4, Constants DEF OneHeader, Addresses
<1>6. \A o \in 0 .. t - 1 : Entry(n, o) = Entry(k, o)
  BY <1>3, <1>4, TotalPlaces, SameMaps, Constants DEF Addresses
<1>7. Owned(n, t)
  <2>1. \A o \in 0 .. t - 1 : Entry(n, o) = IF o = e THEN to ELSE Entry(d, o)
    BY <1>2, <1>6
  <2>2. Used(n, to) /\ \A x \in Addresses : Used(d, x) => Used(n, x)
    BY <1>2, <1>3
  <2> QED BY <1>1, <2>1, <2>2, OwnedMore
<1>8. \A x \in Addresses : x >= DATA_START(t) => n[x] = d[x]
  BY <1>2, <1>3, <1>4, TotalPlaces
<1>9. Entry(n, e) = to /\ Val(n, e) = DataOf(d[to])
  <2>1. Entry(n, e) = to
    BY <1>2, <1>6
  <2>2. n[to] = d[to]
    BY <1>1, <1>8, TotalPlaces
  <2> QED BY <1>1, <2>1, <2>2 DEF Val
<1>10. ASSUME NEW o \in (0 .. t - 1) \ {e} PROVE Val(n, o) = Val(d, o)
  <2>1. Entry(n, o) = Entry(d, o)
    BY <1>2, <1>6
  <2>2. Entry(d, o) # 0 => Entry(d, o) \in Addresses /\ Entry(d, o) >= DATA_START(t)
    BY EntryIsAddress, TotalPlaces
  <2> QED BY <1>8, <2>1, <2>2, ValFrame
<1>11. OnlyFor(n, d, t, e)
  BY <1>3, <1>5, <1>7, <1>10 DEF OnlyFor
<1> QED BY <1>9, <1>11 DEF n, k

(* One block of one partition has changed, to something that it may hold. *)
LEMMA OneBlockChanges ==
    ASSUME DiskIsSound, ContentsAreKept, IsHeader(disk[0]), NEW p \in Parts,
           NEW b \in 0 .. MaxSize - 1, b < Sizes(disk)[p],
           NEW e, e = TrueOffset(Sizes(disk), p) + b,
           disk' \in Disks, disk'[0] = disk[0], OneHeader(disk'), Owned(disk', Total(Sizes(disk))),
           \A o \in (0 .. Total(Sizes(disk)) - 1) \ {e} : Val(disk', o) = Val(disk, o),
           NEW S, S \subseteq Contents \cup {NoReply}, NEW R, R \subseteq Contents \cup {NoReply},
           Val(disk', e) \in S \cup R,
           may' = [pb \in DOMAIN may |-> IF pb = <<p, b>> THEN S ELSE may[pb]],
           remains' = [pb \in DOMAIN may |-> IF pb = <<p, b>> THEN R ELSE remains[pb]]
    PROVE  DiskIsSound' /\ ContentsAreKept'
<1>1. Sizes(disk') = Sizes(disk) /\ IsHeader(disk'[0])
  BY SameHeader
<1>2. DiskIsSound'
  BY <1>1 DEF DiskIsSound
<1>3. <<p, b>> \in Parts \X (0 .. MaxSize - 1)
  OBVIOUS
<1>4. /\ may' \in [Parts \X (0 .. MaxSize - 1) -> SUBSET (Contents \cup {NoReply})]
      /\ remains' \in [Parts \X (0 .. MaxSize - 1) -> SUBSET (Contents \cup {NoReply})]
  BY <1>3 DEF ContentsAreKept
<1>5. ASSUME NEW q \in Parts, NEW c \in 0 .. MaxSize - 1
      PROVE  IF c < Sizes(disk)[q]
               THEN Val(disk', TrueOffset(Sizes(disk), q) + c) \in may'[<<q, c>>] \cup remains'[<<q, c>>]
             ELSE 0 \in may'[<<q, c>>]
  <2>1. CASE <<q, c>> = <<p, b>>
    <3>1. may'[<<q, c>>] = S /\ remains'[<<q, c>>] = R
      BY <1>3, <2>1 DEF ContentsAreKept
    <3> QED BY <2>1, <3>1
  <2>2. CASE <<q, c>> # <<p, b>>
    <3>1. may'[<<q, c>>] = may[<<q, c>>] /\ remains'[<<q, c>>] = remains[<<q, c>>]
      BY <1>3, <2>2 DEF ContentsAreKept
    <3>2. ASSUME c < Sizes(disk)[q]
          PROVE  Val(disk', TrueOffset(Sizes(disk), q) + c) \in may[<<q, c>>] \cup remains[<<q, c>>]
      <4>1. Sizes(disk) \in SizeTables /\ Sizes(disk)[q] \in Nat /\ Sizes(disk)[p] \in Nat
        BY SizesAreSizes DEF DiskIsSound
      <4>2. c \in 0 .. Sizes(disk)[q] - 1 /\ b \in 0 .. Sizes(disk)[p] - 1
        BY <3>2, <4>1
      <4>3. /\ TrueOffset(Sizes(disk), q) + c \in 0 .. Total(Sizes(disk)) - 1
            /\ TrueOffset(Sizes(disk), q) + c # e
        BY <2>2, <4>1, <4>2, EntryOfBlock
      <4> QED BY <3>2, <4>3 DEF ContentsAreKept
    <3> QED BY <3>1, <3>2 DEF ContentsAreKept
  <2> QED BY <2>1, <2>2
<1>6. ContentsAreKept'
  BY <1>1, <1>4, <1>5 DEF ContentsAreKept
<1> QED BY <1>2, <1>6

LEMMA StoppedIs ==
    ASSUME NEW m \in Goods
    PROVE  LET r == [m EXCEPT !.ok = FALSE]
           IN  r \in Goods /\ r.disk = m.disk /\ r.io = m.io /\ r.notes = m.notes /\ r.how = m.how /\ ~r.ok
<1> DEFINE r == [m EXCEPT !.ok = FALSE]
<1>1. m \in Machines /\ Buffered(m.io, m.disk)
  BY DEF Goods
<1>2. r \in Machines
  BY <1>1 DEF Machines
<1>3. r.disk = m.disk /\ r.io = m.io /\ r.notes = m.notes /\ r.how = m.how /\ r.ok = FALSE
  BY <1>1 DEF Machines
<1> HIDE DEF r
<1> QED BY <1>1, <1>2, <1>3 DEF Goods, r

LEMMA AllocateDoes ==
    ASSUME NEW t \in 0 .. MaxTotal, NEW m \in Goods, m.ok, m.io.map_block_which < DATA_START(t),
           Owned(m.disk, t), OneHeader(m.disk), NEW e \in 0 .. t - 1, Entry(m.disk, e) = 0
    PROVE  LET r == Allocate(m, e).m
               to == Allocate(m, e).loc
           IN  /\ r \in Goods /\ Follows(r, m) /\ r.io.map_block_which < DATA_START(t)
               /\ \/ ~r.ok /\ r.disk = m.disk
                  \/ ~r.ok /\ Entry(r.disk, e) # 0 /\ ~Used(r.disk, Entry(r.disk, e))
                  \/ /\ OnlyFor(r.disk, m.disk, t, e)
                     /\ to \in DATA_START(t) .. N - 1 /\ Entry(r.disk, e) = to
                     /\ Val(r.disk, e) = DataOf(m.disk[to])
               /\ r.ok => Entry(r.disk, e) = to /\ OnlyFor(r.disk, m.disk, t, e)
<1> DEFINE s == ScanFree(m)
           to == s.loc
           q == SetMapLoc(s.m, e, to)
           k == MarkAs(q, to, TRUE)
<1>0. m.disk \in Disks /\ e \in Places /\ MapAddress(e) < DATA_START(t) /\ 0 < DATA_START(t)
  BY TotalPlaces DEF Goods, Machines
<1>1. /\ s.m \in Goods /\ to \in Addresses /\ Follows(s.m, m) /\ s.m.disk = m.disk
      /\ s.m.io.map_block_which = m.io.map_block_which
      /\ to # 0 => s.m.ok /\ ~Used(m.disk, to)
  BY ScanFinds DEF Scans
<1>2. CASE to = 0
  <2>1. Allocate(m, e) = [m |-> [s.m EXCEPT !.ok = FALSE], loc |-> to]
    BY <1>2 DEF Allocate
  <2> HIDE DEF s
  <2> DEFINE r == [s.m EXCEPT !.ok = FALSE]
  <2>2. r \in Goods /\ r.disk = s.m.disk /\ r.io = s.m.io /\ r.notes = s.m.notes /\ r.how = s.m.how /\ ~r.ok
    BY <1>1, StoppedIs
  <2> HIDE DEF r
  <2>3. Allocate(m, e).m = r
    BY <2>1 DEF r
  <2>4. Follows(r, m)
    BY <1>1, <2>2 DEF Follows
  <2> QED BY <1>1, <2>2, <2>3, <2>4
<1>3. CASE to # 0
  <2>1. Allocate(m, e).m = k /\ Allocate(m, e).loc = to
    BY <1>3 DEF Allocate
  <2>2. to \in 0 .. N /\ to \in DATA_START(t) .. N - 1 /\ \A o \in 0 .. t - 1 : Entry(m.disk, o) # to
    BY <1>0, <1>1, <1>3, FreeIsNobodys, Constants DEF Addresses
  <2> HIDE DEF s, to
  <2> DEFINE d1 == Mapped(m.disk, e, to)
             d2 == Marked(d1, to, TRUE)
  <2>3. /\ q \in Goods /\ Follows(q, s.m) /\ q.disk \in {m.disk, d1} /\ (q.ok => q.disk = d1)
        /\ q.io.map_block_which \in {0, MapAddress(e), m.io.map_block_which}
    BY <1>0, <1>1, <2>2, SetMapLocDoes
  <2> HIDE DEF q
  <2>4. /\ k \in Goods /\ Follows(k, q) /\ k.disk \in {q.disk, Marked(q.disk, to, TRUE)}
        /\ k.ok => k.disk = Marked(q.disk, to, TRUE)
        /\ k.io.map_block_which = q.io.map_block_which
    BY <1>1, <2>3, MarkDoes
  <2> HIDE DEF k
  <2>5. Follows(k, m) /\ k.io.map_block_which < DATA_START(t) /\ (k.ok => q.ok) /\ (~q.ok => k = q)
    BY <1>0, <1>1, <2>3, <2>4 DEF Follows
  <2>6. /\ Entry(d1, e) = to /\ \A x \in Addresses : Used(d1, x) <=> Used(m.disk, x)
    BY <1>0, <2>2, MapToFree
  <2>7. OnlyFor(d2, m.disk, t, e) /\ Entry(d2, e) = to /\ Val(d2, e) = DataOf(m.disk[to])
    <3> DEFINE d == m.disk
    <3>1. d \in Disks /\ to \in Addresses /\ Owned(d, t) /\ OneHeader(d)
      BY <1>0, <1>1
    <3>2. ~Used(d, to)
      BY <1>1, <1>3
    <3> HIDE DEF d, d1, d2
    <3>3. LET n == Marked(Mapped(d, e, to), to, TRUE)
          IN  OnlyFor(n, d, t, e) /\ Entry(n, e) = to /\ Val(n, e) = DataOf(d[to])
      BY <3>1, <3>2, AllocatedIs, ZenonT(40)
    <3> QED BY <3>3 DEF d, d1, d2
  <2> HIDE DEF d1
  <2>8. k.ok => k.disk = d2
    BY <2>3, <2>4, <2>5
  <2>9. k.disk \in {m.disk, d1, d2} /\ (k.disk = m.disk => ~k.ok \/ k.disk = d2) /\ (k.disk = d1 => ~k.ok \/ k.disk = d2)
    BY <2>3, <2>4, <2>5, <2>8
  <2>10. k.ok \in BOOLEAN
    BY <2>4 DEF Goods, Machines
  <2> HIDE DEF d2
  <2>11. CASE k.disk = d2
    BY <2>1, <2>2, <2>4, <2>5, <2>7, <2>11
  <2>12. CASE k.disk = m.disk /\ ~k.ok
    BY <2>1, <2>4, <2>5, <2>12
  <2>13. CASE k.disk = d1 /\ ~k.ok
    <3>1. Entry(k.disk, e) = to /\ ~Used(k.disk, to)
      BY <1>1, <1>3, <2>6, <2>13
    <3> QED BY <1>3, <2>1, <2>4, <2>5, <2>13, <3>1
  <2> QED BY <2>9, <2>11, <2>12, <2>13
<1> QED BY <1>2, <1>3

LEMMA WriteBlockKeeps ==
    ASSUME IndInv, NEW b \in 0 .. MaxSize - 1, WriteBlock(b)
    PROVE  IndInv'
<1> SUFFICES ASSUME mishaps' = {} PROVE DiskIsSound' /\ HandleIsSound' /\ ContentsAreKept'
  BY DEF IndInv
<1>1. IsOnDevice(b) /\ mishaps = {}
  BY DEF WriteBlock, Ends
<1>2. DiskIsSound /\ HandleIsSound /\ ContentsAreKept
  BY <1>1 DEF IndInv
<1> DEFINE e == EntryOf(b)
           t == Total(Sizes(disk))
<1>3. /\ e \in Places /\ io # NoHandle
      /\ io.part \in Parts /\ IsHeader(disk[0]) /\ io \in Handles
  BY <1>1, <1>2, EntryIs
<1> HIDE DEF e
<1> DEFINE Old(o) == MapLoc(o, e)
           Start(o) == IF Old(o) = 0 /\ o.ok THEN Allocate(o, e) ELSE [m |-> o, loc |-> Old(o)]
           End(o, a, v) == IF ~o.ok \/ Old(o) = 1 THEN [o EXCEPT !.ok = FALSE]
                           ELSE BaseWrite(a.m, a.loc, Data(v))
           Outcome(o, v, m, f) ==
              LET new == Entry(m.disk, e)
                  fresh == o.ok /\ new # Old(o)
              IN
              /\ disk' = m.disk
              /\ io' = IF Died(m) THEN NoHandle ELSE m.io
              /\ Ends(m, f)
              /\ may' = [pb \in DOMAIN may |->
                    IF pb \notin Owners(e) THEN may[pb]
                    ELSE IF m.ok THEN {v} ELSE may[pb] \cup {v}]
              /\ remains' = [pb \in DOMAIN may |->
                    IF pb \notin Owners(e) THEN remains[pb]
                    ELSE IF m.ok THEN {}
                    ELSE IF fresh THEN {DataOf(disk[new])} ELSE remains[pb]]
              /\ mishaps' = m.notes
                    \cup (IF Owners(e) = {} THEN {"astray"} ELSE {})
                    \cup (IF ~m.ok /\ o.ok /\ new # 0 /\ ~Used(m.disk, new) THEN {"unmarked"} ELSE {})
<1>4. PICK v \in Values[io.part], f \in Faults(7 + bitmap_len) :
         \E o \in {OpenMap(Machine(f), e)} :
            /\ o.ok => Old(o) < N
            /\ \E a \in {Start(o)} : \E m \in {End(o, a, v)} : Outcome(o, v, m, f)
  BY DEF WriteBlock, e
<1>41. PICK o \in {OpenMap(Machine(f), e)} : \E a \in {Start(o)} : \E m \in {End(o, a, v)} : Outcome(o, v, m, f)
  <2> HIDE DEF Outcome, Start, End
  <2> QED BY <1>4
<1>42. PICK a \in {Start(o)} : \E m \in {End(o, a, v)} : Outcome(o, v, m, f)
  <2> HIDE DEF Outcome, Start, End
  <2> QED BY <1>41
<1>43. PICK m \in {End(o, a, v)} : Outcome(o, v, m, f)
  <2> HIDE DEF Outcome, Start, End
  <2> QED BY <1>42
<1>431. Owners(e) # {}
  BY <1>43
<1>432. PICK p \in Parts, z \in 0 .. MaxSize - 1 :
           /\ z < Sizes(disk)[p] /\ e = TrueOffset(Sizes(disk), p) + z
           /\ e \in 0 .. t - 1 /\ Owners(e) = {<<p, z>>}
  <2> HIDE DEF Outcome, Start, End
  <2> QED BY <1>2, <1>431, OwnerIs
<1> DEFINE M == Machine(f)
           old == MapLoc(o, e)
           new == Entry(m.disk, e)
           S == IF m.ok THEN {v} ELSE may[<<p, z>>] \cup {v}
           R == IF m.ok THEN {}
                ELSE IF o.ok /\ new # old THEN {DataOf(disk[new])}
                ELSE remains[<<p, z>>]
<1>44. /\ o = OpenMap(M, e)
       /\ a = IF old = 0 /\ o.ok THEN Allocate(o, e) ELSE [m |-> o, loc |-> old]
       /\ m = IF ~o.ok \/ old = 1 THEN [o EXCEPT !.ok = FALSE] ELSE BaseWrite(a.m, a.loc, Data(v))
  OBVIOUS
<1> HIDE DEF Start, End
<1>5. /\ disk' = m.disk /\ io' = IF Died(m) THEN NoHandle ELSE m.io
      /\ ~(~m.ok /\ o.ok /\ new # 0 /\ ~Used(m.disk, new))
  BY <1>43
<1>6. /\ may' = [pb \in DOMAIN may |-> IF pb = <<p, z>> THEN S ELSE may[pb]]
      /\ remains' = [pb \in DOMAIN may |-> IF pb = <<p, z>> THEN R ELSE remains[pb]]
  BY <1>43, <1>432
<1> HIDE DEF Outcome
<1>7. /\ e \in 0 .. t - 1
      /\ t \in 0 .. MaxTotal /\ disk \in Disks /\ Owned(disk, t) /\ OneHeader(disk)
  BY <1>2, <1>3, <1>432 DEF DiskIsSound
<1>8. M \in Goods /\ M.disk = disk /\ M.io = io /\ M.ok = TRUE
  <2>1. 7 + bitmap_len \in Nat
    BY Regions
  <2> QED BY <1>2, <1>3, <2>1, MachineDoes
<1> HIDE DEF M
<1>9. /\ o \in Goods /\ Follows(o, M) /\ o.disk = disk
      /\ o.ok => old = Entry(disk, e) /\ o.io.map_block_which = MapAddress(e)
  BY <1>3, <1>8, <1>44, OpenMapDoes
<1>10. (o.ok => o.io.map_block_which < DATA_START(t)) /\ MapAddress(e) < DATA_START(t) /\ DATA_START(t) \in Nat /\ 1 < DATA_START(t)
  BY <1>7, <1>9, TotalPlaces
<1>11. v \in Contents /\ Data(v) \in Images /\ DataOf(Data(v)) = v /\ ~IsHeader(Data(v))
  <2>1. v \in Contents
    BY <1>3 DEF Contents
  <2> QED BY <2>1, DataImage
<1>12. /\ may[<<p, z>>] \subseteq Contents \cup {NoReply} /\ remains[<<p, z>>] \subseteq Contents \cup {NoReply}
       /\ Val(disk, e) \in may[<<p, z>>] \cup remains[<<p, z>>]
  BY <1>2, <1>432 DEF ContentsAreKept
<1>13. o.ok \in BOOLEAN
  BY <1>9 DEF Goods, Machines
<1> HIDE DEF t
<1> DEFINE Goal == /\ m \in Goods /\ Follows(m, M)
                   /\ OnlyFor(m.disk, disk, t, e) /\ Val(m.disk, e) \in S \cup R
                   /\ S \subseteq Contents \cup {NoReply} /\ R \subseteq Contents \cup {NoReply}
<1>14. OnlyFor(disk, disk, t, e)
  BY <1>7 DEF OnlyFor
<1>15. ASSUME ~o.ok \/ old = 1 PROVE Goal
  <2>1. m = [o EXCEPT !.ok = FALSE]
    BY <1>15, <1>44
  <2>2. /\ m \in Goods /\ m.disk = disk /\ m.io = o.io /\ m.notes = o.notes /\ m.how = o.how /\ ~m.ok
    BY <1>9, <2>1, StoppedIs
  <2>3. ~(o.ok /\ new # old)
    BY <1>9, <2>2
  <2>4. S = may[<<p, z>>] \cup {v} /\ R = remains[<<p, z>>]
    BY <2>2, <2>3
  <2> HIDE DEF S, R
  <2>5. Follows(m, M)
    BY <1>8, <1>9, <2>2 DEF Follows
  <2> QED BY <1>11, <1>12, <1>14, <2>2, <2>4, <2>5
<1>16. ASSUME o.ok /\ old # 1 /\ old # 0 PROVE Goal
  <2>1. m = BaseWrite(o, old, Data(v)) /\ old = Entry(disk, e)
    BY <1>9, <1>16, <1>44
  <2>2. old \in DATA_START(t) .. N - 1
    BY <1>7, <1>16, <2>1, EntryIsAddress
  <2> DEFINE d1 == [disk EXCEPT ![old] = Data(v)]
  <2>3. m \in Goods /\ Follows(m, o) /\ m.io = o.io /\ m.disk \in {disk, d1} /\ (m.ok => m.disk = d1)
    BY <1>7, <1>9, <1>10, <1>11, <1>16, <2>1, <2>2, WriteDataDoes
  <2>4. OnlyFor(d1, disk, t, e) /\ Entry(d1, e) = old /\ Val(d1, e) = v
    <3>1. Entry(disk, e) = old /\ old # 0
      BY <1>16, <2>1
    <3> HIDE DEF old
    <3> DEFINE c == Data(v)
    <3>2. e \in 0 .. t - 1 /\ t \in 0 .. MaxTotal /\ disk \in Disks /\ Owned(disk, t) /\ OneHeader(disk)
      BY <1>7
    <3>3. c \in Images /\ ~IsHeader(c) /\ DataOf(c) = v /\ d1 = [disk EXCEPT ![old] = c]
      BY <1>11
    <3> HIDE DEF c, d1
    <3> DEFINE n == [disk EXCEPT ![Entry(disk, e)] = c]
    <3>4. OnlyFor(n, disk, t, e) /\ Entry(n, e) = Entry(disk, e) /\ Val(n, e) = DataOf(c)
      <4>1. Entry(disk, e) # 0 /\ c \in Images /\ ~IsHeader(c)
        BY <3>1, <3>3
      <4> HIDE <3>1, <3>3
      <4> QED BY <3>2, <4>1, WriteToOwned
    <3>5. d1 = n
      BY <3>1, <3>3
    <3> HIDE DEF n
    <3> QED BY <3>1, <3>3, <3>4, <3>5
  <2> HIDE DEF d1, old
  <2>5. new = old
    BY <2>1, <2>3, <2>4
  <2>6. Follows(m, M)
    BY <1>9, <2>3 DEF Follows
  <2>7. OnlyFor(m.disk, disk, t, e)
    BY <1>14, <2>3, <2>4
  <2>8. Val(m.disk, e) \in S \cup R /\ S \subseteq Contents \cup {NoReply} /\ R \subseteq Contents \cup {NoReply}
    BY <1>11, <1>12, <2>3, <2>4, <2>5
  <2> HIDE DEF S, R
  <2> QED BY <2>3, <2>6, <2>7, <2>8
<1>17. ASSUME o.ok /\ old = 0 PROVE Goal
  <2> DEFINE k == Allocate(o, e).m
             to == Allocate(o, e).loc
  <2>1. m = BaseWrite(k, to, Data(v)) /\ Entry(disk, e) = 0
    BY <1>9, <1>17, <1>44
  <2>2. /\ k \in Goods /\ Follows(k, o) /\ k.io.map_block_which < DATA_START(t)
        /\ \/ ~k.ok /\ k.disk = disk
           \/ ~k.ok /\ Entry(k.disk, e) # 0 /\ ~Used(k.disk, Entry(k.disk, e))
           \/ /\ OnlyFor(k.disk, disk, t, e)
              /\ to \in DATA_START(t) .. N - 1 /\ Entry(k.disk, e) = to
              /\ Val(k.disk, e) = DataOf(disk[to])
        /\ k.ok => Entry(k.disk, e) = to /\ OnlyFor(k.disk, disk, t, e)
    BY <1>7, <1>9, <1>10, <1>17, <2>1, AllocateDoes
  <2> HIDE DEF k, to
  <2>3. ~k.ok => m = k
    BY <2>1 DEF BaseWrite, Then
  <2>4. Follows(k, M)
    BY <1>9, <2>2 DEF Follows
  <2>5. CASE ~k.ok /\ k.disk = disk
    <3>1. m = k /\ new = old
      BY <1>17, <2>1, <2>3, <2>5
    <3>2. S = may[<<p, z>>] \cup {v} /\ R = remains[<<p, z>>]
      BY <2>5, <3>1
    <3> HIDE DEF S, R, new, old
    <3> QED BY <1>11, <1>12, <1>14, <2>2, <2>4, <2>5, <3>1, <3>2
  <2>6. CASE ~k.ok /\ Entry(k.disk, e) # 0 /\ ~Used(k.disk, Entry(k.disk, e))
    BY <1>5, <1>17, <2>3, <2>6
  <2>7. CASE /\ OnlyFor(k.disk, disk, t, e)
             /\ to \in DATA_START(t) .. N - 1 /\ Entry(k.disk, e) = to
             /\ Val(k.disk, e) = DataOf(disk[to])
    <3> DEFINE d2 == [k.disk EXCEPT ![to] = Data(v)]
    <3>1. m \in Goods /\ Follows(m, k) /\ m.io = k.io /\ m.disk \in {k.disk, d2} /\ (m.ok => m.disk = d2)
      BY <1>7, <1>11, <2>1, <2>2, <2>7, WriteDataDoes
    <3>2. to # 0 /\ to \in Addresses
      BY <1>10, <2>7, Constants DEF Addresses
    <3>3. /\ k.disk \in Disks /\ Owned(k.disk, t) /\ OneHeader(k.disk) /\ k.disk[0] = disk[0]
          /\ \A x \in (0 .. t - 1) \ {e} : Val(k.disk, x) = Val(disk, x)
      BY <2>7 DEF OnlyFor
    <3>4. OnlyFor(d2, k.disk, t, e) /\ Entry(d2, e) = to /\ Val(d2, e) = v
      <4> DEFINE c == Data(v)
      <4>1. c \in Images /\ ~IsHeader(c) /\ DataOf(c) = v /\ Entry(k.disk, e) = to /\ Entry(k.disk, e) # 0
            /\ t \in 0 .. MaxTotal /\ e \in 0 .. t - 1 /\ d2 = [k.disk EXCEPT ![Entry(k.disk, e)] = c]
        BY <1>7, <1>11, <2>7, <3>2
      <4> HIDE DEF c, d2, to
      <4> QED BY <3>3, <4>1, WriteToOwned
    <3> HIDE DEF d2
    <3>5. OnlyFor(d2, disk, t, e)
      BY <3>3, <3>4 DEF OnlyFor
    <3>6. new = to /\ new # old
      BY <1>17, <2>7, <3>1, <3>2, <3>4
    <3>7. DataOf(disk[to]) \in Contents \cup {NoReply}
      BY <1>7, <3>2, DataOfImage DEF Disks
    <3> HIDE DEF new, old
    <3>8. Val(m.disk, e) \in S \cup R /\ S \subseteq Contents \cup {NoReply} /\ R \subseteq Contents \cup {NoReply}
      BY <1>11, <1>12, <1>17, <2>7, <3>1, <3>4, <3>6, <3>7
    <3> HIDE DEF S, R
    <3>9. Follows(m, M)
      BY <2>4, <3>1 DEF Follows
    <3>10. OnlyFor(m.disk, disk, t, e)
      BY <2>7, <3>1, <3>5
    <3> QED BY <2>2, <3>1, <3>8, <3>9, <3>10
  <2> QED BY <2>2, <2>5, <2>6, <2>7
<1>18. Goal
  BY <1>13, <1>15, <1>16, <1>17
<1> HIDE DEF S, R
<1>19. DiskIsSound' /\ ContentsAreKept'
  BY <1>2, <1>3, <1>432, <1>5, <1>6, <1>7, <1>18, OneBlockChanges DEF OnlyFor, t
<1>20. HandleIsSound'
  <2>1. m.io \in Handles /\ Buffered(m.io, m.disk) /\ m.io.part = io.part
    BY <1>8, <1>18 DEF Goods, Machines, Follows
  <2>2. m.disk[0] = disk[0]
    BY <1>18 DEF OnlyFor
  <2> QED BY <1>3, <1>5, <2>1, <2>2 DEF HandleIsSound
<1> QED BY <1>19, <1>20

-----------------------------------------------------------------------------
(* The calls whose result is not looked at. *)

(* What r, reached from m also past such calls, has in common with m. *)
GoesOn(r, m) ==
    /\ m.notes \subseteq r.notes /\ r.io.total = m.io.total
    /\ r.ok /\ r.notes = {} => m.ok

LEMMA FollowsGoesOn == ASSUME NEW r, NEW m, Follows(r, m) PROVE GoesOn(r, m)
BY DEF Follows, GoesOn

LEMMA GoesOnAndOn ==
    ASSUME NEW r, NEW q, NEW m, GoesOn(r, q), GoesOn(q, m) PROVE GoesOn(r, m)
BY DEF GoesOn

LEMMA IgnoringDoes ==
    ASSUME NEW m \in Goods
    PROVE  LET r == Ignoring(m)
           IN  /\ r \in Goods /\ r.disk = m.disk /\ r.io = m.io /\ GoesOn(r, m)
               /\ m.ok => r = m
<1> DEFINE r == [m EXCEPT !.ok = TRUE, !.notes = @ \cup {"ignored"}]
<1>1. m \in Machines /\ m.ok \in BOOLEAN /\ m.notes \in SUBSET Notes
  BY DEF Goods, Machines
<1>2. /\ r \in Machines /\ r.disk = m.disk /\ r.io = m.io /\ r.notes = m.notes \cup {"ignored"}
  <2> DEFINE n == m.notes \cup {"ignored"}
  <2>0. n \in SUBSET Notes
    BY <1>1 DEF Notes
  <2>1. n \in SUBSET Notes /\ r = [m EXCEPT !.ok = TRUE, !.notes = n]
    BY <2>0
  <2> HIDE DEF n, r
  <2>2. /\ [m EXCEPT !.ok = TRUE, !.notes = n] \in Machines
        /\ [m EXCEPT !.ok = TRUE, !.notes = n].disk = m.disk
        /\ [m EXCEPT !.ok = TRUE, !.notes = n].io = m.io
        /\ [m EXCEPT !.ok = TRUE, !.notes = n].notes = n
    BY <1>1, <2>1 DEF Machines
  <2> QED BY <2>1, <2>2 DEF n
<1>3. Ignoring(m) = IF m.ok \/ Died(m) THEN m ELSE r
  BY DEF Ignoring
<1> HIDE DEF r
<1>4. r \in Goods
  BY <1>2 DEF Goods
<1>5. GoesOn(r, m) /\ GoesOn(m, m)
  BY <1>2 DEF GoesOn
<1> QED BY <1>1, <1>2, <1>3, <1>4, <1>5

(* A range of blocks marked in the bitmap, all of it if nothing is ignored. *)
LEMMA MarkRangeDoes ==
    ASSUME NEW m \in Goods, NEW first \in Nat, NEW count \in Nat, first + count <= N
    PROVE  LET r == MarkRange(m, first, count)
           IN  /\ r \in Goods /\ GoesOn(r, m)
               /\ r.io.map_block_which = m.io.map_block_which
               /\ OneHeader(m.disk) => OneHeader(r.disk)
               /\ \A x \in Addresses : x \notin 1 .. MAPS_START - 1 => r.disk[x] = m.disk[x]
               /\ \A x \in Addresses : Used(m.disk, x) => Used(r.disk, x)
               /\ r.ok /\ r.notes = {} => \A x \in first .. first + count - 1 : Used(r.disk, x)
<1>0. PICK f : Marks(f, m, first, count) /\ MarkRange(m, first, count) = f[count]
  BY MarkRangeRuns
<1>1. /\ f[0] = m
      /\ \A k \in 1 .. count : f[k] = Ignoring(MarkAs(f[k - 1], first + k - 1, TRUE))
      /\ MarkRange(m, first, count) = f[count]
  BY <1>0 DEF Marks
<1> DEFINE P(r, k) ==
              /\ r \in Goods /\ GoesOn(r, m)
              /\ r.io.map_block_which = m.io.map_block_which
              /\ OneHeader(m.disk) => OneHeader(r.disk)
              /\ \A x \in Addresses : x \notin 1 .. MAPS_START - 1 => r.disk[x] = m.disk[x]
              /\ \A x \in Addresses : Used(m.disk, x) => Used(r.disk, x)
              /\ r.ok /\ r.notes = {} => \A x \in first .. first + k - 1 : Used(r.disk, x)
           G == {k \in Nat : P(f[k], k)}
<1>2. 0 \in G
  BY <1>1 DEF GoesOn
<1>3. ASSUME NEW k \in 1 .. count, k - 1 \in G PROVE k \in G
  <2> DEFINE y == f[k - 1]
             b == first + k - 1
             q == MarkAs(y, b, TRUE)
             d == Marked(y.disk, b, TRUE)
             r == Ignoring(q)
  <2>0. b \in Addresses /\ k \in Nat /\ k - 1 \in Nat
    BY Constants DEF Addresses
  <2>1. P(y, k - 1) /\ f[k] = r
    <3> HIDE DEF P
    <3> QED BY <1>1, <1>3
  <2> HIDE DEF y
  <2>2. /\ q \in Goods /\ Follows(q, y) /\ q.io.map_block_which = y.io.map_block_which
        /\ q.disk \in {y.disk, d} /\ (q.ok => q.disk = d)
    BY <2>0, <2>1, MarkDoes
  <2>3. r \in Goods /\ r.disk = q.disk /\ r.io = q.io /\ GoesOn(r, q) /\ (q.ok => r = q)
    <3> HIDE DEF q
    <3> QED BY <2>2, IgnoringDoes
  <2>4. /\ BitmapAddress(b) \in 1 .. MAPS_START - 1 /\ BitmapAddress(b) \in Addresses
        /\ y.disk \in Disks
    BY <2>0, <2>1, BitmapAddresses DEF Goods, Machines
  <2>41. /\ \A x \in Addresses \ {BitmapAddress(b)} : d[x] = y.disk[x]
         /\ ~IsHeader(d[BitmapAddress(b)])
    <3> HIDE DEF b
    <3> QED BY <2>0, <2>4, MarkedIs
  <2>42. \A x \in Addresses : Used(d, x) <=> IF x = b THEN TRUE ELSE Used(y.disk, x)
    <3> HIDE DEF b
    <3> QED BY <2>0, <2>4, MarkedIs
  <2> HIDE DEF d
  <2>5. /\ \A x \in Addresses \ {BitmapAddress(b)} : d[x] = y.disk[x]
        /\ ~IsHeader(d[BitmapAddress(b)])
        /\ Used(d, b) /\ \A x \in Addresses : Used(y.disk, x) => Used(d, x)
    BY <2>0, <2>41, <2>42
  <2> HIDE DEF q, r
  <2>6. GoesOn(r, m) /\ r.io.map_block_which = m.io.map_block_which
    <3>1. GoesOn(q, y)
      BY <2>2, FollowsGoesOn
    <3> QED BY <2>1, <2>2, <2>3, <3>1 DEF GoesOn
  <2>7. OneHeader(m.disk) => OneHeader(r.disk)
    BY <2>1, <2>2, <2>3, <2>5 DEF OneHeader
  <2>8. \A x \in Addresses : x \notin 1 .. MAPS_START - 1 => r.disk[x] = m.disk[x]
    BY <2>1, <2>2, <2>3, <2>4, <2>5
  <2>9. \A x \in Addresses : Used(y.disk, x) => Used(r.disk, x)
    BY <2>0, <2>2, <2>3, <2>5
  <2>10. ASSUME r.ok /\ r.notes = {}, NEW x \in first .. first + k - 1 PROVE Used(r.disk, x)
    <3>1. q.ok /\ y.ok /\ y.notes = {} /\ Used(r.disk, b)
      BY <2>1, <2>2, <2>3, <2>5, <2>10 DEF GoesOn, Follows
    <3>2. x \in Addresses /\ (x = b \/ x \in first .. first + (k - 1) - 1)
      BY Constants DEF Addresses
    <3> QED BY <2>1, <2>9, <3>1, <3>2
  <2>11. P(r, k)
    <3>1. \A x \in Addresses : Used(m.disk, x) => Used(r.disk, x)
      BY <2>1, <2>9
    <3> QED BY <2>3, <2>6, <2>7, <2>8, <2>10, <3>1
  <2> HIDE DEF P
  <2> QED BY <2>0, <2>1, <2>11
<1> HIDE DEF G
<1>4. count \in G
  BY <1>2, <1>3, LoopInduction
<1> QED BY <1>1, <1>4 DEF G

(* A write to a block that no buffer holds. *)
LEMMA WriteAside ==
    ASSUME NEW m \in Goods, NEW at \in Addresses, NEW c \in Images,
           at # 0 => at # m.io.bitmap_block_which /\ at # m.io.map_block_which
    PROVE  LET r == BaseWrite(m, at, c)
               written == [m.disk EXCEPT ![at] = c]
           IN  /\ r \in Goods /\ Follows(r, m) /\ r.io = m.io
               /\ r.disk \in {m.disk, written} /\ (r.ok => r.disk = written)
<1> DEFINE r == BaseWrite(m, at, c)
           written == [m.disk EXCEPT ![at] = c]
<1>1. m \in Machines /\ m.io \in Handles /\ m.disk \in Disks /\ Buffered(m.io, m.disk)
  BY DEF Goods, Machines
<1>2. /\ r \in Machines /\ Follows(r, m) /\ r.io = m.io /\ written \in Disks
      /\ r.disk \in {m.disk, written} /\ (r.ok => r.disk = written)
  BY <1>1, WriteDoes
<1>3. written[at] = c /\ \A x \in Addresses \ {at} : written[x] = m.disk[x]
  BY <1>1 DEF Disks
<1>4. m.io.bitmap_block_which \in Addresses /\ m.io.map_block_which \in Addresses
  <2>1. m.io.map_block_which \in {0} \cup MAPS_START .. N - 1 /\ m.io.bitmap_block_which \in 0 .. MAPS_START - 1
    BY <1>1 DEF Handles
  <2>2. 0 \in 0 .. MaxTotal
    BY Constants
  <2> QED BY <2>1, <2>2, TotalPlaces, Constants DEF Addresses
<1> HIDE DEF r, written
<1>5. Buffered(r.io, r.disk)
  BY <1>1, <1>2, <1>3, <1>4 DEF Buffered
<1> QED BY <1>2, <1>3, <1>5 DEF Goods, r, written

LEMMA ClearBitmapDoes ==
    ASSUME NEW m \in Goods, m.io.bitmap_block_which = 0
    PROVE  LET r == ClearBitmap(m)
           IN  /\ r \in Goods /\ GoesOn(r, m) /\ r.disk[0] = m.disk[0]
               /\ OneHeader(m.disk) => OneHeader(r.disk)
<1>1. PICK f : /\ f[0] = m
               /\ \A k \in 1 .. bitmap_len :
                     f[k] = Ignoring(BaseWrite(f[k - 1], BITMAP_START + k - 1, Bitmap({})))
               /\ ClearBitmap(m) = f[bitmap_len]
  BY ClearBitmapRuns
<1> DEFINE P(r) ==
              /\ r \in Goods /\ GoesOn(r, m) /\ r.disk[0] = m.disk[0] /\ r.io.bitmap_block_which = 0
              /\ OneHeader(m.disk) => OneHeader(r.disk)
           G == {k \in Nat : P(f[k])}
<1>2. 0 \in G
  BY <1>1 DEF GoesOn
<1>3. ASSUME NEW k \in 1 .. bitmap_len, k - 1 \in G PROVE k \in G
  <2> DEFINE y == f[k - 1]
             at == BITMAP_START + k - 1
             c == Bitmap({})
             q == BaseWrite(y, at, c)
             r == Ignoring(q)
             d == [y.disk EXCEPT ![at] = c]
  <2>1. P(y) /\ f[k] = r
    <3> HIDE DEF P
    <3> QED BY <1>1, <1>3
  <2>2. /\ at \in 1 .. MAPS_START - 1 /\ at \in Addresses /\ k \in Nat
    <3>1. 0 \in 0 .. MaxTotal
      BY Constants
    <3> QED BY <3>1, Regions, TotalPlaces, Constants DEF Addresses, BITMAP_START
  <2>3. c \in Images /\ ~IsHeader(c)
    BY BitmapImage DEF Bitmaps
  <2>4. y.io.map_block_which # at
    <3>1. y.io.map_block_which \in {0} \cup MAPS_START .. N - 1
      BY <2>1 DEF Goods, Machines, Handles
    <3> QED BY <2>2, <3>1, Regions, Constants
  <2>41. y \in Goods /\ at # y.io.bitmap_block_which /\ at # y.io.map_block_which /\ at \in Addresses
    BY <2>1, <2>2, <2>4
  <2> HIDE DEF y, at, c
  <2>5. /\ q \in Goods /\ Follows(q, y) /\ q.io = y.io /\ q.disk \in {y.disk, d}
        /\ d[at] = c /\ \A x \in Addresses \ {at} : d[x] = y.disk[x]
    <3>1. q \in Goods /\ Follows(q, y) /\ q.io = y.io /\ q.disk \in {y.disk, d}
      BY <2>3, <2>41, WriteAside
    <3>2. y.disk \in Disks
      BY <2>41 DEF Goods, Machines
    <3>3. d[at] = c /\ \A x \in Addresses \ {at} : d[x] = y.disk[x]
      BY <2>41, <3>2 DEF Disks
    <3> QED BY <3>1, <3>3
  <2> HIDE DEF q, d
  <2>6. r \in Goods /\ r.disk = q.disk /\ r.io = q.io /\ GoesOn(r, q)
    BY <2>5, IgnoringDoes
  <2> HIDE DEF r
  <2>7. GoesOn(r, m)
    <3>1. GoesOn(q, y)
      BY <2>5, FollowsGoesOn
    <3> QED BY <2>1, <2>6, <3>1, GoesOnAndOn
  <2>8. OneHeader(m.disk) => OneHeader(r.disk)
    BY <2>1, <2>3, <2>5, <2>6 DEF OneHeader
  <2>9. r.disk[0] = m.disk[0]
    <3>1. 0 \in Addresses \ {at}
      BY <2>2, Constants, Regions DEF Addresses
    <3> QED BY <2>1, <2>5, <2>6, <3>1
  <2>10. P(r)
    BY <2>1, <2>5, <2>6, <2>7, <2>8, <2>9
  <2> HIDE DEF P
  <2> QED BY <2>1, <2>2, <2>10
<1> HIDE DEF G
<1>4. bitmap_len \in G
  BY <1>2, <1>3, Regions, LoopInduction
<1> QED BY <1>1, <1>4 DEF G

LEMMA InitializeKeeps == ASSUME IndInv, Initialize PROVE IndInv'
<1> SUFFICES ASSUME mishaps' = {} PROVE IndInv'
  BY DEF IndInv
<1>1. ~IsHeader(disk[0]) /\ io' = io /\ may' = may /\ remains' = remains /\ mishaps = {}
  BY DEF Initialize, Ends
<1>2. DiskIsSound /\ HandleIsSound /\ ContentsAreKept
  BY <1>1 DEF IndInv
<1>3. io = NoHandle /\ 6 + 4 * bitmap_len \in Nat
  BY <1>1, <1>2, Regions DEF HandleIsSound
<1>4. PICK f \in Faults(6 + 4 * bitmap_len) : \E m \in {Initialized(Machine(f))} :
          /\ disk' = m.disk
          /\ Ends(m, f)
          /\ mishaps' = m.notes \cup IF IsHeader(m.disk[0]) /\ ~m.ok THEN {"unfinished"} ELSE {}
  BY DEF Initialize
<1> DEFINE M == Machine(f)
           m == Initialized(M)
           none == [p \in Parts |-> 0]
           h == BaseWrite(M, 0, Header(none))
           s == SetupIo(h)
           z == [s EXCEPT !.io = [s.io EXCEPT !.bitmap_block_which = 0]]
           c == ClearBitmap(z)
           k == MarkRange(c, 0, DATA_START(0))
           D == [M.disk EXCEPT ![0] = Header(none)]
<1>5. disk' = m.disk /\ m.notes = {} /\ (IsHeader(m.disk[0]) => m.ok)
  BY <1>4
<1>6. m = IF h.ok THEN IF s.ok THEN k ELSE s ELSE h
  BY DEF Initialized, Then
<1> HIDE DEF m
<1>7. M \in Goods /\ M.disk = disk /\ disk \in Disks /\ OneHeader(disk)
  BY <1>2, <1>3, MachineDoes DEF DiskIsSound
<1> HIDE DEF M
<1>8. none \in SizeTables /\ Total(none) = 0 /\ Header(none) \in Images
      /\ SizesOf(Header(none)) = none /\ IsHeader(Header(none)) /\ 0 \in Addresses
  BY NoPartitions, HeaderImage, Constants DEF Addresses
<1> HIDE DEF none
<1>9. /\ h \in Goods /\ Follows(h, M) /\ h.disk \in {disk, D} /\ (h.ok => h.disk = D)
      /\ D \in Disks /\ D[0] = Header(none) /\ \A x \in Addresses \ {0} : D[x] = disk[x]
  <2>1. h \in Goods /\ Follows(h, M) /\ h.disk \in {disk, D} /\ (h.ok => h.disk = D)
    BY <1>7, <1>8, WriteAside
  <2>2. D \in Disks /\ D[0] = Header(none) /\ \A x \in Addresses \ {0} : D[x] = disk[x]
    BY <1>7, <1>8 DEF Disks
  <2> QED BY <2>1, <2>2
<1> HIDE DEF h, D
<1>10. OneHeader(D) /\ Sizes(D) = none /\ IsHeader(D[0])
  BY <1>7, <1>8, <1>9 DEF OneHeader, Sizes
<1>11. CASE ~h.ok
  <2>1. disk' = disk
    BY <1>5, <1>6, <1>9, <1>10, <1>11
  <2>2. HandleIsSound'
    BY <1>1, <1>3 DEF HandleIsSound
  <2> QED BY <1>1, <1>2, <2>1, <2>2, SameDisk
<1>12. CASE h.ok
  <2>1. s \in Goods /\ s.disk = D
    BY <1>9, <1>10, <1>12, SetupDoes
  <2> HIDE DEF s
  <2>2. m = k
    BY <1>5, <1>6, <1>10, <1>12, <2>1
  <2>3. z \in Goods /\ z.disk = D /\ z.io.bitmap_block_which = 0
    <3>1. s \in Machines /\ s.io \in Handles /\ Buffered(s.io, s.disk)
      BY <2>1 DEF Goods, Machines
    <3> DEFINE i == [s.io EXCEPT !.bitmap_block_which = 0]
    <3>2. i \in Handles /\ i.bitmap_block_which = 0 /\ i.map_block_which = s.io.map_block_which /\ i.map_block = s.io.map_block
      BY <3>1, Regions DEF Handles
    <3> HIDE DEF i
    <3>3. z = [s EXCEPT !.io = i]
      BY DEF i
    <3> HIDE DEF z
    <3>4. z \in Machines /\ z.io = i /\ z.disk = s.disk
      BY <3>1, <3>2, <3>3 DEF Machines
    <3>5. Buffered(z.io, z.disk)
      BY <3>1, <3>2, <3>4 DEF Buffered
    <3> QED BY <2>1, <3>2, <3>4, <3>5 DEF Goods
  <2> HIDE DEF z
  <2>4. c \in Goods /\ c.disk[0] = D[0] /\ OneHeader(c.disk)
    BY <1>10, <2>3, ClearBitmapDoes
  <2> HIDE DEF c
  <2>5. /\ 0 \in Nat /\ DATA_START(0) \in Nat /\ 0 + DATA_START(0) <= N /\ 0 \in 0 .. MaxTotal
    <3>1. 0 \in 0 .. MaxTotal
      BY Constants
    <3> QED BY <3>1, TotalPlaces, Constants
  <2>6. /\ k \in Goods /\ OneHeader(k.disk)
        /\ \A x \in Addresses : x \notin 1 .. MAPS_START - 1 => k.disk[x] = c.disk[x]
        /\ k.ok /\ k.notes = {} => \A x \in 0 .. 0 + DATA_START(0) - 1 : Used(k.disk, x)
    <3> DEFINE first == 0
               n == DATA_START(0)
    <3>1. first \in Nat /\ n \in Nat /\ first + n <= N
      BY <2>5
    <3>2. k = MarkRange(c, first, n)
      OBVIOUS
    <3>3. first = 0 /\ n = DATA_START(0)
      OBVIOUS
    <3> HIDE DEF first, n, k
    <3> DEFINE r == MarkRange(c, first, n)
    <3>0. c \in Goods
      BY <2>4
    <3>4. /\ r \in Goods /\ GoesOn(r, c)
          /\ r.io.map_block_which = c.io.map_block_which
          /\ OneHeader(c.disk) => OneHeader(r.disk)
          /\ \A x \in Addresses : x \notin 1 .. MAPS_START - 1 => r.disk[x] = c.disk[x]
          /\ \A x \in Addresses : Used(c.disk, x) => Used(r.disk, x)
          /\ r.ok /\ r.notes = {} => \A x \in first .. first + n - 1 : Used(r.disk, x)
      BY <3>0, <3>1, MarkRangeDoes
    <3>5. first .. first + n - 1 = 0 .. 0 + DATA_START(0) - 1
      BY <3>3
    <3> HIDE DEF r
    <3> QED BY <2>4, <3>2, <3>4, <3>5 DEF r
  <2> HIDE DEF k
  <2>7. k.disk[0] = D[0] /\ k.disk \in Disks
    BY <1>8, <2>4, <2>6 DEF Goods, Machines
  <2>8. Sizes(k.disk) = none /\ IsHeader(k.disk[0])
    BY <1>10, <2>7, SameHeader
  <2>9. Owned(k.disk, 0)
    <3>1. \A x \in 0 .. 0 + DATA_START(0) - 1 : Used(k.disk, x)
      BY <1>5, <2>2, <2>6, <2>8
    <3>2. \A x \in 0 .. DATA_START(0) - 1 : Used(k.disk, x)
      BY <2>5, <3>1
    <3> QED BY <3>2 DEF Owned
  <2>10. DiskIsSound'
    BY <1>5, <1>8, <2>2, <2>5, <2>6, <2>7, <2>8, <2>9 DEF DiskIsSound
  <2>11. HandleIsSound'
    BY <1>1, <1>3 DEF HandleIsSound
  <2>12. ContentsAreKept'
    <3>1. /\ may' \in [Parts \X (0 .. MaxSize - 1) -> SUBSET (Contents \cup {NoReply})]
          /\ remains' \in [Parts \X (0 .. MaxSize - 1) -> SUBSET (Contents \cup {NoReply})]
          /\ \A p \in Parts : \A b \in 0 .. MaxSize - 1 : 0 \in may'[<<p, b>>]
      <4>1. \A p \in Parts : Sizes(disk)[p] = 0
        BY <1>1, <1>7, SizesAreSizes
      <4>2. \A b \in 0 .. MaxSize - 1 : ~(b < 0)
        OBVIOUS
      <4> QED BY <1>1, <1>2, <4>1, <4>2 DEF ContentsAreKept
    <3>2. \A p \in Parts : Sizes(disk')[p] = 0
      BY <1>5, <2>2, <2>8 DEF none
    <3>3. \A b \in 0 .. MaxSize - 1 : ~(b < 0)
      OBVIOUS
    <3> QED BY <3>1, <3>2, <3>3 DEF ContentsAreKept
  <2> QED BY <2>10, <2>11, <2>12 DEF IndInv
<1>13. h.ok \in BOOLEAN
  BY <1>9 DEF Goods, Machines
<1> QED BY <1>11, <1>12, <1>13

-----------------------------------------------------------------------------
(* partitioner_set_part_size: data that is in the way of the map. *)

(* What is noted once is not forgotten, whatever state the disk is in. *)
Remembers(r, m) == "notes" \in DOMAIN r /\ m.notes \subseteq r.notes

LEMMA CallsRemember ==
    ASSUME NEW m, "notes" \in DOMAIN m
    PROVE  /\ \A n : Remembers(BaseReads(m, n), m)
           /\ \A at, c : Remembers(BaseWrite(m, at, c), m)
<1>1. ASSUME NEW n PROVE Remembers(BaseReads(m, n), m)
  BY DEF Remembers, BaseReads, Then
<1>2. ASSUME NEW at, NEW c PROVE Remembers(BaseWrite(m, at, c), m)
  BY DEF Remembers, BaseWrite, Then
<1> QED BY <1>1, <1>2

LEMMA OpensRemember ==
    ASSUME NEW m, "notes" \in DOMAIN m
    PROVE  /\ \A b : Remembers(OpenBitmap(m, b), m)
           /\ \A e : Remembers(OpenMap(m, e), m)
<1>1. Remembers(BaseRead(m), m) /\ Remembers(m, m)
  BY CallsRemember DEF BaseRead, Remembers
<1> DEFINE r == BaseRead(m)
<1> HIDE DEF r
<1>2. ASSUME NEW i PROVE Remembers([r EXCEPT !.io = i], m)
  BY <1>1 DEF Remembers, r
<1>3. ASSUME NEW b PROVE Remembers(OpenBitmap(m, b), m)
  BY <1>1, <1>2 DEF OpenBitmap, Then, r
<1>4. ASSUME NEW e PROVE Remembers(OpenMap(m, e), m)
  BY <1>1, <1>2 DEF OpenMap, Then, r
<1> QED BY <1>3, <1>4

LEMMA ChangesRemember ==
    ASSUME NEW m, "notes" \in DOMAIN m
    PROVE  /\ \A b, used : Remembers(MarkAs(m, b, used), m)
           /\ \A e, to : Remembers(SetMapLoc(m, e, to), m)
<1>1. ASSUME NEW b, NEW used PROVE Remembers(MarkAs(m, b, used), m)
  <2> DEFINE o == OpenBitmap(m, b)
             bits == IF used THEN o.io.bitmap_block \cup {b % Bits} ELSE o.io.bitmap_block \ {b % Bits}
             w == BaseWrite(o, BitmapAddress(b), Bitmap(bits))
  <2>1. Remembers(o, m)
    BY OpensRemember
  <2> HIDE DEF o, bits
  <2>2. Remembers(w, o)
    BY <2>1, CallsRemember DEF Remembers
  <2> HIDE DEF w
  <2>3. ASSUME NEW i PROVE Remembers([w EXCEPT !.io = i], m)
    BY <2>1, <2>2 DEF Remembers
  <2>4. \E i : MarkAs(m, b, used) = Then(o, [w EXCEPT !.io = i])
    BY DEF MarkAs, o, w, bits
  <2> QED BY <2>1, <2>3, <2>4 DEF Then
<1>2. ASSUME NEW e, NEW to PROVE Remembers(SetMapLoc(m, e, to), m)
  <2> DEFINE o == OpenMap(m, e)
             locs == [o.io.map_block EXCEPT ![e % Maps] = to]
             w == BaseWrite(o, MapAddress(e), MapBlock(locs))
  <2>1. Remembers(o, m)
    BY OpensRemember
  <2> HIDE DEF o, locs
  <2>2. Remembers(w, o)
    BY <2>1, CallsRemember DEF Remembers
  <2> HIDE DEF w
  <2>3. ASSUME NEW i PROVE Remembers([w EXCEPT !.io = i], m)
    BY <2>1, <2>2 DEF Remembers
  <2>4. \E i : SetMapLoc(m, e, to) = Then(o, [w EXCEPT !.io = i])
    BY DEF SetMapLoc, o, w, locs
  <2> QED BY <2>1, <2>3, <2>4 DEF Then
<1> QED BY <1>1, <1>2

LEMMA ScanRemembers ==
    ASSUME NEW m, "notes" \in DOMAIN m
    PROVE  Remembers(ScanFree(m).m, m)
<1>1. PICK f : /\ f[0] = [m |-> m, loc |-> 0, on |-> TRUE]
               /\ \A k \in 1 .. N : f[k] = ScanStep(f[k - 1], m.io.free_scan_from)
               /\ ScanFree(m) = f[N]
  BY ScanRuns
<1> DEFINE G == {k \in Nat : Remembers(f[k].m, m)}
<1>2. 0 \in G
  BY <1>1 DEF Remembers
<1>3. ASSUME NEW k \in 1 .. N, k - 1 \in G PROVE k \in G
  <2> DEFINE x == f[k - 1]
             at == x.m.io.free_scan_from
             o == OpenBitmap(x.m, at)
  <2>1. Remembers(x.m, m)
    BY <1>3
  <2>2. f[k] = ScanStep(x, m.io.free_scan_from)
    BY <1>1
  <2> HIDE DEF x
  <2>3. Remembers(o, x.m)
    BY <2>1, OpensRemember DEF Remembers
  <2>4. Remembers(o, m)
    BY <2>1, <2>3 DEF Remembers
  <2> DEFINE next == IF at + 1 >= N THEN 1 ELSE at + 1
             fails == [o EXCEPT !.ok = ~Died(o)]
             on == [o EXCEPT !.io = [o.io EXCEPT !.free_scan_from = next]]
  <2>5. f[k].m = IF ~x.on THEN x.m ELSE IF ~o.ok THEN fails
                 ELSE IF at % Bits \notin o.io.bitmap_block THEN o ELSE on
    BY <2>2 DEF ScanStep
  <2> HIDE DEF o, next
  <2>51. Remembers(fails, m) /\ Remembers(on, m)
    BY <2>4 DEF Remembers
  <2> HIDE DEF fails, on
  <2>6. Remembers(f[k].m, m)
    BY <2>1, <2>4, <2>5, <2>51
  <2> QED BY <2>6
<1> HIDE DEF G
<1>4. N \in G
  BY <1>2, <1>3, Constants, LoopInduction
<1> QED BY <1>1, <1>4 DEF G

LEMMA RemapRemembers ==
    ASSUME NEW m, "notes" \in DOMAIN m, NEW e, NEW bad
    PROVE  Remembers(RemapStep(m, e, bad), m)
<1> DEFINE o == OpenMap(m, e)
           loc == MapLoc(o, e)
           s == ScanFree(o)
           b == BaseRead(s.m)
           w == BaseWrite(b, s.loc, o.disk[loc])
           u == MarkAs(w, s.loc, TRUE)
           a == SetMapLoc(u, e, s.loc)
           done == MarkAs(a, loc, FALSE)
<1>1. Remembers(o, m)
  BY OpensRemember
<1> HIDE DEF o
<1>2. Remembers(s.m, o)
  BY <1>1, ScanRemembers DEF Remembers
<1> HIDE DEF s
<1>3. Remembers(b, s.m)
  BY <1>2, CallsRemember DEF Remembers, BaseRead
<1> HIDE DEF b
<1>4. Remembers(w, b)
  BY <1>3, CallsRemember DEF Remembers
<1> HIDE DEF w
<1>5. Remembers(u, w)
  BY <1>4, ChangesRemember DEF Remembers
<1> HIDE DEF u
<1>6. Remembers(a, u)
  BY <1>5, ChangesRemember DEF Remembers
<1> HIDE DEF a
<1>7. Remembers(done, a)
  BY <1>6, ChangesRemember DEF Remembers
<1> HIDE DEF done
<1>8. Remembers(done, m)
  BY <1>1, <1>2, <1>3, <1>4, <1>5, <1>6, <1>7 DEF Remembers
<1>9. \E n : Remap(o, e, loc, bad) = [done EXCEPT !.notes = @ \cup n]
  BY DEF Remap, done, a, u, w, b, s
<1>10. Remembers(Remap(o, e, loc, bad), m)
  BY <1>8, <1>9 DEF Remembers
<1>11. Remembers([o EXCEPT !.ok = FALSE], m)
  BY <1>1 DEF Remembers
<1> QED BY <1>1, <1>10, <1>11 DEF RemapStep, Then, o

(* r is m, with data moved to free blocks. *)
Moved(r, m, t) ==
    /\ r \in Goods /\ GoesOn(r, m) /\ r.io.map_block_which < DATA_START(t)
    /\ Unseen(r.disk, m.disk, t)

(* Only entry e of the map has changed. *)
OthersStay(n, d, t, e) == \A o \in (0 .. t - 1) \ {e} : Entry(n, o) = Entry(d, o)

LEMMA UnseenAndUnseen ==
    ASSUME NEW t, NEW n, NEW c, NEW d, Unseen(n, c, t), Unseen(c, d, t) PROVE Unseen(n, d, t)
BY DEF Unseen

LEMMA UnseenIs ==
    ASSUME NEW t, NEW d \in Disks, Owned(d, t), OneHeader(d) PROVE Unseen(d, d, t)
BY DEF Unseen

(* The map of a disk changed to a copy of a block, which is marked already. *)
LEMMA MapToCopy ==
    ASSUME NEW t \in 0 .. MaxTotal, NEW d \in Disks, Owned(d, t), OneHeader(d),
           NEW e \in 0 .. t - 1, Entry(d, e) # 0,
           NEW to \in DATA_START(t) .. N - 1, to # Entry(d, e), Used(d, to),
           \A o \in 0 .. t - 1 : Entry(d, o) # to, d[to] = d[Entry(d, e)]
    PROVE  LET n == Mapped(d, e, to)
           IN  /\ Unseen(n, d, t) /\ \A o \in 0 .. t - 1 : Entry(n, o) # Entry(d, e)
               /\ \A o \in 0 .. t - 1 : Entry(n, o) = IF o = e THEN to ELSE Entry(d, o)
<1> DEFINE n == Mapped(d, e, to)
<1>1. /\ n \in Disks /\ n[0] = d[0] /\ OneHeader(n)
      /\ \A o \in 0 .. t - 1 : Entry(n, o) = IF o = e THEN to ELSE Entry(d, o)
      /\ Val(n, e) = DataOf(d[to])
      /\ \A o \in (0 .. t - 1) \ {e} : Val(n, o) = Val(d, o)
      /\ Used(d, to) => Owned(n, t)
  BY MapToFree
<1> HIDE DEF n
<1>2. Val(n, e) = Val(d, e)
  BY <1>1 DEF Val
<1>3. Unseen(n, d, t)
  BY <1>1, <1>2 DEF Unseen
<1>4. \A o \in (0 .. t - 1) \ {e} : Entry(d, o) # Entry(d, e)
  BY DEF Owned
<1> QED BY <1>1, <1>3, <1>4 DEF n

LEMMA RemapDoes ==
    ASSUME NEW t \in 0 .. MaxTotal, NEW m \in Goods, m.ok, m.io.map_block_which < DATA_START(t),
           IsHeader(m.disk[0]), Owned(m.disk, t), OneHeader(m.disk),
           NEW e \in 0 .. t - 1, Entry(m.disk, e) # 0,
           NEW bad, Remap(m, e, Entry(m.disk, e), bad).notes = {}
    PROVE  LET r == Remap(m, e, Entry(m.disk, e), bad)
           IN  /\ Moved(r, m, t)
               /\ r.ok => /\ Entry(r.disk, e) \notin bad
                          /\ OthersStay(r.disk, m.disk, t, e)
<1> DEFINE D == m.disk
           loc == Entry(m.disk, e)
           s == ScanFree(m)
           to == s.loc
           b == BaseRead(s.m)
           w == BaseWrite(b, to, D[loc])
           u == MarkAs(w, to, TRUE)
           a == SetMapLoc(u, e, to)
           done == MarkAs(a, loc, FALSE)
           notes == (IF to = 0 /\ ~IsHeader(w.disk[0]) THEN {"full"} ELSE {})
                       \cup (IF u.ok /\ to \in bad THEN {"in the way"} ELSE {})
           r == Remap(m, e, loc, bad)
           Goal == /\ Moved(r, m, t)
                   /\ r.ok => /\ Entry(r.disk, e) \notin bad
                              /\ OthersStay(r.disk, D, t, e)
<1>1. r = [done EXCEPT !.notes = @ \cup notes] /\ r.notes = {}
  BY DEF Remap
<1> HIDE DEF r
<1>0. loc = Entry(D, e) /\ loc # 0
  OBVIOUS
<1>2. /\ D \in Disks /\ e \in Places /\ MapAddress(e) < DATA_START(t) /\ 0 < DATA_START(t)
      /\ DATA_START(t) \in Nat /\ loc \in Addresses /\ loc \in DATA_START(t) .. N - 1 /\ Used(D, loc)
      /\ m \in Machines /\ 0 \in Addresses
  BY TotalPlaces, EntryIsAddress, Constants DEF Goods, Machines, Addresses
<1>3. D[loc] \in Images /\ ~IsHeader(D[loc])
  BY <1>2 DEF Disks, OneHeader
<1>4. /\ s.m \in Goods /\ to \in Addresses /\ Follows(s.m, m) /\ s.m.disk = D
      /\ s.m.io.map_block_which = m.io.map_block_which
      /\ to # 0 => s.m.ok /\ ~Used(D, to)
  BY ScanFinds DEF Scans
<1> HIDE DEF s, to, loc
<1>5. /\ b \in Goods /\ Follows(b, s.m) /\ b.disk = D /\ b.io = s.m.io
      /\ b.io.map_block_which < DATA_START(t)
  <2>1. s.m \in Machines /\ Buffered(s.m.io, s.m.disk)
    BY <1>4 DEF Goods
  <2>2. b \in Machines /\ Follows(b, s.m) /\ b.disk = s.m.disk /\ b.io = s.m.io
    BY <2>1, ReadDoes
  <2> HIDE DEF b
  <2>3. Buffered(b.io, b.disk)
    BY <2>1, <2>2
  <2> QED BY <1>4, <2>2, <2>3 DEF Goods
<1> HIDE DEF b
<1>6. Unseen(D, D, t)
  BY <1>2, UnseenIs
<1>7. ASSUME done \in Goods, Follows(done, m), done.io.map_block_which < DATA_START(t),
             Unseen(done.disk, D, t)
      PROVE  Moved(r, m, t) /\ r.ok = done.ok /\ r.disk = done.disk
  <2>1. /\ done \in Machines /\ Buffered(done.io, done.disk) /\ done.notes \in SUBSET Notes
    BY <1>7 DEF Goods, Machines
  <2>2. r.notes = done.notes \cup notes /\ r.disk = done.disk /\ r.io = done.io /\ r.ok = done.ok
        /\ r = [done EXCEPT !.notes = {}]
    <3> HIDE DEF done, notes
    <3> QED BY <1>1, <2>1 DEF Machines
  <2>3. r \in Machines
    <3> HIDE DEF done, notes
    <3> QED BY <2>1, <2>2 DEF Machines
  <2>4. GoesOn(r, m)
    <3> HIDE DEF done, notes
    <3> QED BY <1>1, <1>7, <2>2 DEF GoesOn, Follows
  <2> HIDE DEF done, notes
  <2> QED BY <1>7, <2>1, <2>2, <2>3, <2>4 DEF Moved, Goods
<1>8. notes = {}
  <2>1. "notes" \in DOMAIN done => notes \subseteq r.notes
    <3> HIDE DEF done, notes
    <3> QED BY <1>1
  <2>2. "notes" \in DOMAIN done
    <3>0. "notes" \in DOMAIN b
      BY <1>5 DEF Goods, Machines
    <3>1. "notes" \in DOMAIN w
      BY <3>0, CallsRemember DEF Remembers
    <3> HIDE DEF w
    <3>2. "notes" \in DOMAIN u
      BY <3>1, ChangesRemember DEF Remembers
    <3> HIDE DEF u
    <3>3. "notes" \in DOMAIN a
      BY <3>2, ChangesRemember DEF Remembers
    <3> HIDE DEF a
    <3> QED BY <3>3, ChangesRemember DEF Remembers
  <2> HIDE DEF done, notes
  <2> QED BY <1>1, <2>1, <2>2
<1>9. (to = 0 => IsHeader(w.disk[0])) /\ (u.ok => to \notin bad)
  <2> HIDE DEF w, u
  <2> QED BY <1>8
<1> HIDE DEF notes
<1>10. ASSUME to = 0 PROVE Goal
  <2> DEFINE c == D[loc]
             d1 == [D EXCEPT ![to] = c]
  <2>1. /\ w \in Goods /\ Follows(w, b) /\ w.io = b.io
        /\ w.disk \in {D, d1} /\ (w.ok => w.disk = d1)
    <3> DEFINE at == to
    <3>1. at = 0 /\ at \in Addresses /\ c \in Images /\ to = at
      BY <1>2, <1>3, <1>10
    <3> HIDE DEF c, at
    <3>2. w = BaseWrite(b, at, c) /\ d1 = [b.disk EXCEPT ![at] = c]
      BY <1>5, <3>1 DEF c
    <3> HIDE DEF w, d1
    <3> QED BY <1>5, <3>1, <3>2, WriteAside
  <2>2. d1[0] = D[loc]
    BY <1>2, <1>10 DEF Disks
  <2> HIDE DEF d1, w
  <2>3. w.disk = D /\ ~w.ok
    BY <1>3, <1>9, <1>10, <2>1, <2>2
  <2>4. u = w
    <3>1. Follows(u, w)
      BY <1>4, <2>1, MarkDoes
    <3> HIDE DEF u
    <3> QED BY <2>3, <3>1 DEF Follows
  <2> HIDE DEF u
  <2>5. a = u
    <3>1. to \in 0 .. N
      BY <1>10, Constants
    <3> QED BY <1>2, <2>1, <2>3, <2>4, <3>1, SetMapLocDoes DEF Follows
  <2> HIDE DEF a
  <2>6. done = a
    <3>1. Follows(done, a)
      BY <1>2, <2>1, <2>4, <2>5, MarkDoes
    <3> HIDE DEF done
    <3> QED BY <2>3, <2>4, <2>5, <3>1 DEF Follows
  <2>7. Follows(w, m)
    BY <1>4, <1>5, <2>1 DEF Follows
  <2> HIDE DEF done
  <2> QED BY <1>5, <1>6, <1>7, <2>1, <2>3, <2>4, <2>5, <2>6, <2>7
<1>11. ASSUME to # 0 PROVE Goal
  <2> DEFINE c == D[loc]
             d1 == [D EXCEPT ![to] = c]
             d2 == Marked(d1, to, TRUE)
             d3 == Mapped(d2, e, to)
             d4 == Marked(d3, loc, FALSE)
  <2>1. /\ to \in DATA_START(t) .. N - 1 /\ to \in 0 .. N /\ ~Used(D, to) /\ to # loc
        /\ \A o \in 0 .. t - 1 : Entry(D, o) # to
    BY <1>2, <1>4, <1>11, FreeIsNobodys, Constants
  <2>2. /\ w \in Goods /\ Follows(w, b) /\ w.io = b.io
        /\ w.disk \in {D, d1} /\ (w.ok => w.disk = d1)
    <3>1. c \in Images
      BY <1>3
    <3> HIDE DEF c
    <3>2. w = BaseWrite(b, to, c) /\ d1 = [b.disk EXCEPT ![to] = c]
      BY <1>5 DEF c
    <3> HIDE DEF w, d1
    <3> QED BY <1>5, <2>1, <3>1, <3>2, WriteDataDoes
  <2>3. /\ Unseen(d1, D, t) /\ \A o \in 0 .. t - 1 : Entry(d1, o) = Entry(D, o)
    <3>1. c \in Images /\ ~IsHeader(c)
      BY <1>3
    <3> HIDE DEF c
    <3> QED BY <1>2, <1>4, <2>1, <3>1, WriteToFree
  <2>4. d1[to] = c /\ d1[loc] = c
    BY <1>2, <1>4, <2>1 DEF Disks
  <2> HIDE DEF d1, w, c
  <2>5. /\ u \in Goods /\ Follows(u, w) /\ u.disk \in {w.disk, Marked(w.disk, to, TRUE)}
        /\ u.ok => u.disk = Marked(w.disk, to, TRUE)
        /\ u.io.map_block_which = w.io.map_block_which
    BY <1>4, <2>2, MarkDoes
  <2>6. /\ Unseen(d2, d1, t) /\ Unseen(Marked(D, to, TRUE), D, t)
        /\ \A o \in 0 .. t - 1 : Entry(d2, o) = Entry(d1, o)
    <3>1. d1 \in Disks /\ Owned(d1, t) /\ OneHeader(d1)
      BY <2>3 DEF Unseen
    <3> QED BY <1>2, <1>4, <3>1, MarkIsUnseen
  <2>7. d2[to] = c /\ d2[loc] = c /\ Used(d2, to) /\ d2 \in Disks
    <3>1. d1 \in Disks
      BY <2>3 DEF Unseen
    <3>2. /\ \A x \in Addresses \ {BitmapAddress(to)} : d2[x] = d1[x]
          /\ \A x \in Addresses : Used(d2, x) <=> IF x = to THEN TRUE ELSE Used(d1, x)
          /\ d2 \in Disks
      BY <1>4, <3>1, MarkedIs
    <3>3. to # BitmapAddress(to) /\ loc # BitmapAddress(to)
      BY <1>2, <1>4, <2>1, BitmapAddresses, TotalPlaces
    <3> QED BY <1>2, <1>4, <2>4, <3>2, <3>3
  <2>8. Unseen(u.disk, D, t) /\ (u.ok => u.disk = d2 /\ w.ok)
    <3>1. w.disk = d1 => Marked(w.disk, to, TRUE) = d2
      OBVIOUS
    <3> HIDE DEF d2, u
    <3>2. u.ok => w.ok
      BY <2>5 DEF Follows
    <3>3. w.disk = D \/ w.disk = d1
      BY <2>2
    <3>4. u.disk = w.disk \/ u.disk = Marked(w.disk, to, TRUE)
      BY <2>5
    <3>5. Unseen(D, D, t) /\ Unseen(d1, D, t) /\ Unseen(d2, D, t) /\ Unseen(Marked(D, to, TRUE), D, t)
      BY <1>6, <2>3, <2>6, UnseenAndUnseen
    <3>6. Unseen(u.disk, D, t)
      BY <3>1, <3>3, <3>4, <3>5
    <3>7. u.ok => u.disk = d2
      BY <2>2, <2>5, <3>1, <3>2
    <3> QED BY <3>2, <3>6, <3>7
  <2> HIDE DEF u, d2
  <2>9. /\ a \in Goods /\ Follows(a, u) /\ a.disk \in {u.disk, Mapped(u.disk, e, to)}
        /\ a.ok => a.disk = Mapped(u.disk, e, to)
        /\ a.io.map_block_which \in {0, MapAddress(e), u.io.map_block_which}
    BY <1>2, <2>1, <2>5, SetMapLocDoes
  <2>10. /\ Unseen(d3, d2, t) /\ \A o \in 0 .. t - 1 : Entry(d3, o) # loc
         /\ \A o \in 0 .. t - 1 : Entry(d3, o) = IF o = e THEN to ELSE Entry(D, o)
    <3>1. d2 \in Disks /\ Owned(d2, t) /\ OneHeader(d2) /\ Entry(d2, e) = loc
          /\ \A o \in 0 .. t - 1 : Entry(d2, o) = Entry(D, o)
      BY <1>0, <2>3, <2>6 DEF Unseen
    <3>2. Entry(d2, e) # 0 /\ to # Entry(d2, e) /\ d2[to] = d2[Entry(d2, e)]
          /\ \A o \in 0 .. t - 1 : Entry(d2, o) # to
      BY <1>0, <2>1, <2>7, <3>1
    <3>3. /\ Unseen(d3, d2, t) /\ \A o \in 0 .. t - 1 : Entry(d3, o) # Entry(d2, e)
          /\ \A o \in 0 .. t - 1 : Entry(d3, o) = IF o = e THEN to ELSE Entry(d2, o)
      BY <2>1, <2>7, <3>1, <3>2, MapToCopy
    <3> HIDE DEF d3
    <3> QED BY <3>1, <3>3
  <2>11. Unseen(a.disk, D, t) /\ (a.ok => a.disk = d3 /\ u.ok)
    <3>1. u.disk = d2 => Mapped(u.disk, e, to) = d3
      OBVIOUS
    <3>2. ~u.ok => a = u
      BY <2>9 DEF Follows
    <3>3. Unseen(d3, D, t)
      BY <2>3, <2>6, <2>10, UnseenAndUnseen
    <3>4. u.ok \in BOOLEAN
      BY <2>5 DEF Goods, Machines
    <3> HIDE DEF d3, a
    <3> QED BY <2>8, <2>9, <3>1, <3>2, <3>3, <3>4 DEF Follows
  <2> HIDE DEF a, d3
  <2>12. /\ done \in Goods /\ Follows(done, a) /\ done.disk \in {a.disk, Marked(a.disk, loc, FALSE)}
         /\ done.ok => done.disk = Marked(a.disk, loc, FALSE)
         /\ done.io.map_block_which = a.io.map_block_which
    BY <1>2, <2>9, MarkDoes
  <2>13. Unseen(d4, d3, t) /\ \A o \in 0 .. t - 1 : Entry(d4, o) = Entry(d3, o)
    <3>1. d3 \in Disks /\ Owned(d3, t) /\ OneHeader(d3) /\ loc >= DATA_START(t)
      BY <1>2, <2>10 DEF Unseen
    <3> QED BY <1>2, <2>10, <3>1, MarkIsUnseen
  <2>14. Unseen(done.disk, D, t) /\ (done.ok => done.disk = d4 /\ a.ok)
    <3>1. a.disk = d3 => Marked(a.disk, loc, FALSE) = d4
      OBVIOUS
    <3>2. ~a.ok => done = a
      BY <2>12 DEF Follows
    <3>3. Unseen(d4, D, t)
      BY <2>3, <2>6, <2>10, <2>13, UnseenAndUnseen
    <3>4. a.ok \in BOOLEAN
      BY <2>9 DEF Goods, Machines
    <3> HIDE DEF d4, done
    <3> QED BY <2>11, <2>12, <3>1, <3>2, <3>3, <3>4 DEF Follows
  <2> HIDE DEF done, d4
  <2>15. Follows(done, m) /\ done.io.map_block_which < DATA_START(t)
    BY <1>2, <1>4, <1>5, <2>2, <2>5, <2>9, <2>12 DEF Follows
  <2>16. Moved(r, m, t) /\ r.ok = done.ok /\ r.disk = done.disk
    BY <1>7, <2>12, <2>14, <2>15
  <2>17. done.ok => to \notin bad
    BY <1>9, <2>11, <2>14
  <2>18. \A o \in 0 .. t - 1 : Entry(d4, o) = IF o = e THEN to ELSE Entry(D, o)
    BY <2>10, <2>13
  <2> QED BY <2>14, <2>16, <2>17, <2>18 DEF OthersStay
<1> QED BY <1>10, <1>11 DEF r, loc

LEMMA MovedAndMoved ==
    ASSUME NEW t, NEW r, NEW y, NEW m, Moved(r, y, t), Moved(y, m, t) PROVE Moved(r, m, t)
<1>1. GoesOn(r, m)
  BY GoesOnAndOn DEF Moved
<1>2. Unseen(r.disk, m.disk, t)
  BY UnseenAndUnseen DEF Moved
<1> QED BY <1>1, <1>2 DEF Moved

LEMMA RemapStepDoes ==
    ASSUME NEW t \in 0 .. MaxTotal, NEW y \in Goods, y.io.map_block_which < DATA_START(t),
           IsHeader(y.disk[0]), Owned(y.disk, t), OneHeader(y.disk),
           NEW e \in 0 .. t - 1, NEW bad, 0 \notin bad, RemapStep(y, e, bad).notes = {}
    PROVE  LET r == RemapStep(y, e, bad)
           IN  /\ Moved(r, y, t)
               /\ r.ok => /\ Entry(r.disk, e) \notin bad
                          /\ OthersStay(r.disk, y.disk, t, e)
<1> DEFINE r == RemapStep(y, e, bad)
           o == OpenMap(y, e)
           loc == MapLoc(o, e)
           Goal == /\ Moved(r, y, t)
                   /\ r.ok => /\ Entry(r.disk, e) \notin bad
                              /\ OthersStay(r.disk, y.disk, t, e)
<1>1. /\ r = IF ~o.ok THEN o ELSE IF loc = 1 THEN [o EXCEPT !.ok = FALSE]
               ELSE IF loc \in bad THEN Remap(o, e, loc, bad) ELSE o
      /\ r.notes = {}
  BY DEF RemapStep, Then
<1> HIDE DEF r
<1>2. /\ e \in Places /\ MapAddress(e) < DATA_START(t) /\ 0 < DATA_START(t) /\ y.disk \in Disks
  BY TotalPlaces DEF Goods, Machines
<1>3. /\ o \in Goods /\ Follows(o, y) /\ o.disk = y.disk
      /\ o.io.map_block_which \in {0, MapAddress(e), y.io.map_block_which}
      /\ o.ok => loc = Entry(y.disk, e)
  BY <1>2, OpenMapDoes
<1> HIDE DEF o, loc
<1>4. Moved(o, y, t)
  <2>1. Unseen(y.disk, y.disk, t) /\ GoesOn(o, y)
    BY <1>2, <1>3, UnseenIs, FollowsGoesOn
  <2> QED BY <1>2, <1>3, <2>1 DEF Moved
<1>5. o.ok \in BOOLEAN
  BY <1>3 DEF Goods, Machines
<1>6. ASSUME ~o.ok PROVE Goal
  <2>1. r = o
    BY <1>1, <1>6
  <2> QED BY <1>4, <1>6, <2>1
<1>7. ASSUME o.ok /\ loc = 1 PROVE Goal
  <2>1. r = [o EXCEPT !.ok = FALSE]
    BY <1>1, <1>7
  <2>2. r \in Goods /\ r.disk = o.disk /\ r.io = o.io /\ r.notes = o.notes /\ ~r.ok
    BY <1>3, <2>1, StoppedIs
  <2>3. Moved(r, y, t)
    BY <1>4, <2>2 DEF Moved, GoesOn
  <2> QED BY <2>2, <2>3
<1>8. ASSUME o.ok /\ loc # 1 /\ loc \notin bad PROVE Goal
  <2>1. r = o
    BY <1>1, <1>8
  <2> QED BY <1>3, <1>4, <1>8, <2>1 DEF OthersStay
<1>9. ASSUME o.ok /\ loc # 1 /\ loc \in bad PROVE Goal
  <2>1. r = Remap(o, e, loc, bad) /\ loc = Entry(o.disk, e) /\ loc # 0
    BY <1>1, <1>3, <1>9
  <2>2. /\ o.io.map_block_which < DATA_START(t) /\ IsHeader(o.disk[0])
        /\ Owned(o.disk, t) /\ OneHeader(o.disk)
    BY <1>3, <1>4 DEF Moved
  <2>3. /\ Moved(r, o, t)
        /\ r.ok => /\ Entry(r.disk, e) \notin bad
                   /\ OthersStay(r.disk, o.disk, t, e)
    <3> DEFINE q == Remap(o, e, Entry(o.disk, e), bad)
    <3>0. q = Remap(o, e, loc, bad)
      BY <2>1
    <3>1. q.notes = {} /\ o \in Goods /\ o.ok
      BY <1>1, <1>3, <1>9, <2>1, <3>0
    <3>2. /\ Moved(q, o, t)
          /\ q.ok => /\ Entry(q.disk, e) \notin bad
                     /\ OthersStay(q.disk, o.disk, t, e)
      <4>1. Entry(o.disk, e) # 0
        BY <2>1
      <4> QED BY <2>2, <3>1, <4>1, RemapDoes
    <3> HIDE DEF q
    <3> QED BY <2>1, <3>0, <3>2
  <2>4. Moved(r, y, t)
    BY <1>4, <2>3, MovedAndMoved
  <2> QED BY <1>3, <2>3, <2>4
<1>10. Goal
  BY <1>5, <1>6, <1>7, <1>8, <1>9
<1> QED BY <1>10 DEF r

LEMMA RemapAllDoes ==
    ASSUME NEW t \in 0 .. MaxTotal, NEW m \in Goods, m.io.total = t,
           m.io.map_block_which < DATA_START(t),
           IsHeader(m.disk[0]), Owned(m.disk, t), OneHeader(m.disk),
           NEW bad, 0 \notin bad, RemapAll(m, bad).notes = {}
    PROVE  LET r == RemapAll(m, bad)
           IN  /\ Moved(r, m, t)
               /\ r.ok => \A e \in 0 .. t - 1 : Entry(r.disk, e) \notin bad
<1>1. t \in Nat /\ m.io.total \in Nat
  BY TotalPlaces
<1>2. PICK f : /\ f[0] = m
               /\ \A k \in 1 .. m.io.total : f[k] = RemapStep(f[k - 1], k - 1, bad)
               /\ RemapAll(m, bad) = f[m.io.total]
  BY <1>1, RemapAllRuns
<1> DEFINE P(x, k) ==
              /\ "notes" \in DOMAIN x
              /\ x.notes = {} => /\ Moved(x, m, t)
                                 /\ x.ok => \A e \in 0 .. k - 1 : Entry(x.disk, e) \notin bad
           G == {k \in Nat : P(f[k], k)}
<1>3. 0 \in G
  <2>1. "notes" \in DOMAIN m /\ m.disk \in Disks
    BY DEF Goods, Machines
  <2>2. Moved(m, m, t)
    BY <2>1, UnseenIs DEF Moved, GoesOn
  <2>3. P(m, 0)
    BY <2>1, <2>2
  <2> HIDE DEF P
  <2> QED BY <1>2, <2>3
<1>4. ASSUME NEW k \in 1 .. t, k - 1 \in G PROVE k \in G
  <2> DEFINE y == f[k - 1]
             e == k - 1
             r == RemapStep(y, e, bad)
  <2>1. P(y, k - 1) /\ f[k] = r /\ k \in Nat /\ e \in 0 .. t - 1
    <3>1. P(y, k - 1)
      <4> HIDE DEF P
      <4> QED BY <1>4
    <3>2. f[k] = r /\ k \in Nat /\ e \in 0 .. t - 1
      BY <1>1, <1>2
    <3> HIDE DEF P
    <3> QED BY <3>1, <3>2
  <2>2. e = k - 1
    OBVIOUS
  <2> HIDE DEF y, e
  <2>3. Remembers(r, y)
    BY <2>1, RemapRemembers
  <2> HIDE DEF r
  <2>4. ASSUME r.notes = {}
        PROVE  Moved(r, m, t) /\ (r.ok => \A o \in 0 .. k - 1 : Entry(r.disk, o) \notin bad)
    <3>1. y.notes = {}
      BY <2>3, <2>4 DEF Remembers
    <3>2. Moved(y, m, t) /\ (y.ok => \A o \in 0 .. (k - 1) - 1 : Entry(y.disk, o) \notin bad)
      BY <2>1, <3>1
    <3>3. /\ y \in Goods /\ y.io.map_block_which < DATA_START(t) /\ IsHeader(y.disk[0])
          /\ Owned(y.disk, t) /\ OneHeader(y.disk)
      BY <3>2 DEF Moved, Unseen
    <3>4. /\ Moved(r, y, t)
          /\ r.ok => /\ Entry(r.disk, e) \notin bad
                     /\ OthersStay(r.disk, y.disk, t, e)
      BY <2>1, <2>4, <3>3, RemapStepDoes DEF r
    <3>5. Moved(r, m, t)
      BY <3>2, <3>4, MovedAndMoved
    <3>6. r.ok => y.ok
      BY <2>4, <3>4 DEF Moved, GoesOn
    <3>7. \A o \in 0 .. k - 1 : o = e \/ (o \in (0 .. t - 1) \ {e} /\ o \in 0 .. (k - 1) - 1)
      BY <1>1, <2>2
    <3> QED BY <3>2, <3>4, <3>5, <3>6, <3>7 DEF OthersStay
  <2>5. P(r, k)
    BY <2>3, <2>4 DEF Remembers
  <2> HIDE DEF P
  <2> QED BY <2>1, <2>5
<1> HIDE DEF G
<1>5. t \in G
  BY <1>1, <1>3, <1>4, LoopInduction
<1> QED BY <1>2, <1>5 DEF G

(* The sum of the sizes is a number, whatever could not be read. *)
LEMMA SizesBeforeDoes ==
    ASSUME NEW m \in Goods, NEW p \in Parts
    PROVE  LET b == SizesBefore(m, p)
           IN  /\ b.m \in Goods /\ Follows(b.m, m) /\ b.m.disk = m.disk
               /\ b.m.io.map_block_which = m.io.map_block_which
               /\ b.sum \in Nat
<1>1. p \in Nat /\ p <= PartCount
  BY Constants DEF Parts
<1>2. PICK f : /\ f[0] = [m |-> m, sum |-> 0]
               /\ \A k \in 1 .. p : f[k] = [m |-> ReadHeader(f[k - 1].m),
                                            sum |-> f[k - 1].sum + HeaderSizes(f[k - 1].m)[k - 1]]
               /\ SizesBefore(m, p) = f[p]
  BY <1>1, SizesBeforeRuns
<1> DEFINE P(b) ==
              /\ b.m \in Goods /\ Follows(b.m, m) /\ b.m.disk = m.disk
              /\ b.m.io.map_block_which = m.io.map_block_which
              /\ b.sum \in Nat
           G == {k \in Nat : P(f[k])}
<1>3. 0 \in G
  BY <1>2 DEF Follows
<1>4. ASSUME NEW k \in 1 .. p, k - 1 \in G PROVE k \in G
  <2> DEFINE y == f[k - 1]
             n == ReadHeader(y.m)
             add == HeaderSizes(y.m)[k - 1]
  <2>1. P(y)
    BY <1>4
  <2>2. f[k].m = n /\ f[k].sum = y.sum + add /\ k \in Nat /\ k - 1 \in Parts
    <3>1. f[k] = [m |-> n, sum |-> y.sum + add]
      BY <1>2
    <3>2. k \in Nat /\ k - 1 \in Parts
      BY <1>1, Constants DEF Parts
    <3> HIDE DEF n, y, add
    <3> QED BY <3>1, <3>2
  <2> HIDE DEF y
  <2>3. /\ n \in Goods /\ Follows(n, y.m) /\ n.disk = y.m.disk
        /\ n.io.map_block_which = y.m.io.map_block_which
    BY <2>1, ReadHeaderDoes
  <2>4. add \in Nat
    BY <2>1, <2>2, HeaderSizesAre DEF Goods
  <2> HIDE DEF n, add
  <2>5. P(f[k])
    <3>1. Follows(n, m)
      BY <2>1, <2>3 DEF Follows
    <3> QED BY <2>1, <2>2, <2>3, <2>4, <3>1
  <2> HIDE DEF P
  <2> QED BY <2>2, <2>5
<1> HIDE DEF G
<1>5. p \in G
  BY <1>1, <1>3, <1>4, LoopInduction
<1> QED BY <1>2, <1>5 DEF G

-----------------------------------------------------------------------------
(* partitioner_set_part_size: the map makes room. *)

(* r is m, but for the map of u entries. *)
Reworked(r, m, u) ==
    /\ r \in Goods /\ GoesOn(r, m) /\ r.io.map_block_which < DATA_START(u) /\ OneHeader(r.disk)
    /\ \A x \in Addresses : x \notin MAPS_START .. DATA_START(u) - 1 => r.disk[x] = m.disk[x]

LEMMA ReworkedAndOn ==
    ASSUME NEW u, NEW r, NEW y, NEW m, Reworked(r, y, u), Reworked(y, m, u)
    PROVE  Reworked(r, m, u)
<1>1. GoesOn(r, m)
  BY GoesOnAndOn DEF Reworked
<1> QED BY <1>1 DEF Reworked

(* The entries of n are those of d, with entry e set. *)
EntrySet(n, d, u, e, to) ==
    \A x \in 0 .. u - 1 : Entry(n, x) = IF x = e THEN to ELSE Entry(d, x)

LEMMA SetIgnoringDoes ==
    ASSUME NEW u \in 0 .. MaxTotal, NEW m \in Goods, m.io.map_block_which < DATA_START(u),
           OneHeader(m.disk), NEW e \in 0 .. u - 1, NEW to \in 0 .. N
    PROVE  LET r == Ignoring(SetMapLoc(m, e, to))
           IN  /\ Reworked(r, m, u)
               /\ r.ok /\ r.notes = {} => EntrySet(r.disk, m.disk, u, e, to)
<1> DEFINE q == SetMapLoc(m, e, to)
           r == Ignoring(q)
           d == Mapped(m.disk, e, to)
<1>1. /\ e \in Places /\ MapAddress(e) \in MAPS_START .. DATA_START(u) - 1
      /\ \A x \in 0 .. u - 1 : x \in Places
      /\ DATA_START(u) \in Nat /\ 0 < DATA_START(u) /\ m.disk \in Disks
      /\ MapAddress(e) < DATA_START(u)
  BY TotalPlaces DEF Goods, Machines
<1>2. /\ q \in Goods /\ Follows(q, m) /\ q.disk \in {m.disk, d} /\ (q.ok => q.disk = d)
      /\ q.io.map_block_which \in {0, MapAddress(e), m.io.map_block_which}
  BY <1>1, SetMapLocDoes
<1>3. /\ \A x \in Addresses \ {MapAddress(e)} : d[x] = m.disk[x]
      /\ ~IsHeader(d[MapAddress(e)])
      /\ \A x \in Places : Entry(d, x) = IF x = e THEN to ELSE Entry(m.disk, x)
  BY <1>1, MappedIs
<1> HIDE DEF q, d
<1>4. /\ r \in Goods /\ r.disk = q.disk /\ r.io = q.io /\ GoesOn(r, q) /\ (q.ok => r = q)
  BY <1>2, IgnoringDoes
<1> HIDE DEF r
<1>5. GoesOn(r, m)
  <2>1. GoesOn(q, m)
    BY <1>2, FollowsGoesOn
  <2> QED BY <1>4, <2>1, GoesOnAndOn
<1>6. OneHeader(d)
  BY <1>3 DEF OneHeader
<1>7. Reworked(r, m, u)
  <2>1. r.io.map_block_which < DATA_START(u)
    BY <1>1, <1>2, <1>4
  <2>2. \A x \in Addresses : x \notin MAPS_START .. DATA_START(u) - 1 => r.disk[x] = m.disk[x]
    BY <1>1, <1>2, <1>3, <1>4
  <2> QED BY <1>2, <1>4, <1>5, <1>6, <2>1, <2>2 DEF Reworked
<1>8. ASSUME r.ok /\ r.notes = {} PROVE EntrySet(r.disk, m.disk, u, e, to)
  <2>1. q.ok
    BY <1>4, <1>8 DEF GoesOn
  <2> QED BY <1>1, <1>2, <1>3, <1>4, <2>1 DEF EntrySet
<1> QED BY <1>7, <1>8 DEF r, q

LEMMA ShiftStepDoes ==
    ASSUME NEW u \in 0 .. MaxTotal, NEW m \in Goods, m.io.map_block_which < DATA_START(u),
           OneHeader(m.disk), NEW e \in 0 .. u - 1, NEW shift \in Nat, e + shift \in 0 .. u - 1
    PROVE  LET r == ShiftStep(m, e, shift)
           IN  /\ Reworked(r, m, u)
               /\ r.ok /\ r.notes = {} => EntrySet(r.disk, m.disk, u, e + shift, Entry(m.disk, e))
<1> DEFINE r == ShiftStep(m, e, shift)
           o == OpenMap(m, e)
           loc == MapLoc(o, e)
           to == e + shift
           Goal == /\ Reworked(r, m, u)
                   /\ r.ok /\ r.notes = {} => EntrySet(r.disk, m.disk, u, to, Entry(m.disk, e))
<1>1. r = IF ~o.ok THEN o ELSE IF loc = 1 THEN [o EXCEPT !.ok = FALSE]
          ELSE Ignoring(SetMapLoc(o, to, loc))
  BY DEF ShiftStep, Then
<1> HIDE DEF r
<1>2. /\ e \in Places /\ MapAddress(e) < DATA_START(u) /\ 0 < DATA_START(u) /\ m.disk \in Disks
  BY TotalPlaces DEF Goods, Machines
<1>3. /\ o \in Goods /\ Follows(o, m) /\ o.disk = m.disk
      /\ o.io.map_block_which \in {0, MapAddress(e), m.io.map_block_which}
      /\ o.ok => loc = Entry(m.disk, e)
  BY <1>2, OpenMapDoes
<1>4. loc \in 0 .. N
  <2>1. o.io.map_block \in Locations /\ e % Maps \in 0 .. Maps - 1
    <3> HIDE DEF o
    <3> QED BY <1>2, <1>3, PlaceOf DEF Goods, Machines, Handles
  <2> HIDE DEF o
  <2> QED BY <2>1 DEF Locations, MapLoc
<1> HIDE DEF o, loc
<1>5. Reworked(o, m, u)
  <2>1. GoesOn(o, m)
    BY <1>3, FollowsGoesOn
  <2> QED BY <1>2, <1>3, <2>1 DEF Reworked
<1>6. o.ok \in BOOLEAN
  BY <1>3 DEF Goods, Machines
<1>7. ASSUME ~o.ok PROVE Goal
  <2>1. r = o
    BY <1>1, <1>7
  <2> QED BY <1>5, <1>7, <2>1
<1>8. ASSUME o.ok, loc = 1 PROVE Goal
  <2>1. r = [o EXCEPT !.ok = FALSE]
    BY <1>1, <1>8
  <2>2. r \in Goods /\ r.disk = o.disk /\ r.io = o.io /\ r.notes = o.notes /\ ~r.ok
    BY <1>3, <2>1, StoppedIs
  <2>3. Reworked(r, m, u)
    BY <1>5, <2>2 DEF Reworked, GoesOn
  <2> QED BY <2>2, <2>3
<1>9. ASSUME o.ok, loc # 1 PROVE Goal
  <2> DEFINE q == Ignoring(SetMapLoc(o, to, loc))
  <2>1. r = q /\ loc = Entry(m.disk, e) /\ to \in 0 .. u - 1
    BY <1>1, <1>3, <1>9
  <2> HIDE DEF to
  <2>2. Reworked(q, o, u) /\ (q.ok /\ q.notes = {} => EntrySet(q.disk, o.disk, u, to, loc))
    <3>1. o.io.map_block_which < DATA_START(u) /\ OneHeader(o.disk)
      BY <1>5 DEF Reworked
    <3> QED BY <1>3, <1>4, <2>1, <3>1, SetIgnoringDoes
  <2> HIDE DEF q
  <2>3. Reworked(r, m, u)
    BY <1>5, <2>1, <2>2, ReworkedAndOn
  <2> QED BY <1>3, <2>1, <2>2, <2>3
<1>10. Goal
  BY <1>6, <1>7, <1>8, <1>9
<1> QED BY <1>10 DEF r

(* The entries from start on are shift further in n than in d. *)
EntriesShifted(n, d, u, start, shift) ==
    \A x \in 0 .. u - 1 : Entry(n, x) = IF x >= start + shift THEN Entry(d, x - shift) ELSE Entry(d, x)

LEMMA ShiftAllDoes ==
    ASSUME NEW t \in Nat, NEW shift \in Nat, t + shift <= MaxTotal, NEW start \in 0 .. t,
           NEW m \in Goods, m.io.total = t, m.io.map_block_which < DATA_START(t + shift),
           OneHeader(m.disk)
    PROVE  LET r == ShiftAll(m, t - start, shift)
           IN  /\ Reworked(r, m, t + shift)
               /\ r.ok /\ r.notes = {} => EntriesShifted(r.disk, m.disk, t + shift, start, shift)
<1> DEFINE u == t + shift
           count == t - start
<1>1. u \in 0 .. MaxTotal /\ count \in Nat /\ u = t + shift /\ count = t - start /\ u \in Nat
  BY Constants
<1> HIDE DEF u, count
<1>2. PICK f : /\ f[0] = m
               /\ \A k \in 1 .. count : f[k] = ShiftStep(f[k - 1], m.io.total - k, shift)
               /\ ShiftAll(m, count, shift) = f[count]
  BY <1>1, ShiftAllRuns
<1> DEFINE P(y, k) == /\ Reworked(y, m, u)
                      /\ y.ok /\ y.notes = {} => EntriesShifted(y.disk, m.disk, u, t - k, shift)
           G == {k \in Nat : P(f[k], k)}
<1>3. 0 \in G
  <2>1. Reworked(m, m, u)
    BY <1>1 DEF Reworked, GoesOn, u
  <2>2. EntriesShifted(m.disk, m.disk, u, t - 0, shift)
    BY <1>1 DEF EntriesShifted
  <2> QED BY <1>2, <2>1, <2>2
<1>4. ASSUME NEW k \in 1 .. count, k - 1 \in G PROVE k \in G
  <2> DEFINE y == f[k - 1]
             e == t - k
             r == ShiftStep(y, e, shift)
  <2>1. P(y, k - 1)
    <3> HIDE DEF P
    <3> QED BY <1>4
  <2>2. f[k] = r
    BY <1>2
  <2>3. k \in Nat /\ e \in 0 .. u - 1 /\ e + shift \in 0 .. u - 1 /\ e = t - k /\ e < t - (k - 1) + shift
    BY <1>1
  <2> HIDE DEF y, e
  <2>4. y \in Goods /\ y.io.map_block_which < DATA_START(u) /\ OneHeader(y.disk)
    BY <2>1 DEF Reworked
  <2>5. /\ Reworked(r, y, u)
        /\ r.ok /\ r.notes = {} => EntrySet(r.disk, y.disk, u, e + shift, Entry(y.disk, e))
    BY <1>1, <2>3, <2>4, ShiftStepDoes
  <2> HIDE DEF r
  <2>6. Reworked(r, m, u)
    BY <2>1, <2>5, ReworkedAndOn
  <2>7. ASSUME r.ok, r.notes = {} PROVE EntriesShifted(r.disk, m.disk, u, t - k, shift)
    <3>1. y.ok /\ y.notes = {}
      BY <2>5, <2>7 DEF Reworked, GoesOn
    <3>2. EntriesShifted(y.disk, m.disk, u, t - (k - 1), shift)
      BY <2>1, <3>1
    <3>3. EntrySet(r.disk, y.disk, u, e + shift, Entry(y.disk, e))
      BY <2>5, <2>7
    <3>4. Entry(y.disk, e) = Entry(m.disk, e)
      BY <1>1, <2>3, <3>2 DEF EntriesShifted
    <3>5. ASSUME NEW x \in 0 .. u - 1
          PROVE  Entry(r.disk, x) = IF x >= (t - k) + shift THEN Entry(m.disk, x - shift) ELSE Entry(m.disk, x)
      <4>1. CASE x = e + shift
        <5>1. x - shift = e /\ x >= (t - k) + shift
          BY <1>1, <2>3, <4>1
        <5> QED BY <3>3, <3>4, <4>1, <5>1 DEF EntrySet
      <4>2. CASE x # e + shift
        <5>1. (x >= (t - k) + shift) <=> (x >= (t - (k - 1)) + shift)
          BY <1>1, <2>3, <4>2
        <5>2. Entry(r.disk, x) = Entry(y.disk, x)
          BY <3>3, <4>2 DEF EntrySet
        <5> QED BY <3>2, <5>1, <5>2 DEF EntriesShifted
      <4> QED BY <4>1, <4>2
    <3> QED BY <3>5 DEF EntriesShifted
  <2>8. P(r, k)
    BY <2>6, <2>7
  <2> HIDE DEF P
  <2> QED BY <2>2, <2>3, <2>8
<1> HIDE DEF G
<1>5. count \in G
  BY <1>1, <1>3, <1>4, LoopInduction
<1>6. t - count = start
  BY <1>1
<1> QED BY <1>2, <1>5, <1>6 DEF G, u, count

(* A run of entries is empty in n. *)
EntriesCleared(n, d, u, first, count) ==
    \A x \in 0 .. u - 1 : Entry(n, x) = IF x \in first .. first + count - 1 THEN 0 ELSE Entry(d, x)

LEMMA ClearEntriesDoes ==
    ASSUME NEW u \in 0 .. MaxTotal, NEW first \in Nat, NEW count \in Nat, first + count <= u,
           NEW m \in Goods, m.io.map_block_which < DATA_START(u), OneHeader(m.disk)
    PROVE  LET r == ClearEntries(m, first, count)
           IN  /\ Reworked(r, m, u)
               /\ r.ok /\ r.notes = {} => EntriesCleared(r.disk, m.disk, u, first, count)
<1>0. PICK f : Clears(f, m, first, count) /\ ClearEntries(m, first, count) = f[count]
  BY ClearEntriesRuns
<1>1. /\ f[0] = m
      /\ \A k \in 1 .. count : f[k] = Then(f[k - 1], Ignoring(SetMapLoc(f[k - 1], first + k - 1, 0)))
      /\ ClearEntries(m, first, count) = f[count]
  BY <1>0 DEF Clears
<1>2. u \in Nat /\ 0 \in 0 .. N
  BY Constants
<1> DEFINE P(y, k) == /\ Reworked(y, m, u)
                      /\ y.ok /\ y.notes = {} => EntriesCleared(y.disk, m.disk, u, first, k)
           G == {k \in Nat : P(f[k], k)}
<1>3. 0 \in G
  <2>1. Reworked(m, m, u)
    BY DEF Reworked, GoesOn
  <2>2. EntriesCleared(m.disk, m.disk, u, first, 0)
    BY <1>2 DEF EntriesCleared
  <2> QED BY <1>1, <2>1, <2>2
<1>4. ASSUME NEW k \in 1 .. count, k - 1 \in G PROVE k \in G
  <2> DEFINE y == f[k - 1]
             e == first + k - 1
             q == Ignoring(SetMapLoc(y, e, 0))
             r == Then(y, q)
  <2>1. P(y, k - 1)
    <3> HIDE DEF P
    <3> QED BY <1>4
  <2>2. f[k] = r
    BY <1>1
  <2>3. k \in Nat /\ e \in 0 .. u - 1 /\ e = first + k - 1
    BY <1>2
  <2> HIDE DEF y, e
  <2>4. y \in Goods /\ y.io.map_block_which < DATA_START(u) /\ OneHeader(y.disk) /\ y.ok \in BOOLEAN
    BY <2>1 DEF Reworked, Goods, Machines
  <2>5. Reworked(q, y, u) /\ (q.ok /\ q.notes = {} => EntrySet(q.disk, y.disk, u, e, 0))
    BY <1>2, <2>3, <2>4, SetIgnoringDoes
  <2> HIDE DEF q
  <2>6. ASSUME ~y.ok PROVE P(r, k)
    <3>1. r = y
      BY <2>6 DEF Then
    <3> QED BY <2>1, <2>6, <3>1
  <2>7. ASSUME y.ok PROVE P(r, k)
    <3>1. r = q
      BY <2>7 DEF Then
    <3> HIDE DEF r
    <3>2. Reworked(q, m, u)
      BY <2>1, <2>5, ReworkedAndOn
    <3>3. ASSUME q.ok, q.notes = {} PROVE EntriesCleared(q.disk, m.disk, u, first, k)
      <4>1. y.notes = {}
        BY <2>5, <3>3 DEF Reworked, GoesOn
      <4>2. EntriesCleared(y.disk, m.disk, u, first, k - 1) /\ EntrySet(q.disk, y.disk, u, e, 0)
        BY <2>1, <2>5, <2>7, <3>3, <4>1
      <4>3. \A x \in 0 .. u - 1 :
               x \in first .. first + k - 1 <=> x = e \/ x \in first .. first + (k - 1) - 1
        BY <1>2, <2>3
      <4> QED BY <4>2, <4>3 DEF EntriesCleared, EntrySet
    <3> QED BY <3>1, <3>2, <3>3
  <2> HIDE DEF P, r
  <2>8. P(r, k)
    BY <2>4, <2>6, <2>7
  <2> QED BY <2>2, <2>3, <2>8
<1> HIDE DEF G
<1>5. count \in G
  BY <1>3, <1>4, LoopInduction
<1> QED BY <1>1, <1>5 DEF G

(* r is m, but for blocks marked in the bitmap. *)
MarkedOnly(r, m) ==
    /\ r \in Goods /\ GoesOn(r, m) /\ r.io.map_block_which = m.io.map_block_which
    /\ OneHeader(r.disk)
    /\ \A x \in Addresses : x \notin 1 .. MAPS_START - 1 => r.disk[x] = m.disk[x]
    /\ \A x \in Addresses : Used(m.disk, x) => Used(r.disk, x)

LEMMA MarkMapsDoes ==
    ASSUME NEW t \in Nat, NEW u \in 0 .. MaxTotal, t <= u, NEW m \in Goods, OneHeader(m.disk)
    PROVE  LET r == MarkMaps(m, t, u)
           IN  /\ MarkedOnly(r, m)
               /\ r.ok /\ r.notes = {} => \A x \in DATA_START(t) .. DATA_START(u) - 1 : Used(r.disk, x)
<1> DEFINE first == MAPS_START + t \div Maps
           last == MAPS_START + Ceil(u, Maps)
           count == last + 1 - first
           q == MarkRange(m, first, count)
           r == MarkMaps(m, t, u)
<1>1. r = IF m.ok THEN q ELSE m
  BY DEF MarkMaps, Then
<1>2. /\ first \in Nat /\ count \in Nat /\ first + count <= N /\ last = DATA_START(u)
      /\ first <= DATA_START(t) /\ first + count - 1 = DATA_START(u) /\ DATA_START(t) \in Nat
  <2>1. /\ t \div Maps \in Nat /\ Ceil(t, Maps) \in Nat /\ Ceil(u, Maps) \in Nat /\ u \in Nat
        /\ t \div Maps <= Ceil(t, Maps) /\ Ceil(t, Maps) <= Ceil(u, Maps)
    <3>1. u \in Nat /\ Maps \in Nat \ {0}
      BY Constants
    <3>2. t \div Maps \in Nat
      BY <3>1, DivMod
    <3>3. Ceil(t, Maps) \in Nat /\ Ceil(u, Maps) \in Nat
      BY <3>1, CeilIs
    <3>4. t \div Maps <= Ceil(t, Maps)
      BY <3>1, DivBelowCeil
    <3>5. Ceil(t, Maps) <= Ceil(u, Maps)
      BY <3>1, CeilGrows
    <3> QED BY <3>1, <3>2, <3>3, <3>4, <3>5
  <2>2. MAPS_START \in Nat /\ DATA_START(u) < N /\ N \in Nat
    BY Constants, TotalPlaces
  <2>3. last = DATA_START(u) /\ DATA_START(t) = MAPS_START + Ceil(t, Maps)
    BY DEF DATA_START
  <2> DEFINE a == t \div Maps
             b == Ceil(t, Maps)
             c == Ceil(u, Maps)
  <2> HIDE DEF a, b, c
  <2>4. a \in Nat /\ b \in Nat /\ c \in Nat /\ a <= b /\ b <= c /\ first = MAPS_START + a
        /\ last = MAPS_START + c /\ DATA_START(t) = MAPS_START + b
    BY <2>1, <2>3 DEF a, b, c
  <2> HIDE DEF first, last
  <2> QED BY <2>2, <2>3, <2>4
<1> HIDE DEF first, count
<1>3. /\ q \in Goods /\ GoesOn(q, m)
      /\ q.io.map_block_which = m.io.map_block_which
      /\ OneHeader(m.disk) => OneHeader(q.disk)
      /\ \A x \in Addresses : x \notin 1 .. MAPS_START - 1 => q.disk[x] = m.disk[x]
      /\ \A x \in Addresses : Used(m.disk, x) => Used(q.disk, x)
      /\ q.ok /\ q.notes = {} => \A x \in first .. first + count - 1 : Used(q.disk, x)
  BY <1>2, MarkRangeDoes
<1> HIDE DEF q, r
<1>4. MarkedOnly(q, m) /\ MarkedOnly(m, m)
  BY <1>3 DEF MarkedOnly, GoesOn
<1>5. m.ok \in BOOLEAN
  BY DEF Goods, Machines
<1>6. \A x \in DATA_START(t) .. DATA_START(u) - 1 : x \in first .. first + count - 1
  <2>1. DATA_START(u) \in Nat
    BY TotalPlaces
  <2> QED BY <1>2, <2>1
<1> QED BY <1>1, <1>3, <1>4, <1>5, <1>6 DEF r

(* A disk on which one size is another. *)
WithSize(d, p, size) == [d EXCEPT ![0] = Header([Sizes(d) EXCEPT ![p] = size])]

LEMMA WithSizeIs ==
    ASSUME NEW d \in Disks, NEW p \in Parts, NEW size \in 0 .. MaxSize
    PROVE  /\ WithSize(d, p, size) \in Disks
           /\ \A x \in Addresses \ {0} : WithSize(d, p, size)[x] = d[x]
           /\ IsHeader(WithSize(d, p, size)[0])
           /\ Sizes(WithSize(d, p, size)) = [Sizes(d) EXCEPT ![p] = size]
<1> DEFINE s == [Sizes(d) EXCEPT ![p] = size]
           c == Header(s)
           n == [d EXCEPT ![0] = c]
<1>1. s \in SizeTables
  <2>1. Sizes(d) \in SizeTables
    BY SizesAreSizes
  <2> QED BY <2>1 DEF SizeTables
<1> HIDE DEF s
<1>2. c \in Images /\ SizesOf(c) = s /\ IsHeader(c)
  BY <1>1, HeaderImage
<1> HIDE DEF c
<1>3. n \in Disks /\ n[0] = c /\ \A x \in Addresses \ {0} : n[x] = d[x]
  <2>1. 0 \in Addresses
    BY Constants DEF Addresses
  <2> QED BY <1>2, <2>1 DEF Disks
<1>4. WithSize(d, p, size) = n
  BY DEF WithSize, c, s
<1> HIDE DEF n
<1> QED BY <1>2, <1>3, <1>4 DEF Sizes, s

LEMMA SetHeaderDoes ==
    ASSUME NEW m \in Goods, IsHeader(m.disk[0]), NEW p \in Parts, NEW size \in 0 .. MaxSize
    PROVE  LET r == SetHeader(m, p, size)
           IN  /\ r.notes = m.notes
               /\ r.disk = m.disk \/ (r.disk = WithSize(m.disk, p, size) /\ m.ok)
<1> DEFINE b == BaseRead(m)
           c == Header([Sizes(m.disk) EXCEPT ![p] = size])
           r == BaseWrite(b, 0, c)
<1>1. SetHeader(m, p, size) = r
  BY DEF SetHeader
<1>2. m \in Machines /\ m.disk \in Disks /\ m.ok \in BOOLEAN /\ 0 \in Addresses
  BY Constants DEF Goods, Machines, Addresses
<1>3. b \in Machines /\ Follows(b, m) /\ b.disk = m.disk
  BY <1>2, ReadDoes
<1>4. c \in Images
  <2>1. Sizes(m.disk) \in SizeTables
    BY <1>2, SizesAreSizes
  <2>2. [Sizes(m.disk) EXCEPT ![p] = size] \in SizeTables
    BY <2>1 DEF SizeTables
  <2> QED BY <2>2, HeaderImage
<1>5. WithSize(m.disk, p, size) = [m.disk EXCEPT ![0] = c]
  BY DEF WithSize
<1> HIDE DEF b, c
<1>6. Follows(r, b) /\ r.disk \in {b.disk, [b.disk EXCEPT ![0] = c]}
  BY <1>2, <1>3, <1>4, WriteDoes
<1> HIDE DEF r
<1>7. r.notes = m.notes /\ (~m.ok => r = m)
  BY <1>3, <1>6 DEF Follows
<1> QED BY <1>1, <1>2, <1>3, <1>5, <1>6, <1>7

(* d is c outside of the bitmap and a map of u entries, with no block freed. *)
Outside(d, c, u) ==
    /\ d \in Disks /\ d[0] = c[0] /\ OneHeader(d)
    /\ \A x \in Addresses : x >= DATA_START(u) => d[x] = c[x]
    /\ \A x \in Addresses : Used(c, x) => Used(d, x)

(* The map of d has room for shift entries more than that of c, from start on. *)
RoomMade(d, c, t, start, shift) ==
    /\ \A x \in 0 .. t + shift - 1 :
          Entry(d, x) = IF x < start THEN Entry(c, x) ELSE IF x < start + shift THEN 0 ELSE Entry(c, x - shift)
    /\ \A x \in DATA_START(t) .. DATA_START(t + shift) - 1 : Used(d, x)

(* What c and n are before and after the map makes room: n has a new size in its *)
(* header, or what has changed so far is outside of header and data.             *)
MadeRoom(n, c, t, start, p, size, old) ==
    \E d : /\ Outside(d, c, t - old + size)
           /\ \/ n = d
              \/ n = WithSize(d, p, size) /\ RoomMade(d, c, t, start, size - old)

LEMMA MakeRoomDoes ==
    ASSUME NEW t \in Nat, NEW old \in Nat, NEW size \in 0 .. MaxSize, old < size,
           t - old + size <= MaxTotal, NEW start \in 0 .. t, NEW p \in Parts,
           NEW m \in Goods, m.io.total = t, m.io.map_block_which < DATA_START(t),
           OneHeader(m.disk), IsHeader(m.disk[0]),
           MakeRoom(m, start, p, size, old).notes = {}
    PROVE  MadeRoom(MakeRoom(m, start, p, size, old).disk, m.disk, t, start, p, size, old)
<1> DEFINE shift == size - old
           u == t + shift
           s == ShiftAll(m, t - start, shift)
           c == ClearEntries(s, start, shift)
           k == MarkMaps(c, t, u)
           r == SetHeader(k, p, size)
<1>1. /\ shift \in Nat /\ u \in 0 .. MaxTotal /\ u \in Nat /\ t - old + size = u /\ t <= u
      /\ t + shift <= MaxTotal /\ start \in Nat /\ start + shift <= u
      /\ u = t + shift
  BY Constants
<1>2. MakeRoom(m, start, p, size, old) = r /\ r.notes = {}
  <2>1. MakeRoom(m, start, p, size, old) = SetHeader(MarkMaps(c, t, t - old + size), p, size)
    BY DEF MakeRoom
  <2> HIDE DEF c, u, shift
  <2> QED BY <1>1, <2>1
<1> HIDE DEF r
<1>3. m.io.map_block_which < DATA_START(u)
  <2>1. t \in 0 .. MaxTotal /\ DATA_START(t) <= DATA_START(u) /\ DATA_START(t) \in Nat /\ DATA_START(u) \in Nat
    BY <1>1, Regions, Constants
  <2>2. m.io.map_block_which \in Nat
    <3>1. m.io.map_block_which \in {0} \cup MAPS_START .. N - 1
      BY DEF Goods, Machines, Handles
    <3> QED BY <2>1, <3>1, TotalPlaces
  <2> HIDE DEF u
  <2> QED BY <2>1, <2>2
<1> HIDE DEF shift, u
<1>4. Reworked(s, m, u) /\ (s.ok /\ s.notes = {} => EntriesShifted(s.disk, m.disk, u, start, shift))
  <2>1. m.io.map_block_which < DATA_START(t + shift)
    BY <1>1, <1>3
  <2>2. /\ Reworked(s, m, t + shift)
        /\ s.ok /\ s.notes = {} => EntriesShifted(s.disk, m.disk, t + shift, start, shift)
    BY <1>1, <2>1, ShiftAllDoes
  <2> HIDE DEF s
  <2> QED BY <1>1, <2>2
<1> HIDE DEF s
<1>5. Reworked(c, s, u) /\ (c.ok /\ c.notes = {} => EntriesCleared(c.disk, s.disk, u, start, shift))
  <2>1. s \in Goods /\ s.io.map_block_which < DATA_START(u) /\ OneHeader(s.disk)
    BY <1>4 DEF Reworked
  <2> QED BY <1>1, <2>1, ClearEntriesDoes
<1> HIDE DEF c
<1>6. Reworked(c, m, u)
  BY <1>4, <1>5, ReworkedAndOn
<1>7. /\ MarkedOnly(k, c)
      /\ k.ok /\ k.notes = {} => \A x \in DATA_START(t) .. DATA_START(u) - 1 : Used(k.disk, x)
  <2>1. c \in Goods /\ OneHeader(c.disk)
    BY <1>6 DEF Reworked
  <2> QED BY <1>1, <2>1, MarkMapsDoes
<1> HIDE DEF k
<1>8. /\ MAPS_START \in Nat /\ 1 < MAPS_START /\ MAPS_START <= DATA_START(u)
      /\ DATA_START(u) \in Nat /\ 0 \in Addresses
  BY <1>1, TotalPlaces, Constants DEF Addresses
<1>9. /\ k \in Goods /\ k.disk \in Disks /\ OneHeader(k.disk) /\ k.disk[0] = m.disk[0]
      /\ \A x \in Addresses : x >= DATA_START(u) => k.disk[x] = m.disk[x]
  <2>1. k.disk[0] = c.disk[0] /\ c.disk[0] = m.disk[0]
    BY <1>6, <1>7, <1>8 DEF Reworked, MarkedOnly
  <2>2. ASSUME NEW x \in Addresses, x >= DATA_START(u) PROVE k.disk[x] = m.disk[x]
    <3>1. x \notin 1 .. MAPS_START - 1 /\ x \notin MAPS_START .. DATA_START(u) - 1
      BY <1>8, <2>2, Constants DEF Addresses
    <3> QED BY <1>6, <1>7, <3>1 DEF Reworked, MarkedOnly
  <2> QED BY <1>7, <2>1, <2>2 DEF MarkedOnly, Goods, Machines
<1>10. \A x \in Addresses : Used(m.disk, x) => Used(k.disk, x)
  <2>1. \A x \in 1 .. MAPS_START - 1 : c.disk[x] = m.disk[x]
    <3>1. \A x \in 1 .. MAPS_START - 1 : x \in Addresses /\ x \notin MAPS_START .. DATA_START(u) - 1
      BY <1>1, <1>8, TotalPlaces, Constants DEF Addresses
    <3> QED BY <1>6, <3>1 DEF Reworked
  <2>2. \A x \in Addresses : Used(c.disk, x) <=> Used(m.disk, x)
    BY <2>1, SameBitmap
  <2> QED BY <1>7, <2>2 DEF MarkedOnly
<1>11. Outside(k.disk, m.disk, u)
  BY <1>9, <1>10 DEF Outside
<1>12. r.notes = k.notes /\ (r.disk = k.disk \/ (r.disk = WithSize(k.disk, p, size) /\ k.ok))
  BY <1>9, SetHeaderDoes DEF r
<1>13. ASSUME k.ok PROVE RoomMade(k.disk, m.disk, t, start, shift)
  <2>1. k.notes = {} /\ c.ok /\ c.notes = {} /\ s.ok /\ s.notes = {}
    BY <1>2, <1>5, <1>7, <1>12, <1>13 DEF MarkedOnly, Reworked, GoesOn
  <2>2. \A x \in 0 .. u - 1 : Entry(k.disk, x) = Entry(c.disk, x)
    <3>1. \A x \in MAPS_START .. DATA_START(u) - 1 : k.disk[x] = c.disk[x]
      <4>1. \A x \in MAPS_START .. DATA_START(u) - 1 : x \in Addresses /\ x \notin 1 .. MAPS_START - 1
        BY <1>1, <1>8, TotalPlaces, Constants DEF Addresses
      <4> QED BY <1>7, <4>1 DEF MarkedOnly
    <3> QED BY <1>1, <3>1, SameMaps
  <2>3. \A x \in 0 .. u - 1 : Entry(c.disk, x) = IF x \in start .. start + shift - 1 THEN 0 ELSE Entry(s.disk, x)
    BY <1>5, <2>1 DEF EntriesCleared
  <2>4. \A x \in 0 .. u - 1 :
           Entry(s.disk, x) = IF x >= start + shift THEN Entry(m.disk, x - shift) ELSE Entry(m.disk, x)
    BY <1>4, <2>1 DEF EntriesShifted
  <2>5. ASSUME NEW x \in 0 .. u - 1
        PROVE  Entry(k.disk, x) = IF x < start THEN Entry(m.disk, x)
                                  ELSE IF x < start + shift THEN 0 ELSE Entry(m.disk, x - shift)
    <3>1. CASE x < start
      <4>1. x \notin start .. start + shift - 1 /\ ~(x >= start + shift)
        BY <1>1, <3>1
      <4> QED BY <2>2, <2>3, <2>4, <3>1, <4>1
    <3>2. CASE ~(x < start) /\ x < start + shift
      <4>1. x \in start .. start + shift - 1
        BY <1>1, <3>2
      <4> QED BY <2>2, <2>3, <3>2, <4>1
    <3>3. CASE ~(x < start) /\ ~(x < start + shift)
      <4>1. x \notin start .. start + shift - 1 /\ x >= start + shift
        BY <1>1, <3>3
      <4> QED BY <2>2, <2>3, <2>4, <3>3, <4>1
    <3> QED BY <3>1, <3>2, <3>3
  <2>6. \A x \in DATA_START(t) .. DATA_START(u) - 1 : Used(k.disk, x)
    BY <1>7, <1>13, <2>1
  <2> QED BY <1>1, <2>5, <2>6 DEF RoomMade
<1>14. \/ r.disk = k.disk
       \/ r.disk = WithSize(k.disk, p, size) /\ RoomMade(k.disk, m.disk, t, start, shift)
  BY <1>12, <1>13
<1>15. shift = size - old
  BY DEF shift
<1> QED BY <1>1, <1>2, <1>11, <1>14, <1>15 DEF MadeRoom

(* The call ended with the entries where they were: nothing is to be seen. *)
LEMMA NotMoved ==
    ASSUME NEW t \in 0 .. MaxTotal, NEW u \in 0 .. MaxTotal, t <= u,
           NEW c, NEW d, Owned(c, t), Outside(d, c, u),
           \A e \in 0 .. t - 1 : Entry(c, e) \notin DATA_START(t) .. DATA_START(u) - 1,
           \A e \in 0 .. t - 1 : Entry(d, e) = Entry(c, e)
    PROVE  Unseen(d, c, t)
<1>1. \A x \in Addresses : Used(c, x) => Used(d, x)
  BY DEF Outside
<1>2. Owned(d, t)
  BY <1>1, OwnedFrame
<1>3. ASSUME NEW e \in 0 .. t - 1 PROVE Val(d, e) = Val(c, e)
  <2>1. ASSUME Entry(c, e) # 0 PROVE d[Entry(c, e)] = c[Entry(c, e)]
    <3>1. Entry(c, e) \in Addresses /\ Entry(c, e) \in DATA_START(t) .. N - 1
      BY <2>1, EntryIsAddress
    <3>2. DATA_START(t) \in Nat /\ DATA_START(u) \in Nat
      BY TotalPlaces
    <3>3. Entry(c, e) >= DATA_START(u)
      BY <3>1, <3>2, Constants
    <3> QED BY <3>1, <3>3 DEF Outside
  <2> QED BY <2>1, ValFrame
<1> QED BY <1>2, <1>3 DEF Unseen, Outside

(* The call got to its end: each entry that is not new has what it had. *)
LEMMA RoomIsMade ==
    ASSUME NEW t \in Nat, NEW shift \in Nat, t + shift <= MaxTotal, NEW start \in 0 .. t,
           NEW c, NEW d, Owned(c, t), Outside(d, c, t + shift),
           \A e \in 0 .. t - 1 : Entry(c, e) \notin DATA_START(t) .. DATA_START(t + shift) - 1,
           RoomMade(d, c, t, start, shift)
    PROVE  /\ Owned(d, t + shift)
           /\ \A x \in 0 .. t + shift - 1 :
                 Val(d, x) = IF x < start THEN Val(c, x) ELSE IF x < start + shift THEN 0 ELSE Val(c, x - shift)
<1> DEFINE u == t + shift
           From(x) == IF x < start THEN x ELSE x - shift
<1>1. /\ u \in 0 .. MaxTotal /\ t \in 0 .. MaxTotal /\ u \in Nat /\ t <= u /\ u = t + shift
  BY Constants
<1> HIDE DEF u
<1>2. \A x \in 0 .. u - 1 :
         Entry(d, x) = IF x < start THEN Entry(c, x) ELSE IF x < start + shift THEN 0 ELSE Entry(c, x - shift)
  BY <1>1 DEF RoomMade
<1>3. \A x \in DATA_START(t) .. DATA_START(u) - 1 : Used(d, x)
  BY <1>1 DEF RoomMade
<1>4. /\ \A x \in Addresses : x >= DATA_START(u) => d[x] = c[x]
      /\ \A x \in Addresses : Used(c, x) => Used(d, x)
  BY <1>1 DEF Outside
<1>5. DATA_START(t) \in Nat /\ DATA_START(u) \in Nat /\ DATA_START(u) < N
  BY <1>1, TotalPlaces
<1>6. ASSUME NEW e \in 0 .. t - 1, Entry(c, e) # 0
      PROVE  /\ Entry(c, e) \in DATA_START(u) .. N - 1 /\ Entry(c, e) \in Addresses
             /\ Used(d, Entry(c, e)) /\ d[Entry(c, e)] = c[Entry(c, e)]
  <2>1. Entry(c, e) \in Addresses /\ Entry(c, e) \in DATA_START(t) .. N - 1 /\ Used(c, Entry(c, e))
    BY <1>1, <1>6, EntryIsAddress
  <2>2. Entry(c, e) \in DATA_START(u) .. N - 1
    BY <1>1, <1>5, <2>1, Constants
  <2> QED BY <1>4, <1>5, <2>1, <2>2, Constants
<1>7. ASSUME NEW x \in 0 .. u - 1, Entry(d, x) # 0
      PROVE  From(x) \in 0 .. t - 1 /\ Entry(d, x) = Entry(c, From(x)) /\ (x < start \/ x >= start + shift)
  <2>1. x < start \/ ~(x < start + shift)
    BY <1>2, <1>7
  <2>2. CASE x < start
    BY <1>1, <1>2, <2>2
  <2>3. CASE ~(x < start) /\ ~(x < start + shift)
    BY <1>1, <1>2, <2>3
  <2> QED BY <2>1, <2>2, <2>3
<1>8. ASSUME NEW x \in 0 .. u - 1, Entry(d, x) # 0
      PROVE  /\ Entry(d, x) \in DATA_START(u) .. N - 1 /\ Used(d, Entry(d, x))
             /\ \A o \in (0 .. u - 1) \ {x} : Entry(d, o) # Entry(d, x)
  <2>1. From(x) \in 0 .. t - 1 /\ Entry(d, x) = Entry(c, From(x)) /\ (x < start \/ x >= start + shift)
    BY <1>7, <1>8
  <2>2. ASSUME NEW o \in (0 .. u - 1) \ {x}, Entry(d, o) = Entry(d, x) PROVE FALSE
    <3>1. From(o) \in 0 .. t - 1 /\ Entry(d, o) = Entry(c, From(o)) /\ (o < start \/ o >= start + shift)
      BY <1>7, <1>8, <2>2
    <3>2. From(o) # From(x)
      BY <1>1, <2>1, <2>2, <3>1
    <3> HIDE DEF From
    <3>3. Entry(c, From(x)) # 0 /\ Entry(c, From(o)) = Entry(c, From(x))
      BY <1>8, <2>1, <2>2, <3>1
    <3> QED BY <2>1, <3>1, <3>2, <3>3 DEF Owned
  <2> HIDE DEF From
  <2>3. Entry(c, From(x)) # 0
    BY <1>8, <2>1
  <2> QED BY <1>6, <2>1, <2>2, <2>3
<1>9. ASSUME NEW x \in 0 .. DATA_START(u) - 1 PROVE Used(d, x)
  <2>1. CASE x < DATA_START(t)
    <3>1. Used(c, x) /\ x \in Addresses
      BY <1>5, <2>1, Constants DEF Owned, Addresses
    <3> QED BY <1>4, <3>1
  <2>2. CASE x >= DATA_START(t)
    BY <1>3, <1>5, <2>2
  <2> QED BY <1>5, <2>1, <2>2
<1>10. Owned(d, u)
  BY <1>8, <1>9 DEF Owned
<1>11. ASSUME NEW e \in 0 .. t - 1, NEW x, Entry(d, x) = Entry(c, e) PROVE Val(d, x) = Val(c, e)
  BY <1>6, <1>11 DEF Val
<1>12. ASSUME NEW x \in 0 .. u - 1
       PROVE  Val(d, x) = IF x < start THEN Val(c, x) ELSE IF x < start + shift THEN 0 ELSE Val(c, x - shift)
  <2>1. CASE x < start
    <3>1. x \in 0 .. t - 1 /\ Entry(d, x) = Entry(c, x)
      BY <1>1, <1>2, <2>1
    <3> QED BY <1>11, <2>1, <3>1
  <2>2. CASE ~(x < start) /\ x < start + shift
    <3>1. Entry(d, x) = 0
      BY <1>2, <2>2
    <3>2. Val(d, x) = 0
      BY <3>1 DEF Val
    <3> QED BY <2>2, <3>2
  <2>3. CASE ~(x < start) /\ ~(x < start + shift)
    <3>1. x - shift \in 0 .. t - 1 /\ Entry(d, x) = Entry(c, x - shift)
      BY <1>1, <1>2, <2>3
    <3>2. Val(d, x) = Val(c, x - shift)
      BY <1>11, <3>1
    <3> QED BY <2>3, <3>2
  <2> QED BY <2>1, <2>2, <2>3
<1> QED BY <1>1, <1>10, <1>12

(* The new size makes the blocks that were moved those of their partitions again. *)
LEMMA SizeIsSet ==
    ASSUME NEW d \in Disks, OneHeader(d), NEW p \in Parts, NEW size \in 0 .. MaxSize,
           NEW u \in 0 .. MaxTotal, Owned(d, u)
    PROVE  LET n == WithSize(d, p, size)
           IN  /\ n \in Disks /\ OneHeader(n) /\ IsHeader(n[0]) /\ Owned(n, u)
               /\ Sizes(n) = [Sizes(d) EXCEPT ![p] = size]
               /\ \A x \in 0 .. u - 1 : Val(n, x) = Val(d, x)
<1> DEFINE n == WithSize(d, p, size)
<1>1. /\ n \in Disks /\ IsHeader(n[0]) /\ Sizes(n) = [Sizes(d) EXCEPT ![p] = size]
      /\ \A x \in Addresses \ {0} : n[x] = d[x]
  BY WithSizeIs
<1> HIDE DEF n
<1>2. /\ MAPS_START \in Nat /\ 1 < MAPS_START /\ MAPS_START <= DATA_START(u)
      /\ DATA_START(u) \in Nat /\ DATA_START(u) < N
  BY TotalPlaces
<1>3. \A x \in 0 .. u - 1 : Entry(n, x) = Entry(d, x)
  <2>1. \A x \in MAPS_START .. DATA_START(u) - 1 : x \in Addresses \ {0}
    BY <1>2, Constants DEF Addresses
  <2>2. \A x \in MAPS_START .. DATA_START(u) - 1 : n[x] = d[x]
    BY <1>1, <2>1
  <2> QED BY <2>2, SameMaps
<1>4. \A b \in Addresses : Used(n, b) <=> Used(d, b)
  <2>1. \A x \in 1 .. MAPS_START - 1 : x \in Addresses \ {0}
    BY <1>2, Constants DEF Addresses
  <2>2. \A x \in 1 .. MAPS_START - 1 : n[x] = d[x]
    BY <1>1, <2>1
  <2> QED BY <2>2, SameBitmap
<1>5. Owned(n, u)
  BY <1>3, <1>4, OwnedFrame
<1>6. ASSUME NEW x \in 0 .. u - 1 PROVE Val(n, x) = Val(d, x)
  <2>1. ASSUME Entry(d, x) # 0 PROVE n[Entry(d, x)] = d[Entry(d, x)]
    BY <1>1, <2>1, EntryIsAddress
  <2> QED BY <1>3, <2>1, ValFrame
<1>7. OneHeader(n)
  BY <1>1 DEF OneHeader
<1> QED BY <1>1, <1>5, <1>6, <1>7 DEF n

LEMMA UnseenKeeps ==
    ASSUME DiskIsSound, ContentsAreKept, IsHeader(disk[0]), may' = may, remains' = remains,
           Unseen(disk', disk, Total(Sizes(disk)))
    PROVE  DiskIsSound' /\ ContentsAreKept'
<1> DEFINE S == Sizes(disk)
<1>1. S \in SizeTables /\ disk \in Disks
  BY SizesAreSizes DEF DiskIsSound
<1>2. /\ disk' \in Disks /\ disk'[0] = disk[0] /\ OneHeader(disk') /\ Owned(disk', Total(S))
      /\ \A e \in 0 .. Total(S) - 1 : Val(disk', e) = Val(disk, e)
  BY DEF Unseen
<1>3. Sizes(disk') = S /\ IsHeader(disk'[0])
  BY <1>2, SameHeader
<1>4. DiskIsSound'
  BY <1>2, <1>3 DEF DiskIsSound
<1>5. ASSUME NEW p \in Parts, NEW b \in 0 .. MaxSize - 1
      PROVE  IF b < S[p] THEN Val(disk', TrueOffset(S, p) + b) \in may[<<p, b>>] \cup remains[<<p, b>>]
             ELSE 0 \in may[<<p, b>>]
  <2>1. CASE b < S[p]
    <3>1. S[p] \in Nat /\ b \in 0 .. S[p] - 1
      BY <1>1, <2>1, Constants DEF SizeTables
    <3>2. TrueOffset(S, p) + b \in 0 .. Total(S) - 1
      BY <1>1, <3>1, EntryOfBlock
    <3> QED BY <1>2, <2>1, <3>2 DEF ContentsAreKept
  <2>2. CASE ~(b < S[p])
    BY <2>2 DEF ContentsAreKept
  <2> QED BY <2>1, <2>2
<1>6. ContentsAreKept'
  BY <1>3, <1>5 DEF ContentsAreKept
<1> QED BY <1>4, <1>6

(* A partition that has grown holds what it held, and zeroes. *)
LEMMA GrownKeeps ==
    ASSUME DiskIsSound, ContentsAreKept, IsHeader(disk[0]), may' = may, remains' = remains,
           NEW p \in Parts, NEW size \in 0 .. MaxSize, Sizes(disk)[p] < size,
           NEW t, t = Total(Sizes(disk)), NEW shift, shift = size - Sizes(disk)[p], t + shift <= MaxTotal,
           NEW start, start = TrueOffset(Sizes(disk), p) + Sizes(disk)[p],
           disk' \in Disks, OneHeader(disk'), IsHeader(disk'[0]), Owned(disk', t + shift),
           Sizes(disk') = [Sizes(disk) EXCEPT ![p] = size],
           \A x \in 0 .. t + shift - 1 :
              Val(disk', x) = IF x < start THEN Val(disk, x)
                              ELSE IF x < start + shift THEN 0 ELSE Val(disk, x - shift)
    PROVE  DiskIsSound' /\ ContentsAreKept'
<1> DEFINE S == Sizes(disk)
           Z == [S EXCEPT ![p] = size]
<1>1. S \in SizeTables /\ S[p] \in Nat /\ S[p] < size /\ size \in Nat
  BY SizesAreSizes, Constants DEF DiskIsSound
<1>2. /\ Z \in SizeTables /\ Total(Z) = Total(S) - S[p] + size
      /\ \A q \in 0 .. PartCount :
            TrueOffset(Z, q) = IF q <= p THEN TrueOffset(S, q) ELSE TrueOffset(S, q) - S[p] + size
  <2>1. S \in SizeTables
    BY <1>1
  <2> HIDE DEF S, Z
  <2>2. LET z == [S EXCEPT ![p] = size]
        IN  /\ z \in SizeTables
            /\ \A q \in 0 .. PartCount :
                  TrueOffset(z, q) = IF q <= p THEN TrueOffset(S, q) ELSE TrueOffset(S, q) - S[p] + size
            /\ Total(z) = Total(S) - S[p] + size
    BY <2>1, OffsetChange
  <2> QED BY <2>2 DEF Z
<1>3. t \in Nat /\ t \in 0 .. MaxTotal
  BY Constants DEF DiskIsSound
<1>4. Sizes(disk') = Z /\ Total(Z) = t + shift /\ t + shift \in 0 .. MaxTotal /\ shift \in Nat
  <2> HIDE DEF Z
  <2>1. Sizes(disk') = Z
    BY DEF Z
  <2>2. Total(Z) = t - S[p] + size /\ shift = size - S[p]
    BY <1>2
  <2> HIDE DEF S
  <2> QED BY <1>1, <1>3, <2>1, <2>2, Constants
<1>5. DiskIsSound'
  <2> HIDE DEF Z
  <2> QED BY <1>4 DEF DiskIsSound
<1>6. \A q \in Parts : Z[q] = IF q = p THEN size ELSE S[q]
  BY <1>1 DEF SizeTables
<1>7. start = TrueOffset(S, p) + S[p] /\ shift = size - S[p] /\ t = Total(S)
  OBVIOUS
<1> HIDE DEF S, Z
<1>8. ASSUME NEW q \in Parts, NEW b \in 0 .. MaxSize - 1
      PROVE  IF b < Z[q] THEN Val(disk', TrueOffset(Z, q) + b) \in may[<<q, b>>] \cup remains[<<q, b>>]
             ELSE 0 \in may[<<q, b>>]
  <2>1. /\ S[q] \in Nat /\ Z[q] \in Nat /\ b \in Nat /\ q \in 0 .. PartCount /\ p \in 0 .. PartCount
        /\ q \in Nat /\ p \in Nat
    BY <1>1, <1>2, Constants DEF SizeTables, Parts
  <2>2. TrueOffset(S, q) \in Nat /\ TrueOffset(Z, q) \in Nat /\ TrueOffset(S, p) \in Nat
    BY <1>1, <1>2, <2>1, OffsetIsNat
  <2>3. IF b < S[q] THEN Val(disk, TrueOffset(S, q) + b) \in may[<<q, b>>] \cup remains[<<q, b>>]
        ELSE 0 \in may[<<q, b>>]
    BY DEF ContentsAreKept, S
  <2>4. CASE ~(b < Z[q])
    <3>1. ~(b < S[q])
      BY <1>1, <1>6, <2>1, <2>4
    <3> QED BY <2>3, <2>4, <3>1
  <2>5. ASSUME b < Z[q] PROVE Val(disk', TrueOffset(Z, q) + b) \in may[<<q, b>>] \cup remains[<<q, b>>]
    <3> DEFINE x == TrueOffset(Z, q) + b
    <3>1. x \in 0 .. t + shift - 1
      <4>1. b \in 0 .. Z[q] - 1
        BY <2>1, <2>5
      <4>2. Z \in SizeTables
        BY <1>2
      <4>3. TrueOffset(Z, q) + b \in 0 .. Total(Z) - 1
        BY <4>1, <4>2, EntryOfBlock
      <4>4. Total(Z) = t + shift /\ t \in Nat /\ shift \in Nat
        BY <1>3, <1>4
      <4>5. TrueOffset(Z, q) \in Nat /\ b \in Nat
        BY <2>1, <2>2
      <4> QED BY <4>3, <4>4, <4>5
    <3>2. Val(disk', x) = IF x < start THEN Val(disk, x) ELSE IF x < start + shift THEN 0 ELSE Val(disk, x - shift)
      BY <3>1
    <3>3. CASE q < p
      <4>1. TrueOffset(S, q) + S[q] <= TrueOffset(S, p)
        BY <1>1, <2>1, <3>3, OffsetGrows
      <4>2. TrueOffset(Z, q) = TrueOffset(S, q) /\ b < S[q]
        BY <1>2, <1>6, <2>1, <2>5, <3>3
      <4>3. x < start /\ x = TrueOffset(S, q) + b
        BY <1>1, <1>7, <2>1, <2>2, <4>1, <4>2
      <4> QED BY <2>3, <3>2, <4>2, <4>3
    <3>4. CASE q = p /\ b < S[p]
      <4>1. TrueOffset(Z, q) = TrueOffset(S, q)
        BY <1>2, <2>1, <3>4
      <4>2. x < start /\ x = TrueOffset(S, q) + b
        BY <1>1, <1>7, <2>1, <2>2, <3>4, <4>1
      <4> QED BY <2>3, <3>2, <3>4, <4>2
    <3>5. CASE q = p /\ ~(b < S[p])
      <4>1. TrueOffset(Z, q) = TrueOffset(S, q) /\ Z[q] = size
        BY <1>2, <1>6, <2>1, <3>5
      <4>2. ~(x < start) /\ x < start + shift
        BY <1>1, <1>7, <2>1, <2>2, <2>5, <3>5, <4>1
      <4> QED BY <2>3, <3>2, <3>5, <4>2
    <3>6. CASE q > p
      <4>1. TrueOffset(S, p) + S[p] <= TrueOffset(S, q)
        BY <1>1, <2>1, <3>6, OffsetGrows
      <4>2. TrueOffset(Z, q) = TrueOffset(S, q) - S[p] + size /\ b < S[q]
        BY <1>2, <1>6, <2>1, <2>5, <3>6
      <4>3. ~(x < start) /\ ~(x < start + shift) /\ x - shift = TrueOffset(S, q) + b
        BY <1>1, <1>7, <2>1, <2>2, <4>1, <4>2
      <4> QED BY <2>3, <3>2, <4>2, <4>3
    <3> QED BY <2>1, <3>3, <3>4, <3>5, <3>6
  <2> QED BY <2>1, <2>4, <2>5
<1>9. ContentsAreKept'
  BY <1>4, <1>8 DEF ContentsAreKept
<1> QED BY <1>5, <1>9

(* The blocks in the way are all those that the map grows over. *)
LEMMA BadIsEnough ==
    ASSUME NEW t \in Nat, NEW shift \in Nat
    PROVE  DATA_START(t) .. DATA_START(t + shift) - 1
              \subseteq DATA_START(t) .. DATA_START(t) + Ceil(shift, Maps) - 1
<1> DEFINE a == Ceil(t, Maps)
           b == Ceil(shift, Maps)
           c == Ceil(t + shift, Maps)
<1>1. Maps \in Nat \ {0} /\ t + shift \in Nat /\ MAPS_START \in Nat
  BY Constants, Regions
<1>2. a \in Nat /\ b \in Nat /\ c \in Nat
  BY <1>1, CeilIs
<1>3. c <= a + b
  BY <1>1, CeilOfSum
<1>4. DATA_START(t) = MAPS_START + a /\ DATA_START(t + shift) = MAPS_START + c
  BY DEF DATA_START
<1> HIDE DEF a, b, c
<1>5. DATA_START(t) .. DATA_START(t + shift) - 1 \subseteq DATA_START(t) .. DATA_START(t) + b - 1
  BY <1>1, <1>2, <1>3, <1>4
<1> QED BY <1>5 DEF b

(* From the moved data on. *)
LEMMA ShiftedKeeps ==
    ASSUME DiskIsSound, ContentsAreKept, IsHeader(disk[0]), may' = may, remains' = remains,
           NEW p \in Parts, NEW size \in 1 .. MaxSize, NEW old \in Nat, old < size,
           NEW t, t = Total(Sizes(disk)), t - Sizes(disk)[p] + size <= MaxTotal,
           NEW r \in Goods, r.io.total = t, r.io.map_block_which < DATA_START(t),
           Unseen(r.disk, disk, t),
           \A e \in 0 .. t - 1 :
              Entry(r.disk, e) \notin DATA_START(t) .. DATA_START(t) + Ceil(size - old, Maps) - 1,
           Shifted(r, p, size, old).notes = {}, disk' = Shifted(r, p, size, old).m.disk
    PROVE  DiskIsSound' /\ ContentsAreKept'
<1> DEFINE S == Sizes(disk)
           b == SizesBefore(r, p)
           start == b.sum + old
           read == old = Sizes(disk)[p] /\ b.sum = TrueOffset(Sizes(disk), p)
           m == IF b.m.ok /\ read THEN MakeRoom(b.m, start, p, size, old) ELSE b.m
<1>1. /\ S \in SizeTables /\ S[p] \in Nat /\ t \in Nat /\ t \in 0 .. MaxTotal /\ t = Total(S)
      /\ disk \in Disks /\ size \in Nat /\ size \in 0 .. MaxSize /\ p \in 0 .. PartCount
  BY SizesAreSizes, Constants DEF DiskIsSound, Parts
<1>2. /\ r.disk \in Disks /\ r.disk[0] = disk[0] /\ OneHeader(r.disk) /\ Owned(r.disk, t)
      /\ \A e \in 0 .. t - 1 : Val(r.disk, e) = Val(disk, e)
  BY DEF Unseen
<1>3. Sizes(r.disk) = S /\ IsHeader(r.disk[0])
  BY <1>2, SameHeader
<1>4. /\ disk' = m.disk /\ m.notes = {} /\ ~Unlucky(m, r)
      /\ b.m.ok => read
  <2> DEFINE misread == b.m.ok /\ ~read
             k == IF misread THEN b.m ELSE Then(b.m, MakeRoom(b.m, start, p, size, old))
             notes == r.notes \cup k.notes \cup (IF misread THEN {"misread"} ELSE {})
                                           \cup (IF Unlucky(k, r) THEN {"unlucky"} ELSE {})
  <2>1. Shifted(r, p, size, old) = [m |-> k, notes |-> notes]
    BY DEF Shifted
  <2>2. k = m
    <3> HIDE DEF read
    <3> QED BY DEF Then
  <2> HIDE DEF m, k
  <2>3. disk' = m.disk /\ notes = {}
    <3> HIDE DEF notes
    <3> QED BY <2>1, <2>2
  <2>4. m.notes = {} /\ ~misread /\ ~Unlucky(m, r)
    <3> HIDE DEF misread
    <3> QED BY <2>2, <2>3
  <2> QED BY <2>3, <2>4
<1> HIDE DEF S
<1>5. /\ b.m \in Goods /\ Follows(b.m, r) /\ b.m.disk = r.disk
      /\ b.m.io.map_block_which = r.io.map_block_which
      /\ b.sum \in Nat
  BY SizesBeforeDoes
<1> HIDE DEF b
<1>6. ASSUME ~b.m.ok PROVE DiskIsSound' /\ ContentsAreKept'
  <2>1. disk' = r.disk
    BY <1>4, <1>5, <1>6
  <2> QED BY <2>1, UnseenKeeps
<1>7. ASSUME b.m.ok PROVE DiskIsSound' /\ ContentsAreKept'
  <2> DEFINE shift == size - old
  <2>1. TrueOffset(S, p) \in Nat /\ TrueOffset(S, p) + S[p] <= t
    <3>1. PartCount \in 0 .. PartCount /\ p < PartCount
      BY Constants DEF Parts
    <3>2. Total(S) = TrueOffset(S, PartCount)
      BY OffsetSteps
    <3> QED BY <1>1, <3>1, <3>2, OffsetIsNat, OffsetGrows
  <2>2. old = S[p] /\ start = TrueOffset(S, p) + S[p]
    BY <1>4, <1>7 DEF S
  <2>3. /\ start \in 0 .. t /\ start \in Nat /\ shift \in Nat /\ t + shift <= MaxTotal /\ t - old + size = t + shift
        /\ t - old + size <= MaxTotal /\ t + shift \in 0 .. MaxTotal /\ t <= t + shift
    <3>1. t - S[p] + size <= MaxTotal
      BY DEF S
    <3> HIDE DEF start
    <3> QED BY <1>1, <2>1, <2>2, <3>1, Constants
  <2> HIDE DEF start
  <2>4. m = MakeRoom(b.m, start, p, size, old)
    BY <1>4, <1>7
  <2>5. /\ b.m.io.total = t /\ b.m.io.map_block_which < DATA_START(t)
        /\ OneHeader(b.m.disk) /\ IsHeader(b.m.disk[0])
    BY <1>2, <1>3, <1>5 DEF Follows
  <2>6. MadeRoom(m.disk, b.m.disk, t, start, p, size, old)
    <3>1. MakeRoom(b.m, start, p, size, old).notes = {}
      BY <1>4, <2>4
    <3>2. /\ t \in Nat /\ old \in Nat /\ size \in 0 .. MaxSize /\ old < size /\ t - old + size <= MaxTotal
          /\ start \in 0 .. t /\ b.m \in Goods
      BY <1>1, <1>5, <2>3
    <3>3. MadeRoom(MakeRoom(b.m, start, p, size, old).disk, b.m.disk, t, start, p, size, old)
      BY <2>5, <3>1, <3>2, MakeRoomDoes
    <3> HIDE DEF m
    <3> QED BY <2>4, <3>3
  <2> HIDE DEF m
  <2>7. PICK d : /\ Outside(d, r.disk, t + shift)
                 /\ \/ m.disk = d
                    \/ m.disk = WithSize(d, p, size) /\ RoomMade(d, r.disk, t, start, shift)
    BY <1>5, <2>3, <2>6 DEF MadeRoom
  <2>8. \A e \in 0 .. t - 1 : Entry(r.disk, e) \notin DATA_START(t) .. DATA_START(t + shift) - 1
    <3>1. DATA_START(t) .. DATA_START(t + shift) - 1 \subseteq DATA_START(t) .. DATA_START(t) + Ceil(shift, Maps) - 1
      BY <1>1, <2>3, BadIsEnough
    <3>2. \A e \in 0 .. t - 1 : Entry(r.disk, e) \notin DATA_START(t) .. DATA_START(t) + Ceil(shift, Maps) - 1
      OBVIOUS
    <3> QED BY <3>1, <3>2
  <2>9. d \in Disks /\ OneHeader(d) /\ d[0] = r.disk[0]
    BY <2>7 DEF Outside
  <2>10. Sizes(d) = S /\ IsHeader(d[0])
    BY <1>3, <2>9, SameHeader
  <2> HIDE DEF shift
  <2>11. ASSUME m.disk = d PROVE DiskIsSound' /\ ContentsAreKept'
    <3>1. \A e \in 0 .. t - 1 : Entry(d, e) = Entry(r.disk, e)
      BY <1>4, <2>10, <2>11 DEF Unlucky, S
    <3>2. Unseen(d, r.disk, t)
      <4> DEFINE u == t + shift
      <4>1. u \in 0 .. MaxTotal /\ t <= u /\ Outside(d, r.disk, u)
            /\ \A e \in 0 .. t - 1 : Entry(r.disk, e) \notin DATA_START(t) .. DATA_START(u) - 1
        BY <2>3, <2>7, <2>8
      <4> HIDE DEF u
      <4> QED BY <1>1, <1>2, <3>1, <4>1, NotMoved
    <3>3. Unseen(d, disk, t)
      BY <3>2, UnseenAndUnseen
    <3> QED BY <1>4, <2>11, <3>3, UnseenKeeps
  <2>12. ASSUME m.disk = WithSize(d, p, size), RoomMade(d, r.disk, t, start, shift)
         PROVE  DiskIsSound' /\ ContentsAreKept'
    <3> DEFINE n == WithSize(d, p, size)
               u == t + shift
    <3>1. /\ Owned(d, t + shift)
          /\ \A x \in 0 .. t + shift - 1 :
                Val(d, x) = IF x < start THEN Val(r.disk, x)
                            ELSE IF x < start + shift THEN 0 ELSE Val(r.disk, x - shift)
      BY <1>1, <1>2, <2>3, <2>7, <2>8, <2>12, RoomIsMade
    <3>2. u \in 0 .. MaxTotal /\ Owned(d, u) /\ u = t + shift
      BY <2>3, <3>1
    <3> HIDE DEF u
    <3>3. /\ n \in Disks /\ OneHeader(n) /\ IsHeader(n[0]) /\ Owned(n, u)
          /\ Sizes(n) = [Sizes(d) EXCEPT ![p] = size]
          /\ \A x \in 0 .. u - 1 : Val(n, x) = Val(d, x)
      BY <1>1, <2>9, <3>2, SizeIsSet
    <3> HIDE DEF n
    <3>4. disk' = n
      BY <1>4, <2>12 DEF n
    <3>5. ASSUME NEW x \in 0 .. t + shift - 1
          PROVE  Val(disk', x) = IF x < start THEN Val(disk, x)
                                 ELSE IF x < start + shift THEN 0 ELSE Val(disk, x - shift)
      <4>1. Val(disk', x) = IF x < start THEN Val(r.disk, x)
                            ELSE IF x < start + shift THEN 0 ELSE Val(r.disk, x - shift)
        <5>1. x \in 0 .. u - 1
          <6>1. u = t + shift /\ t \in Nat /\ shift \in Nat
            BY <1>1, <2>3, <3>2
          <6> QED BY <6>1
        <5>2. Val(n, x) = Val(d, x)
          BY <3>3, <5>1
        <5>3. Val(disk', x) = Val(d, x)
          BY <3>4, <5>2
        <5>4. Val(d, x) = IF x < start THEN Val(r.disk, x)
                          ELSE IF x < start + shift THEN 0 ELSE Val(r.disk, x - shift)
          BY <3>1
        <5> QED BY <5>3, <5>4
      <4>2. /\ x < start => x \in 0 .. t - 1
            /\ ~(x < start) /\ ~(x < start + shift) => x - shift \in 0 .. t - 1
        BY <1>1, <2>3
      <4> QED BY <1>2, <4>1, <4>2
    <3>6. /\ disk' \in Disks /\ OneHeader(disk') /\ IsHeader(disk'[0]) /\ Owned(disk', t + shift)
          /\ Sizes(disk') = [Sizes(disk) EXCEPT ![p] = size]
      BY <2>10, <3>2, <3>3, <3>4 DEF S
    <3>7. /\ Sizes(disk)[p] < size /\ shift = size - Sizes(disk)[p]
          /\ start = TrueOffset(Sizes(disk), p) + Sizes(disk)[p]
      BY <2>2 DEF S, shift
    <3> QED BY <1>1, <2>3, <3>5, <3>6, <3>7, GrownKeeps
  <2> QED BY <2>7, <2>11, <2>12
<1>8. b.m.ok \in BOOLEAN
  BY <1>5 DEF Goods, Machines
<1> QED BY <1>6, <1>7, <1>8

LEMMA SetPartSizeKeeps ==
    ASSUME IndInv, NEW p \in Parts, NEW size \in 1 .. MaxSize, SetPartSize(p, size)
    PROVE  IndInv'
<1> SUFFICES ASSUME mishaps' = {} PROVE DiskIsSound' /\ HandleIsSound' /\ ContentsAreKept'
  BY DEF IndInv
<1> DEFINE t == Total(Sizes(disk))
<1>1. /\ io = NoHandle /\ IsHeader(disk[0]) /\ io' = io /\ may' = may /\ remains' = remains /\ mishaps = {}
      /\ t - Sizes(disk)[p] + size <= MaxTotal
  BY DEF SetPartSize, Ends
<1>2. DiskIsSound /\ HandleIsSound /\ ContentsAreKept
  BY <1>1 DEF IndInv
<1>3. HandleIsSound'
  BY <1>1 DEF HandleIsSound
<1>4. PICK f \in Faults(MaxCalls), j \in Junk : \E q \in {Resized(SetupIo(Misreading(f, j)), p, size)} :
         disk' = q.m.disk /\ mishaps' = q.notes
  BY DEF SetPartSize
<1> DEFINE M == Misreading(f, j)
           s == SetupIo(M)
           old == HeaderSizes(s)[p]
           h == ReadHeader(s)
           bad == DATA_START(t) .. DATA_START(t) + Ceil(size - old, Maps) - 1
           r == RemapAll(h, bad)
           q == Resized(s, p, size)
<1>5. disk' = q.m.disk /\ q.notes = {}
  BY <1>4
<1>6. /\ disk \in Disks /\ OneHeader(disk) /\ Owned(disk, t) /\ t \in 0 .. MaxTotal /\ t \in Nat
  BY <1>1, <1>2, Constants DEF DiskIsSound
<1>7. M \in Goods /\ M.disk = disk /\ M.io.total = t /\ M.io.map_block_which = 0 /\ M.notes = {}
  <2>1. FreshIo(disk).map_block_which = 0 /\ FreshIo(disk).total = t
    BY DEF FreshIo
  <2>2. MaxCalls \in Nat /\ j \in Nat
    BY GeometryAssumption
  <2>3. M \in Goods /\ M.disk = disk /\ M.io = FreshIo(disk) /\ M.notes = {}
    BY <1>1, <1>2, <2>2, MachineIsGood
  <2> QED BY <2>1, <2>3
<1> HIDE DEF M
<1>8. s \in Goods /\ s.disk = disk /\ s.io = M.io /\ Follows(s, M)
  BY <1>1, <1>7, SetupDoes
<1> HIDE DEF s
<1>9. old \in Nat
  BY <1>8, HeaderSizesAre DEF Goods
<1>10. /\ h \in Goods /\ Follows(h, s) /\ h.disk = disk
       /\ h.io.map_block_which = 0 /\ h.io.total = t /\ h.ok \in BOOLEAN
  <2>1. h \in Goods /\ Follows(h, s) /\ h.disk = s.disk /\ h.io.map_block_which = s.io.map_block_which
    BY <1>8, ReadHeaderDoes
  <2> HIDE DEF h
  <2> QED BY <1>7, <1>8, <2>1 DEF Follows, Goods, Machines
<1>11. q = IF h.ok /\ size > old
           THEN IF r.ok THEN Shifted(r, p, size, old) ELSE [m |-> r, notes |-> r.notes]
           ELSE [m |-> h, notes |-> h.notes]
  <2>1. q = IF h.ok /\ size > old THEN Grown(h, p, size, old) ELSE [m |-> h, notes |-> h.notes]
    BY DEF Resized
  <2> HIDE DEF h, q
  <2>2. Grown(h, p, size, old) = IF r.ok THEN Shifted(r, p, size, old) ELSE [m |-> r, notes |-> r.notes]
    BY <1>10 DEF Grown
  <2> QED BY <2>1, <2>2
<1> HIDE DEF h, q, old, r
<1>12. ASSUME ~(h.ok /\ size > old) PROVE DiskIsSound' /\ ContentsAreKept'
  <2>1. disk' = disk
    BY <1>5, <1>10, <1>11, <1>12
  <2>2. Unseen(disk', disk, t)
    BY <1>6, <2>1, UnseenIs
  <2> QED BY <1>1, <1>2, <2>2, UnseenKeeps
<1>13. ASSUME h.ok, size > old PROVE DiskIsSound' /\ ContentsAreKept'
  <2>1. q = IF r.ok THEN Shifted(r, p, size, old) ELSE [m |-> r, notes |-> r.notes]
    BY <1>11, <1>13
  <2>2. r.notes = {}
    <3>1. r.notes \subseteq Shifted(r, p, size, old).notes
      BY DEF Shifted
    <3> QED BY <1>5, <2>1, <3>1
  <2>3. 0 \notin bad /\ h.io.map_block_which < DATA_START(t)
    BY <1>6, <1>10, TotalPlaces
  <2> HIDE DEF bad
  <2>4. Moved(r, h, t) /\ (r.ok => \A e \in 0 .. t - 1 : Entry(r.disk, e) \notin bad)
    <3>1. RemapAll(h, bad).notes = {} /\ IsHeader(h.disk[0]) /\ Owned(h.disk, t) /\ OneHeader(h.disk)
      BY <1>1, <1>6, <1>10, <2>2 DEF r
    <3> QED BY <1>6, <1>10, <2>3, <3>1, RemapAllDoes DEF r
  <2>5. r \in Goods /\ r.io.total = t /\ r.io.map_block_which < DATA_START(t) /\ Unseen(r.disk, disk, t) /\ r.ok \in BOOLEAN
    BY <1>10, <2>4 DEF Moved, GoesOn, Goods, Machines
  <2>6. ASSUME ~r.ok PROVE DiskIsSound' /\ ContentsAreKept'
    <3>1. disk' = r.disk
      BY <1>5, <2>1, <2>6
    <3> QED BY <1>1, <1>2, <2>5, <3>1, UnseenKeeps
  <2>7. ASSUME r.ok PROVE DiskIsSound' /\ ContentsAreKept'
    <3>1. Shifted(r, p, size, old).notes = {} /\ disk' = Shifted(r, p, size, old).m.disk
      BY <1>5, <2>1, <2>7
    <3>2. \A e \in 0 .. t - 1 : Entry(r.disk, e) \notin DATA_START(t) .. DATA_START(t) + Ceil(size - old, Maps) - 1
      BY <2>4, <2>7 DEF bad
    <3>3. old < size
      BY <1>9, <1>13
    <3> QED BY <1>1, <1>2, <1>9, <2>5, <3>1, <3>2, <3>3, ShiftedKeeps
  <2> QED BY <2>5, <2>6, <2>7
<1> QED BY <1>3, <1>10, <1>12, <1>13

-----------------------------------------------------------------------------
(* The inductive invariant, and what follows from it. *)

LEMMA NextKeeps == IndInv /\ AlignedReadsAreTheirOwn /\ [Next]_vars => IndInv' /\ AlignedReadsAreTheirOwn'
<1> SUFFICES ASSUME IndInv, AlignedReadsAreTheirOwn, [Next]_vars
             PROVE  IndInv' /\ AlignedReadsAreTheirOwn'
  OBVIOUS
<1>1. ASSUME reply' = NoReply PROVE AlignedReadsAreTheirOwn'
  BY <1>1 DEF AlignedReadsAreTheirOwn
<1>2. CASE Initialize
  <2>1. reply' = NoReply
    BY <1>2 DEF Initialize
  <2> QED BY <1>1, <1>2, <2>1, InitializeKeeps
<1>3. ASSUME NEW p \in Parts, OpenPartition(p) PROVE IndInv' /\ AlignedReadsAreTheirOwn'
  <2>1. reply' = NoReply
    BY <1>3 DEF OpenPartition
  <2> QED BY <1>1, <1>3, <2>1, OpenKeeps
<1>4. ASSUME NEW p \in Parts, NEW size \in 1 .. MaxSize, SetPartSize(p, size)
      PROVE  IndInv' /\ AlignedReadsAreTheirOwn'
  <2>1. reply' = NoReply
    BY <1>4 DEF SetPartSize
  <2> QED BY <1>1, <1>4, <2>1, SetPartSizeKeeps
<1>5. ASSUME NEW b \in 0 .. MaxSize - 1, ReadBlock(b) PROVE IndInv' /\ AlignedReadsAreTheirOwn'
  BY <1>5, ReadBlockKeeps
<1>6. ASSUME NEW b \in 0 .. MaxSize - 1, WriteBlock(b) PROVE IndInv' /\ AlignedReadsAreTheirOwn'
  <2>1. reply' = NoReply
    BY <1>6 DEF WriteBlock
  <2> QED BY <1>1, <1>6, <2>1, WriteBlockKeeps
<1>7. CASE ClearCaches
  <2>1. reply' = NoReply
    BY <1>7 DEF ClearCaches
  <2> QED BY <1>1, <1>7, <2>1, CachesKeep
<1>8. CASE Close
  <2>1. reply' = NoReply
    BY <1>8 DEF Close
  <2> QED BY <1>1, <1>8, <2>1, CloseKeeps
<1>9. CASE UNCHANGED vars
  <2>1. UNCHANGED <<disk, io, may, remains, reply, mishaps, faults>>
    BY <1>9 DEF vars
  <2>2. IndInv'
    BY <2>1 DEF IndInv, DiskIsSound, HandleIsSound, ContentsAreKept
  <2>3. AlignedReadsAreTheirOwn'
    BY <2>1 DEF AlignedReadsAreTheirOwn
  <2> QED BY <2>2, <2>3
<1> QED BY <1>2, <1>3, <1>4, <1>5, <1>6, <1>7, <1>8, <1>9 DEF Next

(***************************************************************************)
(* The disk, the handle and the contents are sound in every state that is  *)
(* reached without a mishap, through calls of partitioner.c that fail or   *)
(* die anywhere.                                                           *)
(***************************************************************************)
THEOREM PartitionerIsSound == Spec => [](IndInv /\ AlignedReadsAreTheirOwn)
<1>1. Init => IndInv /\ AlignedReadsAreTheirOwn
  BY InitIsSound DEF Init, AlignedReadsAreTheirOwn
<1> QED BY <1>1, NextKeeps, PTL DEF Spec

(***************************************************************************)
(* No two entries of the map have one block of the device, and no block    *)
(* that an entry, the map, the bitmap or the header has is free in the     *)
(* bitmap: what partitioner_scan_free_block returns is nobody's.  This is  *)
(* so up to the first mishap (see Partitioner), whatever the sizes of a    *)
(* header that could not be read seem to be.                               *)
(***************************************************************************)
THEOREM OwnersAreApart == Spec => []EachBlockHasOneOwner
<1>1. IndInv => EachBlockHasOneOwner
  BY DEF IndInv, DiskIsSound, Owned, EachBlockHasOneOwner, Sound, Entries, DataBlocks
<1> QED BY <1>1, PartitionerIsSound, PTL

(***************************************************************************)
(* Every block of every partition holds what part_write_block last put     *)
(* there, through every growth of any partition, whole or cut short, up to *)
(* the first mishap.  After a first write that failed it may hold what its *)
(* place had before.  A write counts for the block that has the entry it   *)
(* uses, which a handle with a wrong offset or size does not name.         *)
(***************************************************************************)
THEOREM ContentsSurvive == Spec => []PartitionsAreKept
<1>1. ASSUME IndInv PROVE PartitionsAreKept
  <2> SUFFICES ASSUME Sound, NEW p \in Parts, NEW b \in 0 .. Sizes(disk)[p] - 1
               PROVE  Val(disk, TrueOffset(Sizes(disk), p) + b) \in may[<<p, b>>] \cup remains[<<p, b>>]
    BY DEF PartitionsAreKept, Val
  <2>1. DiskIsSound /\ ContentsAreKept
    BY <1>1 DEF IndInv, Sound
  <2>2. Sizes(disk)[p] \in 0 .. MaxSize /\ MaxSize \in Nat
    BY <2>1, SizesAreSizes, Constants DEF DiskIsSound, SizeTables
  <2>3. b \in 0 .. MaxSize - 1 /\ b < Sizes(disk)[p]
    BY <2>2
  <2> QED BY <2>1, <2>3 DEF ContentsAreKept
<1> QED BY <1>1, PartitionerIsSound, PTL

(***************************************************************************)
(* What part_read_block returns, from the map block the handle has or from *)
(* the disk, is what the block of the partition holds, where the handle    *)
(* has the right offset and the partition has that block.                  *)
(***************************************************************************)
THEOREM ReadsAreTheirOwn == Spec => []AlignedReadsAreTheirOwn
BY PartitionerIsSound, PTL

(***************************************************************************)
(* The bitmap block and the map block in the struct part_io are never      *)
(* stale: every failed read or write of one, and every use of its buffer   *)
(* for the header, makes the code forget which block it has.               *)
(***************************************************************************)
THEOREM BuffersAreNotStale == Spec => []BuffersAreTheDisk
<1>1. IndInv => BuffersAreTheDisk
  BY DEF IndInv, HandleIsSound, Buffered, BuffersAreTheDisk
<1> QED BY <1>1, PartitionerIsSound, PTL
================================================================================
