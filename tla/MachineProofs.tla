---------------------------- MODULE MachineProofs ----------------------------
(***************************************************************************)
(* What is proved about the machine.  The frame allocator, for bitmaps,    *)
(* memory maps, handles and requests of any size: no frame has two owners, *)
(* the bitmap tells exactly what may be given, and what is given is the    *)
(* first fit.  The page cache of the disks, the start of the processors    *)
(* and the tick they pass around, and the wait for the power management    *)
(* timer are instances.                                                    *)
(***************************************************************************)
EXTENDS FrameAllocator, TLAPS

-----------------------------------------------------------------------------
(* Numbers and sequences.                                                  *)

\* Quotient and remainder.
LEMMA Division ==
  ASSUME NEW n \in Nat \ {0}, NEW a \in Nat
  PROVE  a \div n \in Nat /\ a % n \in 0..n - 1 /\ a = (a \div n) * n + (a % n)
OBVIOUS

LEMMA NoRemainder ==
  ASSUME NEW n \in Nat \ {0}, NEW a \in Nat, a % n = 0
  PROVE  a = (a \div n) * n /\ a \div n \in Nat
<1>1. (a \div n) * n \in Nat
  BY Division
<1> QED BY <1>1, Division

LEMMA Multiples ==
  ASSUME NEW n \in Nat \ {0}, NEW a \in Int, NEW b \in Int, a < b
  PROVE  a * n + n <= b * n
<1>1. b = a + 1 + (b - a - 1) /\ b - a - 1 \in Nat
  OBVIOUS
<1>2. \A m \in Nat : (a + 1 + m) * n = a * n + n + m * n /\ m * n \in Nat
  OBVIOUS
<1> QED BY <1>1, <1>2

\* A number has one quotient and one remainder.
LEMMA OneQuotient ==
  ASSUME NEW n \in Nat \ {0}, NEW a \in Int, NEW b \in Int, NEW x \in 0..n - 1, NEW y \in 0..n - 1,
         a * n + x = b * n + y
  PROVE  a = b /\ x = y
<1>1. ~(a < b)
  <2> SUFFICES ASSUME a < b PROVE FALSE
    OBVIOUS
  <2>1. a * n + n <= b * n
    BY Multiples
  <2>2. a * n \in Int /\ b * n \in Int
    OBVIOUS
  <2> QED BY <2>1, <2>2
<1>2. ~(b < a)
  <2> SUFFICES ASSUME b < a PROVE FALSE
    OBVIOUS
  <2>1. b * n + n <= a * n
    BY Multiples
  <2>2. a * n \in Int /\ b * n \in Int
    OBVIOUS
  <2> QED BY <2>1, <2>2
<1>3. a = b
  BY <1>1, <1>2
<1>4. a * n \in Int
  OBVIOUS
<1> QED BY <1>3, <1>4

LEMMA Cancel ==
  ASSUME NEW n \in Nat \ {0}, NEW a \in Int, NEW b \in Int, a * n < b * n
  PROVE  a < b
<1> SUFFICES ASSUME ~(a < b) PROVE FALSE
  OBVIOUS
<1>1. b = a \/ b < a
  OBVIOUS
<1>2. b < a => b * n + n <= a * n
  BY Multiples
<1>3. a * n \in Int /\ b * n \in Int
  OBVIOUS
<1> QED BY <1>1, <1>2, <1>3

LEMMA NoEntry ==
  ASSUME NEW h, NEW g, g = <<>>, h = [y \in DOMAIN g |-> h[y]]
  PROVE  h = <<>>
<1>1. h = [y \in 1..0 |-> h[y]]
  OBVIOUS
<1>2. h \in Seq({}) /\ Len(h) = 0
  BY <1>1
<1> QED BY <1>2

-----------------------------------------------------------------------------
(* The page cache.                                                         *)

CONSTANTS BlockSize, BlocksPerPage, DiskBlocks, Layouts, Disks, Ranges
VARIABLES partitions, disk, devices, cache, content, torn

C == INSTANCE PageCache

\* Partitions lie on the disk, behind its first block, which is the header's.
CacheAssumption ==
  /\ BlockSize \in Nat \ {0} /\ BlocksPerPage \in Nat \ {0} /\ DiskBlocks \in Nat
  /\ Ranges \subseteq Nat \X Nat
  /\ \A l \in Layouts : \A j \in DOMAIN l :
       /\ l[j].start \in Nat /\ l[j].last \in Nat
       /\ 0 < l[j].start /\ l[j].start <= l[j].last /\ l[j].last < DiskBlocks

PageAligned == (\A j \in DOMAIN partitions : C!Proper(partitions[j])) /\ C!Sized

\* A device begins with a page, and ends with a page or with the disk.
Whole(d) ==
  /\ d.page_offset \in Nat /\ d.total_sectors \in Nat
  /\ d.first_sector = d.page_offset * BlocksPerPage
  /\ \/ d.first_sector + d.total_sectors = DiskBlocks
     \/ /\ d.first_sector + d.total_sectors < DiskBlocks
        /\ \E m \in Nat : d.total_sectors = m * BlocksPerPage

\* Where byte y of page x of the cache is on the disk.
Byte(x, y) == (x - 1) * C!PageSize + y - 1

Page == [1..C!PageSize -> Int]

Cached(c, x) == x \in DOMAIN c /\ c[x] # <<>>

\* A page that is cached holds what was last written, and of one that is not
\* nothing was written.
CacheInv ==
  /\ \A d \in devices : Whole(d)
  /\ cache \in Seq(Page \cup {<<>>})
  /\ DOMAIN content = 0..C!DiskSize - 1
  /\ \A x \in Nat \ {0}, y \in 1..C!PageSize : Byte(x, y) < C!DiskSize =>
       IF Cached(cache, x) THEN x \in torn \/ cache[x][y] = content[Byte(x, y)]
       ELSE content[Byte(x, y)] = Byte(x, y)

LEMMA DevicesWhole ==
  ASSUME CacheAssumption, C!Init, PageAligned
  PROVE  \A d \in devices : Whole(d)
<1>1. PICK garbage \in 0..DiskBlocks : devices = C!set_sata_devices(garbage)
  BY Zenon DEF C!Init
<1>2. Whole(C!Device(0, DiskBlocks))
  BY DEF CacheAssumption, Whole, C!Device
<1>3. ASSUME NEW j \in DOMAIN partitions
      PROVE  Whole(C!PartitionOf(disk, j, garbage))
  <2> DEFINE first == partitions[j].start
             total == partitions[j].last - partitions[j].start + 1
             b == BlocksPerPage
  <2>1. /\ first \in Nat \ {0} /\ partitions[j].last \in Nat /\ total \in Nat
        /\ first + total <= DiskBlocks /\ DiskBlocks \in Nat /\ b \in Nat \ {0}
    BY DEF C!Init, CacheAssumption
  <2>2. C!Device(first, total) \in devices
    BY DEF PageAligned, C!Sized
  <2>3. C!Device(first, total) # C!Device(0, DiskBlocks)
    BY <2>1 DEF C!Device
  <2>4. PICK h \in DOMAIN partitions : C!Device(first, total) = C!PartitionOf(disk, h, garbage)
    BY <1>1, <2>2, <2>3, Zenon DEF C!set_sata_devices
  <2>5. C!PartitionOf(disk, j, garbage) = C!Device(first, total)
    BY <2>4 DEF C!PartitionOf, C!Device
  <2>6. first % b = 0 /\ (first + total) % b = 0
    <3>1. partitions[j].last + 1 = first + total
      BY <2>1
    <3> QED BY <3>1 DEF PageAligned, C!Proper
  <2> HIDE DEF first, total, b
  <2>7. first = (first \div b) * b /\ first \div b \in Nat
    BY <2>1, <2>6, NoRemainder
  <2>8. first + total = ((first + total) \div b) * b /\ (first + total) \div b \in Nat
    BY <2>1, <2>6, NoRemainder
  <2>9. \E m \in Nat : total = m * b
    <3> DEFINE m == (first + total) \div b
               l == first \div b
    <3> HIDE DEF m, l
    <3>1. m \in Nat /\ l \in Nat /\ total = m * b - l * b /\ total \in Nat /\ b \in Nat \ {0}
      BY <2>1, <2>7, <2>8 DEF m, l
    <3>2. m - l \in Int /\ (m - l) * b = total
      BY <3>1
    <3>3. ~(m < l)
      <4>1. m < l => m * b + b <= l * b
        BY <3>1, Multiples
      <4> QED BY <3>1, <4>1
    <3> QED BY <3>1, <3>2, <3>3
  <2> QED BY <2>1, <2>5, <2>7, <2>9 DEF b, Whole, C!Device
<1> QED BY <1>1, <1>2, <1>3, Zenon DEF C!set_sata_devices

LEMMA Sizes ==
  ASSUME CacheAssumption
  PROVE  /\ C!PageSize \in Nat \ {0} /\ C!DiskSize \in Nat
         /\ BlockSize \in Nat \ {0} /\ BlocksPerPage \in Nat \ {0} /\ DiskBlocks \in Nat
         /\ C!PageSize = BlockSize * BlocksPerPage /\ C!DiskSize = DiskBlocks * BlockSize
         /\ \A x \in Int, y \in Int : Byte(x, y) \in Int
BY DEF CacheAssumption, C!PageSize, C!DiskSize, Byte

\* ceil is exact on multiples, and otherwise the next one.
LEMMA Ceil ==
  ASSUME NEW n \in Nat \ {0}, NEW a \in Nat
  PROVE  /\ C!ceil(a, n) \in Nat
         /\ a <= C!ceil(a, n) * n /\ C!ceil(a, n) * n < a + n
         /\ C!ceil(n * a, n) = a
<1>1. \A m \in Nat : C!ceil(m, n) \in Nat /\ m <= C!ceil(m, n) * n /\ C!ceil(m, n) * n < m + n
  <2> TAKE m \in Nat
  <2> DEFINE s == m + n - 1
             q == s \div n
  <2>1. s \in Nat
    OBVIOUS
  <2>2. q \in Nat /\ s % n \in 0..n - 1 /\ s = q * n + (s % n)
    BY <2>1, Division, Zenon
  <2>3. q * n \in Nat
    BY <2>2
  <2>4. m <= q * n /\ q * n < m + n
    BY <2>2, <2>3
  <2> QED BY <2>2, <2>4, Zenon DEF C!ceil
<1>2. C!ceil(n * a, n) = a
  <2> DEFINE q == C!ceil(n * a, n)
  <2> HIDE DEF q
  <2>1. n * a \in Nat /\ n * a = a * n
    OBVIOUS
  <2>2. q \in Nat /\ a * n <= q * n /\ q * n < a * n + n
    BY <1>1, <2>1 DEF q
  <2>3. ~(a < q) /\ ~(q < a)
    <3>1. a < q => a * n + n <= q * n
      BY <2>2, Multiples
    <3>2. q < a => q * n + n <= a * n
      BY <2>2, Multiples
    <3>3. a * n \in Int /\ q * n \in Int
      BY <2>2
    <3> QED BY <2>2, <3>1, <3>2, <3>3
  <2> QED BY <2>2, <2>3 DEF q
<1> QED BY <1>1, <1>2, Zenon

\* What is read to a new page of a whole device are the bytes of its place.
LEMMA FillRight ==
  ASSUME CacheAssumption, NEW d, Whole(d), NEW p \in Nat, p * C!PageSize < C!get_filesize(d)
  PROVE  /\ C!Fill(d, p) \in Page
         /\ \A y \in 1..C!PageSize : Byte(d.page_offset + p + 1, y) < C!DiskSize =>
              C!Fill(d, p)[y] = Byte(d.page_offset + p + 1, y)
<1> DEFINE B == BlockSize
           N == BlocksPerPage
           o == d.page_offset
           t == d.total_sectors
           read == IF N < t - p * N THEN N ELSE t - p * N
           from == (d.first_sector + p * N) * B
<1>1. /\ B \in Nat \ {0} /\ N \in Nat \ {0} /\ o \in Nat /\ t \in Nat /\ DiskBlocks \in Nat
      /\ d.first_sector = o * N
      /\ C!PageSize = B * N /\ C!DiskSize = DiskBlocks * B
      /\ C!get_filesize(d) = B * t /\ C!PageSize \in Nat \ {0} /\ C!DiskSize \in Nat
  BY Sizes, Zenon DEF Whole, C!get_filesize
<1>2. C!ceil(C!get_filesize(d), B) = t
  BY <1>1, Ceil, Zenon
<1>3. C!Fill(d, p) = [y \in 1..C!PageSize |-> IF y <= read * B /\ from + y <= C!DiskSize
                                             THEN from + y - 1 ELSE C!Junk]
  BY <1>2 DEF C!Fill, C!Smaller
<1> HIDE DEF B, N, o, t
<1>4. from = (o + p) * C!PageSize /\ from \in Nat
  BY <1>1
<1>5. \A y \in Int : Byte(o + p + 1, y) = from + y - 1
  BY <1>1, <1>4 DEF Byte
<1>6. p * N < t /\ p * N \in Nat
  <2>1. (p * N) * B < t * B
    BY <1>1
  <2> QED BY <1>1, <2>1, Cancel
<1>7. ASSUME NEW y \in 1..C!PageSize, from + y - 1 < C!DiskSize
      PROVE  y <= read * B
  <2>1. CASE N < t - p * N
    BY <1>1, <2>1
  <2>2. CASE ~(N < t - p * N) /\ o * N + t = DiskBlocks
    <3>1. read = t - p * N
      BY <2>2
    <3>2. t = DiskBlocks - o * N
      BY <1>1, <2>2
    <3>3. read * B = DiskBlocks * B - (o + p) * (B * N)
      BY <1>1, <3>1, <3>2
    <3> QED BY <1>1, <1>4, <1>7, <3>3
  <2>3. CASE ~(N < t - p * N) /\ \E m \in Nat : t = m * N
    <3>1. PICK m \in Nat : t = m * N
      BY <2>3
    <3>2. p < m
      BY <1>1, <1>6, <3>1, Cancel
    <3>3. p * N + N <= t
      BY <1>1, <3>1, <3>2, Multiples
    <3>4. read = N
      BY <1>1, <1>6, <2>3, <3>3
    <3> QED BY <1>1, <3>4
  <2> QED BY <1>1, <2>1, <2>2, <2>3 DEF Whole, o, t, N
<1> HIDE DEF read, from
<1>8. \A y \in 1..C!PageSize : Byte(o + p + 1, y) < C!DiskSize => C!Fill(d, p)[y] = Byte(o + p + 1, y)
  BY <1>1, <1>3, <1>4, <1>5, <1>7, SMTT(30)
<1>9. C!Fill(d, p) \in Page
  BY <1>1, <1>3, <1>4 DEF Page, C!Junk
<1> QED BY <1>8, <1>9 DEF o

\* The pages of an access: the first and the one behind the last.
First(r) == r[1] \div C!PageSize

Behind(r) == C!ceil(r[1] + r[2], C!PageSize)

LEMMA Access ==
  ASSUME CacheAssumption, NEW r \in Ranges, r[2] # 0
  PROVE  /\ r[1] \in Nat /\ r[2] \in Nat \ {0}
         /\ First(r) \in Nat /\ Behind(r) \in Nat /\ First(r) < Behind(r)
         /\ \A p \in Int : p >= First(r) + 1 => r[1] < p * C!PageSize
         /\ \A p \in Int : p < Behind(r) => p * C!PageSize < r[1] + r[2]
         /\ \A p \in Int, y \in 0..C!PageSize - 1 :
              p * C!PageSize + y \in r[1]..(r[1] + r[2] - 1) => p \in First(r)..(Behind(r) - 1)
<1> DEFINE S == C!PageSize
           a == r[1]
           s == r[2]
           f == First(r)
           e == Behind(r)
<1>1. a \in Nat /\ s \in Nat \ {0} /\ S \in Nat \ {0}
  BY Sizes, Zenon DEF CacheAssumption
<1>2. f \in Nat /\ f * S \in Nat /\ f * S <= a /\ a < f * S + S
  <2> HIDE DEF a, S
  <2>1. a \div S \in Nat /\ a % S \in 0..S - 1 /\ a = (a \div S) * S + (a % S)
    BY <1>1, Division, Zenon
  <2>2. f = a \div S
    BY DEF First, a, S
  <2>3. f * S \in Nat
    BY <1>1, <2>1, <2>2
  <2> QED BY <1>1, <2>1, <2>2, <2>3
<1>3. e \in Nat /\ e * S \in Nat /\ a + s <= e * S /\ e * S < a + s + S
  <2>1. a + s \in Nat
    BY <1>1
  <2> HIDE DEF a, s, S
  <2>2. C!ceil(a + s, S) \in Nat /\ a + s <= C!ceil(a + s, S) * S /\ C!ceil(a + s, S) * S < a + s + S
    BY <1>1, <2>1, Ceil, Zenon
  <2>3. e = C!ceil(a + s, S)
    BY DEF Behind, a, s, S
  <2>4. e * S \in Nat
    BY <1>1, <2>2, <2>3
  <2> QED BY <2>2, <2>3, <2>4
<1> HIDE DEF a, s, S, f, e
<1>4. \A p \in Int : p >= f + 1 => a < p * S
  <2> SUFFICES ASSUME NEW p \in Int, p >= f + 1 PROVE a < p * S
    OBVIOUS
  <2>1. f * S + S <= p * S
    BY <1>1, <1>2, Multiples
  <2>2. p * S \in Int
    BY <1>1
  <2> QED BY <1>1, <1>2, <2>1, <2>2
<1>5. \A p \in Int : p < e => p * S < a + s
  <2> SUFFICES ASSUME NEW p \in Int, p < e PROVE p * S < a + s
    OBVIOUS
  <2>1. p * S + S <= e * S
    BY <1>1, <1>3, Multiples
  <2>2. p * S \in Int
    BY <1>1
  <2> QED BY <1>1, <1>3, <2>1, <2>2
<1>6. ASSUME NEW p \in Int, NEW y \in 0..S - 1, p * S + y \in a..(a + s - 1)
      PROVE  f <= p /\ p < e
  <2>1. p * S \in Int
    BY <1>1
  <2>2. ~(p < f)
    <3>1. p < f => p * S + S <= f * S
      BY <1>1, <1>2, Multiples
    <3> QED BY <1>1, <1>2, <1>6, <2>1, <3>1
  <2>3. ~(e <= p)
    <3>1. e < p => e * S + S <= p * S
      BY <1>1, <1>3, Multiples
    <3> QED BY <1>1, <1>3, <1>6, <2>1, <3>1
  <2> QED BY <1>2, <1>3, <2>2, <2>3
<1>7. f < e
  <2> DEFINE z == a - f * S
  <2>1. z \in 0..S - 1 /\ f * S + z = a
    BY <1>1, <1>2
  <2> HIDE DEF z
  <2>2. f * S + z \in a..(a + s - 1)
    BY <1>1, <2>1
  <2> QED BY <1>2, <1>6, <2>1, <2>2
<1>8. \A p \in Int, y \in 0..S - 1 : p * S + y \in a..(a + s - 1) => p \in f..(e - 1)
  BY <1>2, <1>3, <1>6
<1> QED BY <1>1, <1>2, <1>3, <1>4, <1>5, <1>7, <1>8, Zenon DEF a, s, S, f, e

\* Byte m of a buffer comes from, or goes to, its place on the disk.
LEMMA PlaceRight ==
  ASSUME CacheAssumption, NEW d, Whole(d), NEW r \in Ranges, r[2] # 0, NEW m \in 0..r[2] - 1
  PROVE  LET q == C!Place(r[1], m)
         IN  /\ q.page \in First(r)..(Behind(r) - 1) /\ q.at \in 1..C!PageSize
             /\ Byte(d.page_offset + q.page + 1, q.at) = d.first_sector * BlockSize + r[1] + m
<1> DEFINE S == C!PageSize
           b == r[1] + m
           q == C!Place(r[1], m)
           o == d.page_offset
<1>1. /\ r[1] \in Nat /\ r[2] \in Nat \ {0} /\ S \in Nat \ {0} /\ b \in Nat /\ o \in Nat
      /\ BlockSize \in Nat /\ BlocksPerPage \in Nat /\ S = BlockSize * BlocksPerPage
      /\ d.first_sector = o * BlocksPerPage
  <2>1. r[1] \in Nat /\ r[2] \in Nat \ {0}
    BY Access, Zenon
  <2>2. b \in Nat
    BY <2>1
  <2>3. S \in Nat \ {0} /\ BlockSize \in Nat /\ BlocksPerPage \in Nat /\ S = BlockSize * BlocksPerPage
    BY Sizes
  <2>4. o \in Nat /\ d.first_sector = o * BlocksPerPage
    BY Zenon DEF Whole
  <2> QED BY <2>1, <2>2, <2>3, <2>4, Zenon
<1>2. q.page = b \div S /\ q.at = (b % S) + 1
  BY DEF C!Place
<1> HIDE DEF S, b, q, o
<1>3. b \div S \in Nat /\ b % S \in 0..S - 1 /\ b = (b \div S) * S + (b % S)
  BY <1>1, Division, Zenon
<1>4. q.page \in Nat /\ q.at \in 1..S /\ b = q.page * S + q.at - 1
  <2>1. (b \div S) * S \in Nat
    BY <1>1, <1>3
  <2> QED BY <1>1, <1>2, <1>3, <2>1
<1>5. q.page \in First(r)..(Behind(r) - 1)
  <2>1. q.at - 1 \in 0..S - 1 /\ q.page * S + (q.at - 1) = b /\ b \in r[1]..(r[1] + r[2] - 1)
    <3>1. q.page * S \in Int
      BY <1>1, <1>4
    <3> QED BY <1>1, <1>4, <3>1 DEF b
  <2> DEFINE z == q.at - 1
  <2> HIDE DEF z
  <2>2. z \in 0..S - 1 /\ q.page * S + z \in r[1]..(r[1] + r[2] - 1)
    BY <2>1 DEF z
  <2> QED BY <1>4, <2>2, Access DEF S
<1>6. Byte(o + q.page + 1, q.at) = o * S + b
  <2>1. (o + q.page) * S = o * S + q.page * S /\ o * S \in Int /\ q.page * S \in Int
    BY <1>1, <1>4
  <2>2. (o + q.page + 1) - 1 = o + q.page
    BY <1>1, <1>4
  <2>3. Byte(o + q.page + 1, q.at) = (o + q.page) * S + q.at - 1
    BY <2>2, Zenon DEF Byte, S
  <2> QED BY <1>1, <1>4, <2>1, <2>3
<1>7. o * S = d.first_sector * BlockSize /\ o * S \in Nat
  BY <1>1
<1>8. o * S + b = d.first_sector * BlockSize + r[1] + m
  BY <1>1, <1>7 DEF b
<1> QED BY <1>4, <1>5, <1>6, <1>8 DEF q, o, S

LEMMA OnePlace ==
  ASSUME CacheAssumption, NEW x \in Int, NEW z \in Int, NEW y \in 1..C!PageSize, NEW u \in 1..C!PageSize,
         Byte(x, y) = Byte(z, u)
  PROVE  x = z /\ y = u
<1> DEFINE S == C!PageSize
           a == x - 1
           b == z - 1
           v == y - 1
           w == u - 1
<1>1. S \in Nat \ {0}
  BY Sizes
<1>2. Byte(x, y) = a * S + y - 1 /\ Byte(z, u) = b * S + u - 1
  BY Zenon DEF Byte
<1>3. a \in Int /\ b \in Int /\ v \in 0..S - 1 /\ w \in 0..S - 1
  BY <1>1
<1>4. a * S \in Int /\ b * S \in Int
  BY <1>1, <1>3
<1>5. a * S + v = b * S + w
  BY <1>1, <1>2, <1>4, Zenon
<1>6. a = b /\ v = w
  <2> HIDE DEF S, a, b, v, w
  <2> QED BY <1>1, <1>3, <1>5, OneQuotient
<1> QED BY <1>1, <1>6

\* A write covers the bytes of the disk that it is meant for.
LEMMA CoversRight ==
  ASSUME CacheAssumption, NEW d, Whole(d), NEW r \in Ranges, r[2] # 0,
         NEW x \in Nat \ {0}, NEW y \in 1..C!PageSize
  PROVE  C!Covers(d, r[1], r[2], x, y) <=>
           Byte(x, y) - d.first_sector * BlockSize \in r[1]..(r[1] + r[2] - 1)
<1> DEFINE o == d.page_offset
           f == d.first_sector * BlockSize
<1>1. r[1] \in Nat /\ r[2] \in Nat \ {0}
  BY Access, Zenon
<1>2. o \in Nat /\ f \in Nat
  <2>1. o \in Nat /\ d.first_sector = o * BlocksPerPage
    BY Zenon DEF Whole
  <2>2. BlocksPerPage \in Nat /\ BlockSize \in Nat
    BY Sizes
  <2> QED BY <2>1, <2>2
<1>3. Byte(x, y) \in Int
  BY Sizes
<1>4. \A m \in 0..r[2] - 1 :
        /\ C!Place(r[1], m) = [page |-> C!Place(r[1], m).page, at |-> C!Place(r[1], m).at]
        /\ C!Place(r[1], m).page \in Int /\ C!Place(r[1], m).at \in 1..C!PageSize
        /\ Byte(o + C!Place(r[1], m).page + 1, C!Place(r[1], m).at) = f + r[1] + m
  <2> SUFFICES ASSUME NEW m \in 0..r[2] - 1
      PROVE  /\ C!Place(r[1], m) = [page |-> C!Place(r[1], m).page, at |-> C!Place(r[1], m).at]
             /\ C!Place(r[1], m).page \in Int /\ C!Place(r[1], m).at \in 1..C!PageSize
             /\ Byte(o + C!Place(r[1], m).page + 1, C!Place(r[1], m).at) = f + r[1] + m
    BY Zenon
  <2>1. C!Place(r[1], m) = [page |-> C!Place(r[1], m).page, at |-> C!Place(r[1], m).at]
    BY DEF C!Place
  <2>2. /\ C!Place(r[1], m).page \in First(r)..(Behind(r) - 1) /\ C!Place(r[1], m).at \in 1..C!PageSize
        /\ Byte(o + C!Place(r[1], m).page + 1, C!Place(r[1], m).at) = f + r[1] + m
    BY PlaceRight, Zenon
  <2>3. First(r) \in Int /\ Behind(r) \in Int
    BY Access
  <2> QED BY <2>1, <2>2, <2>3
<1>5. C!Covers(d, r[1], r[2], x, y) <=> \E m \in 0..r[2] - 1 : C!Place(r[1], m) = [page |-> x - o - 1, at |-> y]
  BY Zenon DEF C!Covers
<1> HIDE DEF o, f
<1>6. ASSUME NEW m \in 0..r[2] - 1, C!Place(r[1], m) = [page |-> x - o - 1, at |-> y]
      PROVE  Byte(x, y) - f \in r[1]..(r[1] + r[2] - 1)
  <2>1. C!Place(r[1], m).page = x - o - 1 /\ C!Place(r[1], m).at = y
    BY <1>6
  <2>2. o + (x - o - 1) + 1 = x
    BY <1>2
  <2>3. Byte(x, y) = f + r[1] + m
    BY <1>4, <2>1, <2>2, Zenon
  <2> QED BY <1>1, <1>2, <1>3, <2>3
<1>7. ASSUME Byte(x, y) - f \in r[1]..(r[1] + r[2] - 1)
      PROVE  \E m \in 0..r[2] - 1 : C!Place(r[1], m) = [page |-> x - o - 1, at |-> y]
  <2> DEFINE m == Byte(x, y) - f - r[1]
             q == C!Place(r[1], m)
  <2>1. m \in 0..r[2] - 1 /\ Byte(x, y) = f + r[1] + m
    BY <1>1, <1>2, <1>3, <1>7
  <2> HIDE DEF m
  <2>2. /\ q = [page |-> q.page, at |-> q.at]
        /\ q.page \in Int /\ q.at \in 1..C!PageSize
        /\ Byte(o + q.page + 1, q.at) = Byte(x, y)
    BY <1>4, <2>1
  <2> HIDE DEF q
  <2>3. o + q.page + 1 \in Int
    BY <1>2, <2>2
  <2>4. o + q.page + 1 = x /\ q.at = y
    BY <2>2, <2>3, OnePlace
  <2>5. q.page = x - o - 1
    BY <1>2, <2>2, <2>4
  <2> QED BY <2>1, <2>2, <2>4, <2>5 DEF q
<1> QED BY <1>5, <1>6, <1>7 DEF f

LEMMA PagesFilled ==
  ASSUME CacheAssumption, NEW g \in Page
  PROVE  g # <<>>
<1>1. 1 \in DOMAIN g
  BY Sizes, SMTT(30) DEF Page
<1> QED BY <1>1

\* prepare_cache leaves the pages that are cached alone, and of the others gets
\* ready those of the access up to the one it fails at; a write leaves the inner
\* ones blank.
LEMMA Prepared ==
  ASSUME CacheAssumption, CacheInv, NEW d \in devices, NEW r \in Ranges, r[2] # 0,
         r[1] + r[2] <= C!get_filesize(d), NEW upto \in First(r)..Behind(r), NEW w \in BOOLEAN
  PROVE  LET c == C!prepare_cache(d, First(r), Behind(r), upto, w)
         IN  /\ c \in Seq(Page \cup {<<>>})
             /\ \A x \in Nat \ {0} :
                  LET p == x - d.page_offset - 1
                  IN  IF Cached(cache, x) THEN Cached(c, x) /\ c[x] = cache[x]
                      ELSE /\ Cached(c, x) <=> p \in First(r)..(upto - 1)
                           /\ Cached(c, x) =>
                                \/ c[x] = C!Fill(d, p)
                                \/ w /\ p \in (First(r) + 1)..(Behind(r) - 2) /\ c[x] = C!Blank
<1> DEFINE o == d.page_offset
           f == First(r)
           e == Behind(r)
           g == C!ensure_capacity(d, e)
           c == C!prepare_cache(d, f, e, upto, w)
           n == IF Len(cache) < o + e THEN o + e ELSE Len(cache)
<1>1. f \in Nat /\ e \in Nat /\ f < e /\ o \in Nat /\ upto \in Nat /\ upto <= e /\ Whole(d)
  <2>1. f \in Nat /\ e \in Nat /\ f < e
    BY Access, Zenon
  <2>2. Whole(d) /\ o \in Nat
    BY Zenon DEF CacheInv, Whole
  <2> HIDE DEF f, e
  <2>3. upto \in f..e
    BY Zenon DEF f, e
  <2> QED BY <2>1, <2>2, <2>3
<1>2. Len(cache) \in Nat /\ DOMAIN cache = 1..Len(cache) /\ cache \in [1..Len(cache) -> Page \cup {<<>>}]
  BY DEF CacheInv
<1>3. n \in Nat /\ n >= Len(cache) /\ n >= o + e
  BY <1>1, <1>2
<1>4. g = [x \in 1..n |-> IF x <= Len(cache) THEN cache[x] ELSE <<>>]
  BY Zenon DEF C!ensure_capacity, C!Uninitialized
<1> HIDE DEF o, f, e, n, g
<1>5. /\ DOMAIN g = 1..n
      /\ \A x \in 1..n : g[x] \in Page \cup {<<>>}
      /\ \A x \in 1..n : Cached(cache, x) => g[x] = cache[x] /\ g[x] # <<>>
      /\ \A x \in 1..n : ~Cached(cache, x) => g[x] = <<>>
      /\ \A x \in Nat \ {0} : Cached(cache, x) => x \in 1..n
  BY <1>2, <1>3, <1>4 DEF Cached
<1> DEFINE init(p) == (~w \/ p \in {f, e - 1}) /\ p * C!PageSize < C!get_filesize(d)
<1>6. c = [x \in 1..n |->
             IF (x - o - 1) \notin f..(upto - 1) \/ g[x] # <<>> THEN g[x]
             ELSE IF init(x - o - 1) THEN C!Fill(d, x - o - 1) ELSE C!Blank]
  BY <1>5, Zenon DEF C!prepare_cache, C!Uninitialized, g, o, f, e
<1>7. \A p \in f..(upto - 1) : p \in Nat /\ p < e /\ p * C!PageSize < C!get_filesize(d)
  <2> SUFFICES ASSUME NEW p \in f..(upto - 1) PROVE p \in Nat /\ p < e /\ p * C!PageSize < C!get_filesize(d)
    BY Zenon
  <2>1. p \in Int /\ p \in Nat /\ p < e
    BY <1>1
  <2>2. p * C!PageSize < r[1] + r[2]
    BY <2>1, Access, Zenon DEF e
  <2>3. p * C!PageSize \in Int /\ r[1] + r[2] \in Int /\ C!get_filesize(d) \in Int
    <3>1. r[1] \in Nat /\ r[2] \in Nat
      BY Access
    <3>2. d.total_sectors \in Nat
      BY <1>1, Zenon DEF Whole
    <3>3. C!PageSize \in Nat /\ BlockSize \in Nat
      BY Sizes
    <3> QED BY <2>1, <3>1, <3>2, <3>3 DEF C!get_filesize
  <2> QED BY <2>1, <2>2, <2>3
<1>8. C!Blank \in Page
  BY Sizes DEF C!Blank, C!Junk, Page
<1>9. \A p \in f..(upto - 1) : C!Fill(d, p) \in Page
  BY <1>1, <1>7, FillRight, Zenon
<1>10. \A x \in 1..n : c[x] \in Page \cup {<<>>}
  <2> SUFFICES ASSUME NEW x \in 1..n PROVE c[x] \in Page \cup {<<>>}
    BY Zenon
  <2>1. \/ c[x] = g[x] \/ c[x] = C!Blank
        \/ (x - o - 1) \in f..(upto - 1) /\ c[x] = C!Fill(d, x - o - 1)
    <3> HIDE DEF init
    <3> QED BY <1>6, Zenon
  <2> HIDE DEF c
  <2> QED BY <1>5, <1>8, <1>9, <2>1, Zenon
<1>11. DOMAIN c = 1..n
  BY <1>6, Zenon
<1>12. c \in Seq(Page \cup {<<>>})
  <2> HIDE DEF c, init
  <2>1. c = [x \in 1..n |-> c[x]]
    BY <1>6, Zenon
  <2> QED BY <1>3, <1>10, <2>1
<1>13. ASSUME NEW x \in Nat \ {0}
       PROVE  IF Cached(cache, x) THEN Cached(c, x) /\ c[x] = cache[x]
              ELSE /\ Cached(c, x) <=> (x - o - 1) \in f..(upto - 1)
                   /\ Cached(c, x) =>
                        \/ c[x] = C!Fill(d, x - o - 1)
                        \/ w /\ (x - o - 1) \in (f + 1)..(e - 2) /\ c[x] = C!Blank
  <2> DEFINE p == x - o - 1
  <2>1. p \in Int /\ (p \in f..(upto - 1) => x \in 1..n)
    BY <1>1, <1>3
  <2>2. p \in f..(upto - 1) => C!Fill(d, p) # <<>> /\ C!Blank # <<>>
    BY <1>8, <1>9, PagesFilled, Zenon
  <2>3. ASSUME x \in 1..n
        PROVE  c[x] = IF p \notin f..(upto - 1) \/ g[x] # <<>> THEN g[x]
                      ELSE IF init(p) THEN C!Fill(d, p) ELSE C!Blank
    BY <1>6, <2>3, Zenon
  <2>4. p \in f..(upto - 1) /\ ~init(p) => w /\ p \in (f + 1)..(e - 2)
    <3>1. p \in f..(upto - 1) /\ ~init(p) => w /\ p # f /\ p # e - 1
      BY <1>7, Zenon
    <3> QED BY <1>1, <2>1, <3>1
  <2> HIDE DEF p, init, c
  <2> QED BY <1>5, <1>11, <2>1, <2>2, <2>3, <2>4, Zenon DEF Cached, p
<1> QED BY <1>12, <1>13, Zenon DEF o, f, e

LEMMA ByteOnDisk ==
  ASSUME CacheAssumption, NEW x \in Nat \ {0}, NEW y \in 1..C!PageSize
  PROVE  Byte(x, y) \in Nat
<1>1. C!PageSize \in Nat \ {0}
  BY Sizes
<1>2. x - 1 \in Nat
  OBVIOUS
<1>3. (x - 1) * C!PageSize \in Nat
  BY <1>1, <1>2
<1> QED BY <1>1, <1>3 DEF Byte

\* After prepare_cache, too, a cached page holds what was last written, but for
\* the inner pages of a write.
LEMMA PreparedRight ==
  ASSUME CacheAssumption, CacheInv, NEW d \in devices, NEW r \in Ranges, r[2] # 0,
         r[1] + r[2] <= C!get_filesize(d), NEW upto \in First(r)..Behind(r), NEW w \in BOOLEAN,
         NEW x \in Nat \ {0}, NEW y \in 1..C!PageSize, Byte(x, y) < C!DiskSize
  PROVE  LET c == C!prepare_cache(d, First(r), Behind(r), upto, w)
         IN  IF Cached(c, x)
             THEN \/ x \in torn
                  \/ c[x][y] = content[Byte(x, y)]
                  \/ w /\ (x - d.page_offset - 1) \in (First(r) + 1)..(Behind(r) - 2) /\ c[x] = C!Blank
             ELSE content[Byte(x, y)] = Byte(x, y)
<1> DEFINE c == C!prepare_cache(d, First(r), Behind(r), upto, w)
           p == x - d.page_offset - 1
<1>1. IF Cached(cache, x) THEN x \in torn \/ cache[x][y] = content[Byte(x, y)]
      ELSE content[Byte(x, y)] = Byte(x, y)
  BY Zenon DEF CacheInv
<1>2. IF Cached(cache, x) THEN Cached(c, x) /\ c[x] = cache[x]
      ELSE /\ Cached(c, x) <=> p \in First(r)..(upto - 1)
           /\ Cached(c, x) => \/ c[x] = C!Fill(d, p)
                              \/ w /\ p \in (First(r) + 1)..(Behind(r) - 2) /\ c[x] = C!Blank
  <2> HIDE DEF c
  <2>1. \A z \in Nat \ {0} :
          IF Cached(cache, z) THEN Cached(c, z) /\ c[z] = cache[z]
          ELSE /\ Cached(c, z) <=> (z - d.page_offset - 1) \in First(r)..(upto - 1)
               /\ Cached(c, z) =>
                    \/ c[z] = C!Fill(d, z - d.page_offset - 1)
                    \/ w /\ (z - d.page_offset - 1) \in (First(r) + 1)..(Behind(r) - 2) /\ c[z] = C!Blank
    BY Prepared, ZenonT(60) DEF c
  <2> QED BY <2>1, Zenon
<1>3. p \in First(r)..(upto - 1) => C!Fill(d, p)[y] = Byte(x, y)
  <2> SUFFICES ASSUME p \in First(r)..(upto - 1) PROVE C!Fill(d, p)[y] = Byte(x, y)
    BY Zenon
  <2>1. First(r) \in Nat /\ Behind(r) \in Nat /\ r[1] \in Nat /\ r[2] \in Nat
    BY Access
  <2>2. Whole(d) /\ d.page_offset \in Nat /\ d.total_sectors \in Nat
    BY Zenon DEF CacheInv, Whole
  <2>3. p \in Nat /\ p < Behind(r)
    BY <2>1, <2>2
  <2>4. d.page_offset + p + 1 = x
    BY <2>2
  <2> HIDE DEF p
  <2>5. p * C!PageSize < r[1] + r[2]
    BY <2>3, Access
  <2>6. p * C!PageSize < C!get_filesize(d)
    <3>1. C!PageSize \in Nat /\ BlockSize \in Nat
      BY Sizes
    <3>2. p * C!PageSize \in Int /\ C!get_filesize(d) \in Int
      BY <2>2, <2>3, <3>1 DEF C!get_filesize
    <3> QED BY <2>1, <2>5, <3>2
  <2>7. \A u \in 1..C!PageSize : Byte(d.page_offset + p + 1, u) < C!DiskSize =>
          C!Fill(d, p)[u] = Byte(d.page_offset + p + 1, u)
    BY <2>2, <2>3, <2>6, FillRight, Zenon
  <2> QED BY <2>4, <2>7
<1> HIDE DEF c, p
<1>4. IF Cached(c, x)
      THEN \/ x \in torn
           \/ c[x][y] = content[Byte(x, y)]
           \/ w /\ p \in (First(r) + 1)..(Behind(r) - 2) /\ c[x] = C!Blank
      ELSE content[Byte(x, y)] = Byte(x, y)
  BY <1>1, <1>2, <1>3, Zenon
<1> QED BY <1>4, Zenon DEF c, p

\* The bytes of an access are on the disk.
LEMMA OnDisk ==
  ASSUME CacheAssumption, NEW d, Whole(d), NEW r \in Ranges, r[2] # 0, r[1] + r[2] <= C!get_filesize(d)
  PROVE  /\ d.first_sector * BlockSize \in Nat
         /\ d.first_sector * BlockSize + r[1] + r[2] <= C!DiskSize
<1> DEFINE f == d.first_sector
           t == d.total_sectors
<1>1. r[1] \in Nat /\ r[2] \in Nat
  BY Access
<1>2. BlockSize \in Nat \ {0} /\ BlocksPerPage \in Nat /\ DiskBlocks \in Nat /\ C!DiskSize = DiskBlocks * BlockSize
  BY Sizes
<1>3. t \in Nat /\ d.page_offset \in Nat /\ f = d.page_offset * BlocksPerPage /\ C!get_filesize(d) = BlockSize * t
  BY Zenon DEF Whole, C!get_filesize
<1>4. f \in Nat
  BY <1>2, <1>3
<1>5. f + t = DiskBlocks \/ f + t < DiskBlocks
  BY Zenon DEF Whole
<1> HIDE DEF f, t
<1>6. (f + t) * BlockSize = f * BlockSize + BlockSize * t /\ f * BlockSize \in Nat /\ BlockSize * t \in Nat
  BY <1>2, <1>3, <1>4
<1>7. (f + t) * BlockSize <= DiskBlocks * BlockSize
  <2> DEFINE s == f + t
  <2>1. s \in Int
    BY <1>3, <1>4
  <2> HIDE DEF s
  <2>2. s < DiskBlocks => s * BlockSize + BlockSize <= DiskBlocks * BlockSize
    BY <1>2, <2>1, Multiples
  <2>3. s * BlockSize \in Int /\ DiskBlocks * BlockSize \in Int
    BY <1>2, <2>1
  <2>4. s = DiskBlocks \/ s < DiskBlocks
    BY <1>5, Zenon DEF s
  <2>5. s * BlockSize <= DiskBlocks * BlockSize
    BY <1>2, <2>2, <2>3, <2>4
  <2> QED BY <2>5, Zenon DEF s
<1> QED BY <1>1, <1>2, <1>3, <1>6, <1>7 DEF f

LEMMA ReadRight ==
  ASSUME CacheAssumption, CacheInv
  PROVE  C!ReadsLastWrite
<1> SUFFICES ASSUME NEW d \in devices, NEW r \in Ranges, r[2] # 0, r[1] + r[2] <= C!get_filesize(d),
                    NEW m \in 0..r[2] - 1
    PROVE  LET c == C!prepare_cache(d, First(r), Behind(r), Behind(r), FALSE)
           IN  \/ C!ReadFrom(c, d, r[1], r[2])[m] = content[d.first_sector * BlockSize + r[1] + m]
               \/ d.page_offset + C!Place(r[1], m).page + 1 \in torn
  BY Zenon DEF C!ReadsLastWrite, First, Behind
<1> DEFINE c == C!prepare_cache(d, First(r), Behind(r), Behind(r), FALSE)
           q == C!Place(r[1], m)
           x == d.page_offset + q.page + 1
<1>1. Whole(d) /\ d.page_offset \in Nat
  BY Zenon DEF CacheInv, Whole
<1>2. /\ q.page \in First(r)..(Behind(r) - 1) /\ q.at \in 1..C!PageSize
      /\ Byte(x, q.at) = d.first_sector * BlockSize + r[1] + m
  BY <1>1, PlaceRight, Zenon
<1>3. C!ReadFrom(c, d, r[1], r[2])[m] = c[x][q.at]
  BY Zenon DEF C!ReadFrom, C!at
<1>4. First(r) \in Nat /\ Behind(r) \in Nat /\ First(r) < Behind(r) /\ r[1] \in Nat /\ r[2] \in Nat
  BY Access
<1> HIDE DEF q
<1>5. x \in Nat \ {0} /\ x - d.page_offset - 1 = q.page /\ Behind(r) \in First(r)..Behind(r)
  BY <1>1, <1>2, <1>4
<1>6. Byte(x, q.at) < C!DiskSize
  <2>1. /\ d.first_sector * BlockSize \in Nat
        /\ d.first_sector * BlockSize + r[1] + r[2] <= C!DiskSize
    BY <1>1, OnDisk
  <2>2. C!DiskSize \in Nat
    BY Sizes
  <2> QED BY <1>2, <1>4, <2>1, <2>2
<1> HIDE DEF x
<1>7. Cached(c, x)
  <2>1. IF Cached(cache, x) THEN Cached(c, x)
        ELSE Cached(c, x) <=> (x - d.page_offset - 1) \in First(r)..(Behind(r) - 1)
    BY <1>5, Prepared, Zenon
  <2> QED BY <1>2, <1>5, <2>1, Zenon
<1>8. x \in torn \/ c[x][q.at] = content[Byte(x, q.at)]
  BY <1>2, <1>5, <1>6, <1>7, PreparedRight, Zenon
<1> QED BY <1>2, <1>3, <1>8, Zenon DEF x, q

LEMMA Entries ==
  ASSUME NEW E, NEW n \in Nat, NEW h, h = [x \in 1..n |-> h[x]], \A x \in 1..n : h[x] \in E
  PROVE  h \in Seq(E)
OBVIOUS

\* A write that is done: all its pages are cached, and what it covers is new
\* there and on the disk.
LEMMA WriteRight ==
  ASSUME CacheAssumption, CacheInv, NEW d \in devices, NEW r \in Ranges, r[2] # 0,
         r[1] + r[2] <= C!get_filesize(d),
         cache' = C!WriteTo(C!prepare_cache(d, First(r), Behind(r), Behind(r), TRUE), d, r[1], r[2]),
         content' = [b \in DOMAIN content |->
                       IF b - d.first_sector * BlockSize \in r[1]..(r[1] + r[2] - 1) THEN C!New ELSE content[b]],
         UNCHANGED <<devices, torn>>
  PROVE  CacheInv'
<1> DEFINE c == C!prepare_cache(d, First(r), Behind(r), Behind(r), TRUE)
           hit(b) == b - d.first_sector * BlockSize \in r[1]..(r[1] + r[2] - 1)
           cov(x, y) == C!Covers(d, r[1], r[2], x, y)
<1>1. Whole(d) /\ d.page_offset \in Nat
  BY Zenon DEF CacheInv, Whole
<1>2. First(r) \in Nat /\ Behind(r) \in Nat /\ First(r) < Behind(r) /\ r[1] \in Nat /\ r[2] \in Nat \ {0}
  BY Access
<1>3. Behind(r) \in First(r)..Behind(r)
  BY <1>2
<1>4. c \in Seq(Page \cup {<<>>})
  BY <1>3, Prepared, Zenon
<1>5. cache' = [x \in DOMAIN c |-> [y \in DOMAIN c[x] |-> IF cov(x, y) THEN C!New ELSE c[x][y]]]
  BY Zenon DEF C!WriteTo
<1> HIDE DEF c, cov
<1>6. Len(c) \in Nat /\ DOMAIN c = 1..Len(c) /\ \A x \in 1..Len(c) : c[x] \in Page \cup {<<>>}
  BY <1>4
<1>7. ASSUME NEW x \in 1..Len(c)
      PROVE  /\ c[x] = <<>> => cache'[x] = <<>>
             /\ c[x] # <<>> => /\ c[x] \in Page /\ cache'[x] \in Page /\ cache'[x] # <<>>
                               /\ \A y \in 1..C!PageSize : cache'[x][y] = IF cov(x, y) THEN C!New ELSE c[x][y]
  <2>1. cache'[x] = [y \in DOMAIN c[x] |-> IF cov(x, y) THEN C!New ELSE c[x][y]]
    BY <1>5, <1>6, Zenon
  <2>2. CASE c[x] = <<>>
    <3> DEFINE h == cache'[x]
    <3> HIDE DEF h
    <3>1. h = [y \in DOMAIN c[x] |-> h[y]]
      BY <2>1, Zenon DEF h
    <3>2. h = <<>>
      BY <2>2, <3>1, NoEntry, Zenon
    <3> QED BY <2>2, <3>2, Zenon DEF h
  <2>3. CASE c[x] # <<>>
    <3>1. c[x] \in Page /\ DOMAIN c[x] = 1..C!PageSize
      BY <1>6, <2>3 DEF Page
    <3>2. cache'[x] \in Page
      <4>1. cache'[x] = [y \in 1..C!PageSize |-> IF cov(x, y) THEN C!New ELSE c[x][y]]
        BY <2>1, <3>1, Zenon
      <4>2. C!New \in Int
        BY DEF C!New
      <4>3. \A y \in 1..C!PageSize : c[x][y] \in Int
        BY <3>1, Zenon DEF Page
      <4> QED BY <4>1, <4>2, <4>3, Zenon DEF Page
    <3> QED BY <2>1, <2>3, <3>1, <3>2, PagesFilled, Zenon
  <2> QED BY <2>2, <2>3, Zenon
<1>8. DOMAIN cache' = 1..Len(c) /\ cache' = [x \in 1..Len(c) |-> cache'[x]]
  BY <1>5, <1>6, Zenon
<1>9. cache' \in Seq(Page \cup {<<>>})
  <2>1. \A x \in 1..Len(c) : cache'[x] \in Page \cup {<<>>}
    BY <1>7, Zenon
  <2> QED BY <1>6, <1>8, <2>1, Entries, Zenon
<1>10. \A x \in Nat \ {0} : Cached(cache', x) <=> Cached(c, x)
  BY <1>6, <1>7, <1>8, Zenon DEF Cached
<1>11. DOMAIN content' = 0..C!DiskSize - 1
  BY Zenon DEF CacheInv
<1>12. ASSUME NEW x \in Nat \ {0}, NEW y \in 1..C!PageSize, Byte(x, y) < C!DiskSize
       PROVE  IF Cached(cache', x) THEN x \in torn' \/ cache'[x][y] = content'[Byte(x, y)]
              ELSE content'[Byte(x, y)] = Byte(x, y)
  <2> DEFINE p == x - d.page_offset - 1
             S == C!PageSize
  <2>1. content'[Byte(x, y)] = IF hit(Byte(x, y)) THEN C!New ELSE content[Byte(x, y)]
    <3>1. Byte(x, y) \in Nat /\ C!DiskSize \in Nat
      BY ByteOnDisk, Sizes, Zenon
    <3>2. Byte(x, y) \in 0..C!DiskSize - 1
      BY <1>12, <3>1
    <3>3. Byte(x, y) \in DOMAIN content
      BY <3>2, Zenon DEF CacheInv
    <3> QED BY <3>3, Zenon
  <2>2. cov(x, y) <=> hit(Byte(x, y))
    BY <1>1, CoversRight, Zenon DEF cov
  <2>3. IF Cached(c, x)
        THEN \/ x \in torn
             \/ c[x][y] = content[Byte(x, y)]
             \/ p \in (First(r) + 1)..(Behind(r) - 2) /\ c[x] = C!Blank
        ELSE content[Byte(x, y)] = Byte(x, y)
    BY <1>3, <1>12, PreparedRight, ZenonT(60) DEF c
  <2>4. p \in First(r)..(Behind(r) - 1) => Cached(c, x)
    <3>1. IF Cached(cache, x) THEN Cached(c, x)
          ELSE Cached(c, x) <=> (x - d.page_offset - 1) \in First(r)..(Behind(r) - 1)
      BY <1>3, Prepared, Zenon DEF c
    <3> QED BY <3>1, Zenon
  <2>5. S \in Nat \ {0} /\ p \in Int /\ y - 1 \in 0..S - 1
    <3>1. S \in Nat \ {0}
      BY Sizes
    <3> QED BY <1>1, <3>1
  <2>6. Byte(x, y) - d.first_sector * BlockSize = p * S + (y - 1)
    <3> DEFINE o == d.page_offset
    <3>1. d.first_sector = o * BlocksPerPage /\ BlocksPerPage \in Nat /\ BlockSize \in Nat /\ S = BlockSize * BlocksPerPage
      BY <1>1, Sizes DEF Whole
    <3>2. d.first_sector * BlockSize = o * S
      BY <1>1, <3>1
    <3>3. (x - 1) * S = o * S + p * S /\ o * S \in Int /\ p * S \in Int
      <4> HIDE DEF S
      <4> QED BY <1>1, <2>5
    <3> QED BY <2>5, <3>2, <3>3 DEF Byte
  <2> HIDE DEF p, S
  <2>7. hit(Byte(x, y)) => p \in First(r)..(Behind(r) - 1)
    <3> DEFINE z == y - 1
    <3> HIDE DEF z
    <3>1. z \in 0..S - 1 /\ (hit(Byte(x, y)) => p * S + z \in r[1]..(r[1] + r[2] - 1))
      BY <2>5, <2>6, SMTT(30) DEF z
    <3> QED BY <2>5, <3>1, Access DEF S
  <2>8. p \in (First(r) + 1)..(Behind(r) - 2) => hit(Byte(x, y))
    <3> SUFFICES ASSUME p \in (First(r) + 1)..(Behind(r) - 2) PROVE hit(Byte(x, y))
      BY Zenon
    <3>1. p >= First(r) + 1 /\ p + 1 < Behind(r) /\ p + 1 \in Int
      BY <1>2, <2>5
    <3>2. r[1] < p * S
      BY <2>5, <3>1, Access DEF S
    <3>3. (p + 1) * S < r[1] + r[2]
      BY <3>1, Access DEF S
    <3>4. (p + 1) * S = p * S + S /\ p * S \in Int
      BY <2>5
    <3>5. p * S + (y - 1) \in r[1]..(r[1] + r[2] - 1)
      BY <1>2, <2>5, <3>2, <3>3, <3>4
    <3> QED BY <2>6, <3>5
  <2>9. Cached(c, x) => cache'[x][y] = IF cov(x, y) THEN C!New ELSE c[x][y]
    BY <1>6, <1>7, Zenon DEF Cached
  <2> HIDE DEF hit
  <2> QED BY <1>10, <2>1, <2>2, <2>3, <2>4, <2>7, <2>8, <2>9, Zenon
<1>13. \A e \in devices' : Whole(e)
  BY Zenon DEF CacheInv
<1> QED BY <1>9, <1>11, <1>12, <1>13, Zenon DEF CacheInv, Cached, Byte, C!PageSize, C!DiskSize, Page, Whole

LEMMA CopyStep ==
  ASSUME CacheAssumption, CacheInv, NEW d \in devices, NEW r \in Ranges, NEW w \in BOOLEAN,
         C!copy(d, r[1], r[2], w)
  PROVE  CacheInv'
<1>1. r[2] # 0 /\ r[1] + r[2] <= C!get_filesize(d) /\ UNCHANGED devices
  BY Zenon DEF C!copy
<1> DEFINE c(upto) == C!prepare_cache(d, First(r), Behind(r), upto, w)
           done(upto) == w /\ upto = Behind(r)
<1>2. PICK upto \in First(r)..Behind(r) :
        /\ cache' = IF done(upto) THEN C!WriteTo(c(upto), d, r[1], r[2]) ELSE c(upto)
        /\ content' = [b \in DOMAIN content |->
             IF done(upto) /\ b - d.first_sector * BlockSize \in r[1]..(r[1] + r[2] - 1)
             THEN C!New ELSE content[b]]
        /\ torn' = IF done(upto) THEN torn ELSE torn \cup {x \in DOMAIN c(upto) : c(upto)[x] = C!Blank}
  BY Zenon DEF C!copy, First, Behind
<1>3. CASE done(upto)
  BY <1>1, <1>2, <1>3, WriteRight, Zenon
<1>4. CASE ~done(upto)
  <2> DEFINE g == c(upto)
  <2>1. g \in Seq(Page \cup {<<>>})
    BY <1>1, Prepared, Zenon
  <2>2. cache' = g /\ torn' = torn \cup {x \in DOMAIN g : g[x] = C!Blank}
    BY <1>2, <1>4, Zenon
  <2>3. content' = [b \in DOMAIN content |-> content[b]]
    BY <1>2, <1>4, Zenon
  <2>4. ASSUME NEW x \in Nat \ {0}, NEW y \in 1..C!PageSize, Byte(x, y) < C!DiskSize
        PROVE  IF Cached(g, x) THEN x \in torn' \/ g[x][y] = content'[Byte(x, y)]
               ELSE content'[Byte(x, y)] = Byte(x, y)
    <3>1. content'[Byte(x, y)] = content[Byte(x, y)]
      <4>1. Byte(x, y) \in Nat /\ C!DiskSize \in Nat
        BY ByteOnDisk, Sizes, Zenon
      <4>2. Byte(x, y) \in 0..C!DiskSize - 1
        BY <2>4, <4>1
      <4>3. Byte(x, y) \in DOMAIN content
        BY <4>2, Zenon DEF CacheInv
      <4> QED BY <2>3, <4>3, Zenon
    <3>2. IF Cached(g, x)
          THEN x \in torn \/ g[x][y] = content[Byte(x, y)] \/ g[x] = C!Blank
          ELSE content[Byte(x, y)] = Byte(x, y)
      BY <1>1, <2>4, PreparedRight, ZenonT(60)
    <3> HIDE DEF g
    <3> QED BY <2>2, <3>1, <3>2, Zenon DEF Cached
  <2>5. DOMAIN content' = 0..C!DiskSize - 1
    BY <2>3, Zenon DEF CacheInv
  <2>6. \A e \in devices' : Whole(e)
    BY <1>1, Zenon DEF CacheInv
  <2> HIDE DEF g
  <2> QED BY <2>1, <2>2, <2>4, <2>5, <2>6, Zenon DEF CacheInv
<1> QED BY <1>3, <1>4, Zenon

\* For any sizes, any page-aligned partitions and any accesses, and whatever
\* failed before, reading returns what was last written to the bytes of the disk,
\* but for the inner pages of a write that failed.
THEOREM ReadsAreCurrent ==
  ASSUME CacheAssumption
  PROVE  C!Spec => []C!ReadsLastWrite
<1> DEFINE I == PageAligned => CacheInv
<1>1. C!Init => I
  <2> SUFFICES ASSUME C!Init, PageAligned PROVE CacheInv
    BY Zenon
  <2>1. \A d \in devices : Whole(d)
    BY DevicesWhole, Zenon
  <2>2. cache = <<>> /\ content = [b \in 0..(C!DiskSize - 1) |-> b]
    BY Zenon DEF C!Init
  <2>3. cache \in Seq(Page \cup {<<>>}) /\ \A x : ~Cached(cache, x)
    BY <2>2 DEF Cached
  <2>4. ASSUME NEW x \in Nat \ {0}, NEW y \in 1..C!PageSize, Byte(x, y) < C!DiskSize
        PROVE  content[Byte(x, y)] = Byte(x, y)
    <3>1. Byte(x, y) \in Nat /\ C!DiskSize \in Nat
      BY ByteOnDisk, Sizes, Zenon
    <3>2. Byte(x, y) \in 0..(C!DiskSize - 1)
      BY <2>4, <3>1
    <3> QED BY <2>2, <3>2, Zenon
  <2> QED BY <2>1, <2>2, <2>3, <2>4, Zenon DEF CacheInv
<1>2. I /\ [C!Next]_(C!vars) => I'
  <2> SUFFICES ASSUME I, [C!Next]_(C!vars), PageAligned' PROVE CacheInv'
    BY Zenon
  <2>1. UNCHANGED <<partitions, devices>>
    BY ZenonT(60) DEF C!Next, C!read, C!write, C!copy, C!vars
  <2>2. PageAligned
    BY <2>1, Zenon DEF PageAligned, C!Sized, C!Proper, C!Device
  <2>3. CASE C!Next
    BY <2>2, <2>3, CopyStep, Zenon DEF C!Next, C!read, C!write
  <2>4. CASE UNCHANGED C!vars
    BY <2>2, <2>4, Zenon DEF C!vars, CacheInv, Cached, Byte, C!PageSize, C!DiskSize, Page, Whole
  <2> QED BY <2>3, <2>4, Zenon
<1>3. I => C!ReadsLastWrite
  BY ReadRight, Zenon DEF PageAligned, C!ReadsLastWrite
<1> QED BY <1>1, <1>2, <1>3, PTL DEF C!Spec

-----------------------------------------------------------------------------
(* The frame allocator.                                                    *)

\* The frames of the first n descriptors that are available.
AvailableBefore(mm, f, n) ==
  \E j \in 1..n : mm[j].available /\ mm[j].physical_start <= f /\ f < End(mm[j])

\* The constructor, before descriptor k.
ConstructInv ==
  /\ k \in 1..Len(memory_map) + 1
  /\ \A h \in Handles : id[h] = nullframe
  /\ \A f \in Frames :
       allocation_map[f] <=> /\ ~AvailableBefore(memory_map, f, k - 1)
                             /\ \E j \in 1..k - 1 : f < End(memory_map[j])
  /\ \A j \in 1..k - 1 : memory_map[j].available => End(memory_map[j]) <= available_end
  /\ \/ available_end = 0
     \/ \E j \in 1..k - 1 : available_end = End(memory_map[j])

\* The range ends where a descriptor ends.
RangeInv ==
  /\ range_end \in Frames
  /\ range_end = 0 \/ \E j \in 1..Len(memory_map) : range_end = End(memory_map[j])

Bits ==
  \A f \in Frames : allocation_map[f] <=> f \in Reserved \/ \E h \in Handles : f \in Owned(h)

Owners ==
  \A h \in Handles : \A f \in Owned(h) : f \in range_begin..range_end /\ f \notin Reserved

\* The searches: the frames behind start are free, no block before it is.
ScanInv ==
  /\ pc \in {"allocate", "allocate_single"} =>
       /\ id[target] = nullframe
       /\ start >= range_begin
       /\ \A s \in range_begin..start - 1 : ~Fits(s, wanted)
  /\ pc = "allocate" =>
       /\ wanted = 0 => start = range_begin
       /\ wanted > 0 => start <= range_end + 1
       /\ \A f \in start..start + i - 1 : f <= range_end /\ ~allocation_map[f]
  /\ pc = "allocate_single" => wanted = 1 /\ i = 0 /\ start <= range_end + 1

ReadyInv == RangeInv /\ Bits /\ OwnersDisjoint /\ Owners

Inv ==
  /\ TypeOK
  /\ pc = "construct" => ConstructInv
  /\ pc # "construct" => ReadyInv
  /\ ScanInv

LEMMA AvailableIs ==
  ASSUME NEW f
  PROVE  f \in Available <=>
           \E j \in DOMAIN memory_map :
             memory_map[j].available /\ f \in memory_map[j].physical_start..End(memory_map[j]) - 1
BY Zenon DEF Available

\* A memory map, descriptor by descriptor.
LEMMA MapFacts ==
  ASSUME memory_map \in MemoryMaps
  PROVE  /\ Len(memory_map) \in Nat /\ DOMAIN memory_map = 1..Len(memory_map)
         /\ \A j \in 1..Len(memory_map) :
              /\ memory_map[j].physical_start \in Nat
              /\ memory_map[j].available \in BOOLEAN
              /\ End(memory_map[j]) \in Nat
              /\ memory_map[j].physical_start <= End(memory_map[j])
              /\ End(memory_map[j]) < Limit
         /\ \A j, m \in 1..Len(memory_map) :
              j < m => End(memory_map[j]) <= memory_map[m].physical_start
<1>1. MapAssumption(memory_map)
  BY ConstantsAssumption, Zenon
<1>2. /\ Len(memory_map) \in Nat /\ DOMAIN memory_map = 1..Len(memory_map)
      /\ \A j \in 1..Len(memory_map) : memory_map[j] \in Descriptor
  BY <1>1 DEF MapAssumption
<1>3. \A d \in Descriptor : /\ d.physical_start \in Nat /\ d.available \in BOOLEAN
                            /\ End(d) \in Nat /\ d.physical_start <= End(d)
  BY DEF Descriptor, End
<1> QED BY <1>1, <1>2, <1>3, Zenon DEF MapAssumption

LEMMA InitInv == Init => Inv
<1> SUFFICES ASSUME Init PROVE Inv
  BY Zenon
<1> USE ConstantsAssumption
<1>1. TypeOK BY DEF Init, TypeOK, Frames, nullframe
<1>2. Len(memory_map) \in Nat BY MapFacts, Zenon DEF Init
<1>3. ConstructInv BY <1>2 DEF Init, ConstructInv, AvailableBefore
<1> QED BY <1>1, <1>3, Zenon DEF Init, Inv, ScanInv

LEMMA ConstructStep ==
  ASSUME Inv, construct
  PROVE  Inv'
<1> DEFINE d == memory_map[k]
<1> USE DEF Inv
<1>1. /\ pc = "construct" /\ k \in 1..Len(memory_map) /\ memory_map' = memory_map /\ pc' = pc
      /\ k' = k + 1 /\ Len(memory_map) \in Nat /\ k - 1 \in Nat /\ k' - 1 = k
  BY MapFacts, SMTT(30) DEF construct, ConstructInv, TypeOK
<1>2. ConstructInv BY <1>1, Zenon
<1>3. /\ d.physical_start \in Nat /\ d.available \in BOOLEAN /\ End(d) \in Nat
      /\ d.physical_start <= End(d) /\ End(d) < Limit
      /\ \A j \in 1..k - 1 : End(memory_map[j]) \in Nat /\ End(memory_map[j]) <= d.physical_start
  <2>1. memory_map \in MemoryMaps BY Zenon DEF TypeOK
  <2>2. \A j \in 1..k - 1 : j \in 1..Len(memory_map) /\ j < k BY <1>1
  <2>3. \A j \in 1..k - 1 : End(memory_map[j]) \in Nat BY <2>1, <2>2, MapFacts, Zenon
  <2>4. \A j \in 1..k - 1 : End(memory_map[j]) <= d.physical_start BY <1>1, <2>1, <2>2, MapFacts, Zenon
  <2>5. d.physical_start \in Nat /\ d.available \in BOOLEAN /\ End(d) \in Nat
    BY <1>1, <2>1, MapFacts, Zenon
  <2>6. d.physical_start <= End(d) /\ End(d) < Limit BY <1>1, <2>1, MapFacts, Zenon
  <2> QED BY <2>3, <2>4, <2>5, <2>6, Zenon
<1>4. /\ allocation_map' = [f \in Frames |-> allocation_map[f] \/ f \in Marked(d)]
      /\ available_end' = IF d.available THEN End(d) ELSE available_end
      /\ allocation_map \in [Frames -> BOOLEAN] /\ available_end \in Frames
  BY ZenonT(60) DEF construct, TypeOK
<1>5. available_end' \in Frames /\ available_end \in Nat /\ available_end' \in Nat
  BY <1>3, <1>4, ConstantsAssumption DEF Frames
<1>6. allocation_map' \in [Frames -> BOOLEAN]
  BY <1>4, Zenon DEF Marked
<1>7. TypeOK'
  BY <1>1, <1>5, <1>6, SMTT(30) DEF construct, TypeOK, call, handles
<1>8. available_end <= d.physical_start
  BY <1>2, <1>3, <1>5, SMTT(30) DEF ConstructInv
<1>9. ASSUME NEW f \in Frames
      PROVE  allocation_map'[f] <=> ~AvailableBefore(memory_map, f, k) /\ \E j \in 1..k : f < End(memory_map[j])
  <2>1. f \in Nat BY <1>3, ConstantsAssumption DEF Frames
  <2>2. (\E j \in 1..k : f < End(memory_map[j])) <=> f < End(d)
    <3>1. ASSUME NEW j \in 1..k, f < End(memory_map[j]) PROVE f < End(d)
      BY <1>1, <1>3, <2>1, <3>1, SMTT(30)
    <3> QED BY <1>1, <3>1, SMTT(30)
  <2>3. AvailableBefore(memory_map, f, k) <=>
          \/ AvailableBefore(memory_map, f, k - 1)
          \/ d.available /\ d.physical_start <= f /\ f < End(d)
    <3>1. ASSUME NEW j \in 1..k PROVE j \in 1..k - 1 \/ j = k
      BY <1>1
    <3>2. \A j \in 1..k - 1 : j \in 1..k BY <1>1, SMTT(30)
    <3> QED BY <1>1, <3>1, <3>2 DEF AvailableBefore
  <2>4. AvailableBefore(memory_map, f, k - 1) => f < available_end
    BY <1>2, <1>3, <1>5, <2>1, SMTT(30) DEF ConstructInv, AvailableBefore
  <2>5. (\E j \in 1..k - 1 : f < End(memory_map[j])) => f < d.physical_start
    BY <1>3, <2>1, SMTT(30)
  <2>6. f < available_end => \E j \in 1..k - 1 : f < End(memory_map[j])
    BY <1>2, <2>1 DEF ConstructInv
  <2>7. allocation_map[f] <=> ~AvailableBefore(memory_map, f, k - 1) /\ \E j \in 1..k - 1 : f < End(memory_map[j])
    BY <1>2, ZenonT(60) DEF ConstructInv
  <2>8. f \in Marked(d) <=> \/ available_end <= f /\ f < d.physical_start
                            \/ ~d.available /\ d.physical_start <= f /\ f < End(d)
    BY <1>3, <1>5, <2>1 DEF Marked
  <2>9. allocation_map'[f] <=> allocation_map[f] \/ f \in Marked(d)
    BY <1>4, <1>6, Zenon
  <2>10. AvailableBefore(memory_map, f, k - 1) \in BOOLEAN /\ AvailableBefore(memory_map, f, k) \in BOOLEAN
    BY Zenon DEF AvailableBefore
  <2> QED
    BY <1>3, <1>5, <1>8, <2>1, <2>2, <2>3, <2>4, <2>5, <2>6, <2>7, <2>8, <2>9, <2>10, SMTT(30)
<1>10. ConstructInv'
  <2>1. k' \in 1..Len(memory_map') + 1 BY <1>1
  <2>2. \A h \in Handles : id'[h] = nullframe BY <1>2, ZenonT(60) DEF ConstructInv, construct, handles
  <2>3. \A j \in 1..k : memory_map[j].available => End(memory_map[j]) <= available_end'
    BY <1>1, <1>2, <1>3, <1>4, <1>5, <1>8, SMTT(30) DEF ConstructInv
  <2>4. available_end' = 0 \/ \E j \in 1..k : available_end' = End(memory_map[j])
    <3>1. CASE d.available BY <1>1, <1>4, <3>1
    <3>2. CASE ~d.available
      <4>1. available_end' = available_end BY <1>4, <3>2, Zenon
      <4>2. \A j \in 1..k - 1 : j \in 1..k BY <1>1
      <4> QED BY <1>2, <4>1, <4>2, Zenon DEF ConstructInv
    <3> QED BY <3>1, <3>2, Zenon
  <2>5. \A f \in Frames :
          allocation_map'[f] <=> /\ ~AvailableBefore(memory_map', f, k' - 1)
                                 /\ \E j \in 1..k' - 1 : f < End(memory_map'[j])
    BY <1>1, <1>9, Zenon
  <2> QED BY <1>1, <2>1, <2>2, <2>3, <2>4, <2>5, ZenonT(60) DEF ConstructInv
<1>11. ScanInv' BY <1>1, Zenon DEF ScanInv
<1> QED BY <1>1, <1>7, <1>10, <1>11, ZenonT(60)

\* What the memory map reserves, from the constructor's point of view.
LEMMA ReservedIs ==
  ASSUME memory_map \in MemoryMaps, NEW f \in Frames
  PROVE  f \in Reserved <=> /\ ~AvailableBefore(memory_map, f, Len(memory_map))
                            /\ \E j \in 1..Len(memory_map) : f < End(memory_map[j])
<1>1. f \in Int BY ConstantsAssumption DEF Frames
<1>2. f \in Available <=> AvailableBefore(memory_map, f, Len(memory_map))
  <2>1. \A j \in 1..Len(memory_map) :
          f \in memory_map[j].physical_start..End(memory_map[j]) - 1 <=>
            memory_map[j].physical_start <= f /\ f < End(memory_map[j])
    BY <1>1, MapFacts
  <2>2. DOMAIN memory_map = 1..Len(memory_map) BY MapFacts, Zenon
  <2> QED BY <2>1, <2>2, AvailableIs, ZenonT(60) DEF AvailableBefore
<1> QED BY <1>2, MapFacts, Zenon DEF Reserved

LEMMA OwnedIs ==
  ASSUME TypeOK, NEW h \in Handles, NEW f
  PROVE  f \in Owned(h) <=> id[h] # nullframe /\ f \in id[h]..id[h] + frames[h] - 1
BY Zenon DEF Owned

LEMMA SetRangeStep ==
  ASSUME Inv, set_range
  PROVE  Inv'
<1> USE DEF Inv
<1>1. /\ pc = "construct" /\ pc' = "ready" /\ range_end' = available_end
      /\ memory_map \in MemoryMaps /\ memory_map' = memory_map
      /\ allocation_map' = allocation_map /\ id' = id /\ frames' = frames
  BY Zenon DEF set_range, TypeOK, construction, handles
<1>2. ConstructInv BY <1>1, ZenonT(60)
<1>3. k - 1 = Len(memory_map)
  BY <1>1, MapFacts DEF set_range, ConstructInv
<1>4. available_end \in 0..Limit BY ConstantsAssumption DEF TypeOK, Frames
<1>5. TypeOK' BY <1>1, <1>4, Zenon DEF set_range, TypeOK, construction, call, handles
<1>6. \A h \in Handles : Owned(h)' = {} BY <1>1, <1>2, Zenon DEF ConstructInv, Owned
<1>7. Reserved' = Reserved BY <1>1, Zenon DEF Reserved, Available
<1>8. \A f \in Frames : allocation_map[f] <=> f \in Reserved
  BY <1>1, <1>2, <1>3, ReservedIs, Zenon DEF ConstructInv
<1>9. Bits' BY <1>1, <1>6, <1>7, <1>8, Zenon DEF Bits
<1>10. OwnersDisjoint' /\ Owners' BY <1>6, Zenon DEF OwnersDisjoint, Owners
<1>11. RangeInv' BY <1>1, <1>2, <1>3, Zenon DEF RangeInv, ConstructInv, TypeOK
<1>12. ScanInv' BY <1>1, ZenonT(60) DEF ScanInv
<1> QED BY <1>1, <1>5, <1>9, <1>10, <1>11, <1>12, Zenon DEF ReadyInv

\* Steps that touch neither the bitmap nor the handles.
LEMMA ReadyUnchanged ==
  ASSUME ReadyInv, UNCHANGED <<bitmap, memory_map, handles>>
  PROVE  ReadyInv'
<1>1. Reserved' = Reserved /\ \A h \in Handles : Owned(h)' = Owned(h)
  BY Zenon DEF Reserved, Available, Owned, handles
<1> QED
  BY <1>1 DEF ReadyInv, RangeInv, Bits, OwnersDisjoint, Owners, bitmap

LEMMA CallStep ==
  ASSUME Inv, NEW h \in Handles, NEW n \in Nat, NEW name \in {"allocate", "allocate_single"},
         name = "allocate_single" => n = 1, begin_call(h, n, name)
  PROVE  Inv'
<1> USE DEF Inv
<1>1. /\ pc = "ready" /\ pc' = name /\ id' = id /\ id[h] = nullframe /\ target' = h
      /\ wanted' = n /\ start' = 1 /\ i' = 0 /\ UNCHANGED <<bitmap, memory_map, handles>>
  BY Zenon DEF begin_call, construction, handles, range_begin
<1>2. ReadyInv' BY <1>1, ReadyUnchanged, ZenonT(60)
<1>3. TypeOK' BY <1>1, ConstantsAssumption DEF begin_call, TypeOK, construction, bitmap, handles
<1>4. ReadyInv /\ range_end \in Nat /\ range_end' = range_end
  BY <1>1, ConstantsAssumption, SMTT(30) DEF ReadyInv, RangeInv, Frames, bitmap
<1>5. ScanInv' BY <1>1, <1>4 DEF ScanInv, range_begin
<1> QED BY <1>1, <1>2, <1>3, <1>5, Zenon

\* One turn of the loop of allocate.
LEMMA NextStep ==
  ASSUME Inv, allocate_next
  PROVE  Inv'
<1> USE DEF Inv
<1>1. /\ pc = "allocate" /\ pc' = pc /\ i < wanted /\ start + i <= range_end
      /\ wanted' = wanted /\ target' = target /\ UNCHANGED <<bitmap, construction, handles>>
      /\ allocation_map' = allocation_map /\ range_end' = range_end /\ id' = id
  BY ZenonT(60) DEF allocate_next, bitmap, handles
<1>2. /\ wanted \in Nat /\ start \in Nat /\ i \in Nat /\ range_end \in Frames
      /\ range_end \in Nat /\ range_end < Limit /\ Limit \in Nat
  BY <1>1, ConstantsAssumption DEF TypeOK, ReadyInv, RangeInv, Frames
<1>3. ReadyInv' BY <1>1, ReadyUnchanged, Zenon DEF construction
<1>4. /\ id[target] = nullframe /\ start >= 1
      /\ \A s \in 1..start - 1 : ~Fits(s, wanted)
      /\ wanted > 0 => start <= range_end + 1
      /\ \A f \in start..start + i - 1 : f <= range_end /\ ~allocation_map[f]
  BY <1>1, Zenon DEF ScanInv, range_begin
<1>5. \A s \in Int : Fits(s, wanted)' <=> Fits(s, wanted)
  BY <1>1, Zenon DEF Fits
<1>6. CASE allocation_map[start + i]
  <2>1. start' = start + i + 1 /\ i' = 0 BY <1>6, Zenon DEF allocate_next
  <2>2. ASSUME NEW s \in 1..start' - 1 PROVE ~Fits(s, wanted)
    <3>1. CASE s < start BY <1>2, <1>4, <3>1
    <3>2. CASE s >= start
      <4>1. start + i \in s..s + wanted - 1 BY <1>1, <1>2, <2>1, <3>2, SMTT(30)
      <4> QED BY <1>6, <4>1, ZenonT(60) DEF Fits
    <3> QED BY <1>2, <3>1, <3>2, SMTT(30)
  <2>3. TypeOK' BY <1>1, <1>2, <2>1, SMTT(30) DEF TypeOK, bitmap, construction, handles
  <2>4. ScanInv' BY <1>1, <1>2, <1>4, <1>5, <2>1, <2>2 DEF ScanInv, range_begin
  <2> QED BY <1>1, <1>3, <2>3, <2>4, Zenon
<1>7. CASE ~allocation_map[start + i]
  <2>1. start' = start /\ i' = i + 1 BY <1>7, Zenon DEF allocate_next
  <2>2. \A f \in start..start + i' - 1 : f <= range_end /\ ~allocation_map[f]
    <3>1. \A f \in start..start + i' - 1 : f \in start..start + i - 1 \/ f = start + i
      BY <1>2, <2>1, SMTT(30)
    <3> QED BY <1>1, <1>4, <1>7, <3>1, ZenonT(60)
  <2>3. TypeOK' BY <1>1, <1>2, <2>1, SMTT(30) DEF TypeOK, bitmap, construction, handles
  <2>4. ScanInv' BY <1>1, <1>2, <1>4, <1>5, <2>1, <2>2 DEF ScanInv, range_begin
  <2> QED BY <1>1, <1>3, <2>3, <2>4, Zenon
<1> QED BY <1>6, <1>7, Zenon

LEMMA SingleNextStep ==
  ASSUME Inv, single_next
  PROVE  Inv'
<1> USE DEF Inv
<1>1. /\ pc = "allocate_single" /\ pc' = pc /\ start <= range_end /\ allocation_map[start]
      /\ start' = start + 1 /\ i' = i
      /\ wanted' = wanted /\ target' = target /\ UNCHANGED <<bitmap, construction, handles>>
      /\ allocation_map' = allocation_map /\ range_end' = range_end /\ id' = id
  BY ZenonT(60) DEF single_next, bitmap, handles
<1>2. /\ wanted = 1 /\ i = 0 /\ start \in Nat
      /\ range_end \in Nat /\ range_end < Limit /\ Limit \in Nat
  BY <1>1, ConstantsAssumption DEF TypeOK, ReadyInv, RangeInv, Frames, ScanInv
<1>3. ReadyInv' BY <1>1, ReadyUnchanged, Zenon DEF construction
<1>4. /\ id[target] = nullframe /\ start >= 1
      /\ \A s \in 1..start - 1 : ~Fits(s, wanted)
  BY <1>1, Zenon DEF ScanInv, range_begin
<1>5. \A s \in Int : Fits(s, wanted)' <=> Fits(s, wanted)
  BY <1>1, Zenon DEF Fits
<1>6. ~Fits(start, wanted)
  <2>1. start \in start..start + wanted - 1 BY <1>2
  <2> QED BY <1>1, <2>1, Zenon DEF Fits
<1>7. \A s \in 1..start' - 1 : ~Fits(s, wanted)
  BY <1>1, <1>2, <1>4, <1>6, SMTT(30)
<1>8. TypeOK' BY <1>1, <1>2, SMTT(30) DEF TypeOK, bitmap, construction, handles
<1>9. ScanInv' BY <1>1, <1>2, <1>4, <1>5, <1>7 DEF ScanInv, range_begin
<1> QED BY <1>1, <1>3, <1>8, <1>9, Zenon

LEMMA FailStep ==
  ASSUME Inv, allocate_fail \/ single_fail
  PROVE  Inv' /\ \A s \in 1..range_end : ~Fits(s, wanted)
<1> USE DEF Inv
<1>1. /\ pc \in {"allocate", "allocate_single"} /\ pc' = "ready"
      /\ wanted' = 0 /\ start' = 0 /\ i' = 0
      /\ UNCHANGED <<bitmap, construction, target, handles>>
  BY Zenon DEF allocate_fail, single_fail, end_call, bitmap
<1>2. ReadyInv' BY <1>1, ReadyUnchanged, ZenonT(60) DEF construction
<1>3. TypeOK' BY <1>1, ConstantsAssumption DEF TypeOK, bitmap, construction, handles
<1>4. ScanInv' BY <1>1, ZenonT(60) DEF ScanInv
<1>5. start \in Nat /\ i \in Nat /\ wanted \in Nat /\ range_end \in Nat
  BY <1>1, ConstantsAssumption DEF TypeOK, ReadyInv, RangeInv, Frames
<1>6. i < wanted /\ start + i > range_end
  BY <1>5 DEF allocate_fail, single_fail, ScanInv
<1>7. ASSUME NEW s \in 1..range_end PROVE ~Fits(s, wanted)
  <2>1. CASE s < start
    BY <1>1, <1>5, <2>1 DEF ScanInv, range_begin
  <2>2. CASE s >= start
    <3>1. s + wanted - 1 \in s..s + wanted - 1 /\ ~(s + wanted - 1 <= range_end)
      BY <1>5, <1>6, <2>2
    <3> QED BY <3>1, Zenon DEF Fits
  <2> QED BY <1>5, <2>1, <2>2
<1> QED BY <1>1, <1>2, <1>3, <1>4, <1>7, Zenon

\* Giving out free frames of the range.
LEMMA GiveStep ==
  ASSUME Inv, NEW n \in Nat, give(n), pc # "construct", id[target] = nullframe,
         start \in Frames,
         \A f \in start..start + n - 1 : f \in 1..range_end /\ ~allocation_map[f]
  PROVE  Inv'
<1> DEFINE block == start..start + n - 1
<1> USE DEF Inv
<1>0. PICK t \in Handles : t = target BY Zenon DEF TypeOK
<1>1. /\ allocation_map' = [f \in Frames |-> IF f \in block THEN TRUE ELSE allocation_map[f]]
      /\ id' = [id EXCEPT ![t] = start] /\ frames' = [frames EXCEPT ![t] = n]
      /\ pc' = "ready" /\ wanted' = 0 /\ start' = 0 /\ i' = 0
      /\ UNCHANGED <<range_end, construction, target>>
  BY <1>0, Zenon DEF give, end_call, set_bits
<1>2. TypeOK /\ ReadyInv BY Zenon
<1>3. /\ id \in [Handles -> Frames \cup {nullframe}]
      /\ frames \in [Handles -> Nat] /\ allocation_map \in [Frames -> BOOLEAN]
  BY Zenon DEF TypeOK
<1>4. start # nullframe BY ConstantsAssumption DEF Frames, nullframe
<1>5. /\ id' \in [Handles -> Frames \cup {nullframe}] /\ frames' \in [Handles -> Nat]
      /\ id'[t] = start /\ frames'[t] = n
      /\ \A h \in Handles : h # t => id'[h] = id[h] /\ frames'[h] = frames[h]
  BY <1>1, <1>3, Zenon
<1>6. allocation_map' \in [Frames -> BOOLEAN] BY <1>1, <1>3, Zenon
<1>7. TypeOK'
  <2>1. 0 \in Nat /\ 0 \in 0..Limit + 1 /\ 0 \in 0..0 BY ConstantsAssumption
  <2>2. /\ range_end' \in 0..Limit /\ memory_map' \in MemoryMaps /\ k' \in Nat \ {0}
        /\ available_end' \in Frames /\ target' \in Handles
    BY <1>1, Zenon DEF TypeOK, construction
  <2> QED BY <1>1, <1>5, <1>6, <2>1, <2>2, Zenon DEF TypeOK
<1>8. Owned(t)' = block /\ \A h \in Handles : h # t => Owned(h)' = Owned(h)
  BY <1>1, <1>4, <1>5, Zenon DEF Owned
<1>9. Owned(t) = {} BY <1>0, Zenon DEF Owned
<1>10. Reserved' = Reserved BY <1>1, Zenon DEF Reserved, Available, construction
<1>11. \A f \in block : f \in Frames /\ f \notin Reserved /\ \A h \in Handles : f \notin Owned(h)
  <2>1. range_end \in Frames BY <1>2, Zenon DEF ReadyInv, RangeInv
  <2>2. \A f \in block : f \in Frames BY <2>1, ConstantsAssumption DEF Frames
  <2> QED BY <1>2, <2>2, Zenon DEF ReadyInv, Bits
<1>12. Bits'
  <2>1. ASSUME NEW f \in Frames, f \in block
        PROVE  allocation_map'[f] /\ f \in Owned(t)'
    BY <1>1, <1>8, <2>1, Zenon
  <2>2. ASSUME NEW f \in Frames, f \notin block
        PROVE  /\ allocation_map'[f] <=> allocation_map[f]
               /\ (\E h \in Handles : f \in Owned(h)') <=> \E h \in Handles : f \in Owned(h)
    <3>1. allocation_map'[f] = allocation_map[f] BY <1>1, <2>2, Zenon
    <3>2. \A h \in Handles : f \in Owned(h)' <=> f \in Owned(h)
      BY <1>8, <1>9, <2>2, Zenon
    <3> QED BY <3>1, <3>2, Zenon
  <2>3. Bits BY <1>2, Zenon DEF ReadyInv
  <2>4. ASSUME NEW f \in Frames
        PROVE  allocation_map'[f] <=> f \in Reserved' \/ \E h \in Handles : f \in Owned(h)'
    <3>1. CASE f \in block BY <1>3, <2>1, <3>1, Zenon
    <3>2. CASE f \notin block BY <1>10, <2>2, <2>3, <3>2, Zenon DEF Bits
    <3> QED BY <3>1, <3>2, Zenon
  <2> QED BY <2>4, Zenon DEF Bits
<1>13. OwnersDisjoint'
  <2> SUFFICES ASSUME NEW h \in Handles, NEW o \in Handles, h # o
               PROVE  Owned(h)' \cap Owned(o)' = {}
    BY Zenon DEF OwnersDisjoint
  <2>1. Owned(h) \cap Owned(o) = {} BY <1>2, Zenon DEF ReadyInv, OwnersDisjoint
  <2>2. CASE h = t BY <1>8, <1>11, <2>2
  <2>3. CASE o = t BY <1>8, <1>11, <2>3
  <2>4. CASE h # t /\ o # t BY <1>8, <2>1, <2>4, Zenon
  <2> QED BY <2>2, <2>3, <2>4, Zenon
<1>14. Owners'
  <2>1. Owners BY <1>2, Zenon DEF ReadyInv
  <2> QED BY <1>1, <1>8, <1>10, <1>11, <2>1, Zenon DEF Owners, range_begin
<1>15. RangeInv' BY <1>1, <1>2, Zenon DEF ReadyInv, RangeInv, construction
<1>16. ScanInv' BY <1>1, Zenon DEF ScanInv
<1> QED BY <1>1, <1>7, <1>12, <1>13, <1>14, <1>15, <1>16, ZenonT(60) DEF ReadyInv

\* A return finds a block of the range, the lowest that is free.
LEMMA ReturnStep ==
  ASSUME Inv, allocate_return \/ single_return
  PROVE  Inv' /\ id'[target] # nullframe /\ LowestFit(id'[target], wanted)
<1> USE DEF Inv
<1>1. PICK n \in Nat : n = wanted BY Zenon DEF TypeOK
<1>2. /\ pc \in {"allocate", "allocate_single"} /\ give(n) /\ id[target] = nullframe
      /\ start >= 1 /\ \A s \in 1..start - 1 : ~Fits(s, wanted)
  BY <1>1, Zenon DEF allocate_return, single_return, ScanInv, range_begin
<1>3. start \in Nat /\ range_end \in Nat /\ range_end < Limit /\ Limit \in Nat /\ Limit > 1
  BY <1>2, ConstantsAssumption DEF TypeOK, ReadyInv, RangeInv, Frames
<1>4. \A f \in start..start + n - 1 : f <= range_end /\ ~allocation_map[f]
  <2>1. CASE allocate_return BY <1>1, <2>1, Zenon DEF allocate_return, ScanInv
  <2>2. CASE single_return
    <3>1. n = 1 /\ start <= range_end /\ ~allocation_map[start]
      BY <1>1, <2>2, Zenon DEF single_return, ScanInv
    <3>2. \A f \in start..start + n - 1 : f = start BY <1>3, <3>1
    <3> QED BY <3>1, <3>2, Zenon
  <2> QED BY <2>1, <2>2, Zenon
<1>5. start < Limit
  <2>1. CASE n = 0
    <3>1. pc = "allocate" /\ start = 1 BY <1>1, <1>2, <2>1 DEF ScanInv, range_begin
    <3> QED BY <1>3, <3>1, Zenon
  <2>2. CASE n # 0
    <3>1. start \in start..start + n - 1 BY <1>3, <2>2
    <3> QED BY <1>3, <1>4, <3>1
  <2> QED BY <2>1, <2>2, Zenon
<1>6. start \in Frames /\ start # nullframe BY <1>2, <1>3, <1>5 DEF Frames, nullframe
<1>7. \A f \in start..start + n - 1 : f \in 1..range_end /\ ~allocation_map[f]
  BY <1>2, <1>3, <1>4
<1>8. Inv' BY <1>2, <1>6, <1>7, GiveStep, Zenon
<1>9. id'[target] = start BY <1>2, Zenon DEF give, TypeOK
<1>10. Fits(start, wanted) BY <1>1, <1>4, Zenon DEF Fits
<1> QED BY <1>2, <1>6, <1>8, <1>9, <1>10, Zenon DEF LowestFit, range_begin

\* Giving frames back: h loses what it owned, and takes over what o owned, if
\* there is another handle o.
LEMMA ReleaseStep ==
  ASSUME Inv, pc = "ready", NEW h \in Handles, NEW lost,
         UNCHANGED <<range_end, construction, pc, call>>,
         TypeOK', lost = Owned(h),
         \A f \in Frames : allocation_map'[f] <=> allocation_map[f] /\ f \notin lost,
         NEW o \in Handles,
         Owned(o)' = {},
         h # o => Owned(h)' = Owned(o),
         \A x \in Handles : x # h /\ x # o => Owned(x)' = Owned(x)
  PROVE  Inv'
<1> USE DEF Inv
<1>1. ReadyInv /\ Bits /\ OwnersDisjoint /\ Owners BY Zenon DEF ReadyInv
<1>2. Reserved' = Reserved BY Zenon DEF Reserved, Available, construction
<1>3. \A f \in lost : f \notin Reserved BY <1>1, Zenon DEF Owners
<1>4. \A x \in Handles : x # h => Owned(x) \cap lost = {} BY <1>1, Zenon DEF OwnersDisjoint
<1>5. ASSUME NEW f PROVE (\E x \in Handles : f \in Owned(x)') <=>
                         f \notin lost /\ \E x \in Handles : f \in Owned(x)
  <2>1. ASSUME NEW x \in Handles, f \in Owned(x)'
        PROVE  f \notin lost /\ \E y \in Handles : f \in Owned(y)
    <3>1. x # o BY <2>1, Zenon
    <3>2. CASE x = h BY <1>4, <2>1, <3>1, <3>2, Zenon
    <3>3. CASE x # h BY <1>4, <2>1, <3>1, <3>3, Zenon
    <3> QED BY <3>2, <3>3, Zenon
  <2>2. ASSUME f \notin lost, NEW x \in Handles, f \in Owned(x)
        PROVE  \E y \in Handles : f \in Owned(y)'
    <3>1. x # h BY <2>2, Zenon
    <3>2. CASE x = o BY <2>2, <3>1, <3>2, Zenon
    <3>3. CASE x # o BY <2>2, <3>1, <3>3, Zenon
    <3> QED BY <3>2, <3>3, Zenon
  <2> QED BY <2>1, <2>2, Zenon
<1>6. Bits'
  <2>1. \A f \in Frames : allocation_map'[f] <=> f \in Reserved \/ \E x \in Handles : f \in Owned(x)'
    BY <1>1, <1>3, <1>5, Zenon DEF Bits
  <2> QED BY <1>2, <2>1, Zenon DEF Bits
<1>7. OwnersDisjoint'
  <2> SUFFICES ASSUME NEW x \in Handles, NEW y \in Handles, x # y
               PROVE  Owned(x)' \cap Owned(y)' = {}
    BY Zenon DEF OwnersDisjoint
  <2>1. CASE x = o \/ y = o BY <2>1, Zenon
  <2>2. CASE x # o /\ y # o /\ x = h
    BY <1>1, <2>2, Zenon DEF OwnersDisjoint
  <2>3. CASE x # o /\ y # o /\ y = h
    BY <1>1, <2>3, Zenon DEF OwnersDisjoint
  <2>4. CASE x # o /\ y # o /\ x # h /\ y # h
    BY <1>1, <2>4, Zenon DEF OwnersDisjoint
  <2> QED BY <2>1, <2>2, <2>3, <2>4, Zenon
<1>8. Owners'
  <2>1. ASSUME NEW x \in Handles, NEW f \in Owned(x)' PROVE f \in range_begin..range_end /\ f \notin Reserved
    <3>1. \E y \in Handles : f \in Owned(y) BY <1>5, <2>1, Zenon
    <3> QED BY <1>1, <3>1, Zenon DEF Owners
  <2> QED BY <1>2, <2>1, Zenon DEF Owners, range_begin
<1>9. RangeInv' BY <1>1, Zenon DEF ReadyInv, RangeInv, construction
<1>10. ScanInv' BY Zenon DEF ScanInv
<1> QED BY <1>6, <1>7, <1>8, <1>9, <1>10, Zenon DEF ReadyInv

LEMMA FreeStep ==
  ASSUME Inv, NEW h \in Handles, free(h)
  PROVE  Inv'
<1> USE DEF Inv
<1>1. /\ pc = "ready" /\ id[h] # nullframe
      /\ allocation_map' = [f \in Frames |-> IF f \in Owned(h) THEN FALSE ELSE allocation_map[f]]
      /\ id' = [id EXCEPT ![h] = nullframe] /\ frames' = frames
      /\ UNCHANGED <<range_end, construction, pc, call>>
  BY Zenon DEF free, set_bits, Owned
<1>2. /\ id \in [Handles -> Frames \cup {nullframe}] /\ allocation_map \in [Frames -> BOOLEAN]
  BY Zenon DEF TypeOK
<1>3. /\ id' \in [Handles -> Frames \cup {nullframe}] /\ allocation_map' \in [Frames -> BOOLEAN]
      /\ id'[h] = nullframe /\ \A x \in Handles : x # h => id'[x] = id[x]
  BY <1>1, <1>2, Zenon
<1>4. TypeOK' BY <1>1, <1>3, Zenon DEF TypeOK, construction, call
<1>5. Owned(h)' = {} /\ \A x \in Handles : x # h => Owned(x)' = Owned(x)
  BY <1>1, <1>3, Zenon DEF Owned
<1>6. \A f \in Frames : allocation_map'[f] <=> allocation_map[f] /\ f \notin Owned(h)
  BY <1>1, <1>2, Zenon
<1> QED BY <1>1, <1>4, <1>5, <1>6, ReleaseStep, Zenon

LEMMA MoveStep ==
  ASSUME Inv, NEW h \in Handles, NEW o \in Handles, move_assign(h, o)
  PROVE  Inv'
<1> USE DEF Inv
<1>1. /\ h # o /\ pc = "ready"
      /\ id' = [id EXCEPT ![h] = id[o], ![o] = nullframe]
      /\ frames' = [frames EXCEPT ![h] = frames[o]]
      /\ UNCHANGED <<range_end, construction, pc, call>>
  BY Zenon DEF move_assign
<1>2. /\ id \in [Handles -> Frames \cup {nullframe}] /\ allocation_map \in [Frames -> BOOLEAN]
      /\ frames \in [Handles -> Nat]
  BY Zenon DEF TypeOK
<1>3. /\ allocation_map' \in [Frames -> BOOLEAN]
      /\ \A f \in Frames : allocation_map'[f] <=> allocation_map[f] /\ f \notin Owned(h)
  <2>1. CASE id[h] = nullframe
    BY <1>2, <2>1, Zenon DEF move_assign, Owned
  <2>2. CASE id[h] # nullframe
    <3>1. allocation_map' = [f \in Frames |-> IF f \in Owned(h) THEN FALSE ELSE allocation_map[f]]
      BY <2>2, Zenon DEF move_assign, set_bits, Owned
    <3> QED BY <1>2, <3>1, Zenon
  <2> QED BY <2>1, <2>2, Zenon
<1>4. /\ id' \in [Handles -> Frames \cup {nullframe}] /\ frames' \in [Handles -> Nat]
      /\ id'[h] = id[o] /\ frames'[h] = frames[o] /\ id'[o] = nullframe
      /\ \A x \in Handles : x # h /\ x # o => id'[x] = id[x] /\ frames'[x] = frames[x]
  BY <1>1, <1>2, Zenon
<1>5. TypeOK' BY <1>1, <1>3, <1>4, Zenon DEF TypeOK, construction, call
<1>6. /\ Owned(o)' = {} /\ Owned(h)' = Owned(o)
      /\ \A x \in Handles : x # h /\ x # o => Owned(x)' = Owned(x)
  BY <1>4, Zenon DEF Owned
<1> QED BY <1>1, <1>3, <1>5, <1>6, ReleaseStep, Zenon

LEMMA StutterStep ==
  ASSUME Inv, UNCHANGED vars
  PROVE  Inv'
<1> USE DEF Inv
<1>1. UNCHANGED <<bitmap, construction, pc, call, handles>> BY Zenon DEF vars
<1>2. TypeOK' BY <1>1, Zenon DEF TypeOK, bitmap, construction, call, handles
<1>3. ConstructInv => ConstructInv'
  BY <1>1, Zenon DEF ConstructInv, bitmap, construction, handles
<1>4. ReadyInv => ReadyInv' BY <1>1, ReadyUnchanged, Zenon DEF construction
<1>5. ScanInv' BY <1>1, Zenon DEF ScanInv, Fits, bitmap, call, handles
<1> QED BY <1>1, <1>2, <1>3, <1>4, <1>5, Zenon

LEMMA InvNext == Inv /\ [Next]_vars => Inv'
<1> SUFFICES ASSUME Inv, [Next]_vars PROVE Inv'
  BY Zenon
<1>1. CASE proceed
  BY <1>1, ConstructStep, SetRangeStep, NextStep, SingleNextStep, FailStep, ReturnStep, Zenon DEF proceed
<1>2. ASSUME NEW h \in Handles, NEW n \in 0..MaxFrames, allocate(h, n) PROVE Inv'
  <2>1. n \in Nat BY ConstantsAssumption
  <2> QED BY <1>2, <2>1, CallStep, Zenon DEF allocate
<1>3. ASSUME NEW h \in Handles, allocate_single(h) PROVE Inv'
  BY <1>3, CallStep, Zenon DEF allocate_single
<1>4. ASSUME NEW h \in Handles, free(h) PROVE Inv'
  BY <1>4, FreeStep, Zenon
<1>5. ASSUME NEW h \in Handles, NEW o \in Handles, move_assign(h, o) PROVE Inv'
  BY <1>5, MoveStep, Zenon
<1>6. CASE UNCHANGED vars
  BY <1>6, StutterStep, Zenon
<1> QED BY <1>1, <1>2, <1>3, <1>4, <1>5, <1>6, Zenon DEF Next

\* The invariant of the allocator holds throughout.
THEOREM Invariance == Spec => []Inv
BY InitInv, InvNext, PTL DEF Spec

\* Every variable of the allocator keeps its type, and the searches stay within
\* the bitmap.
THEOREM AllocatorTypes == Spec => []TypeOK
<1>1. Inv => TypeOK BY Zenon DEF Inv
<1> QED BY <1>1, Invariance, PTL

\* allocate, free and moves never leave two handles with the same frame.
THEOREM FramesHaveOneOwner == Spec => []OwnersDisjoint
<1>1. Inv => OwnersDisjoint
  <2>1. CASE pc = "construct" BY <2>1, Zenon DEF Inv, ConstructInv, OwnersDisjoint, Owned
  <2>2. CASE pc # "construct" BY <2>2, Zenon DEF Inv, ReadyInv
  <2> QED BY <2>1, <2>2, Zenon
<1> QED BY <1>1, Invariance, PTL

\* The bitmap is the union of what the memory map reserves and what is owned.
THEOREM BitmapIsExact == Spec => []BitmapExact
<1>1. Inv => BitmapExact
  <2> SUFFICES ASSUME Inv, pc # "construct", NEW f \in range_begin..range_end
               PROVE  allocation_map[f] <=> f \in Reserved \/ \E h \in Handles : f \in Owned(h)
    BY Zenon DEF BitmapExact
  <2>1. Bits /\ range_end \in Frames BY Zenon DEF Inv, ReadyInv, RangeInv
  <2>2. f \in Frames BY <2>1, ConstantsAssumption DEF Frames, range_begin
  <2> QED BY <2>1, <2>2, Zenon DEF Bits
<1> QED BY <1>1, Invariance, PTL

\* No frame outside available memory is given out, but for the one at range_end.
THEOREM GivesOnlyAvailable == Spec => []OnlyAvailableGiven
<1>1. Inv => OnlyAvailableGiven
  <2> SUFFICES ASSUME Inv, NEW h \in Handles, NEW f \in Owned(h), f # range_end
               PROVE  f \in Available
    BY Zenon DEF OnlyAvailableGiven
  <2>1. pc # "construct" BY Zenon DEF Inv, ConstructInv, Owned
  <2>2. f \in 1..range_end /\ f \notin Reserved /\ RangeInv
    BY <2>1, Zenon DEF Inv, ReadyInv, Owners, range_begin
  <2>3. range_end \in Nat /\ range_end < Limit /\ Limit \in Nat
    BY <2>2, ConstantsAssumption DEF RangeInv, Frames
  <2>4. f \in Frames /\ f < range_end BY <2>2, <2>3 DEF Frames
  <2>5. memory_map \in MemoryMaps BY Zenon DEF Inv, TypeOK
  <2>6. \E j \in DOMAIN memory_map : f < End(memory_map[j])
    <3>1. range_end # 0 BY <2>2, <2>3, <2>4
    <3>2. PICK j \in 1..Len(memory_map) : range_end = End(memory_map[j]) BY <2>2, <3>1, Zenon DEF RangeInv
    <3>3. DOMAIN memory_map = 1..Len(memory_map) BY <2>5, MapFacts, Zenon
    <3> QED BY <2>4, <3>2, <3>3, Zenon
  <2> QED BY <2>2, <2>4, <2>6, Zenon DEF Reserved
<1> QED BY <1>1, Invariance, PTL

\* One owner for every frame, an exact bitmap and only available frames, together.
THEOREM FramesAreAccounted == Spec => []FramesAccounted
BY FramesHaveOneOwner, BitmapIsExact, GivesOnlyAvailable, PTL DEF FramesAccounted

\* allocate and allocate_single return the lowest free block, and fail only when
\* there is none, for every bitmap.
THEOREM AllocationIsFirstFit == Spec => FirstFit
<1> DEFINE A == pc' = "ready" /\ pc \in {"allocate", "allocate_single"} => Returns(id'[target])
<1>1. Inv /\ [Next]_vars => [A]_vars
  <2> SUFFICES ASSUME Inv, Next, pc' = "ready", pc \in {"allocate", "allocate_single"}
               PROVE  Returns(id'[target])
    BY Zenon
  <2>1. \/ allocate_fail \/ single_fail \/ allocate_return \/ single_return
    BY Zenon DEF Next, proceed, construct, set_range, allocate_next, single_next, allocate,
           allocate_single, begin_call, free, move_assign
  <2>2. CASE allocate_return \/ single_return
    BY <2>2, ReturnStep, Zenon DEF Returns
  <2>3. CASE allocate_fail \/ single_fail
    <3>1. id'[target] = nullframe
      BY <2>3, Zenon DEF Inv, ScanInv, allocate_fail, single_fail, handles
    <3> QED BY <2>3, <3>1, FailStep, Zenon DEF Returns, range_begin
  <2> QED BY <2>1, <2>2, <2>3, Zenon
<1> QED BY <1>1, Invariance, PTL DEF Spec, FirstFit

-----------------------------------------------------------------------------
(* The processors.                                                         *)

CONSTANTS Ids, bsp, IdOrders, Faults
VARIABLES ids, boot, p_k, page, parameter, notify, ap, entry, lapic_id, p_flag, pending, p_handler,
          failed, kept, captured

P == INSTANCE Smp WITH k <- p_k, flag <- p_flag, handler <- p_handler

\* While a processor is between the startup interrupt and its notification the
\* boot processor waits for this very one, and page and parameter are its own.
StartingInv ==
  /\ ap \in [Ids -> {"off", "startup", "trampoline", "dead", "entry", "main", "capture", "locked", "ready"}]
  /\ entry \in [Ids -> Ids \cup {P!none}]
  /\ boot \in {"start", "wait"} => parameter = ids[p_k]
  /\ boot = "start" => notify = 0
  /\ \A cpu \in Ids : ap[cpu] \in {"startup", "trampoline", "entry"} =>
       boot = "wait" /\ notify = 0 /\ ids[p_k] = cpu /\ page = cpu
  /\ \A cpu \in Ids : ap[cpu] = "entry" => entry[cpu] = cpu

LEMMA StartingStep == StartingInv /\ [P!Next]_(P!vars) => StartingInv'
<1> SUFFICES ASSUME StartingInv, [P!Next]_(P!vars) PROVE StartingInv'
  BY Zenon
<1> USE DEF StartingInv
<1>1. CASE P!boot_aps
  BY <1>1, Zenon DEF P!boot_aps, P!starting
<1>2. CASE P!start_ap
  BY <1>2, ZenonT(60) DEF P!start_ap
<1>3. CASE P!boot_ap_return
  BY <1>3 DEF P!boot_ap_return, P!starting
<1>4. CASE P!start_timer
  BY <1>4, Zenon DEF P!start_timer, P!starting
<1>5. ASSUME NEW cpu \in Ids, P!real_start(cpu) PROVE StartingInv'
  BY <1>5, ZenonT(60) DEF P!real_start, P!booting
<1>6. ASSUME NEW cpu \in Ids, P!long_start(cpu) PROVE StartingInv'
  BY <1>6, Zenon DEF P!long_start, P!booting
<1>7. ASSUME NEW cpu \in Ids, P!ap_main(cpu) PROVE StartingInv'
  BY <1>7, ZenonT(60) DEF P!ap_main
<1>8. ASSUME NEW cpu \in Ids, P!capture_context_id(cpu) \/ P!capture_context_aquire(cpu) \/ P!capture_context_release(cpu)
      PROVE  StartingInv'
  BY <1>8 DEF P!capture_context_id, P!capture_context_aquire, P!capture_context_release, P!booting
<1>9. ASSUME NEW cpu \in Ids, P!timer_interrupt(cpu) \/ P!Switch(cpu) PROVE StartingInv'
  BY <1>9, Zenon DEF P!timer_interrupt, P!Switch, P!switch_thread_same, P!switch_thread_return, P!switch_thread,
              P!booting, P!starting
<1>10. CASE UNCHANGED P!vars
  BY <1>10, Zenon DEF P!vars, P!booting, P!starting
<1> QED BY <1>1, <1>2, <1>3, <1>4, <1>5, <1>6, <1>7, <1>8, <1>9, <1>10, ZenonT(60) DEF P!Next, P!Boot, P!Start

\* For any number of processors in any order, and whichever do not answer: a
\* processor in the trampoline finds its own variables in the page, and ap_main
\* its own parameter.
THEOREM TrampolineIsOwn == P!Spec => []P!OwnTrampoline
<1>1. P!Init => StartingInv
  BY DEF P!Init, StartingInv
<1>2. StartingInv => P!OwnTrampoline
  BY Zenon DEF StartingInv, P!OwnTrampoline
<1> QED BY <1>1, <1>2, StartingStep, PTL DEF P!Spec

\* What the tick is with: a processor interrupted or about to be.
With == pending \cup {cpu \in Ids : p_handler[cpu] # "out"}

\* As long as no processor passed the tick on and kept its thread, none that
\* starts released the lock under a tick, and the timer is the first
\* processor's: the tick is with one processor at a time, and the lock is held.
TickInv ==
  /\ p_handler \in [Ids -> {"out", "switch", "return"}]
  /\ kept \in BOOLEAN /\ captured \in BOOLEAN
  /\ ~kept /\ ~captured /\ P!first_lapic_id = bsp =>
       /\ \A x, y \in With : x = y
       /\ \A x \in pending : x \in Ids => p_handler[x] = "out"
       /\ With # {} => p_flag = 1
       /\ \A cpu \in Ids : p_handler[cpu] = "return" => cpu = P!last_lapic_id

LEMMA TickStep == TickInv /\ [P!Next]_(P!vars) => TickInv'
<1> SUFFICES ASSUME TickInv, [P!Next]_(P!vars) PROVE TickInv'
  BY Zenon
<1> USE DEF TickInv, With
<1>1. CASE P!Boot \/ UNCHANGED P!vars
  <2>1. UNCHANGED <<ids, p_flag, pending, p_handler, kept, captured>>
    BY <1>1, Zenon DEF P!Boot, P!boot_aps, P!start_ap, P!boot_ap_return, P!start_timer, P!vars, P!ticking, P!history
  <2> QED BY <2>1, Zenon DEF P!first_lapic_id, P!last_lapic_id
<1>2. ASSUME NEW cpu \in Ids, P!real_start(cpu) \/ P!long_start(cpu) \/ P!ap_main(cpu) \/ P!capture_context_id(cpu)
      PROVE  TickInv'
  <2>1. UNCHANGED <<ids, p_flag, pending, p_handler, kept, captured>>
    BY <1>2, ZenonT(60) DEF P!real_start, P!long_start, P!ap_main, P!capture_context_id, P!ticking, P!history
  <2> QED BY <2>1, Zenon DEF P!first_lapic_id, P!last_lapic_id
<1>3. ASSUME NEW cpu \in Ids, P!capture_context_aquire(cpu) PROVE TickInv'
  BY <1>3 DEF P!capture_context_aquire, P!history, P!first_lapic_id, P!last_lapic_id
<1>4. ASSUME NEW cpu \in Ids, P!capture_context_release(cpu) PROVE TickInv'
  BY <1>4, ZenonT(60) DEF P!capture_context_release, P!UnderWay, P!first_lapic_id, P!last_lapic_id
<1>5. ASSUME NEW cpu \in Ids, P!timer_interrupt(cpu) PROVE TickInv'
  BY <1>5 DEF P!timer_interrupt, P!Interruptible, P!history, P!first_lapic_id, P!last_lapic_id
<1>6. ASSUME NEW cpu \in Ids, P!switch_thread_same(cpu) PROVE TickInv'
  BY <1>6, ZenonT(60) DEF P!switch_thread_same, P!Triggered, P!first_lapic_id, P!last_lapic_id
<1>7. ASSUME NEW cpu \in Ids, P!switch_thread_return(cpu) PROVE TickInv'
  BY <1>7 DEF P!switch_thread_return, P!history, P!first_lapic_id, P!last_lapic_id
<1>8. ASSUME NEW cpu \in Ids, P!switch_thread(cpu) PROVE TickInv'
  BY <1>8 DEF P!switch_thread, P!Triggered, P!history, P!first_lapic_id, P!last_lapic_id
<1> QED BY <1>1, <1>2, <1>3, <1>4, <1>5, <1>6, <1>7, <1>8, ZenonT(60) DEF P!Next, P!Start, P!Switch

\* For any number of processors: two are only both in the section of the tick
\* when one passed the tick on and kept its thread, when a starting processor
\* released the lock, or when the timer is not the first processor's.
THEOREM TickIsExclusive == P!Spec => []P!TickExclusive
<1>1. P!Init => TickInv
  BY Zenon DEF P!Init, TickInv, With
<1>2. TickInv => P!TickExclusive
  BY Zenon DEF TickInv, With, P!TickExclusive
<1> QED BY <1>1, <1>2, TickStep, PTL DEF P!Spec
-----------------------------------------------------------------------------
(* The timer.                                                              *)

CONSTANTS Low, High, Gap, Waits
VARIABLES wide, wait, t_start, t_end, timer, t_pc, elapsed

T == INSTANCE PmTimer WITH start <- t_start, end <- t_end, pc <- t_pc

\* The two widths are powers of two, and no wait takes a whole turn.
TimerAssumption ==
  /\ 2^Low \in Nat \ {0} /\ 2^High \in Nat \ {0} /\ 2^Low <= 2^High
  /\ Gap \in Nat /\ Waits \subseteq 0..2^Low - 1

\* Less than a turn after the first read the timer tells the time gone by.  A
\* wait whose end is before its start has seen the timer wrap.
TimerInv ==
  /\ wide \in BOOLEAN /\ wait \in Waits
  /\ timer \in 0..T!Turn - 1 /\ t_start \in 0..T!Turn - 1 /\ t_end \in Nat /\ elapsed \in 0..T!Turn
  /\ elapsed < T!Turn => elapsed = IF timer >= t_start THEN timer - t_start ELSE T!Turn - t_start + timer
  /\ t_pc # "start" => IF t_end >= t_start THEN t_end = t_start + wait ELSE t_end = t_start + wait - T!Turn
  /\ t_pc = "overflow" => t_end < t_start
  /\ t_pc \in {"wait", "done"} /\ t_end < t_start => elapsed >= T!Turn - t_start
  /\ t_pc = "done" => elapsed >= wait

LEMMA OneTurn ==
  ASSUME NEW n \in Nat \ {0}, NEW a \in 0..2 * n - 1
  PROVE  a % n = IF a < n THEN a ELSE a - n
OBVIOUS

LEMMA TimerStep ==
  ASSUME TimerAssumption, TimerInv, [T!Next]_(T!vars)
  PROVE  TimerInv'
<1> DEFINE n == T!Turn
<1>1. n \in Nat \ {0} /\ 2^Low \in Nat /\ wait \in 0..2^Low - 1 /\ 2^Low <= n /\ (~wide => n = 2^Low)
  BY DEF T!Turn, TimerInv, TimerAssumption
<1>2. \A a \in 0..2 * n - 1 : a % n = IF a < n THEN a ELSE a - n
  <2> HIDE DEF n
  <2> QED BY <1>1, OneTurn, Zenon
<1>3. CASE T!wait_microseconds
  <2>1. /\ UNCHANGED <<wide, wait, t_start, timer, elapsed>>
        /\ t_end' = IF wide THEN t_start + wait ELSE (t_start + wait) % 2^Low
        /\ t_pc' = IF t_end' < t_start THEN "overflow" ELSE "wait"
    BY <1>3, Zenon DEF T!wait_microseconds
  <2>2. n' = n BY <2>1, Zenon DEF T!Turn
  <2>3. ~wide => t_end' = IF t_start + wait < n THEN t_start + wait ELSE t_start + wait - n
    <3>1. t_start + wait \in 0..2 * n - 1 BY <1>1 DEF TimerInv
    <3>2. ~wide => t_end' = (t_start + wait) % n BY <1>1, <2>1, Zenon
    <3> DEFINE q == t_start + wait
    <3>3. q % n = IF q < n THEN q ELSE q - n
      <4> HIDE DEF n, q
      <4> QED BY <1>2, <3>1, ZenonT(60) DEF q
    <3>4. t_start \in Int /\ wait \in Int BY <1>1, SMTT(30) DEF TimerInv
    <3> HIDE DEF n
    <3> QED BY <1>1, <3>2, <3>3, <3>4, SMTT(30)
  <2> HIDE DEF n
  <2>4. t_end' \in Nat /\ IF t_end' >= t_start THEN t_end' = t_start + wait ELSE t_end' = t_start + wait - n
    BY <1>1, <2>1, <2>3, SMTT(30) DEF TimerInv, n
  <2> QED BY <1>1, <2>1, <2>2, <2>4, ZenonT(60) DEF TimerInv, n
<1>4. ASSUME T!io_read32, UNCHANGED <<wide, wait, t_start, t_end>>
      PROVE  /\ n' = n /\ timer' \in 0..n - 1 /\ elapsed' \in 0..n /\ elapsed' >= elapsed
             /\ elapsed' < n =>
                  elapsed' = IF timer' >= t_start THEN timer' - t_start ELSE n - t_start + timer'
  <2>1. n' = n BY <1>4, Zenon DEF T!Turn
  <2>2. PICK d \in 1..Gap : /\ timer' = (timer + d) % n
                            /\ elapsed' = IF elapsed + d > n THEN n ELSE elapsed + d
    BY <1>4, ZenonT(60) DEF T!io_read32
  <2> HIDE DEF n
  <2>3. d \in Nat /\ d > 0 /\ timer \in 0..n - 1 /\ t_start \in 0..n - 1 /\ elapsed \in 0..n
    BY DEF TimerAssumption, TimerInv, n
  <2>4. timer' \in 0..n - 1
    BY <1>1, <2>2, <2>3, SMTT(30)
  <2>5. elapsed + d < n =>
          timer' = IF timer + d < n THEN timer + d ELSE timer + d - n
    <3>1. elapsed + d < n => timer + d \in 0..2 * n - 1 BY <1>1, <2>3
    <3> DEFINE q == timer + d
    <3>2. q \in 0..2 * n - 1 => q % n = IF q < n THEN q ELSE q - n
      <4> HIDE DEF q
      <4> QED BY <1>2, Zenon
    <3> QED BY <1>1, <2>2, <2>3, <3>1, <3>2, SMTT(30)
  <2>6. elapsed < n => elapsed = IF timer >= t_start THEN timer - t_start ELSE n - t_start + timer
    BY ZenonT(60) DEF TimerInv, n
  <2> QED BY <1>1, <2>1, <2>2, <2>3, <2>4, <2>5, <2>6, SMTT(30)
<1> HIDE DEF n
<1>5. CASE T!read_overflow
  <2>1. /\ t_pc = "overflow" /\ T!io_read32 /\ UNCHANGED <<wide, wait, t_start, t_end>>
        /\ t_pc' = IF timer' >= t_start THEN "overflow" ELSE "wait"
    BY <1>5, ZenonT(60) DEF T!read_overflow
  <2> QED BY <1>1, <1>4, <2>1 DEF TimerInv, n
<1>6. CASE T!read_end
  <2>1. /\ t_pc = "wait" /\ T!io_read32 /\ UNCHANGED <<wide, wait, t_start, t_end>>
        /\ t_pc' = IF timer' < t_end THEN "wait" ELSE "done"
    BY <1>6, ZenonT(60) DEF T!read_end
  <2> QED BY <1>1, <1>4, <2>1, SMTT(30) DEF TimerInv, n
<1>7. CASE UNCHANGED T!vars
  BY <1>7, Zenon DEF T!vars, TimerInv, T!Turn
<1> QED BY <1>3, <1>5, <1>6, <1>7, ZenonT(60) DEF T!Next

\* For any width of the timer, any wait below its turn and any time between two
\* reads: wait_microseconds never returns before its time, also across a wrap.
THEOREM NeverEarly ==
  ASSUME TimerAssumption
  PROVE  T!FairSpec => [](t_pc = "done" => T!Waited)
<1>1. T!Init => TimerInv
  BY DEF T!Init, TimerInv, T!Turn, TimerAssumption
<1>2. TimerInv /\ [T!Next]_(T!vars) => TimerInv'
  BY TimerStep, Zenon
<1>3. TimerInv => (t_pc = "done" => T!Waited)
  BY Zenon DEF TimerInv, T!Waited
<1> QED BY <1>1, <1>2, <1>3, PTL DEF T!FairSpec
=============================================================================
