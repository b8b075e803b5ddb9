------------------------------ MODULE PageCache ------------------------------
(***************************************************************************)
(* Reading and writing a disk and its partitions through the page cache    *)
(* they share: FileOperator::copy and prepare_cache (fs/fs.hpp), the cache *)
(* providers (fs/pagecache.hpp, fs/drivers/dev/block.hpp), and the devices *)
(* Manager::set_sata_devices makes of the partitions it finds.             *)
(*                                                                         *)
(* copy holds the mutex of the cache throughout, so that a call is a step. *)
(***************************************************************************)
EXTENDS Integers, Sequences

CONSTANTS
  BlockSize,       \* bytes of a block
  BlocksPerPage,   \* blocks of a page
  DiskBlocks,      \* blocks of the disk
  Layouts,         \* lists of partitions, as [start |-> lba, last |-> lba]
  Disks,           \* the disk may be any of these in sata_devices
  Ranges           \* bound: the (offset, size) that are accessed

PageSize == BlockSize * BlocksPerPage
DiskSize == DiskBlocks * BlockSize
DiskPages == DiskBlocks \div BlocksPerPage
New == -1         \* a byte that has been written; byte b of the disk holds b
Junk == -2        \* a byte of a frame that nothing was read to

VARIABLES
  partitions,   \* what find_partitions has returned for the disk
  disk,         \* the disk's index in sata_devices
  devices,      \* the disk, and the partition devices made of it
  cache,        \* BlockDevice::cache_provider: its pages
  content,      \* history: what was last written to each byte of the disk
  torn          \* history: pages that a write which failed has left blank

vars == <<partitions, disk, devices, cache, content, torn>>

-----------------------------------------------------------------------------
(* The devices.                                                            *)

\* PartitionBlockDevice; the offset of its cache is in whole pages.
Device(first, total) ==
  [first_sector |-> first, total_sectors |-> total, page_offset |-> first \div BlocksPerPage]

get_filesize(d) == BlockSize * d.total_sectors

\* Partition j of disk i gets the size of partition i, or of whatever lies
\* behind the list.
PartitionOf(i, j, garbage) ==
  Device(partitions[j].start,
         IF i \in DOMAIN partitions THEN partitions[i].last - partitions[i].start + 1 ELSE garbage)

set_sata_devices(garbage) ==
  {Device(0, DiskBlocks)} \cup {PartitionOf(disk, j, garbage) : j \in DOMAIN partitions}

Init ==
  /\ partitions \in Layouts
  /\ disk \in Disks
  /\ \E garbage \in 0..DiskBlocks : devices = set_sata_devices(garbage)
  /\ cache = <<>>
  /\ content = [b \in 0..(DiskSize - 1) |-> b]
  /\ torn = {}

-----------------------------------------------------------------------------
(* The cache.  A page that is not Uninitialized is the sequence of its     *)
(* bytes.                                                                  *)

Uninitialized == <<>>

\* ensure_capacity: the vector of the base is resized.
ensure_capacity(d, end) ==
  [p \in 1..(IF Len(cache) < d.page_offset + end THEN d.page_offset + end ELSE Len(cache)) |->
     IF p <= Len(cache) THEN cache[p] ELSE Uninitialized]

\* CacheProvider::at
at(c, d, page) == c[d.page_offset + page + 1]

ceil(a, b) == (a + b - 1) \div b

Smaller(a, b) == IF a < b THEN a ELSE b

\* What driver->read leaves in a new frame: the blocks of the page that belong
\* to the file
Fill(d, page) ==
  LET block_begin == page * BlocksPerPage
      blocks_read == Smaller(BlocksPerPage, ceil(get_filesize(d), BlockSize) - block_begin)
      from == (d.first_sector + block_begin) * BlockSize
  IN  [i \in 1..PageSize |-> IF i <= blocks_read * BlockSize /\ from + i <= DiskSize
                             THEN from + i - 1 ELSE Junk]

Blank == [i \in 1..PageSize |-> Junk]

\* Deliberately wrong: a page that will be written is never read first.
prepare_cache_unread(d, begin, end, upto, write) ==
  LET c == ensure_capacity(d, end)
  IN  [k \in DOMAIN c |->
         LET p == k - d.page_offset - 1 IN
         IF p \notin begin..(upto - 1) \/ c[k] # Uninitialized THEN c[k]
         ELSE IF write \/ p * PageSize >= get_filesize(d) THEN Blank ELSE Fill(d, p)]

\* The pages begin..(end - 1), of which those before upto are got ready; a
\* frame that cannot be allocated or read ends the loop there.  A write reads
\* only the first and the last page.
prepare_cache(d, begin, end, upto, write) ==
  LET c == ensure_capacity(d, end)
      Initialize(p) == (~write \/ p \in {begin, end - 1}) /\ p * PageSize < get_filesize(d)
  IN  [k \in DOMAIN c |->
         LET p == k - d.page_offset - 1 IN
         IF p \notin begin..(upto - 1) \/ c[k] # Uninitialized THEN c[k]
         ELSE IF Initialize(p) THEN Fill(d, p) ELSE Blank]

\* Where byte i of the buffer lies: the rest of the first page, whole pages,
\* then the beginning of the last one
Place(offset, i) == [page |-> (offset + i) \div PageSize, at |-> ((offset + i) % PageSize) + 1]

Covers(d, offset, size, k, i) ==
  LET p == k - d.page_offset - 1
  IN  \E n \in 0..(size - 1) : Place(offset, n) = [page |-> p, at |-> i]

\* A write copies the buffer into the pages, which nothing writes back.
WriteTo(c, d, offset, size) ==
  [k \in DOMAIN c |-> [i \in DOMAIN c[k] |-> IF Covers(d, offset, size, k, i) THEN New ELSE c[k][i]]]

ReadFrom(c, d, offset, size) ==
  [i \in 0..(size - 1) |-> LET q == Place(offset, i) IN at(c, d, q.page)[q.at]]

\* FileOperator::copy
copy(d, offset, size, write) ==
  LET begin == offset \div PageSize
      end == ceil(offset + size, PageSize)
  IN  /\ size # 0 /\ offset + size <= get_filesize(d)
      /\ \E upto \in begin..end :
           /\ upto < end => at(ensure_capacity(d, end), d, upto) = Uninitialized
           /\ LET c == prepare_cache(d, begin, end, upto, write)
                  done == write /\ upto = end
              IN  /\ cache' = IF done THEN WriteTo(c, d, offset, size) ELSE c
                  /\ content' = [b \in DOMAIN content |->
                       IF done /\ b - d.first_sector * BlockSize \in offset..(offset + size - 1)
                       THEN New ELSE content[b]]
                  /\ torn' = IF done THEN torn ELSE torn \cup {k \in DOMAIN c : c[k] = Blank}
      /\ UNCHANGED <<partitions, disk, devices>>

read == \E d \in devices, r \in Ranges : copy(d, r[1], r[2], FALSE)
write == \E d \in devices, r \in Ranges : copy(d, r[1], r[2], TRUE)

Next == read \/ write
Spec == Init /\ [][Next]_vars

-----------------------------------------------------------------------------
(* Properties.                                                             *)

\* A partition that begins and ends with a page, and whose device has its size
Proper(p) == p.start % BlocksPerPage = 0 /\ (p.last + 1) % BlocksPerPage = 0
Sized == \A j \in DOMAIN partitions :
           Device(partitions[j].start, partitions[j].last - partitions[j].start + 1) \in devices

\* Whatever was read and written before, through the disk or through any of its
\* partitions, and whichever allocations and reads failed, reading a device
\* returns what was last written to those bytes of the disk.  It holds where
\* every partition is page aligned: set_sata_devices only warns of one that
\* begins in a page, says nothing of one that ends in a page, and gives
\* partition j the size of partition i.  Excepted are the inner pages of a
\* write that fails before its last page is ready: they are not read from the
\* disk, never written, and count as Clean from then on.
ReadsLastWrite ==
  (\A j \in DOMAIN partitions : Proper(partitions[j])) /\ Sized =>
    \A d \in devices, r \in Ranges :
      LET offset == r[1]
          size == r[2]
          begin == offset \div PageSize
          end == ceil(offset + size, PageSize)
      IN  size # 0 /\ offset + size <= get_filesize(d) =>
            LET bytes == ReadFrom(prepare_cache(d, begin, end, end, FALSE), d, offset, size)
            IN  \A i \in 0..(size - 1) :
                  \/ bytes[i] = content[d.first_sector * BlockSize + offset + i]
                  \/ d.page_offset + Place(offset, i).page + 1 \in torn

=============================================================================
