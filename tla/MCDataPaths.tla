---------------------------- MODULE MCDataPaths ------------------------------
(***************************************************************************)
(* What data goes through on its way to and from the devices, side by      *)
(* side: the rings of the xHCI controller, the page cache, the partition   *)
(* table and the FAT driver.  part says which of them a behaviour is       *)
(* about, and only that one moves.                                         *)
(***************************************************************************)
EXTENDS XhciRing, TLC

VARIABLES part, partitions, disk, devices, cache, content, torn, table, vol, handle, dhandle, out

\* Nothing tells the requests of the ring apart
RequestsAlike == Permutations(Requests)

MCLayouts ==
  {<<>>, <<[start |-> 2, last |-> 3]>>,
   <<[start |-> 2, last |-> 3], [start |-> 4, last |-> 5]>>,
   <<[start |-> 1, last |-> 3]>>, <<[start |-> 2, last |-> 4]>>,
   <<[start |-> 2, last |-> 2], [start |-> 3, last |-> 5]>>}

C == INSTANCE PageCache WITH
       BlockSize <- 2, BlocksPerPage <- 2, DiskBlocks <- 6, Layouts <- MCLayouts, Disks <- {1, 2},
       Ranges <- {<<0, 4>>, <<1, 2>>, <<3, 2>>, <<2, 8>>, <<7, 5>>, <<0, 12>>}

G == INSTANCE Gpt WITH EntriesPerBlock <- 2, MaxEntries <- 3, ArrayLba <- 2, FarLba <- 99

Entry(kind, real, first, sum) == [kind |-> kind, real |-> real, first |-> first, sum |-> sum]

MCEntries ==
  {Entry("free", TRUE, FALSE, 1), Entry("end", TRUE, FALSE, 1), Entry("name", TRUE, TRUE, 1),
   Entry("name", TRUE, FALSE, 1), Entry("name", FALSE, FALSE, 2),
   Entry("file", TRUE, FALSE, 1), Entry("file", TRUE, FALSE, 2), Entry("file", TRUE, FALSE, 0)}

\* Volumes whose allocation table matters, and volumes whose directory does, which has
\* one cluster or two
MCVolumes ==
  LET clusters == 2..4
      none == [k \in 1..2 |-> Entry("end", TRUE, FALSE, 1)]
      volume(f, first, second) ==
        [fat |-> f, file |-> 3, dir |-> 2,
         entries |-> [c \in clusters |-> CASE c = 2 -> first [] c = 4 -> second [] OTHER -> none]]
      next(n) == [c \in clusters |-> IF c = 2 THEN n ELSE 6]
      pairs == [1..2 -> MCEntries]
  IN  {volume(f, none, none) : f \in [clusters -> 0..6]}
        \cup {volume(next(6), d, none) : d \in pairs}
        \cup {volume(next(4), d, e) : d \in pairs, e \in pairs}

F == INSTANCE Fat WITH LastCluster <- 4, EntriesPerCluster <- 2, Volumes <- MCVolumes

cached == <<partitions, disk, devices, cache, content, torn>>
fat == <<vol, handle, dhandle, out>>
all == <<part, vars, cached, table, fat>>

\* The parts that stand still
CacheStill ==
  partitions = <<>> /\ disk = 0 /\ devices = {} /\ cache = <<>> /\ content = <<>> /\ torn = {}
GptStill == table = <<>>
FatStill == vol = <<>> /\ handle = <<>> /\ dhandle = <<>> /\ out = <<>>

DataInit ==
  /\ Init
  /\ \/ part = "ring" /\ CacheStill /\ GptStill /\ FatStill
     \/ part = "cache" /\ C!Init /\ GptStill /\ FatStill
     \/ part = "gpt" /\ table \in G!Disk /\ CacheStill /\ FatStill
     \/ part = "fat" /\ F!Init /\ CacheStill /\ GptStill

DataNext ==
  \/ part = "ring" /\ Next /\ UNCHANGED <<part, cached, table, fat>>
  \/ part = "cache" /\ C!Next /\ UNCHANGED <<part, vars, table, fat>>
  \/ part = "fat" /\ F!Next /\ UNCHANGED <<part, vars, cached, table>>
  \/ part = "gpt" /\ UNCHANGED all

DataSpec == DataInit /\ [][DataNext]_all

\* Reading the disk or a partition returns what was last written to its bytes,
\* whatever was cached or failed before (PageCache!ReadsLastWrite).
ReadsLastWrite == part = "cache" => C!ReadsLastWrite

\* The partitions that find_partitions reports are those of the disk, up to the
\* entry whose name overwrites the header (Gpt!ListsPartitions).
ListsPartitions == part = "gpt" => G!ListsPartitions(table)

\* A handle of a FAT file or directory yields the blocks and the entries that
\* are there, however its cursor was moved before (Fat!FatFaithful).
FatFaithful == part = "fat" => F!FatFaithful

=============================================================================
