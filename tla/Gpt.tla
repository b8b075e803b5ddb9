--------------------------------- MODULE Gpt ---------------------------------
(***************************************************************************)
(* The search for partitions on a disk (block/gpt.hpp).  A disk is what    *)
(* find_partitions looks at: the master boot record, the header in block 1 *)
(* and the array of entries.  The name of a partition matters because the  *)
(* header is a reference into the buffer the entries are read to.          *)
(***************************************************************************)
EXTENDS Naturals, Sequences, SequencesExt

CONSTANTS
  EntriesPerBlock,   \* bytes of a block / sizeof(PartitionEntry)
  MaxEntries,        \* bound: num_entries of the header
  ArrayLba,          \* entry_array_lba
  FarLba             \* a block number that is made of letters

\* An entry is free, or a partition whose name has at most 8 letters, or one
\* whose name has more than 12.
EntryKinds == {"free", "short", "long"}

Disk == [mbr : {"other", "gpt", "none"}, header : {"EFI PART", "other"}, entry_size : {128, 256},
         num_entries : 0..MaxEntries, entries : [1..MaxEntries -> EntryKinds]]

\* What block lba of the disk holds at the offsets of the fields of the header.
\* Letters 8 to 11 of the name of its first entry are read as entry_array_lba,
\* letters 12 and 13 as num_entries.
HeaderIn(d, lba) ==
  LET e == d.entries[(lba - ArrayLba) * EntriesPerBlock + 1]
  IN  IF e = "long" THEN [lba |-> FarLba, num |-> FarLba] ELSE [lba |-> 0, num |-> 0]

\* Deliberately wrong: free entries are reported too.
Used_all(d, i) == TRUE

Used(d, i) == d.entries[i + 1] # "free"

\* The loop over the entries from entry i on, with the header as it is now in
\* the buffer, the block the buffer holds and the partitions found so far
RECURSIVE entries_from(_, _, _, _, _)
entries_from(d, i, header, buffer_lba, result) ==
  LET lba == header.lba + (i \div EntriesPerBlock)
      now == IF buffer_lba # lba THEN HeaderIn(d, lba) ELSE header
      found == IF Used(d, i) THEN Append(result, i) ELSE result
  IN  CASE i >= header.num -> [error |-> "Success", partitions |-> result]
        [] i < header.num /\ lba \notin ArrayLba..(ArrayLba + ((MaxEntries - 1) \div EntriesPerBlock)) ->
             [error |-> "IndexOutOfRange", partitions |-> <<>>]
        [] OTHER -> entries_from(d, i + 1, now, lba, found)

Error(code) == [error |-> code, partitions |-> <<>>]

find_partitions(d) ==
  CASE d.mbr = "none"                                  -> Error("NotMBR")
    [] d.mbr = "other"                                 -> Error("NotGPT")
    [] d.mbr = "gpt" /\ d.header # "EFI PART"          -> Error("NotGPT")
    [] d.mbr = "gpt" /\ d.header = "EFI PART" /\ d.entry_size # 128 -> Error("UnsupportedGPT")
    [] OTHER -> entries_from(d, 0, [lba |-> ArrayLba, num |-> d.num_entries], 0, <<>>)

-----------------------------------------------------------------------------

\* The partitions of a disk, by their number in the array
Partitions(d) == SelectSeq([i \in 1..d.num_entries |-> i - 1], LAMBDA i : d.entries[i + 1] # "free")

\* find_partitions never reports a partition that does not exist, and reports
\* them in order; but once the first entry has been read, the header is what
\* that entry's name makes of it: a short name ends the list after it, a long
\* one makes the call fail at the next entry.
ListsPartitions(d) ==
  LET r == find_partitions(d)
      gpt == d.mbr = "gpt" /\ d.header = "EFI PART" /\ d.entry_size = 128
  IN  /\ r.error = "Success" => gpt /\ IsPrefix(r.partitions, Partitions(d))
      /\ gpt /\ d.num_entries > 0 =>
           IF d.entries[1] = "long" THEN r.error = "IndexOutOfRange"
           ELSE r.partitions = SelectSeq(Partitions(d), LAMBDA i : i = 0)

=============================================================================
