--------------------------------- MODULE Fat ---------------------------------
(***************************************************************************)
(* Reading files and directories of a FAT volume (fs/drivers/fat): the     *)
(* chains of clusters, and the cursors that a handle keeps in them from    *)
(* call to call.                                                           *)
(***************************************************************************)
EXTENDS Naturals, Sequences, SequencesExt

CONSTANTS
  LastCluster,         \* clusters are numbered 2..LastCluster
  EntriesPerCluster,   \* directory entries of a cluster
  Volumes              \* the volumes that are looked at

\* Values of an entry of the allocation table
Free == 0
Reserved == 1
Bad == LastCluster + 1
eof_cluster == LastCluster + 2

\* A volume is [fat |-> .., file |-> first cluster of a file, dir |-> first
\* cluster of a directory, entries |-> per cluster its directory entries].
\* An entry is [kind |-> "free" | "end" | "name" | "file", real |-> whether it
\* is what kind says, first |-> bit 6 of its first byte, sum |-> checksum]: kind
\* is "name" for all that has one of the attributes read only, hidden, system
\* or volume label, of which a part of a long name has all.

VARIABLES
  vol,      \* the volume
  handle,   \* HandleData of an open file
  dhandle,  \* HandleDirectoryData of an open directory
  out       \* the last call and its result

vars == <<vol, handle, dhandle, out>>

Ok(v) == [ok |-> TRUE, value |-> v, error |-> "Success"]
Err(code) == [ok |-> FALSE, value |-> <<>>, error |-> code]

-----------------------------------------------------------------------------
(* Clusters.                                                               *)

get_fat_entry_type(fate) ==
  CASE fate = Free -> "Free" [] fate = Reserved -> "Reserved" [] fate = Bad -> "Bad"
    [] fate = eof_cluster -> "Last" [] OTHER -> "Used"

get_next_cluster(cluster) ==
  LET fate == vol.fat[cluster] IN
  CASE get_fat_entry_type(fate) = "Used" -> Ok(fate)
    [] get_fat_entry_type(fate) = "Last" -> Err("EndOfFile")
    [] OTHER -> Err("BrokenFATEntry")

\* The loop of seek_cluster_chain
RECURSIVE Follow(_, _)
Follow(cluster, steps) ==
  IF steps = 0 THEN Ok(cluster)
  ELSE LET next == get_next_cluster(cluster)
       IN  IF next.ok THEN Follow(next.value, steps - 1) ELSE next

\* Deliberately wrong: going back does not start again at the first cluster.
seek_cluster_chain_forward(first, h, number) ==
  Follow(h.cluster, IF number < h.number THEN number ELSE number - h.number)

\* The cluster with that number in the chain, from the cursor if it is not
\* behind it
seek_cluster_chain(first, h, number) ==
  IF number < h.number THEN Follow(first, number) ELSE Follow(h.cluster, number - h.number)

\* A whole cluster is rejected when it ends where the volume does; a single
\* directory entry never is.
copy_cluster(cluster, whole) ==
  IF whole /\ cluster = LastCluster THEN Err("IndexOutOfRange") ELSE Ok(cluster)

\* Driver::read of one block; the cursor is kept only if all goes well.
read(block) ==
  LET c == seek_cluster_chain(vol.file, handle, block)
      r == IF c.ok THEN copy_cluster(c.value, TRUE) ELSE c
  IN  /\ handle' = IF r.ok THEN [cluster |-> c.value, number |-> block] ELSE handle
      /\ out' = [call |-> "read", arg |-> block, result |-> r]
      /\ UNCHANGED <<vol, dhandle>>

-----------------------------------------------------------------------------
(* Directories.                                                            *)

FromStart == [cluster |-> vol.dir, index |-> 0, dentry |-> 0]
Dentry(cluster, dentry) == vol.entries[cluster][(dentry % EntriesPerCluster) + 1]

\* The loop of readdir: at is its cursor, lfn the long name collected so far as
\* [sum, parts].  Yields the entry, the form of its name and the new cursor.
RECURSIVE Scan(_, _, _)
Scan(at, index, lfn) ==
  LET e == Dentry(at.cluster, at.dentry)
      target == at.index = index
      part == e.kind = "name" /\ target
      found == e.kind = "file" /\ target
      new == IF ~part THEN lfn
             ELSE [sum |-> IF e.first THEN e.sum ELSE lfn.sum, parts |-> lfn.parts + 1]
      count == IF e.kind = "file" THEN at.index + 1 ELSE at.index
      full == (at.dentry + 1) % EntriesPerCluster = 0
      next == IF full THEN get_next_cluster(at.cluster) ELSE Ok(at.cluster)
      name == IF lfn.sum # e.sum THEN "short" ELSE IF lfn.parts = 0 THEN "empty" ELSE "long"
      moved(c) == [cluster |-> c, index |-> count, dentry |-> at.dentry + 1]
      info == [entry |-> <<at.cluster, at.dentry % EntriesPerCluster>>, name |-> name]
  IN  CASE e.kind = "end" -> Err("EndOfFile")
        [] part /\ ~e.first /\ e.sum # lfn.sum -> Err("BadChecksum")
        [] found /\ next.ok -> Ok([info |-> info, at |-> moved(next.value)])
        [] found /\ next.error = "EndOfFile" -> Ok([info |-> info, at |-> moved(eof_cluster)])
        [] ~next.ok -> next
        [] OTHER -> Scan(moved(next.value), index, new)

\* readdir continues at the cursor of the handle, or starts again if that is
\* past the index; but not once the cursor has reached the end of the chain.
ScanFrom(h, index) ==
  IF h.cluster = eof_cluster THEN Err("EndOfFile")
  ELSE Scan(IF h.index > index THEN FromStart ELSE h, index, [sum |-> 0, parts |-> 0])

readdir(index) ==
  LET r == ScanFrom(dhandle, index)
  IN  /\ dhandle' = IF r.ok THEN r.value.at ELSE dhandle
      /\ out' = [call |-> "readdir", arg |-> index,
                 result |-> IF r.ok THEN Ok(r.value.info) ELSE r]
      /\ UNCHANGED <<vol, handle>>

-----------------------------------------------------------------------------

\* create_handle_data
Init ==
  /\ vol \in Volumes
  /\ handle = [cluster |-> vol.file, number |-> 0]
  /\ dhandle = FromStart
  /\ out = [call |-> "none", arg |-> 0, result |-> Ok(0)]

Next == \/ \E b \in 0..(LastCluster - 1) : read(b)
        \/ \E i \in 0..(2 * EntriesPerCluster) : readdir(i)

Spec == Init /\ [][Next]_vars

-----------------------------------------------------------------------------
(* Properties.                                                             *)

\* What a file and a directory consist of: the clusters from the first one on,
\* up to a table entry that is not a cluster
RECURSIVE Chain(_, _)
Chain(cluster, limit) ==
  IF limit = 0 \/ get_fat_entry_type(vol.fat[cluster]) # "Used" THEN <<cluster>>
  ELSE <<cluster>> \o Chain(vol.fat[cluster], limit - 1)

Entries ==
  LET chain == Chain(vol.dir, 1)
  IN  [k \in 1..(Len(chain) * EntriesPerCluster) |->
         LET c == chain[((k - 1) \div EntriesPerCluster) + 1]
         IN  [at |-> <<c, (k - 1) % EntriesPerCluster>>, e |-> Dentry(c, k - 1)]]

Listed ==
  LET ended(k) == \E j \in 1..k : Entries[j].e.kind = "end"
      named(k) == \E j \in 1..(k - 1) :
                    /\ Entries[j].e.kind = "name" /\ Entries[j].e.sum = Entries[k].e.sum
                    /\ \A i \in (j + 1)..(k - 1) : Entries[i].e.kind = "free"
      files == SelectSeq([k \in DOMAIN Entries |-> k],
                         LAMBDA k : Entries[k].e.kind = "file" /\ ~ended(k))
  IN  [n \in DOMAIN files |-> [entry |-> Entries[files[n]].at,
                               name |-> IF named(files[n]) THEN "long" ELSE "short"]]

\* Directories the listing is right for: all that is taken for a part of a long
\* name is one and follows the part before it, and no checksum is 0, the value
\* that stands for no long name
Ordinary ==
  \A k \in DOMAIN Entries :
    LET e == Entries[k].e IN
    /\ e.real /\ e.sum # 0
    /\ e.kind = "name" /\ ~e.first =>
         k > 1 /\ Entries[k - 1].e.kind = "name" /\ Entries[k - 1].e.sum = e.sum

\* Whatever blocks and entries a handle was asked for before, a block that is
\* read is the cluster that the chain of the file has there, and an entry that
\* is listed is the one the directory has there.  Nothing is missing, except
\* the last cluster of the volume, the entries behind the end of the cursor of
\* a handle that has listed a directory that fills its clusters, and those in
\* a directory that is not Ordinary.
FatFaithful ==
  LET r == out.result
      chain == Chain(vol.file, LastCluster)
      n == out.arg + 1
  IN  /\ out.call = "read" =>
           IF n <= Len(chain)
           THEN r = IF chain[n] = LastCluster THEN Err("IndexOutOfRange") ELSE Ok(chain[n])
           ELSE ~r.ok
      /\ out.call = "readdir" /\ Ordinary =>
           IF r.ok THEN n <= Len(Listed) /\ r.value = Listed[n]
           ELSE n > Len(Listed) \/ dhandle.cluster = eof_cluster

=============================================================================
