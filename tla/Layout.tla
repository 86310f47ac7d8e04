------------------------------- MODULE Layout -------------------------------
(***************************************************************************)
(* Where on the device mount reads and umount writes.  Neither computes    *)
(* the places of things: each reads or writes and goes on from where the   *)
(* last call has left the file offset, so that both must make the same     *)
(* way.  The reference is the way a FAT volume is laid out: the copies of  *)
(* the table behind the reserved sectors, then on FAT16 the root directory *)
(* and the data clusters; on FAT32 the root directory is a chain of        *)
(* clusters.                                                               *)
(*                                                                         *)
(* The unit is a word, a part of a directory entry; what a word holds is a *)
(* number, at first its place on the device, so that it can be seen where  *)
(* it was read.  Tables are not interpreted: the chain of the root         *)
(* directory and the subdirectories come with the volume.  No write is     *)
(* checked: each may write less than it was asked to, or nothing, and the  *)
(* next one goes on from there.  The process is not stopped here, reads    *)
(* succeed, and a device is opened for writing; Volume has the rest.       *)
(***************************************************************************)
EXTENDS Integers, Sequences, FiniteSets

CONSTANTS
  Boots,           \* the boot sectors of the volumes
  EntryWords,      \* sizeof(struct fat_dir_layout)
  ClusterEntries,  \* directory entries in a cluster
  Size,            \* of the device
  Wrap,            \* 2^32 bytes, in words: offsets of clusters have 32 bits
  MaxFailures      \* bound: writes that fail in a behaviour

ClusterWords == ClusterEntries * EntryWords
Wild == -1   \* a word read from beyond the device or an allocation
Places == 0..(Size - 1)

\* type: what the volume was formatted as, 1 for FAT16 and 2 for FAT32.
\* A FAT16 volume of many sectors has total_sectors_16 = 0 as FAT32 has.
\* dirs: its subdirectories, of one cluster each.
Boot == [type : {1, 2}, total_sectors_16 : {0, 1}, reserved_sector_count : Nat,
         table_count : Nat \ {0}, table_size : Nat, root_entry_count : Nat,
         root : Seq(Nat \ {0, 1}), dirs : SUBSET (Nat \ {0, 1})]

ASSUME LayoutAssumption ==
  /\ EntryWords \in Nat \ {0} /\ ClusterEntries \in Nat \ {0} /\ Size \in Nat
  /\ Wrap \in Nat \ {0} /\ MaxFailures \in Nat
  /\ Boots \subseteq Boot
  /\ \A b \in Boots :
       b.type = 2 => b.total_sectors_16 = 0 /\ b.root_entry_count = 0 /\ b.root # << >>

VARIABLES
  boot,     \* the boot sector of the volume
  device,   \* what its words hold
  step,     \* "closed", "read", "open", "write" or "lost": no device open,
            \* in the loop of init_fat_32, open, in write_fat, or taken for
            \* what it is not
  pos,      \* the file offset
  table, root_dir, entries,  \* entries: root_entry_count, in memory
  data_offset,
  copy,                      \* the loop over the copies of the table
  cluster, index,            \* the loops over the root directory of FAT32
  \* history: what the device should hold after an umount; since the mount,
  \* "cut": a write has failed, "far": a directory beyond Wrap was written
  intended, amiss,
  failures  \* writes that have failed

loop == <<copy, cluster, index>>
history == <<intended, amiss, failures>>
vars == <<boot, device, step, pos, table, root_dir, entries, data_offset,
          loop, history>>

-----------------------------------------------------------------------------
(* The volume as it was formatted *)

TableAt(i) == boot.reserved_sector_count + (i - 1) * boot.table_size
BehindTables == TableAt(boot.table_count + 1)
DataAt == BehindTables + (IF boot.type = 1 THEN boot.root_entry_count * EntryWords ELSE 0)

\* The root directory has RootWords words, the k-th of them at RootAt(k).
RootWords == IF boot.type = 1 THEN boot.root_entry_count * EntryWords
                              ELSE Len(boot.root) * ClusterWords
RootAt(k) ==
  IF boot.type = 1 THEN BehindTables + k
  ELSE DataAt + (boot.root[k \div ClusterWords + 1] - 2) * ClusterWords
              + (k % ClusterWords)
RootEnd == RootAt(RootWords - 1) + 1

\* The k-th word of a cluster, and how far from the first cluster it is.
Far(c) == (c - 2) * ClusterWords
WordAt(c, k) == DataAt + Far(c) + k

-----------------------------------------------------------------------------
(* read and write *)

Read(from, n) ==
  [k \in 0..(n - 1) |-> IF from + k \in Places THEN device[from + k] ELSE Wild]

\* n words of what is in memory, those from the offset on, at the place to.
Write(dev, to, memory, offset, n) ==
  [p \in Places |->
     IF p \in to..(to + n - 1)
     THEN IF offset + p - to \in DOMAIN memory THEN memory[offset + p - to] ELSE Wild
     ELSE dev[p]]

\* The device with the table in all its copies.
AllCopies(dev, t) ==
  [p \in Places |->
     LET k == p - boot.reserved_sector_count
     IN  IF k \in 0..(boot.table_count * boot.table_size - 1)
         THEN t[k % boot.table_size] ELSE dev[p]]

next_cluster(c) ==
  LET after == {k \in 2..Len(boot.root) : boot.root[k - 1] = c}
  IN  IF after = {} THEN 0 ELSE boot.root[CHOOSE k \in after : TRUE]

-----------------------------------------------------------------------------
Init ==
  /\ boot \in Boots
  /\ device = [p \in Places |-> p]
  /\ step = "closed" /\ pos = 0
  /\ table = << >> /\ root_dir = << >> /\ entries = 0 /\ data_offset = 0
  /\ copy = 0 /\ cluster = 0 /\ index = 0
  /\ intended = device /\ amiss = {} /\ failures = 0

FATN == IF boot.total_sectors_16 = 0 THEN 2 ELSE 1

\* A slip: the copies after the second are not skipped.
SkipsNone == boot.reserved_sector_count + 2 * boot.table_size

\* The file offset after two tables are read and the others skipped.
SkipTables ==
  boot.reserved_sector_count
    + (IF boot.table_count > 2 THEN boot.table_count ELSE 2) * boot.table_size

\* What the device holds when it is mounted, and what it should hold from
\* then on.
Mounted ==
  /\ table' = Read(boot.reserved_sector_count, boot.table_size)
  /\ intended' = AllCopies(device, table')
  /\ amiss' = {}
  /\ UNCHANGED <<boot, device, copy, failures>>

\* init_fat_16 reads the root directory at once.
init_fat_16 ==
  /\ step = "closed" /\ FATN = 1
  /\ Mounted
  /\ root_dir' = Read(SkipTables, boot.root_entry_count * EntryWords)
  /\ pos' = SkipTables + boot.root_entry_count * EntryWords
  /\ data_offset' = pos'
  /\ entries' = boot.root_entry_count
  /\ step' = "open"
  /\ UNCHANGED <<cluster, index>>

\* A slip: the count of a mount before is kept.
Init32KeepsCount ==
  /\ step = "closed" /\ FATN = 2 /\ boot.type = 2
  /\ Mounted
  /\ root_dir' = [k \in 0..(ClusterWords - 1) |-> Wild]
  /\ pos' = SkipTables
  /\ data_offset' = pos'
  /\ cluster' = boot.root[1] /\ index' = 0
  /\ step' = "read"
  /\ UNCHANGED entries

\* init_fat_32 has room for one cluster of it.
init_fat_32 ==
  /\ step = "closed" /\ FATN = 2 /\ boot.type = 2
  /\ Mounted
  /\ root_dir' = [k \in 0..(ClusterWords - 1) |-> Wild]
  /\ entries' = boot.root_entry_count
  /\ pos' = SkipTables
  /\ data_offset' = pos'
  /\ cluster' = boot.root[1] /\ index' = 0
  /\ step' = "read"

\* A volume that is not FAT32 has no such fields in its boot sector, and what
\* comes of that is not modelled.
Mistaken ==
  /\ step = "closed" /\ FATN = 2 /\ boot.type # 2
  /\ step' = "lost"
  /\ UNCHANGED <<boot, device, pos, table, root_dir, entries, data_offset,
                 loop, history>>

\* The loops over the root directory seek from where they are.  index
\* counts bytes and is added to a pointer to entries.  n words are read or
\* written.
Seek == pos + (Far(cluster) % Wrap)
Follow(next, n) ==
  /\ pos' = Seek + n
  /\ entries' = entries + ClusterEntries
  /\ index' = index + ClusterWords
  /\ cluster' = next_cluster(cluster)
  /\ step' = IF cluster' = 0 THEN next ELSE step

ReadRoot ==
  /\ step = "read"
  /\ root_dir' = [k \in DOMAIN root_dir |->
                    IF k >= index * EntryWords
                    THEN Read(Seek, ClusterWords)[k - index * EntryWords]
                    ELSE root_dir[k]]
  /\ Follow("open", ClusterWords)
  /\ UNCHANGED <<boot, device, table, data_offset, copy, history>>

-----------------------------------------------------------------------------
(* Changes *)

\* A write of full words writes n of them; what else is amiss with it.
Writes(n, full, others) ==
  /\ n < full => failures < MaxFailures
  /\ failures' = failures + (IF n < full THEN 1 ELSE 0)
  /\ amiss' = amiss \cup others \cup (IF n < full THEN {"cut"} ELSE {})

\* What delete and undelete do, here: words of the table change in memory,
\* and first words of entries in memory or on the device, and back.
Toggle(word) == IF word < Size THEN word + Size ELSE word - Size

ChangeTable(k) ==
  /\ step = "open" /\ table[k] # Wild
  /\ table' = [table EXCEPT ![k] = Toggle(@)]
  /\ intended' = AllCopies(intended, table')
  /\ UNCHANGED <<boot, device, step, pos, root_dir, entries, data_offset, loop,
                 amiss, failures>>

ChangeEntry(k) ==
  /\ step = "open" /\ k % EntryWords = 0 /\ root_dir[k] # Wild
  /\ root_dir' = [root_dir EXCEPT ![k] = Toggle(@)]
  /\ intended' = [intended EXCEPT ![RootAt(k)] = root_dir'[k]]
  /\ UNCHANGED <<boot, device, step, pos, table, entries, data_offset, loop,
                 amiss, failures>>

\* A slip: the offset of the cluster in the volume has 32 bits, not only the
\* one in the data area.
NarrowSum(c) == (data_offset + Far(c)) % Wrap

cluster_to_sector(c) == data_offset + (Far(c) % Wrap)

\* parse_dir reads a directory, an entry changes, and write_dir writes it
\* back: n words of it, and nobody will write the others again.
ChangeDirectory(c, k, n) ==
  LET place  == cluster_to_sector(c)
      block  == Read(place, ClusterWords)
      marked == [block EXCEPT ![k] = Toggle(@)]
  IN  /\ step = "open" /\ k % EntryWords = 0 /\ block[k] # Wild
      /\ Writes(n, ClusterWords, IF Far(c) >= Wrap THEN {"far"} ELSE {})
      /\ device' = Write(device, place, marked, 0, n)
      /\ pos' = place + n
      /\ intended' = [intended EXCEPT ![WordAt(c, k)] = IF k < n THEN Toggle(@) ELSE @]
      /\ UNCHANGED <<boot, step, table, root_dir, entries, data_offset, loop>>

-----------------------------------------------------------------------------
(* write_fat *)

\* write_fat_16 and write_fat_32 up to their first write.
write_fat ==
  /\ step = "open"
  /\ pos' = boot.reserved_sector_count
  /\ copy' = 0
  /\ cluster' = IF FATN = 2 THEN boot.root[1] ELSE 0
  /\ index' = 0
  /\ step' = "write"
  /\ UNCHANGED <<boot, device, table, root_dir, entries, data_offset, history>>

\* A slip: a write that was short is done again from the start, at the place
\* where the first one has stopped.
WriteCopyRetries(n) ==
  LET again == IF n < boot.table_size THEN boot.table_size ELSE 0
  IN  /\ step = "write" /\ copy < boot.table_count
      /\ Writes(n, boot.table_size, {})
      /\ device' = Write(Write(device, pos, table, 0, n), pos + n, table, 0, again)
      /\ pos' = pos + n + again
      /\ copy' = copy + 1
      /\ UNCHANGED <<boot, step, table, root_dir, entries, data_offset, cluster,
                     index, intended>>

WriteCopy(n) ==
  /\ step = "write" /\ copy < boot.table_count
  /\ Writes(n, boot.table_size, {})
  /\ device' = Write(device, pos, table, 0, n)
  /\ pos' = pos + n
  /\ copy' = copy + 1
  /\ UNCHANGED <<boot, step, table, root_dir, entries, data_offset, cluster,
                 index, intended>>

WriteRoot16(n) ==
  /\ step = "write" /\ copy = boot.table_count /\ FATN = 1
  /\ Writes(n, boot.root_entry_count * EntryWords, {})
  /\ device' = Write(device, pos, root_dir, 0, n)
  /\ pos' = pos + n
  /\ step' = "closed"
  /\ UNCHANGED <<boot, table, root_dir, entries, data_offset, loop, intended>>

\* A slip: the root directory is written from where the tables end.
WriteRootInPlace(n) ==
  /\ step = "write" /\ copy = boot.table_count /\ FATN = 2
  /\ Writes(n, ClusterWords, {})
  /\ device' = Write(device, pos, root_dir, index * EntryWords, n)
  /\ Follow("closed", n)
  /\ UNCHANGED <<boot, table, root_dir, data_offset, copy, intended>>

WriteRoot32(n) ==
  /\ step = "write" /\ copy = boot.table_count /\ FATN = 2
  /\ Writes(n, ClusterWords, {})
  /\ device' = Write(device, Seek, root_dir, index * EntryWords, n)
  /\ Follow("closed", n)
  /\ UNCHANGED <<boot, table, root_dir, data_offset, copy, intended>>

Next ==
  \/ init_fat_16 \/ init_fat_32 \/ Mistaken \/ ReadRoot
  \/ \E k \in DOMAIN table : ChangeTable(k)
  \/ \E k \in DOMAIN root_dir : ChangeEntry(k)
  \/ \E c \in boot.dirs, k \in 0..(ClusterWords - 1), n \in 0..ClusterWords :
       ChangeDirectory(c, k, n)
  \/ write_fat
  \/ \E n \in 0..boot.table_size : WriteCopy(n)
  \/ \E n \in 0..RootWords : WriteRoot16(n)
  \/ \E n \in 0..ClusterWords : WriteRoot32(n)

Spec == Init /\ [][Next]_vars
-----------------------------------------------------------------------------
(* What is asked of the constants where a theorem needs it *)

\* The volume is on the device and has two tables or more.  The root directory
\* of FAT32 has one cluster, which no subdirectory has, and whose offset in
\* the data area has 32 bits.
Regular(b) ==
  LET tables == b.reserved_sector_count + b.table_count * b.table_size
  IN  /\ b.table_count >= 2
      /\ b.type = 1 => tables + b.root_entry_count * EntryWords <= Size
      /\ b.type = 2 => /\ Len(b.root) = 1 /\ b.root[1] \notin b.dirs
                       /\ Far(b.root[1]) < Wrap
                       /\ tables + Far(b.root[1]) + ClusterWords <= Size

RegularVolumes == \A b \in Boots : Regular(b)
-----------------------------------------------------------------------------
(* Properties *)

\* entries is set by every mount, and the loops stay on the root directory.
TypeOK ==
  /\ boot \in Boots
  /\ DOMAIN device = Places /\ DOMAIN intended = Places
  /\ step \in {"closed", "read", "open", "write", "lost"}
  /\ pos \in Nat /\ data_offset \in Nat
  /\ entries * EntryWords \in 0..(2 * RootWords)
  /\ cluster = 0 \/ \E k \in DOMAIN boot.root : boot.root[k] = cluster
  /\ index \in 0..(Len(boot.root) * ClusterWords)
  /\ copy \in 0..boot.table_count
  /\ amiss \subseteq {"cut", "far"} /\ failures \in 0..MaxFailures

\* FAT.h, on init_fat: "Build and initiate fat_boot, fat_table,
\* fat_table_bak, root_dir and data_offset".  What an open device has in
\* memory is its table, its root directory as changed since, all of it and
\* no more, and the place of its clusters.
MountReadsTheVolume ==
  step = "open" =>
    /\ \A k \in 0..(boot.table_size - 1) : table[k] = intended[TableAt(1) + k]
    /\ entries * EntryWords = RootWords
    /\ \A k \in 0..(RootWords - 1) :
         k \in DOMAIN root_dir /\ root_dir[k] = intended[RootAt(k)]
    /\ data_offset = DataAt

\* FAT.h, on write_fat: "Set change in backup fat table and write them into
\* disk again.  with this function we also write back root directory".  After
\* an umount the device holds the changes where they belong, and what was
\* there everywhere else; but after a write that was short or failed (amiss
\* has "cut"), and after that of a directory that begins 4 GiB behind the first
\* cluster ("far"), which the two properties that follow are about.
UmountWritesTheVolume == step = "closed" /\ amiss = {} => device = intended

\* When writes fail, what follows lands in front of where it should, the root
\* directory in the last copy of the table.  But nothing is ever written in
\* front of the tables or behind the end of the root directory: on FAT16, no
\* cluster of a file changes.
FailureStaysInFront ==
  "far" \notin amiss =>
    \A p \in Places \ (TableAt(1)..(RootEnd - 1)) : device[p] = intended[p]

\* The offset of a cluster has 32 bits in the data area only.  A directory
\* that begins 4 GiB behind the first cluster is read and written where
\* another cluster is, but never outside of the data area: its change leaves
\* the tables, and on FAT16 the root directory, to umount.
FarStaysInData ==
  step = "closed" /\ "cut" \notin amiss =>
    \A p \in Places : p < DataAt => device[p] = intended[p]

\* FAT.h, on FATN: "1: FAT16 2: FAT32".
DetectsType == step # "closed" => FATN = boot.type
=============================================================================
