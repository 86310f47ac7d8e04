# TFAT in TLA+

TFAT is an interactive shell that opens a FAT16 or FAT32 volume, lists and
dumps what is on it, and deletes and undeletes files. These modules model its
core, TLC checks them on small volumes, and TLAPS proves the main invariants
for all volumes. Source paths below are relative to the repository
(`src/user.c` of the repository is `src/src/user.c` in PROJECT.json).

## The system

One process, no threads. State lives in globals: the two allocation tables in
memory, the root directory, the boot sector, two copies of the file
descriptor, the text of the working directory and the state of the long-name
parser. Commands come one at a time from a prompt. What makes the program hard
is not concurrency but that memory and device are kept apart by nothing but
the order of writes, that most errors end the process, and that several
globals outlive the command that set them.

| part | state | operations | what makes it correct |
|---|---|---|---|
| allocation table (FAT.c, FAT16.c, FAT32.c) | `fat_table`, `fat_table_bak` | `next_cluster`, `change_cluster`, `get_cluster` | a chain is followed, freed and marked exactly; the two tables agree |
| mount and umount (user.c, FAT*.c) | `fd`, `fat_boot`, `root_dir`, `data_offset` | `mount`, `umount`, `init_fat`, `write_fat` | umount writes where mount read; a stop in between harms only what it must |
| delete and undelete (user.c) | locals | `delete`, `undelete` | no chain is broken or shared; the entry marked is the one freed |
| directories (fs.c) | file descriptor of its own | `search`, `find`, `parse_dir`, `write_dir` | the first entry with a name is found; the directory is written back as read |
| long names (lfn.c, `list` in user.c) | parser globals | `lfn_add_slot`, `lfn_get`, `lfn_reset`, `list` | a name is shown whole, beside its entry, whatever came before |
| paths (user.c, fs.c, cd.c) | `current_path` | `cd`, `address_convertor`, `get_parent_path`, `fix_deleted_char` | the working directory names a directory; the parent of a path is its parent |
| output of chains (user.c) | none | `dump`, `hdump`, `chain` | a file is printed byte for byte; a chain that ends is followed to its end |
| reports (user.c, fs.c, io.c) | the file of `dump_fat`, the buffer of stdin | `fat`, `dump_fat`, `test_fat`, `test`, `info` | they show the table and the device as they are |
| shell (main.c, command.c, label.c) | prompt, label, open descriptors | dispatcher, `quit`, the main loop | no command but the ones that must loses what is not written |
| helpers (common.c) | none | `sdie`, `udie`, `rtrim` | an error ends the process; a name is cut at its last character |

`delete` and `undelete` use paths (to complete what is typed), directories (to
find the entry and its parent), the table (to free or mark clusters), and on a
subdirectory the device, at once. `umount` writes the rest. `ls` uses paths and
directories, and hands entries to the long-name parser. A command that
fails a guard exits; so does one that comes to a NULL or a wild pointer, and then
what umount would have written is lost.

## The modules

`FatTable` has the operators on one table: `next_cluster` with the masks and
widths of the code, `change_cluster`, and `Chain`, the clusters a loop over
`next_cluster` visits. `Chain` is the least closed set instead of a recursion,
so that it means something on a cycle and can be proved about. A volume is
taken to link inside its data area only (`Cell`).

`VolumeService` is what a user may rely on, without loops, cursors, table
copies or a process: a volume is a table, a root directory and the blocks of its
subdirectories; opening takes a draft; a delete or an undelete is one step;
saving publishes the table and then the root directory; whatever else ends a
session drops the draft. `Volume` implements it (`KeepsPromise`): the table of
the service is the one before the command until the write that marks the entry,
so that a command cut short has not happened, and of an umount only its two
halves show. This is for volumes whose subdirectories have one cluster, since
`write_dir` spoils the others, and for paths that name an entry.

`Volume` composes table, directories, mount and umount, delete and undelete.
Memory is `table`, `bak`, `root`; the device is `fat` (all copies),
`rootRegion` and `data` (clusters as blocks of directory entries). The process
is in one of `proc`: at the prompt, in the loop of delete (`FreeCluster`, one
cluster a step, then `DeleteMark`), in `write_dir` (`WriteDir`, one cluster a
step), in `write_fat` (`WriteCopy` one table copy a step, then `WriteRoot`), or
down. `Kill` and the other actions that stop the process are enabled between
any two of these, and `Start` begins again with the device as it was left. An
entry is its first character, the rest of its name, kind, first cluster, size,
and a stamp for every other byte, so that comparing whole entries (`memcmp` in
the code) and comparing names differ, as they do in the code. Two slips of the
code are in the model as they are: the offset of `write_dir` in bytes used as a
number of entries (`HeapBlocks` are what may lie there) and the entry `find`
returns for `/` (`Garbage`, which stays on the volume here; that it may lead out of
the table is in `Shell`). `op` keeps what the command in progress began with, the
entry and both tables. The files found and the directory they are in are
computed when the command starts, as the code does. What needs a word:

* `delete` reads `parse_dir` of the parent before it frees clusters and writes
  it after; nothing else writes in between, so `WriteDir` takes the block from
  the device when it writes.
* A write of one table copy, of the root directory or of one cluster is atomic
  and succeeds, but for the one from beyond the array; `Layout` has the writes
  that fail.
* The root directory is one region. `Layout` has the rest.
* A directory whose chain is a cycle is outside the model, since `parse_dir`
  never returns from one; `Inspect` has that loop.
* Cell 0 of the table, which `undelete` of an entry without clusters would
  change, is not modelled.

`Layout` is mount, umount and `write_dir` by place: which words of the device are
read and written, for FAT16 and FAT32, with the file offset that the code
carries from call to call, and offsets of clusters cut to 32 bits (`Wrap`) where
the code cuts them. Every write may be short or fail (`MaxFailures` bounds how
many do), and the next goes on from where it stopped, since the code looks at no
result. Tables are not interpreted. The content of a word is the place it came
from, so `device = intended` compares everything with everything. What an umount
has freed stays in the variables and is not read again.

`Shell` is the dispatcher and what a process keeps from one command to the next:
descriptors, boot sector, table and label, each by the device it was read from,
and whether there are changes not yet written. Every verb is there with its
guards, with and without an argument, and each of the ways a process ends:
`Die` has a reason, and keeps it when there was something to lose. `Stray` is the
wild pointers: a path of slashes only, or one whose parent is, for which `find`
returns an entry it has not filled and `ls`, `dump`, `hdump`, `delete` and `undelete`
follow its cluster (`no_name`); a number typed for `chain` that the table does not
have (`no_number`); and a table nobody filled, of an empty device, or freed
(`no_table`, `Adrift`). Each may end the process or go on as if nothing were wrong
(`Answer`, `Alter`), since what malloc left decides; what it overwrites before it ends
is left out. A device may hold a volume of either type, zeros, nothing, or be missing: what
`read` does not fill keeps its old content, as in the code. `main` and the end of
the process make restarts.

`LongNames` is `list` and the parser of lfn.c, one entry a step, and `delete`
and `undelete` as far as a listing can tell (they mark an entry and leave the
parts of its long name). A part is kept whole in the name buffer, in place of
its characters; `Junk` is what malloc left there.

`Names` is short names: the text `list` prints and the one `search` compares,
each as its function makes it (blanks, the marks 0x00, 0x05 and 0xE5 of the first
character, the two flags for lower case, the conditions on attributes and size),
and what delete and undelete make of the first character of every entry that
has the same bytes (undelete looks for a `?`, which is what `get_name` makes of
0xE5, where fs.h:47 says it writes 0xE5). Long names are in `LongNames`, paths in `Session`.

`Session` is paths, character by character, because where
`get_parent_path` and `fix_deleted_char` cut a path is what goes wrong. `cd` keeps
the path; `delete` and `undelete` change the first character of a name, so the
tree changes under the working directory. The names in the root change in memory
(`first`) and reach the device (`saved`) at an umount, and a mount reads them
again, so that a second mount takes back what was not written; those of other
directories are on the device at once. `passed` and `renamed` are history: the
entries `cd` came by, and those renamed since. It has no mount failure and no
read-only device; `delete` of `/` is left to `Volume`.

`Inspect` is the loops that follow a chain, over every table: `dump` and `hdump`,
`chain`, and `parse_dir` with the array it grows.

`Tables` is the commands over the whole table: `test_fat`, `fat` with its questions
and the characters it leaves in the buffer of stdin, `dump_fat` with the file it
opens and does not truncate, and `test` with the sectors it reads. `delete` and
`undelete` are there as the calls of `change_cluster` they make. A cell is one unit
of the file; a write of one may fail once.

`MC*` modules hold the small volumes. `MCInspect` (`Inspect` and `Tables`), `MCMount`
(`Layout` and `Shell`) and `MCListing` (`LongNames` and `Names`) each check two
modules that share no state in one run: `part` says which of them a behaviour
takes the steps of, and the other stays at its start. In every module, an operator that stands
before a definition and is called a slip is a variant of it with one plausible
mistake; no specification uses it. They show that the properties can fail.

## The runs

| run | asks | bounds | states |
|---|---|---|---|
| volume_sound | `TypeOK`, `ReadOnlyShowsDevice`, `MemoryStaysSound`, `DeviceStaysSound`, `KeepsPromise` | 6 clusters, FAT16, 2 copies, 3 root entries, 4 paths, 2 volumes | 299 903 |
| volume_damaged | `DeleteFreesItsChain`, `MirrorsDriftOnlyOnDevice`, `UmountPersists`, `UndeleteCutsOnlySharers`, `CommandsEnd` | 5 clusters, FAT32, cyclic and shared chains, a directory of 2 clusters, fairness | 228 488 |
| long_names | `TypeOK`, `NamesAreRead`, `NamesAreWhole`, `ProperUntilMarked`, `WritesInsideBuffers`; `NamesFindTheirEntries` | 3 directories of 4 to 6 entries, parts up to number 3; directories of 1 and 2 short names, 9 names of 2 characters, all flags | 95 981 |
| session_paths | `CwdIsAPath`, `CwdNamesADirectory`, `UpIsParent`, `UndeleteLooksForTyped`, `MarksWhatItFrees` | all paths of up to 2 characters over `/ . A B` and 11 longer ones, working directory up to 5 (2 after an umount), 2 names changed, in memory and on the device together | 25 007 |
| layout_places | `TypeOK`, `MountReadsTheVolume`, `UmountWritesTheVolume`, `FailureStaysInFront`, `FarStaysInData`; `ShellTypeOK`, `AllOfOneDevice`, `ChangesReachTheDevice`, `OnlyMountLeavesOpen` | 4 volumes of 26 words, 2 and 3 copies, 1 failing write; 5 devices, 3 descriptors | 498 974 |
| inspect_dump | `TypeOK`, `DumpIsTheFile`, `ArrayIsTheDirectory`, `ChainOfTheNumber`, `FollowingEnds`; `TablesTypeOK`, `ReportsTheDevice`, `DumpHoldsTheTable`, `EachLineAnswersOnce`, `VerdictIsOfTheCluster` | all 125 tables of 3 clusters, 7 sizes at 4 bytes a cluster; tables of 11 cells, 1 changed cell, 4 lines, 3 files | 1 198 150 |

volume_sound: one volume (`Ghosts`) has a deleted file in front of the one that
took its name, and a deleted directory with a live file in it and a deleted one
of the same name. Deleting the live file makes two entries that show the same
name, so undelete must pick, and undeleting both makes two live ones. The other
(`Plain`) has a file and a directory with one file. The paths are the file, the
same name as `ls` shows it deleted (`?` first), the directory and the file in it.
Two windows are outside the soundness properties, and the history variables
`revived` and `exposed` name them: a stop in the middle of `write_fat`, and a stop
after an undelete in a subdirectory, which is on the device at once, before an
umount has written its table cell. Inside them the code leaves broken volumes;
the properties say that they are the only ones. What follows such a stop is
explored on `Plain` only (the constraint `ExposedIsPlain` of the cfg); `KeepsPromise`
is for these states too. One live file of two clusters, one deleted, and one
level of directory are enough to have all orders of freeing, marking and
writing; names and slots beyond that add no new relation.

volume_damaged: a file whose chain runs into a cycle, a deleted file whose first
cluster is on it, so that undelete takes a cluster that is in use, and a
directory of two clusters, the smallest that `write_dir` gets wrong.
`UndeleteCutsOnlySharers` says what that does: files whose chain passes through
the cluster end there, no other changes, and none gets a cluster. Sizes and end
marks (0xFFF8, 0xFFFF and 0x0FFFFFF8) are those other systems write, and differ
from the one `undelete` writes.

long_names: one clean directory, one where another system has deleted a name
with its parts, one with half a name and a stray part; listings of one run into
the next, with deleted entries shown or not. `NamesAreWhole` and
`ProperUntilMarked` are about these directories: on arbitrary damage they are
false, since the code never compares checksums. All are proved: those two for
such directories (see The proofs), the others for all.

Short names (`Names`, same run): each mark of the first character, blanks where
they are cut and where they are not, a character after the end of the text, and
two entries that show the same. The property excepts what the code really does
not find: files of no bytes, which `search` skips (fs.c:35) while `ls` shows them;
an entry behind another that shows the same, or behind a directory with a size
whose name and extension, put together as for a file, are that text; and after an
undelete, a name given in upper case to an entry shown in lower case, and a name
whose first character is the mark itself.

session_paths: a directory in a directory, an empty deleted directory in front of them,
which undelete can give the name of the live one, a file with a dot, and `.` and
`..` entries. The longer paths are `/A/B`, `../A`, `A/..`, `./A/`, `//A/`, `A//B`,
`A/B/`, `/A/B/`, `/B.`, `/A/../B.` and `/A/B/../B`: each gets what the short ones
cannot. `CwdNamesADirectory` looks the text of the working directory up as it
stands, as `ls` and the next `cd` do. What it excepts: `Unread`, where `find` gives
an entry of cluster 0 (`cd A/..` leaves `/A/../`) or one not filled (`cd //`), which
`cd` takes for a directory and `parse_dir` reads nothing from (only for texts that
come to the root with their dots resolved on paper, `Resolve`, or that go by an
entry undelete has made a `.` or `..` or something else); an entry on the way that
has lost its name; and one that another in front of it has taken the name of.
`MaxRenamed` bounds the names that differ from those the tree began with, in memory
and in the root on the device added up. `session_slash` types every path of up to
four.

layout_places: two copies and three (the `if` in `init_fat_*`), a FAT32 root
directory at cluster 2 and elsewhere, and a subdirectory that begins exactly
`Wrap` behind the first cluster, where 4 GiB would be. Of the process: a FAT16
volume, a FAT32 volume that is read-only, a device of zeros, an empty file and a
missing one, each mounted over each; three descriptors are enough to use them up.

inspect_dump: three clusters make a chain, a cycle, and a tail into a cycle. One
is numbered 65538, which 16 bits take for 2. Chains longer than the size of the
file are outside `DumpIsTheFile`: the code then prints the last bytes again for
each further cluster. The table of 11 cells makes `fat` ask twice; the tables
differ in the first cell, the last, both or none; the file is empty, shorter or
longer than the table; lines are `Y`, `n`, `no` and an empty one.

Runs that find a violation, each a disagreement of the code with a comment of
its own:

| run | shows |
|---|---|
| volume_writedir | `write_dir` writes clusters after the first from beyond its array; fs.h says it writes the first cluster |
| long_names_proper | after a delete, `ls` shows the long name of the deleted file beside the next entry |
| session_slash | `undelete /B` overwrites the slash |
| layout_bigroot | a FAT32 root directory of two clusters is read wrong |
| layout_type | a FAT16 volume of 65536 sectors is taken for FAT32 |
| inspect_high | a FAT16 chain is cut at a cluster numbered 0xF000 or more |

Other disagreements met on the way are in the model as the code has them, and
the properties name them as exceptions:

* `find` of a path without names returns an entry nobody has filled
  (fs.c:81); `delete /` frees the chain it names, and it, `dump /`, `hdump /` and
  `ls //` may end the process with changes unsaved. `Garbage` in `Volume`,
  `WildEntry` in `Session`, `Stray` in `Shell`.
* The parent of a path with two slashes in a row may be wrong (fs.c:116), and
  `delete A//` frees clusters and marks nothing: `MarksWhatItFrees` excepts it.
* `cd A/..` keeps `/A/../` as the working directory, since only a path that starts
  with dots is completed (user.c:222). The `..` of A has cluster 0, so there `ls`
  and every relative path fail (fs.c:165): `CwdNamesADirectory` excepts it.
* undelete looks for a name with a `?` in front (fs.c:148), where fs.h:47 says 0xE5;
  the code and the model agree on the `?`.
* `delete A/.` frees the clusters of A and marks the entry `.` in it, not A.
* Cluster numbers pass through 16 bits in `chain` (command.c:71, user.c:456), so
  that on FAT32 the number 65538 shows the chain of 2: `ChainOfTheNumber`
  excepts it.
* Every write goes on from where the last one stopped: after a failed one the
  root directory lands in the last copy of the table (FAT16.c:139).
  `FailureStaysInFront` says how far that goes: not in front of the tables and not
  behind the root directory, which on FAT16 is in front of all data. On FAT32,
  where the root directory lies in the data, the clusters in front of it may be hit.
* A directory 4 GiB or more behind the first cluster is read and written at the
  place of another (FAT32.c:94): `FarStaysInData` says that this stays in the data.
* A mount of an empty file after that of a volume does not say "There is nothing
  on": the boot sector is the old one (FAT.c:35, user.c:43), the table
  uninitialised memory. `AllOfOneDevice` excepts it.
* mount over a mounted device drops its changes and keeps its descriptor
  (user.c:33); so do changes get lost at the end of input (main.c:44), when the
  file of `dump_fat` cannot be made (user.c:490), when delete finds no parent
  (user.c:527) and where a wild pointer ends the process (above, and with a
  number for `chain` or an empty device). `ChangesReachTheDevice` and `OnlyMountLeavesOpen` name them.
* With one table copy, `init_fat_16` takes the root directory from behind it
  (FAT16.c:48), and umount writes that over it: the volumes of layout_places
  have two copies or three, and `VolumeAssumption` says at least two.

**Fairness.** `FairSpec` of `Volume` and `Spec` of `Inspect` have weak fairness
of `Progress`, the steps of a command that has started: the code has one thread
and no wait in these loops. `MCInspect` has it for the behaviours of `Inspect`;
`Tables` and `Shell` state no liveness, as `fat` waits for a user. No command is ever owed, and `Volume` lets the
process stop at any point.

## The proofs

TLAPS checks these for every value of the constants, under the assumptions the
modules name.

`VolumeProofs`, under `FatAssumption` (cluster numbers are positive, FATN is 1
or 2) and `VolumeAssumption` (at least two table copies, volumes whose links
stay inside the data area):

* `TypeCorrect`: `TypeOK`, with `WritingACluster` (in `write_dir`, the cursor
  is a cluster). It is where cursors could leave the volume.
* `DeleteFrees`: `DeleteFreesItsChain`. The invariant `Freeing` says that the
  cells zeroed so far are a part of the chain, that every one of them leads, in
  the table as it was, to another or to the cursor, and that the rest is as it
  was. When the cursor is 0 the zeroed set is closed, so it holds the chain,
  which is the least closed set. On a cycle the cursor meets a cell it has
  zeroed, which leads nowhere. `bak` has lost the same cells, and the rest of it is
  as it was, also where it differed from the table (`ZeroInBoth`).
* `MirrorsDrift`: `MirrorsDriftOnlyOnDevice`, with `Refreshed` (during an
  umount the two tables are equal).
* `ReadOnlyShows`: `ReadOnlyShowsDevice`, with `WritersHaveWriteAccess`: only a
  device open for writing is in one of the writing commands.
* `UmountWritesAll`: `UmountPersists`, with `CopiesWritten` (the copies counted
  so far equal the table).

* `UndeleteCuts`: `UndeleteCutsOnlySharers`. An undelete makes one cell an end:
  a closed set of the old table that holds a start is closed in the new one, and
  a chain without the cell is the same in both.

`VolumeServiceProofs`: `VolumeImplementsService`, that every behaviour of `Volume` is
one of `VolumeService`, under two assumptions of the theorem:
`OneClusterDirectories` (on every volume, a subdirectory ends with its first
cluster) and `PathsNameEntries` (no path without names, for which `find` returns
an entry nobody has filled). The invariants are `WritersHaveWriteAccess`,
`DirectoriesStay` (memory and device agree on which clusters are subdirectories,
and in every table one ends with its first cluster, since freeing and claiming a
cluster both make it the last of its chain) and `KnowsItsEntry` (the entry a
command has in hand is in the directory it will mark). With `DeleteFreesItsChain` the marking step of a
delete is then the `Delete` of the service; loops, copies and kills stutter or
drop the draft.

`VolumeSoundProofs`: `MemorySound` (`MemoryStaysSound`) and `DeviceSound`
(`DeviceStaysSound`), for volumes that are sound to begin with (`IntactVolumes`:
entries, deleted ones included, share no cluster, and no live entry leads to a
free one), that have `OneClusterDirectories` and where `PathsNameEntries`. The first is
needed: where a deleted entry shares a cluster with a file, undelete makes a
crossed volume, which is run damaged. `SoundInv` says it of
memory and device in every state, and of deleted entries too, since undelete
brings them back. Until a command in progress takes effect, the table that
counts in memory is the one before it. Entries have disjoint chains in the table
in memory and in the one on the device
(`ApartInMemory`, `ApartOnDevice`), no chain of a live entry runs into a free
cell (`WholeInMemory`, `WholeOnDevice`, each with the exceptions of its property),
and both directories agree on everything but the first characters of names
(`ShapesAgree`). That last one carries the proof through a table written whose
directory is not, and through mounts of what is between the two: only marks
differ, and marks have no part in who shares with whom. What moves is the table,
where a chain in which a cell was cut or zeroed is a part of what it was.

`InspectProofs`: `TypeCorrect`, with the bytes left, which never wrap;
`DumpShowsTheFile` (`DumpIsTheFile`), `DirectoryIsInTheArray`
(`ArrayIsTheDirectory`) and `ChainIsShown` (`ChainOfTheNumber`), for every table
and every chain in it that ends. `RoomForLines` is about the bound of the model: as
many lines are remembered as there are clusters. `WalksTheChain` says that the
clusters shown so far are a walk from the first to the cursor and all differ,
from each other and from the cursor: a walk that came back would never leave
(`NoReturn`), and the chain has an end. `CountsBytes` and `FillsTheArray` tie the
bytes left and the room in the array to the number of lines. When the cursor is 0
the clusters shown are closed, so they are the chain.

`TablesProofs`, under `TablesAssumption` (a FAT16 table has no more than 65536
cells): `TablesTypeCorrect`, `TestFatReports` (`ReportsTheDevice`), `DumpFatWrites`
(`DumpHoldsTheTable`), `LinesAnswerOnce` (`EachLineAnswersOnce`) and `TestTells`
(`VerdictIsOfTheCluster`). The invariant has a part for each loop, what is true of
the cells or sectors gone through so far (`ReportedSoFar`, `WrittenSoFar`,
`ReadSoFar`), and `TablesDiffer`: the tables in memory differ where those on the
device do, but for the cells changed. `OneLine` says that while lines are plain
the buffer holds the last line or nothing.

`MountProofs` is about the two modules of that run.

* Of `Layout`, for volumes that are `Regular`: two tables or more, a FAT16 volume
  large enough for its tables and root directory, a FAT32 volume whose root
  directory has one cluster, inside the volume and inside 32 bits, and is not
  one of the subdirectories. A larger FAT32 root is read wrong to begin with,
  which is run layout_bigroot. `LayoutTypeCorrect`, `MountReads`
  (`MountReadsTheVolume`), `UmountWrites` (`UmountWritesTheVolume`),
  `FailuresStayInFront` (`FailureStaysInFront`) and `FarDirectoriesStayInData`
  (`FarStaysInData`). The invariant says that memory holds what the device
  should (`TableInMemory`, `RootInMemory`), where the loops over the root
  directory start (`LoopsStand`), and where the device is as it should be: always
  in front of the tables (`SameInFront`), behind the root directory unless a
  directory was too far (`SameBehind`), between the tables and the root unless
  a write has failed besides (`SameAround`), and during an umount up to where it
  has come (`Written`).
* Of `Shell`, for any devices, under `ShellAssumption`: `ShellTypeCorrect`,
  `MemoryIsOfOneDevice` (`AllOfOneDevice`), `OtherCommandsLoseNothing`
  (`ChangesReachTheDevice`) and `OnlyMountLeaks` (`OnlyMountLeavesOpen`). The
  invariant adds `BootIsWhole` (the extended boot sector of the type in memory is
  of the same device) and `ChangesAreWritable` (only a device open for writing
  has changes to lose), without which neither umount nor a refused delete could
  be shown to lose nothing. Every step that ends the process is shown to give one of
  the reasons the property names, or to have nothing to lose (`Causes`).

`ListingProofs` is about the two modules of run long_names.

* For all directories, well formed or not: `TypeCorrect`, `BuffersSuffice`
  (`WritesInsideBuffers`) and `ShownNamesAreRead` (`NamesAreRead`). The invariant
  is `NameOpen`: while a name is open, parts read and places left add up to the
  size of the buffers, and the places from `lfn_slot` on have been filled.
* For directories whose names are in order, whole or cut off from the front
  (`NamesInOrder`): `NamesStayWhole` (`NamesAreWhole`). The parser never looks at
  the number of a part nor at its checksum, so what is in its buffers is of one
  name (`PartsOfOneName`) only since the entry before the position is the last
  part it was told of (`LastRead`).
* Where besides each complete name is followed by the entry it belongs to
  (`NamesOwned`): `NamesAreProper` (`ProperUntilMarked`). A complete name is
  pending only right behind its last part (`PendsBehindIts`).
* `NamesAreFound` (`NamesFindTheirEntries`) when 0x05 cannot be typed
  (`MarkIsNotTyped`): a name that is given this character shows 0xE5 in its place,
  and is then not found by the one typed. `GivenIsFound` is the part of it that
  the undelete before must leave.

`SessionProofs`, for every tree: `WorkingDirectoryIsAPath` (`CwdIsAPath`),
`UpUndoesDown` (`UpIsParent`), `MarksGoWithClusters` (`MarksWhatItFrees`) and
`UndeleteFindsItsName` (`UndeleteLooksForTyped`). The invariant `SessionInv` is short;
the work is in what the operators on text do to each other. The names between
the slashes of a path with a name put behind are the names of the path and that
name; cutting behind the last slash undoes it (`ParentOf`); `find` of one name
more is a step from what `find` of the others gave (`FindBelow`); what a relative
path is completed with does not depend on its last name (`Completed`), so that
delete marks the entry whose clusters it frees. `WorkingDirectoryStays`
(`CwdNamesADirectory`) asks besides that the entries `.` and `..` say what they
should (`TreeIsProper`: on other trees `cd ..` and the path part ways at once).
`find` of a path that comes to an entry has come by a trail of entries (`Trail`),
one for each name as it stands, `.` and `..` among them (`WalkIsTrail`), and as long
as the trail keeps its names and nothing stands in front of it, `find` comes to the
same again (`TrailLeads`). `CwdInv` keeps the trail of the last cd: its entries were
passed, and whatever lost its name or has come to stand in front of one was
renamed since. Where the trail ends is what `Walking` says: beside it runs the
chain of directories the path has with its dots resolved, in which each `.` and `..`
leads to the directory it should, so that an entry of cluster 0 is met only where
that chain is empty, which is the root. An entry that is given the name `.` or
`..`, or loses it, is `Odd` and breaks the chain; the property makes an exception of
it. The recursive functions of `Session` are proved about by the
least number for which a statement fails (lemma `UpTo`), since the induction
theorems of the library cannot be instantiated.

The hypotheses that theorems add to the assumptions of a module are met by
the small instances: `GhostsAreAsAsked` (in `MCVolume`), `LinesAreRemembered`,
`ContentsAreAsAsked`, `KeysAreAsAsked`, `BootsAreAsAsked` and `TreeIsAsAsked` (in the
other `MC*` modules) have TLC evaluate them in the passing runs, which are
therefore instances of the theorems.

Every invariant and action property of the passing runs is a theorem. Only
model-checked are liveness (`CommandsEnd` and `FollowingEnds`), which is out of the
prover's reach, and what the runs that expect a violation say of single
volumes and directories.

## Not modelled

The letters of attributes, times and the conversion of the characters of long
names (get_attr, create_time, cnv_unicode), what `info`, `show` and messages say,
and the history of readline are wording. A verb of more than nine characters
writes past an array of the dispatcher; what follows depends on the build. What
a large FAT16 volume taken for FAT32 does after `layout_type` is not followed: the
fields of its boot sector then mean nothing. The tree of `Session` and the places
of `Layout` are not composed with `Volume`: each is checked against what it shares
with it (names, places), and the product would leave no room for the orders of
commands that matter.

## Plan

1. Done: `FatTable`, `Volume`, `LongNames`, `Session`, `Inspect`, `Layout`, their runs
   and first proofs.
2. Done: `VolumeService` and the refinement, with its proof; damaged volumes where
   undelete takes a cluster in use; failing writes and far directories;
   `parse_dir`; names that change under the working directory; `Tables`, `Shell`
   and `Names`; proofs about `Tables` and `Shell`.
3. Done: proofs of the soundness of memory and device, of the places of `Layout`, of
   dump, chain and directories in `Inspect`, of names in `LongNames` and `Names`, and
   of paths in `Session`.
4. Left, worth stating next: what `VolumeService` promises for volumes with
   larger subdirectories before `write_dir` spoils them, and the refinement of
   `Volume`'s umount by the places of `Layout`.
