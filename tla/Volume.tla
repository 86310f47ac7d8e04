------------------------------- MODULE Volume -------------------------------
(***************************************************************************)
(* One TFAT process working on one FAT volume: what mount reads into       *)
(* memory, what delete and undelete change there and on the device, and    *)
(* what umount writes back.  TFAT has no journal and no recovery.  The     *)
(* allocation table and the root directory are changed in memory only and  *)
(* are written by umount, table copies first, root directory last; a       *)
(* subdirectory is written the moment a command changes it.  The process   *)
(* may stop between any two writes: killed, out of a failed command        *)
(* (udie and sdie call exit), or on a wild pointer.                        *)
(*                                                                         *)
(* Left out: the bytes of files, names beyond what search compares and     *)
(* delete overwrites (the first character and the rest), directories more  *)
(* than one level below the root, and the FAT32 root directory that spans  *)
(* several clusters.  A write of one table copy, of the root directory or  *)
(* of one directory cluster is atomic.                                     *)
(***************************************************************************)
EXTENDS FatTable, Sequences

CONSTANTS
  Copies,      \* fat_boot.table_count
  RootSlots,   \* entry indices of the root directory
  DirSlots,    \* entry indices of one directory cluster
  Letters,     \* first characters of names
  Tails,       \* what follows the first character of a name
  Stamps,      \* the bytes of an entry no other field stands for
  Paths,       \* the paths a user may type, at most two tokens long
  Volumes,     \* the devices: allocation table, root directory, data area
  HeapBlocks,  \* what a read past the end of a heap block may yield
  Garbage      \* what an uninitialised directory entry may hold

E5  == "E5"    \* name[0] of a deleted entry
NUL == "00"    \* name[0] of an entry that was never used
Chars == Letters \cup {E5, NUL}

Table == [Clusters -> Cell]
Entry == [char : Chars, tail : Tails, kind : {"file", "dir", "special"},
          first : Clusters \cup {0}, size : Nat, stamp : Stamps]
Unused == [char |-> NUL, tail |-> CHOOSE t \in Tails : TRUE, kind |-> "file",
           first |-> 0, size |-> 0, stamp |-> CHOOSE s \in Stamps : TRUE]
Root  == [RootSlots -> Entry]
Block == [DirSlots -> Entry]

\* A path token: '?' is how get_name shows the first character of a deleted
\* name, and how fix_deleted_char asks for one.
Token == [char : Letters \cup {"?"}, tail : Tails]

ASSUME VolumeAssumption ==
  /\ Copies \in Nat \ {0, 1}
  /\ RootSlots \subseteq Nat /\ DirSlots \subseteq Nat
  /\ Tails # {} /\ Stamps # {}
  /\ {E5, NUL, "?"} \cap Letters = {}
  /\ \A path \in Paths : path \in Seq(Token) /\ Len(path) <= 2
  /\ Volumes \subseteq [fat : Table, root : Root, data : [Clusters -> Block]]
  /\ HeapBlocks \subseteq Block
  /\ Garbage \subseteq Entry

VARIABLES
  \* the process
  proc,        \* what it is doing
  fd,          \* the open device: "none", "ro" or "rw"
  exiting,     \* quit asked for the umount in progress
  table, bak,  \* fat_table and fat_table_bak
  root,        \* root_dir
  op,          \* locals of the delete or undelete in progress, and the two
               \* tables it began with
  cluster,     \* the cursor of its loops
  copy,        \* table copies written by the umount in progress
  \* the device
  fat,         \* its table copies
  rootRegion,  \* its root directory
  data,        \* its data clusters, as directory blocks
  \* history: an undeleted entry is on the device and its table cell is
  \* not; the process stopped while that was so or in the middle of an
  \* umount
  revived, exposed

memory  == <<table, bak, root>>
device  == <<fat, rootRegion, data>>
command == <<op, cluster>>
history == <<revived, exposed>>
vars == <<proc, fd, exiting, memory, command, copy, device, history>>

NoOp == [file |-> Unused, parent |-> 0, char |-> NUL,
         before |-> [c \in Clusters |-> 0], mirror |-> [c \in Clusters |-> 0]]

TypeOK ==
  /\ proc \in {"ready", "delete", "writedir", "writefat", "down"}
  /\ fd \in {"none", "ro", "rw"}
  /\ exiting \in BOOLEAN
  /\ table \in Table /\ bak \in Table
  /\ root \in Root
  /\ op \in [file : Entry, parent : Clusters \cup {0}, char : Chars,
             before : Table, mirror : Table]
  /\ cluster \in Clusters \cup {0}
  /\ copy \in 0..Copies
  /\ fat \in [1..Copies -> Table]
  /\ rootRegion \in Root
  /\ data \in [Clusters -> Block]
  /\ revived \in BOOLEAN /\ exposed \in BOOLEAN

-----------------------------------------------------------------------------
(* Directories and paths *)

\* The slots of a directory in the order a scan meets them.  The root
\* directory is an array of its own (cluster 0 stands for it); parse_dir
\* reads any other one cluster after cluster.
Slots(dir) == IF dir = 0 THEN {0} \X RootSlots
                         ELSE Chain(table, dir) \X DirSlots
AllSlots == ({0} \X RootSlots) \cup (Clusters \X DirSlots)
EntryAt(r, l) == IF l[1] = 0 THEN r[l[2]] ELSE data[l[1]][l[2]]
At(l) == EntryAt(root, l)
Precedes(l, m) == \/ l[1] = m[1] /\ l[2] < m[2]
                  \/ l[1] # m[1] /\ m[1] \in Chain(table, l[1])

get_name(e) == [char |-> IF e.char = E5 THEN "?" ELSE e.char, tail |-> e.tail]
Matches(e, token) ==
  /\ e.char # NUL
  /\ e.kind = "dir" \/ (e.kind = "file" /\ e.size > 0)
  /\ get_name(e) = token

Hits(dir, token) == {l \in Slots(dir) : Matches(At(l), token)}

\* The slot search finds token in, in the directory dir: the first that
\* matches; none when there is none.
search(dir, token) ==
  LET hits == Hits(dir, token)
  IN  {l \in hits : \A m \in hits \ {l} : Precedes(l, m)}

\* The entry find returns for path: its directory, by first cluster, and its
\* slot.  find gives up on a token that is not a directory with clusters of
\* its own.
find(path) ==
  IF Len(path) = 1 THEN {0} \X search(0, path[1])
  ELSE LET inner == {At(d).first : d \in {e \in search(0, path[1]) :
                                            At(e).kind = "dir"}} \ {0}
       IN  UNION {{dir} \X search(dir, path[2]) : dir \in inner}

Parentless(path) == Len(path) = 2 /\ Hits(0, path[1]) = {}

\* The same loop, comparing names instead of whole entries.
MarkByName(block, file, char) ==
  [s \in DOMAIN block |->
     IF get_name(block[s]) = get_name(file)
     THEN [block[s] EXCEPT !.char = char] ELSE block[s]]

\* The loop that overwrites name[0] of every entry equal to the one found.
Mark(block, file, char) ==
  [s \in DOMAIN block |->
     IF block[s] = file THEN [block[s] EXCEPT !.char = char] ELSE block[s]]
-----------------------------------------------------------------------------
(* Starting and stopping *)

\* The guards of the commands, which exit when they do not hold.
TEST_FD   == fd # "none"
TEST_W_FD == fd = "rw"

Blank(t, b, r) == /\ t = [c \in Clusters |-> 0]
                  /\ b = [c \in Clusters |-> 0]
                  /\ r = [s \in RootSlots |-> Unused]

Return == /\ proc' = "ready"
          /\ op' = NoOp
          /\ cluster' = 0

\* The process is gone and its memory with it.
Stop ==
  /\ proc' = "down" /\ fd' = "none" /\ exiting' = FALSE /\ copy' = 0
  /\ op' = NoOp /\ cluster' = 0
  /\ Blank(table', bak', root')
  /\ exposed' = (exposed \/ revived \/ (proc = "writefat" /\ copy > 0))
  /\ revived' = FALSE
  /\ UNCHANGED device

Init ==
  /\ proc = "ready" /\ fd = "none" /\ exiting = FALSE /\ copy = 0
  /\ op = NoOp /\ cluster = 0
  /\ Blank(table, bak, root)
  /\ \E v \in Volumes :
       /\ fat = [i \in 1..Copies |-> v.fat]
       /\ rootRegion = v.root
       /\ data = v.data
  /\ revived = FALSE /\ exposed = FALSE

Start ==
  /\ proc = "down"
  /\ proc' = "ready"
  /\ UNCHANGED <<fd, exiting, memory, command, copy, device, history>>

\* SIGINT, SIGKILL or a power failure, at the prompt or in a command.
Kill == proc # "down" /\ Stop

\* open fails (sdie) or the volume has media type 0 (udie).
MountFails == proc = "ready" /\ Stop

\* Any command but mount, cd, show, umount and quit without a device, and
\* delete or undelete on a device opened read-only: udie.
Refused == proc = "ready" /\ ~(TEST_FD /\ TEST_W_FD) /\ Stop

\* delete follows the entry of a parent directory that find did not find.
DeleteParentless ==
  /\ proc = "ready" /\ TEST_W_FD
  /\ \E path \in Paths : Parentless(path)
  /\ Stop
-----------------------------------------------------------------------------
(* mount and umount *)

\* What mount reads: the first two copies of the table, and the root
\* directory, which lies behind the last copy.
init_fat == table' = fat[1] /\ bak' = fat[2] /\ root' = rootRegion

\* A mount that keeps the root directory it has.
MountKeepsRoot(mode) ==
  /\ proc = "ready"
  /\ fd' = mode
  /\ table' = fat[1] /\ bak' = fat[2]
  /\ root' = IF fd = "none" THEN rootRegion ELSE root
  /\ exposed' = (exposed \/ revived)
  /\ revived' = FALSE
  /\ UNCHANGED <<proc, exiting, command, copy, device>>

\* Neither mount nor wmount looks whether a device is open already.
Mount(mode) ==
  /\ proc = "ready"
  /\ fd' = mode
  /\ init_fat
  /\ exposed' = (exposed \/ revived)
  /\ revived' = FALSE
  /\ UNCHANGED <<proc, exiting, command, copy, device>>

\* umount of a device opened read-only closes it; of a writable one, it
\* enters write_fat, whose first statement refreshes the backup table.
CloseReadOnly(quit) ==
  /\ proc = "ready" /\ fd # "rw"
  /\ proc' = IF quit THEN "down" ELSE "ready"
  /\ fd' = "none"
  /\ Blank(table', bak', root')
  /\ UNCHANGED <<exiting, command, copy, device, history>>

WriteFat(quit) ==
  /\ proc = "ready" /\ fd = "rw"
  /\ proc' = "writefat"
  /\ exiting' = quit
  /\ copy' = 0
  /\ bak' = table
  /\ UNCHANGED <<fd, table, root, command, device, history>>

Umount == CloseReadOnly(FALSE) \/ WriteFat(FALSE)
Quit   == CloseReadOnly(TRUE)  \/ WriteFat(TRUE)

\* Slips: one copy too many; every copy written in the place of the first.
WriteCopyTooMany ==
  /\ proc = "writefat" /\ copy <= Copies
  /\ copy' = copy + 1
  /\ fat' = [fat EXCEPT ![copy + 1] = table]
  /\ UNCHANGED <<proc, fd, exiting, memory, command, rootRegion, data, history>>

WriteFirstCopyAgain ==
  /\ proc = "writefat" /\ copy < Copies
  /\ copy' = copy + 1
  /\ fat' = [fat EXCEPT ![1] = table]
  /\ UNCHANGED <<proc, fd, exiting, memory, command, rootRegion, data, history>>

WriteCopy ==
  /\ proc = "writefat" /\ copy < Copies
  /\ copy' = copy + 1
  /\ fat' = [fat EXCEPT ![copy + 1] = table]
  /\ UNCHANGED <<proc, fd, exiting, memory, command, rootRegion, data, history>>

WriteRoot ==
  /\ proc = "writefat" /\ copy = Copies
  /\ rootRegion' = root
  /\ proc' = IF exiting THEN "down" ELSE "ready"
  /\ fd' = "none" /\ exiting' = FALSE /\ copy' = 0
  /\ Blank(table', bak', root')
  /\ revived' = FALSE
  /\ UNCHANGED <<command, fat, data, exposed>>
-----------------------------------------------------------------------------
(* delete and undelete *)

\* delete up to its loop over the chain.  A path that is not found changes
\* nothing; see DeleteParentless for the one that is not so lucky.
DeleteEntry(file, dir) ==
  /\ op' = [file |-> file, parent |-> dir, char |-> E5,
            before |-> table, mirror |-> bak]
  /\ cluster' = file.first
  /\ proc' = "delete"
  /\ UNCHANGED <<fd, exiting, memory, copy, device, history>>

\* With the path "/", here << >>, find returns the entry it has just
\* allocated and never filled.
Delete(path) ==
  /\ proc = "ready" /\ TEST_W_FD
  /\ \/ /\ path # << >>
        /\ \E hit \in find(path) : DeleteEntry(At(hit[2]), hit[1])
     \/ path = << >> /\ \E e \in Garbage : DeleteEntry(e, 0)

\* Slips the loop might have: it loses track once the cell is zero; it
\* forgets the backup table; it leaves the zeroing for later.
FreeThenFollow ==
  /\ proc = "delete" /\ cluster # 0
  /\ table' = change_cluster(table, cluster, 0)
  /\ bak' = change_cluster(bak, cluster, 0)
  /\ cluster' = next_cluster(table', cluster)
  /\ UNCHANGED <<proc, fd, exiting, root, op, copy, device, history>>

FreeInFirstTable ==
  /\ proc = "delete" /\ cluster # 0
  /\ cluster' = next_cluster(table, cluster)
  /\ table' = change_cluster(table, cluster, 0)
  /\ UNCHANGED <<proc, fd, exiting, bak, root, op, copy, device, history>>

FollowOnly ==
  /\ proc = "delete" /\ cluster # 0
  /\ cluster' = next_cluster(table, cluster)
  /\ UNCHANGED <<proc, fd, exiting, memory, op, copy, device, history>>

FreeCluster ==
  /\ proc = "delete" /\ cluster # 0
  /\ cluster' = next_cluster(table, cluster)
  /\ table' = change_cluster(table, cluster, 0)
  /\ bak' = change_cluster(bak, cluster, 0)
  /\ UNCHANGED <<proc, fd, exiting, root, op, copy, device, history>>

\* A slip: the entries of a subdirectory are marked and never written.
MarkInMemoryOnly ==
  /\ proc = "delete" /\ cluster = 0
  /\ root' = IF op.parent = 0 THEN Mark(root, op.file, op.char) ELSE root
  /\ Return
  /\ UNCHANGED <<fd, exiting, table, bak, copy, device, history>>

\* The entry of a file in the root directory is marked in memory; any other
\* directory is marked and handed to write_dir.
DeleteMark ==
  /\ proc = "delete" /\ cluster = 0
  /\ IF op.parent = 0
     THEN /\ root' = Mark(root, op.file, op.char)
          /\ Return
     ELSE /\ proc' = "writedir"
          /\ cluster' = op.parent
          /\ UNCHANGED <<root, op>>
  /\ UNCHANGED <<fd, exiting, table, bak, copy, device, history>>

\* undelete looks for the name with '?' in place of its first character,
\* and puts the character back in the entry it finds.
Restored(path) == [path EXCEPT ![Len(path)].char = "?"]

\* A slip: the rest of the file is guessed to follow its first cluster.
UndeleteGuessesNext(file, dir, char) ==
  /\ table' = change_cluster(table, file.first, file.first + 1)
  /\ bak' = change_cluster(bak, file.first, file.first + 1)
  /\ IF dir = 0
     THEN /\ root' = Mark(root, file, char)
          /\ UNCHANGED <<proc, command>>
     ELSE /\ op' = [file |-> file, parent |-> dir, char |-> char,
                    before |-> table, mirror |-> bak]
          /\ proc' = "writedir"
          /\ cluster' = dir
          /\ UNCHANGED root
  /\ UNCHANGED <<fd, exiting, copy, device, history>>

UndeleteEntry(file, dir, char) ==
  /\ table' = change_cluster(table, file.first, EndMark)
  /\ bak' = change_cluster(bak, file.first, EndMark)
  /\ IF dir = 0
     THEN /\ root' = Mark(root, file, char)
          /\ UNCHANGED <<proc, command>>
     ELSE /\ op' = [file |-> file, parent |-> dir, char |-> char,
                    before |-> table, mirror |-> bak]
          /\ proc' = "writedir"
          /\ cluster' = dir
          /\ UNCHANGED root
  /\ UNCHANGED <<fd, exiting, copy, device, history>>

Undelete(path) ==
  /\ proc = "ready" /\ TEST_W_FD
  /\ path # << >> /\ path[Len(path)].char \in Letters
  /\ \E hit \in find(Restored(path)) :
       UndeleteEntry(At(hit[2]), hit[1], path[Len(path)].char)

\* One turn of write_dir's loop.  Its offset into the entries is counted in
\* bytes and used as a number of entries, so every cluster after the first
\* is written from beyond the array: with what the heap holds there, or not
\* at all when write fails with EFAULT.
WriteDir ==
  /\ proc = "writedir"
  /\ IF cluster = op.parent
     THEN data' = [data EXCEPT ![cluster] = Mark(@, op.file, op.char)]
     ELSE \/ \E b \in HeapBlocks : data' = [data EXCEPT ![cluster] = b]
          \/ UNCHANGED data
  /\ revived' = (revived \/ op.char # E5)
  /\ IF next_cluster(table, cluster) = 0
     THEN Return
     ELSE cluster' = next_cluster(table, cluster) /\ UNCHANGED <<proc, op>>
  /\ UNCHANGED <<fd, exiting, memory, copy, fat, rootRegion, exposed>>
-----------------------------------------------------------------------------
Command ==
  \/ \E mode \in {"ro", "rw"} : Mount(mode)
  \/ Umount \/ Quit
  \/ \E path \in Paths : Delete(path) \/ Undelete(path)

\* What runs by itself once a command has started.
Progress == FreeCluster \/ DeleteMark \/ WriteDir \/ WriteCopy \/ WriteRoot

Failure == Kill \/ MountFails \/ Refused \/ DeleteParentless

Next == Command \/ Progress \/ Failure \/ Start

Spec == Init /\ [][Next]_vars

\* A command runs to its end unless the process is stopped; nothing obliges
\* the user to type another one.
FairSpec == Spec /\ WF_vars(Progress)
-----------------------------------------------------------------------------
(* What is asked of the constants where a theorem needs it *)

\* The clusters of the subdirectories of a root directory.
Subdirectories(r) ==
  {r[s].first : s \in {q \in RootSlots : r[q].kind = "dir"}} \ {0}

\* What the slots hold, given the root directory and the data area; those of
\* the root directory and its subdirectories, deleted ones too, with an entry
\* that has clusters, deleted or not.
Contents(r, d) ==
  [l \in AllSlots |-> IF l[1] = 0 THEN r[l[2]] ELSE d[l[1]][l[2]]]
Used(e) == e.char # NUL /\ e.kind # "special" /\ e.first # 0
UsedSlots(e) ==
  {l \in AllSlots :
     /\ Used(e[l])
     /\ l[1] = 0 \/ \E s \in RootSlots : /\ e[<<0, s>>].kind = "dir"
                                         /\ e[<<0, s>>].first = l[1]}

\* No two of these entries have a cluster in common, and the chains of those
\* that are not deleted end in an end mark.
Apart(t, e) ==
  \A l, m \in UsedSlots(e) :
    l # m => Chain(t, e[l].first) \cap Chain(t, e[m].first) = {}
Whole(t, e) ==
  \A l \in UsedSlots(e) :
    e[l].char # E5 => \A c \in Chain(t, e[l].first) : t[c] # 0

\* The volumes are such, their subdirectories have one cluster, and no path is
\* without a name, for which find returns an entry nobody has filled.
IntactVolumes ==
  \A v \in Volumes : /\ Apart(v.fat, Contents(v.root, v.data))
                     /\ Whole(v.fat, Contents(v.root, v.data))
OneClusterDirectories ==
  \A v \in Volumes : \A d \in Subdirectories(v.root) : Link(v.fat[d]) = 0
PathsNameEntries == << >> \notin Paths
-----------------------------------------------------------------------------
(* Properties *)

\* What is left of table t when the chain is freed that starts at first in the
\* table before.
Freed(before, first, t) ==
  [c \in Clusters |-> IF c \in Chain(before, first) THEN 0 ELSE t[c]]

\* When the loop of delete ends, the cells it has zeroed are those of the
\* chain of the entry, all of them and no other, in fat_table and in
\* fat_table_bak.  It holds for a chain with a cycle or shared with another
\* file, and when the two tables differed before.
DeleteFreesItsChain ==
  (proc \in {"delete", "writedir"} /\ op.char = E5 /\ (proc = "delete" => cluster = 0))
  => /\ table = Freed(op.before, op.file.first, op.before)
     /\ bak = Freed(op.before, op.file.first, op.mirror)

\* The two tables in memory, which test_fat compares, differ only where the
\* first two copies on the device differ: no command makes them drift apart,
\* whatever umount was cut short before.
MirrorsDriftOnlyOnDevice ==
  fd # "none" =>
    \A c \in Clusters : table[c] # bak[c] => fat[1][c] # fat[2][c]

\* While the device is open read-only, memory shows what is on the device:
\* no earlier command left a change that can never be written.
ReadOnlyShowsDevice ==
  fd = "ro" => table = fat[1] /\ bak = fat[2] /\ root = rootRegion

\* An umount that returns has made every table copy on the device and the
\* root directory equal to what was in memory when it began.
UmountPersists ==
  [][(fd = "rw" /\ fd' = "none" /\ proc' = "ready")
       => (\A i \in 1..Copies : fat'[i] = table) /\ rootRegion' = root]_vars

\* undelete does not look whether the cluster it claims belongs to a file.  It
\* gives no file a cluster it did not have, and takes clusters away only from
\* files whose chain has the one it claims.
UndeleteCutsOnlySharers ==
  [][\A path \in Paths : Undelete(path) =>
       \A c \in Clusters :
         /\ Chain(table', c) \subseteq Chain(table, c)
         /\ Chain(table', c) # Chain(table, c) =>
              \E hit \in find(Restored(path)) :
                At(hit[2]).first \in Chain(table, c)]_vars

\* The live entries one can reach from a root directory r through table t,
\* by slot, and the clusters they start at.
Live(e) == e.char \notin {E5, NUL} /\ e.kind # "special" /\ e.first # 0
DirClusters(t, r) ==
  UNION {Chain(t, r[s].first) :
           s \in {q \in RootSlots : Live(r[q]) /\ r[q].kind = "dir"}}
LiveSlots(t, r) ==
  {l \in ({0} \X RootSlots) \cup (DirClusters(t, r) \X DirSlots) :
     Live(EntryAt(r, l))}

\* Every chain a live entry starts ends in an end mark, never in a free
\* cell, and no two of them share a cluster.
Sound(t, r) ==
  LET chain == [l \in LiveSlots(t, r) |-> Chain(t, EntryAt(r, l).first)]
  IN  \A l \in DOMAIN chain :
        /\ \A c \in chain[l] : t[c] # 0
        /\ \A m \in DOMAIN chain \ {l} : chain[l] \cap chain[m] = {}

\* Deleting and undeleting in any order keeps the volume in memory sound
\* between commands, through umounts, second mounts and stops of the
\* process, unless one of them came in the middle of an umount or after an
\* undelete in a subdirectory that no umount had followed.
MemoryStaysSound ==
  (fd # "none" /\ proc = "ready" /\ ~exposed) => Sound(table, root)

\* The volume on the device, as the next mount would read it, is sound but
\* for the same two windows, while they are open and after a stop in them.
DeviceStaysSound ==
  (~exposed /\ ~revived /\ (proc = "writefat" => copy = 0))
  => Sound(fat[1], rootRegion)

\* What VolumeService promises.  A delete or an undelete takes effect with
\* the write that marks its entry: until then the table that counts is the
\* one before it.
Service == INSTANCE VolumeService WITH
  Deleted <- E5,
  mode    <- fd,
  table   <- IF proc \in {"delete", "writedir"} THEN op.before ELSE table,
  saved   <- [table |-> fat[1], root |-> rootRegion, blocks |-> data],
  half    <- proc = "writefat" /\ copy > 0

\* The process, with its loops, its cursors and its stops between any two
\* writes, does nothing that the service does not: a command that is cut
\* short has not happened, and of an umount only its two halves show.  It
\* holds for volumes whose subdirectories have one cluster.
KeepsPromise == Service!Spec

\* Every command comes to an end, the loop of delete on a cyclic chain too.
CommandsEnd == (proc \notin {"ready", "down"}) ~> (proc \in {"ready", "down"})

\* fs.h, on write_dir: "Write entries at first cluster of dir".
WritesFirstClusterOnly ==
  [][\A c \in Clusters : data'[c] # data[c] => c = op.parent]_vars
=============================================================================
