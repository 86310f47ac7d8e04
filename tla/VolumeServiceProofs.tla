------------------------- MODULE VolumeServiceProofs -------------------------
(***************************************************************************)
(* Volume implements VolumeService, for every set of clusters, every kind  *)
(* of FAT, every number of table copies and every volume whose             *)
(* subdirectories have one cluster each.                                   *)
(***************************************************************************)
EXTENDS VolumeProofs, SequenceTheorems

-----------------------------------------------------------------------------
(* Subdirectories stay what they are, and stay one cluster long *)

\* Memory and the device agree on which clusters are subdirectories, and in
\* every table a subdirectory ends with its first cluster.
DirectoriesStay ==
  /\ fd # "none" => Subdirectories(root) = Subdirectories(rootRegion)
  /\ \A d \in Subdirectories(rootRegion) :
       /\ \A i \in 1..Copies : Link(fat[i][d]) = 0
       /\ fd # "none" => Link(table[d]) = 0

\* Marking entries does not change which of them are subdirectories.
LEMMA MarkKeepsSubdirectories ==
  ASSUME NEW r \in Root, NEW file, NEW char
  PROVE  Subdirectories(Mark(r, file, char)) = Subdirectories(r)
<1> DEFINE marked == Mark(r, file, char)
<1>1. ASSUME NEW s \in RootSlots
      PROVE  marked[s].kind = r[s].kind /\ marked[s].first = r[s].first
  <2>1. DOMAIN r = RootSlots /\ r[s] \in Entry
    BY DEF Root
  <2>2. marked[s] = IF r[s] = file THEN [r[s] EXCEPT !.char = char] ELSE r[s]
    BY <2>1 DEF Mark
  <2> QED
    BY <2>1, <2>2 DEF Entry
<1> HIDE DEF marked
<1>2. Subdirectories(marked) = Subdirectories(r)
  BY <1>1 DEF Subdirectories
<1> QED
  BY <1>2 DEF marked

\* Freeing a cluster and claiming one both make it the last of its chain.
LEMMA ChangeEnds ==
  ASSUME NEW t \in Table, NEW i, NEW v \in {0, EndMark}, NEW d \in Clusters,
         Link(t[d]) = 0
  PROVE  Link(change_cluster(t, i, v)[d]) = 0
<1>1. Link(Narrow(v)) = 0
  BY FatAssumption DEF Narrow, Link, Link16, Link32, Width16, End16, Width28,
     End32, EndMark
<1>2. change_cluster(t, i, v)[d] \in {t[d], Narrow(v)}
  BY DEF change_cluster, Table
<1> QED
  BY <1>1, <1>2

\* The subdirectories of a typed root directory are clusters.
LEMMA SubdirectoriesTyped ==
  ASSUME NEW r \in Root
  PROVE  Subdirectories(r) \subseteq Clusters
BY DEF Subdirectories, Root, Entry

\* The initial volume is as the constants say.
LEMMA DirectoriesStart ==
  ASSUME OneClusterDirectories, Init
  PROVE  DirectoriesStay
<1>1. PICK v \in Volumes :
        fat = [i \in 1..Copies |-> v.fat] /\ rootRegion = v.root
  BY DEF Init
<1> QED
  BY <1>1 DEF Init, DirectoriesStay, OneClusterDirectories

\* No step changes them.
LEMMA DirectoriesStayStep ==
  ASSUME TypeOK, DirectoriesStay, WritersHaveWriteAccess, [Next]_vars
  PROVE  DirectoriesStay'
<1> DEFINE subs == Subdirectories(rootRegion)
<1>1. subs \subseteq Clusters
  BY SubdirectoriesTyped DEF TypeOK
<1>2. ASSUME NEW i, NEW v \in {0, EndMark}, fd # "none",
             table' = change_cluster(table, i, v), fd' = fd,
             fat' = fat, rootRegion' = rootRegion,
             Subdirectories(root') = Subdirectories(root)
      PROVE  DirectoriesStay'
  <2>1. \A d \in subs : Link(table'[d]) = 0
    BY <1>1, <1>2, ChangeEnds DEF DirectoriesStay, TypeOK
  <2> QED
    BY <1>2, <2>1 DEF DirectoriesStay
<1>3. ASSUME NEW mode, Mount(mode) PROVE DirectoriesStay'
  <2>1. 1 \in 1..Copies
    BY VolumeAssumption
  <2> QED
    BY <1>3, <2>1 DEF Mount, init_fat, device, DirectoriesStay
<1>4. ASSUME NEW quit, CloseReadOnly(quit) PROVE DirectoriesStay'
  BY <1>4 DEF CloseReadOnly, device, DirectoriesStay
<1>5. ASSUME NEW quit, WriteFat(quit) PROVE DirectoriesStay'
  BY <1>5 DEF WriteFat, device, DirectoriesStay
<1>6. ASSUME NEW path, Delete(path) PROVE DirectoriesStay'
  BY <1>6 DEF Delete, DeleteEntry, memory, device, DirectoriesStay
<1>7. ASSUME NEW path, Undelete(path) PROVE DirectoriesStay'
  <2>1. PICK file, dir, char : UndeleteEntry(file, dir, char)
    BY <1>7 DEF Undelete
  <2>2. root' = root \/ root' = Mark(root, file, char)
    BY <2>1 DEF UndeleteEntry
  <2>3. Subdirectories(root') = Subdirectories(root)
    BY <2>2, MarkKeepsSubdirectories DEF TypeOK
  <2>4. fd # "none" /\ table' = change_cluster(table, file.first, EndMark)
        /\ fd' = fd /\ fat' = fat /\ rootRegion' = rootRegion
    BY <1>7, <2>1 DEF Undelete, TEST_W_FD, UndeleteEntry, device
  <2> QED
    BY <1>2, <2>3, <2>4
<1>8. CASE FreeCluster
  BY <1>2, <1>8 DEF FreeCluster, WritersHaveWriteAccess, device
<1>9. CASE DeleteMark
  <2>1. root' = root \/ root' = Mark(root, op.file, op.char)
    BY <1>9 DEF DeleteMark
  <2>2. Subdirectories(root') = Subdirectories(root)
    BY <2>1, MarkKeepsSubdirectories DEF TypeOK
  <2> QED
    BY <1>9, <2>2 DEF DeleteMark, device, DirectoriesStay
<1>10. CASE WriteDir
  BY <1>10 DEF WriteDir, memory, DirectoriesStay
<1>11. CASE WriteCopy
  <2>1. fd # "none"
    BY <1>11 DEF WriteCopy, WritersHaveWriteAccess
  <2>2. \A i \in 1..Copies : fat'[i] \in {fat[i], table}
    BY <1>11 DEF WriteCopy, TypeOK
  <2> QED
    BY <1>11, <2>1, <2>2 DEF WriteCopy, memory, DirectoriesStay
<1>12. CASE WriteRoot
  BY <1>12 DEF WriteRoot, WritersHaveWriteAccess, DirectoriesStay
<1>13. CASE Failure
  BY <1>13 DEF Failure, Kill, MountFails, Refused, DeleteParentless, Stop,
               device, DirectoriesStay
<1>14. CASE Start
  BY <1>14 DEF Start, memory, device, DirectoriesStay
<1>15. CASE UNCHANGED vars
  BY <1>15 DEF vars, memory, device, DirectoriesStay
<1> QED
  BY <1>3, <1>4, <1>5, <1>6, <1>7, <1>8, <1>9, <1>10, <1>11, <1>12, <1>13,
     <1>14, <1>15 DEF Next, Command, Umount, Quit, Progress

-----------------------------------------------------------------------------
(* What a command in progress knows *)

\* The entry a command is about to mark is still where find has found it; an
\* undelete has claimed the first cluster and nothing else.
KnowsItsEntry ==
  proc \in {"delete", "writedir"} =>
    /\ op.parent \in Service!Directories
    /\ op.file \in Service!FilesOf(op.parent)
    /\ proc = "delete" => op.char = E5
    /\ proc = "writedir" => op.parent # 0 /\ cluster = op.parent
    /\ op.char # E5 =>
         /\ op.char \in Letters
         /\ op.file.char = E5
         /\ table = change_cluster(op.before, op.file.first, EndMark)

\* The directories of the abstract specification, by the names of this one.
LEMMA DirectoriesAre ==
  ASSUME TypeOK
  PROVE  /\ Service!Directories = {0} \cup Subdirectories(root)
         /\ Service!FilesOf(0) = {root[s] : s \in RootSlots}
         /\ \A d \in Clusters :
              Service!FilesOf(d) = {data[d][s] : s \in DirSlots}
<1>1. Service!Directories = {0} \cup Subdirectories(root)
  BY DEF Service!Directories, Subdirectories
<1>2. DOMAIN root = RootSlots /\ \A d \in Clusters : DOMAIN data[d] = DirSlots
  BY DEF TypeOK, Root, Block
<1>3. Service!FilesOf(0) = {root[s] : s \in RootSlots}
  BY <1>2 DEF Service!FilesOf, Service!EntriesOf
<1>4. ASSUME NEW d \in Clusters
      PROVE  Service!FilesOf(d) = {data[d][s] : s \in DirSlots}
  <2>1. d # 0
    BY FatAssumption
  <2> QED
    BY <1>2, <2>1 DEF Service!FilesOf, Service!EntriesOf
<1> QED
  BY <1>1, <1>3, <1>4

\* The chain of a cluster that leads nowhere is that cluster.
LEMMA ChainOfOne ==
  ASSUME NEW t, NEW d \in Clusters, Link(t[d]) = 0
  PROVE  Chain(t, d) = {d}
<1>1. Closed(t, {d})
  BY DEF Closed, next_cluster
<1>2. Chain(t, d) \subseteq {d}
  BY <1>1, ChainLeast
<1> QED
  BY <1>2, ChainStart

\* find returns an entry of the directory it returns, and one that matches
\* the last token of the path.
LEMMA FindFinds ==
  ASSUME TypeOK, DirectoriesStay, fd # "none",
         NEW path, Len(path) \in {1, 2}, NEW hit \in find(path)
  PROVE  /\ hit[1] \in Service!Directories
         /\ At(hit[2]) \in Service!FilesOf(hit[1])
         /\ Matches(At(hit[2]), path[Len(path)])
<1>1. CASE Len(path) = 1
  <2>1. hit[1] = 0 /\ hit[2] \in search(0, path[1])
    BY <1>1 DEF find
  <2>2. hit[2] \in {0} \X RootSlots /\ Matches(At(hit[2]), path[1])
    BY <2>1 DEF search, Hits, Slots
  <2>3. At(hit[2]) = root[hit[2][2]] /\ hit[2][2] \in RootSlots
    BY <2>2 DEF At, EntryAt
  <2> QED
    BY <1>1, <2>1, <2>2, <2>3, DirectoriesAre
<1>2. CASE Len(path) = 2
  <2> DEFINE dirs  == {e \in search(0, path[1]) : At(e).kind = "dir"}
             inner == {At(d).first : d \in dirs} \ {0}
  <2>1. find(path) = UNION {{dir} \X search(dir, path[2]) : dir \in inner}
    BY <1>2 DEF find
  <2>2. PICK dir \in inner : hit \in {dir} \X search(dir, path[2])
    BY <2>1
  <2>3. dir \in Subdirectories(root)
    <3>1. PICK d \in dirs : dir = At(d).first /\ dir # 0
      BY <2>2
    <3>2. d \in {0} \X RootSlots /\ At(d).kind = "dir"
      BY <3>1 DEF search, Hits, Slots
    <3>3. At(d) = root[d[2]] /\ d[2] \in RootSlots
      BY <3>2 DEF At, EntryAt
    <3> QED
      BY <3>1, <3>2, <3>3 DEF Subdirectories
  <2>4. dir \in Clusters /\ dir # 0 /\ Link(table[dir]) = 0
    BY <2>3, SubdirectoriesTyped, FatAssumption DEF DirectoriesStay, TypeOK
  <2>5. hit[1] = dir /\ hit[2] \in {dir} \X DirSlots
        /\ Matches(At(hit[2]), path[2])
    BY <2>2, <2>4, ChainOfOne DEF search, Hits, Slots
  <2>6. At(hit[2]) = data[dir][hit[2][2]] /\ hit[2][2] \in DirSlots
    BY <2>4, <2>5 DEF At, EntryAt
  <2> QED
    BY <1>2, <2>3, <2>4, <2>5, <2>6, DirectoriesAre
<1> QED
  BY <1>1, <1>2

\* A path a user types has one token or two.
LEMMA PathLength ==
  ASSUME NEW path \in Paths, path # << >>
  PROVE  Len(path) \in {1, 2}
<1>1. path \in Seq(Token) /\ Len(path) <= 2
  BY VolumeAssumption
<1>2. Len(path) \in Nat /\ Len(path) # 0
  BY <1>1, EmptySeq, SMT
<1>3. \A n \in Nat : n # 0 /\ n <= 2 => n \in {1, 2}
  OBVIOUS
<1> QED
  BY <1>1, <1>2, <1>3

\* undelete looks for a deleted entry, and nothing else shows as one.
LEMMA RestoredIsDeleted ==
  ASSUME TypeOK, NEW path \in Paths, path # << >>,
         NEW e \in Entry, Matches(e, Restored(path)[Len(Restored(path))])
  PROVE  e.char = E5
<1>1. path \in Seq(Token) /\ Len(path) \in 1..2
  BY PathLength, VolumeAssumption
<1>2. Len(Restored(path)) = Len(path)
      /\ Restored(path)[Len(path)] = [path[Len(path)] EXCEPT !.char = "?"]
  BY <1>1 DEF Restored
<1>3. path[Len(path)] \in Token
  BY <1>1
<1>4. get_name(e).char = "?"
  BY <1>2, <1>3 DEF Matches, Token
<1> QED
  BY <1>4, VolumeAssumption DEF get_name, Entry, Chars, NUL

\* While nothing it speaks of changes, it goes on holding.
LEMMA KnowsOn ==
  ASSUME KnowsItsEntry, UNCHANGED <<op, root, data>>,
         proc' = "delete" => proc = "delete" /\ op.char = E5,
         proc' = "writedir" => /\ proc \in {"delete", "writedir"}
                               /\ op.parent # 0 /\ cluster' = op.parent
                               /\ op.char = E5
  PROVE  KnowsItsEntry'
BY DEF KnowsItsEntry, Service!Directories, Service!FilesOf, Service!EntriesOf

LEMMA KnowsStep ==
  ASSUME PathsNameEntries, TypeOK, DirectoriesStay, WritersHaveWriteAccess,
         KnowsItsEntry, [Next]_vars
  PROVE  KnowsItsEntry'
<1>1. ASSUME NEW path \in Paths, Delete(path) PROVE KnowsItsEntry'
  <2>1. path # << >> /\ fd # "none"
    BY <1>1 DEF PathsNameEntries, Delete, TEST_W_FD
  <2>2. PICK hit \in find(path) : DeleteEntry(At(hit[2]), hit[1])
    BY <1>1, <2>1 DEF Delete
  <2>3. hit[1] \in Service!Directories /\ At(hit[2]) \in Service!FilesOf(hit[1])
    BY <2>1, PathLength, FindFinds
  <2>4. /\ op'.parent = hit[1] /\ op'.file = At(hit[2]) /\ op'.char = E5
        /\ proc' = "delete" /\ root' = root /\ data' = data
    BY <2>2 DEF DeleteEntry, memory, device
  <2> QED
    BY <2>3, <2>4 DEF KnowsItsEntry, Service!Directories, Service!FilesOf,
                      Service!EntriesOf
<1>2. ASSUME NEW path \in Paths, Undelete(path) PROVE KnowsItsEntry'
  <2> DEFINE char == path[Len(path)].char
  <2>1. path # << >> /\ fd # "none" /\ char \in Letters /\ proc = "ready"
    BY <1>2 DEF Undelete, TEST_W_FD
  <2>2. PICK hit \in find(Restored(path)) :
          UndeleteEntry(At(hit[2]), hit[1], char)
    BY <1>2 DEF Undelete
  <2>3. Len(Restored(path)) \in {1, 2}
    BY <2>1, PathLength DEF Restored
  <2>4. /\ hit[1] \in Service!Directories
        /\ At(hit[2]) \in Service!FilesOf(hit[1])
        /\ Matches(At(hit[2]), Restored(path)[Len(Restored(path))])
    BY <2>1, <2>3, FindFinds
  <2>5. At(hit[2]).char = E5
    BY <2>1, <2>4, FindTyped, SlotTyped, RestoredIsDeleted
  <2>6. CASE hit[1] = 0
    BY <2>1, <2>2, <2>6 DEF UndeleteEntry, KnowsItsEntry
  <2>7. CASE hit[1] # 0
    <3>1. /\ op'.parent = hit[1] /\ op'.file = At(hit[2]) /\ op'.char = char
          /\ op'.before = table /\ cluster' = hit[1] /\ proc' = "writedir"
          /\ table' = change_cluster(table, At(hit[2]).first, EndMark)
          /\ root' = root /\ data' = data
      BY <2>2, <2>7 DEF UndeleteEntry, device
    <3>2. table' = change_cluster(op'.before, op'.file.first, EndMark)
      BY <3>1
    <3>3. /\ op'.parent \in Service!Directories'
          /\ op'.file \in Service!FilesOf(op.parent)'
      BY <2>4, <3>1 DEF Service!Directories, Service!FilesOf, Service!EntriesOf
    <3> QED
      BY <2>1, <2>5, <2>7, <3>1, <3>2, <3>3 DEF KnowsItsEntry
  <2> QED
    BY <2>6, <2>7
<1>3. CASE FreeCluster
  BY <1>3, KnowsOn DEF FreeCluster, KnowsItsEntry, device
<1>4. CASE DeleteMark
  <2>1. CASE op.parent = 0
    BY <1>4, <2>1 DEF DeleteMark, Return, KnowsItsEntry
  <2>2. CASE op.parent # 0
    BY <1>4, <2>2, KnowsOn DEF DeleteMark, KnowsItsEntry, device
  <2> QED
    BY <2>1, <2>2
<1>5. CASE WriteDir
  <2>1. next_cluster(table, cluster) = 0
    <3>1. op.parent \in Subdirectories(root) /\ cluster = op.parent
      BY <1>5, DirectoriesAre DEF WriteDir, KnowsItsEntry
    <3> QED
      BY <1>5, <3>1 DEF WriteDir, WritersHaveWriteAccess, DirectoriesStay, next_cluster
  <2> QED
    BY <1>5, <2>1 DEF WriteDir, Return, KnowsItsEntry
<1>6. ASSUME proc' \notin {"delete", "writedir"} PROVE KnowsItsEntry'
  BY <1>6 DEF KnowsItsEntry
<1>7. CASE (\E mode \in {"ro", "rw"} : Mount(mode)) \/ Umount \/ Quit
  BY <1>6, <1>7 DEF Mount, Umount, Quit, CloseReadOnly, WriteFat
<1>8. CASE WriteCopy \/ WriteRoot \/ Failure \/ Start
  BY <1>6, <1>8 DEF WriteCopy, WriteRoot, Failure, Kill, MountFails, Refused,
                    DeleteParentless, Stop, Start
<1>9. CASE UNCHANGED vars
  BY <1>9 DEF vars, memory, command, device, KnowsItsEntry,
     Service!Directories, Service!FilesOf, Service!EntriesOf
<1> QED
  BY <1>1, <1>2, <1>3, <1>4, <1>5, <1>7, <1>8, <1>9 DEF Next, Command, Progress

-----------------------------------------------------------------------------
(* Every step of the process is one of the service, or none *)

\* What the service sees of the process.  An umount is half done once it has
\* written a copy.
Effective == IF proc \in {"delete", "writedir"} THEN op.before ELSE table
Half      == proc = "writefat" /\ copy > 0
Saved     == [table |-> fat[1], root |-> rootRegion, blocks |-> data]
Hidden    == UNCHANGED <<fd, Effective, root, Saved, Half>>

\* The table operators are those of the one module both specifications use.
LEMMA SameTableOperators ==
  /\ \A t, c : Service!Chain(t, c) = Chain(t, c)
  /\ \A t, i : Service!change_cluster(t, i, Service!EndMark)
               = change_cluster(t, i, EndMark)
<1>1. \A v : Service!Narrow(v) = Narrow(v) /\ Service!Link(v) = Link(v)
  BY DEF Narrow, Link, Link16, Link32, Width16, End16, Width28, End32,
     Service!Narrow, Service!Link, Service!Link16, Service!Link32,
     Service!Width16, Service!End16, Service!Width28, Service!End32
<1>2. Service!EndMark = EndMark
  BY DEF EndMark, Service!EndMark
<1>3. \A t, S : Service!Closed(t, S) = Closed(t, S)
  BY <1>1 DEF Closed, next_cluster, Service!Closed, Service!next_cluster
<1>4. \A t, c : Service!Chain(t, c) = Chain(t, c)
  BY <1>3 DEF Chain, Service!Chain
<1> QED
  BY <1>1, <1>2, <1>4 DEF change_cluster, Service!change_cluster

\* The marking of entries is their renaming.
LEMMA MarkRenames ==
  ASSUME NEW block, NEW file, NEW char
  PROVE  Mark(block, file, char) = Service!Renamed(block, file, char)
BY DEF Mark, Service!Renamed

\* The entry of a command takes its new name as the table takes effect: the
\* service deletes the file, or undeletes it.
LEMMA RenamingIsAChange ==
  ASSUME KnowsItsEntry, DeleteFreesItsChain, fd = "rw",
         proc \in {"delete", "writedir"}, proc = "delete" => cluster = 0,
         proc' \notin {"delete", "writedir", "writefat"},
         fd' = fd, table' = table,
         Service!Rename(op.parent, op.file, op.char)
  PROVE  Service!Change
<1>1. op.parent \in Service!Directories
      /\ op.file \in Service!FilesOf(op.parent)
  BY DEF KnowsItsEntry
<1>2. CASE op.char = E5
  <2>1. table = [c \in Clusters |-> IF c \in Chain(op.before, op.file.first)
                                   THEN 0 ELSE op.before[c]]
    BY <1>2 DEF DeleteFreesItsChain, Freed
  <2>2. Service!Delete(op.parent, op.file)
    BY <1>2, <2>1, SameTableOperators DEF Service!Delete
  <2> QED
    BY <1>1, <2>2 DEF Service!Change
<1>3. CASE op.char # E5
  <2>1. /\ op.char \in Letters /\ op.file.char = E5
        /\ table = change_cluster(op.before, op.file.first, EndMark)
    BY <1>3 DEF KnowsItsEntry
  <2>2. Service!Undelete(op.parent, op.file, op.char)
    BY <2>1, SameTableOperators DEF Service!Undelete
  <2> QED
    BY <1>1, <2>1, <2>2 DEF Service!Change
<1> QED
  BY <1>2, <1>3

\* One step of the process is one of the service, or changes nothing it sees.
LEMMA StepKeepsPromise ==
  ASSUME PathsNameEntries, TypeOK, DirectoriesStay, WritersHaveWriteAccess,
         KnowsItsEntry, DeleteFreesItsChain, [Next]_vars
  PROVE  Service!Next \/ Hidden
<1>0. 1 \in 1..Copies
  BY VolumeAssumption
<1>1. ASSUME NEW mode \in {"ro", "rw"}, Mount(mode) PROVE Service!Next
  BY <1>1 DEF Mount, init_fat, device, Service!Open, Service!Next
<1>2. ASSUME NEW quit \in BOOLEAN, CloseReadOnly(quit) PROVE Service!Next
  BY <1>2 DEF CloseReadOnly, device, Service!Drop, Service!Next
<1>3. ASSUME NEW quit \in BOOLEAN, WriteFat(quit) PROVE Hidden
  BY <1>3 DEF WriteFat, device, Hidden, Effective, Half, Saved
<1>4. ASSUME NEW path \in Paths, Delete(path) PROVE Hidden
  BY <1>4 DEF Delete, DeleteEntry, memory, device, Hidden, Effective, Half, Saved
<1>5. ASSUME NEW path \in Paths, Undelete(path) PROVE Service!Next \/ Hidden
  <2> DEFINE char == path[Len(path)].char
  <2>1. path # << >> /\ fd = "rw" /\ char \in Letters /\ proc = "ready"
    BY <1>5 DEF Undelete, TEST_W_FD
  <2>2. PICK hit \in find(Restored(path)) :
          UndeleteEntry(At(hit[2]), hit[1], char)
    BY <1>5 DEF Undelete
  <2> DEFINE file == At(hit[2])
  <2>3. Len(Restored(path)) \in {1, 2}
    BY <2>1, PathLength DEF Restored
  <2>4. /\ hit[1] \in Service!Directories
        /\ file \in Service!FilesOf(hit[1])
        /\ Matches(file, Restored(path)[Len(Restored(path))])
    BY <2>1, <2>3, FindFinds
  <2>5. file.char = E5
    BY <2>1, <2>4, FindTyped, SlotTyped, RestoredIsDeleted
  <2>6. CASE hit[1] = 0
    <3>1. /\ table' = change_cluster(table, file.first, EndMark)
          /\ root' = Service!Renamed(root, file, char)
          /\ proc' = "ready" /\ fd' = fd /\ UNCHANGED device
      BY <2>1, <2>2, <2>6, MarkRenames DEF UndeleteEntry
    <3>2. Service!Undelete(hit[1], file, char)
      BY <2>1, <2>5, <2>6, <3>1, SameTableOperators
      DEF Service!Undelete, Service!Rename, device
    <3>3. Service!Change
      BY <2>1, <2>4, <3>1, <3>2 DEF Service!Change
    <3> QED
      BY <3>3 DEF Service!Next
  <2>7. CASE hit[1] # 0
    BY <2>1, <2>2, <2>7
    DEF UndeleteEntry, device, Hidden, Effective, Half, Saved
  <2> QED
    BY <2>6, <2>7
<1>6. CASE FreeCluster
  BY <1>6 DEF FreeCluster, device, Hidden, Effective, Half, Saved
<1>7. CASE DeleteMark
  <2>1. CASE op.parent = 0
    <3>1. /\ root' = Service!Renamed(root, op.file, op.char)
          /\ proc = "delete" /\ cluster = 0 /\ proc' = "ready"
          /\ fd' = fd /\ table' = table /\ UNCHANGED device
      BY <1>7, <2>1, MarkRenames DEF DeleteMark, Return
    <3>2. Service!Rename(op.parent, op.file, op.char)
      BY <2>1, <3>1 DEF Service!Rename, device
    <3>3. Service!Change
      BY <3>1, <3>2, RenamingIsAChange DEF WritersHaveWriteAccess
    <3> QED
      BY <3>3 DEF Service!Next
  <2>2. CASE op.parent # 0
    BY <1>7, <2>2 DEF DeleteMark, device, Hidden, Effective, Half, Saved
  <2> QED
    BY <2>1, <2>2
<1>8. CASE WriteDir
  <2>1. op.parent # 0 /\ cluster = op.parent /\ fd = "rw" /\ proc = "writedir"
    BY <1>8 DEF WriteDir, KnowsItsEntry, WritersHaveWriteAccess
  <2>2. op.parent \in Clusters /\ next_cluster(table, cluster) = 0
    <3>1. op.parent \in Subdirectories(root)
      BY <2>1, DirectoriesAre DEF KnowsItsEntry
    <3> QED
      BY <2>1, <3>1, SubdirectoriesTyped DEF TypeOK, DirectoriesStay, next_cluster
  <2>3. /\ data' = [data EXCEPT ![op.parent] =
                      Service!Renamed(data[op.parent], op.file, op.char)]
        /\ proc' = "ready" /\ fd' = fd /\ table' = table /\ root' = root
        /\ fat' = fat /\ rootRegion' = rootRegion
    BY <1>8, <2>1, <2>2, MarkRenames DEF WriteDir, Return, memory
  <2>4. Service!Rename(op.parent, op.file, op.char)
    BY <2>1, <2>3 DEF Service!Rename
  <2>5. Service!Change
    BY <2>1, <2>3, <2>4, RenamingIsAChange
  <2> QED
    BY <2>5 DEF Service!Next
<1>9. CASE WriteCopy
  <2>1. /\ proc = "writefat" /\ proc' = "writefat" /\ fd = "rw" /\ fd' = "rw"
        /\ copy \in Nat /\ copy' = copy + 1 /\ copy + 1 \in 1..Copies
        /\ table' = table /\ root' = root
        /\ rootRegion' = rootRegion /\ data' = data
        /\ fat' = [fat EXCEPT ![copy + 1] = table]
    BY <1>9, VolumeAssumption DEF WriteCopy, TypeOK, WritersHaveWriteAccess, memory
  <2>2. CASE copy = 0
    <3>1. fat'[1] = table
      BY <1>0, <2>1, <2>2 DEF TypeOK
    <3>2. Service!SaveTable
      BY <2>1, <2>2, <3>1 DEF Service!SaveTable
    <3> QED
      BY <3>2 DEF Service!Next
  <2>3. CASE copy # 0
    <3>1. fat'[1] = fat[1] /\ copy > 0 /\ copy' > 0
      BY <1>0, <2>1, <2>3 DEF TypeOK
    <3> QED
      BY <2>1, <3>1 DEF Hidden, Effective, Half, Saved
  <2> QED
    BY <2>2, <2>3
<1>10. CASE WriteRoot
  <2>1. copy > 0
    BY <1>10, VolumeAssumption DEF WriteRoot
  <2>2. Service!SaveRoot
    BY <1>10, <2>1 DEF WriteRoot, Service!SaveRoot
  <2> QED
    BY <2>2 DEF Service!Next
<1>11. CASE Failure
  BY <1>11 DEF Failure, Kill, MountFails, Refused, DeleteParentless, Stop,
               device, Service!Drop, Service!Next
<1>12. CASE Start
  BY <1>12 DEF Start, memory, command, device, Hidden, Effective, Half, Saved
<1>13. CASE UNCHANGED vars
  BY <1>13 DEF vars, memory, command, device, Hidden, Effective, Half, Saved
<1> QED
  BY <1>1, <1>2, <1>3, <1>4, <1>5, <1>6, <1>7, <1>8, <1>9, <1>10, <1>11, <1>12,
     <1>13 DEF Next, Command, Umount, Quit, Progress

\* The process implements the service: whatever it is stopped in the middle
\* of, the device shows a delete or an undelete that has happened or one that
\* has not, and an umount one of its two halves.
THEOREM VolumeImplementsService ==
  ASSUME OneClusterDirectories, PathsNameEntries
  PROVE  Spec => KeepsPromise
<1> DEFINE Inv == WritersHaveWriteAccess /\ DirectoriesStay /\ KnowsItsEntry
<1>1. Init => Inv
  BY DirectoriesStart DEF Init, WritersHaveWriteAccess, KnowsItsEntry
<1>2. TypeOK /\ Inv /\ [Next]_vars => Inv'
  <2> SUFFICES ASSUME TypeOK, Inv, [Next]_vars PROVE Inv'
    OBVIOUS
  <2>1. WritersHaveWriteAccess'
    BY WritersStay
  <2>2. DirectoriesStay'
    BY DirectoriesStayStep
  <2>3. KnowsItsEntry'
    BY KnowsStep
  <2> QED
    BY <2>1, <2>2, <2>3
<1>3. Init => Service!Init
  BY DEF Init, Service!Init
<1>4. TypeOK /\ DeleteFreesItsChain /\ Inv /\ [Next]_vars
      => [Service!Next]_(Service!vars)
  <2> SUFFICES ASSUME TypeOK, DeleteFreesItsChain, Inv, [Next]_vars
               PROVE  Service!Next \/ UNCHANGED Service!vars
    OBVIOUS
  <2>1. Service!Next \/ Hidden
    BY StepKeepsPromise
  <2> QED
    BY <2>1 DEF Hidden, Effective, Half, Saved, Service!vars
<1> QED
  BY <1>1, <1>2, <1>3, <1>4, TypeCorrect, DeleteFrees, PTL
  DEF Spec, KeepsPromise, Service!Spec
=============================================================================
