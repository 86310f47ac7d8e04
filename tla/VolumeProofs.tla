---------------------------- MODULE VolumeProofs ----------------------------
(***************************************************************************)
(* Proofs about Volume, for every set of clusters, every kind of FAT,      *)
(* every number of table copies and every volume, damaged or not.          *)
(***************************************************************************)
EXTENDS Volume, TLAPS

-----------------------------------------------------------------------------
(* Lemmas about the allocation table *)

\* Zeroing a cell or giving it the value undelete writes keeps the table one
\* of cells whose links stay inside the data area.
LEMMA ChangeTyped ==
  ASSUME NEW t \in Table, NEW i, NEW v \in {0, EndMark}
  PROVE  change_cluster(t, i, v) \in Table
<1>1. Narrow(v) \in Cell
  BY FatAssumption DEF Narrow, Cell, Link, Link16, Link32, Width16, End16,
     Width28, End32, EndMark
<1> QED
  BY <1>1 DEF change_cluster, Table

\* The loops that follow a chain stay on clusters until they read 0.
LEMMA NextTyped ==
  ASSUME NEW t \in Table, NEW c \in Clusters
  PROVE  next_cluster(t, c) \in Clusters \cup {0}
BY DEF Table, Cell, next_cluster

\* A free cell leads nowhere.
LEMMA FreeLeadsNowhere == Link(0) = 0
BY FatAssumption DEF Link, Link16, Link32, Width28, End16, End32

\* A chain starts where it is said to start.
LEMMA ChainStart ==
  ASSUME NEW t, NEW c \in Clusters
  PROVE  c \in Chain(t, c)
BY FatAssumption DEF Chain

\* The cluster after one of a chain is of the chain.
LEMMA ChainNext ==
  ASSUME NEW t, NEW c, NEW x \in Chain(t, c),
         next_cluster(t, x) \in Clusters
  PROVE  next_cluster(t, x) \in Chain(t, c)
BY FatAssumption DEF Chain, Closed

\* A chain is no larger than any set that holds its start and is closed.
LEMMA ChainLeast ==
  ASSUME NEW t, NEW c, NEW S \in SUBSET Clusters,
         c = 0 \/ c \in S, Closed(t, S)
  PROVE  Chain(t, c) \subseteq S
BY DEF Chain

-----------------------------------------------------------------------------
(* Types *)

\* An entry that was never used is an entry.
LEMMA UnusedTyped == Unused \in Entry
BY VolumeAssumption DEF Unused, Entry, Chars

\* The memory of a process that has mounted nothing is typed.
LEMMA BlankTyped ==
  ASSUME NEW t, NEW b, NEW r, Blank(t, b, r)
  PROVE  t \in Table /\ b \in Table /\ r \in Root
<1>1. 0 \in Cell
  BY FreeLeadsNowhere DEF Cell
<1> QED
  BY <1>1, UnusedTyped DEF Blank, Table, Root

\* So are the locals of no command.
LEMMA NoOpTyped ==
  NoOp \in [file : Entry, parent : Clusters \cup {0}, char : Chars,
            before : Table, mirror : Table]
<1>1. 0 \in Cell
  BY FreeLeadsNowhere DEF Cell
<1> QED
  BY <1>1, UnusedTyped DEF NoOp, Table, Chars

\* Marking entries leaves a directory a directory.
LEMMA MarkTyped ==
  ASSUME NEW D, NEW block \in [D -> Entry], NEW file, NEW char \in Chars
  PROVE  Mark(block, file, char) \in [D -> Entry]
<1>1. ASSUME NEW s \in D
      PROVE  [block[s] EXCEPT !.char = char] \in Entry
  BY DEF Entry
<1> QED
  BY <1>1 DEF Mark

\* A slot of a directory holds an entry.
LEMMA SlotTyped ==
  ASSUME TypeOK, NEW l \in AllSlots
  PROVE  At(l) \in Entry
<1>1. CASE l \in {0} \X RootSlots
  <2>1. l[1] = 0 /\ l[2] \in RootSlots
    BY <1>1
  <2>2. root[l[2]] \in Entry
    BY <2>1 DEF TypeOK, Root
  <2> QED
    BY <2>1, <2>2 DEF At, EntryAt
<1>2. CASE l \in Clusters \X DirSlots
  <2>1. l[1] \in Clusters /\ l[2] \in DirSlots /\ l[1] # 0
    BY <1>2, FatAssumption
  <2>2. data[l[1]][l[2]] \in Entry
    BY <2>1 DEF TypeOK, Block
  <2> QED
    BY <2>1, <2>2 DEF At, EntryAt
<1> QED
  BY <1>1, <1>2 DEF AllSlots

\* find returns a directory of the volume and a slot of it.
LEMMA FindTyped ==
  ASSUME TypeOK, NEW path, NEW hit \in find(path)
  PROVE  hit[1] \in Clusters \cup {0} /\ hit[2] \in AllSlots
<1>1. ASSUME NEW dir, NEW token
      PROVE  search(dir, token) \subseteq AllSlots
  BY DEF search, Hits, Slots, AllSlots, Chain
<1>2. CASE Len(path) = 1
  BY <1>1, <1>2 DEF find
<1>3. CASE Len(path) # 1
  <2> DEFINE dirs  == {e \in search(0, path[1]) : At(e).kind = "dir"}
             inner == {At(d).first : d \in dirs} \ {0}
  <2>1. inner \subseteq Clusters
    BY <1>1, SlotTyped DEF Entry
  <2>2. find(path) = UNION {{dir} \X search(dir, path[2]) : dir \in inner}
    BY <1>3 DEF find
  <2>3. PICK dir \in inner : hit \in {dir} \X search(dir, path[2])
    BY <2>2
  <2> QED
    BY <1>1, <2>1, <2>3
<1> QED
  BY <1>2, <1>3

\* What an entry found in a directory is made of.
LEMMA EntryFields ==
  ASSUME NEW e \in Entry
  PROVE  e.first \in Clusters \cup {0} /\ e.char \in Chars
BY DEF Entry

\* write_dir is never at a cluster number 0, which no table cell describes:
\* parse_dir has found the directory to have clusters.
WritingACluster == proc = "writedir" => cluster # 0

\* A stop of the process, whatever it came from, leaves every variable in
\* its type.
LEMMA StopTyped ==
  ASSUME TypeOK, Stop
  PROVE  TypeOK' /\ WritingACluster'
<1>1. table' \in Table /\ bak' \in Table /\ root' \in Root
  BY BlankTyped DEF Stop
<1>2. copy' \in 0..Copies
  BY VolumeAssumption DEF Stop
<1> QED
  BY <1>1, <1>2, NoOpTyped DEF TypeOK, WritingACluster, Stop, device

\* Every variable stays in its type.
THEOREM TypeCorrect == Spec => []TypeOK
<1>1. Init => TypeOK /\ WritingACluster
  <2> SUFFICES ASSUME Init PROVE TypeOK /\ WritingACluster
    OBVIOUS
  <2>1. table \in Table /\ bak \in Table /\ root \in Root
    BY BlankTyped DEF Init
  <2>2. copy \in 0..Copies
    BY VolumeAssumption DEF Init
  <2>3. fat \in [1..Copies -> Table] /\ rootRegion \in Root
        /\ data \in [Clusters -> Block]
    BY VolumeAssumption DEF Init
  <2> QED
    BY <2>1, <2>2, <2>3, NoOpTyped DEF Init, TypeOK, WritingACluster
<1>2. TypeOK /\ WritingACluster /\ [Next]_vars => (TypeOK /\ WritingACluster)'
  <2> SUFFICES ASSUME TypeOK, WritingACluster, [Next]_vars
               PROVE  TypeOK' /\ WritingACluster'
    OBVIOUS
  <2>1. ASSUME NEW mode \in {"ro", "rw"}, Mount(mode)
        PROVE  TypeOK' /\ WritingACluster'
    <3>1. fat[1] \in Table /\ fat[2] \in Table
      BY VolumeAssumption DEF TypeOK
    <3> QED
      BY <2>1, <3>1 DEF TypeOK, WritingACluster, Mount, init_fat, command, device
  <2>2. ASSUME NEW quit \in BOOLEAN, CloseReadOnly(quit)
        PROVE  TypeOK' /\ WritingACluster'
    <3>1. table' \in Table /\ bak' \in Table /\ root' \in Root
      BY <2>2, BlankTyped DEF CloseReadOnly
    <3> QED
      BY <2>2, <3>1 DEF TypeOK, WritingACluster, CloseReadOnly, command, device, history
  <2>3. ASSUME NEW quit \in BOOLEAN, WriteFat(quit)
        PROVE  TypeOK' /\ WritingACluster'
    BY <2>3, VolumeAssumption DEF TypeOK, WritingACluster, WriteFat, command, device, history
  <2>4. ASSUME NEW path \in Paths, Delete(path)
        PROVE  TypeOK' /\ WritingACluster'
    <3>1. PICK file \in Entry, dir \in Clusters \cup {0} :
            DeleteEntry(file, dir)
      BY <2>4, FindTyped, SlotTyped, VolumeAssumption DEF Delete
    <3> QED
      BY <3>1, EntryFields
      DEF TypeOK, WritingACluster, DeleteEntry, Chars, memory, device, history
  <2>5. ASSUME NEW path \in Paths, Undelete(path)
        PROVE  TypeOK' /\ WritingACluster'
    <3>1. PICK file \in Entry, dir \in Clusters \cup {0}, char \in Chars :
            UndeleteEntry(file, dir, char)
      BY <2>5, FindTyped, SlotTyped DEF Undelete, Chars
    <3>2. table' \in Table /\ bak' \in Table
      BY <3>1, ChangeTyped DEF UndeleteEntry, TypeOK
    <3>3. root' \in Root
      BY <3>1, MarkTyped DEF UndeleteEntry, TypeOK, Root
    <3> QED
      BY <3>1, <3>2, <3>3
      DEF TypeOK, WritingACluster, UndeleteEntry, Chars, command, device, history
  <2>6. CASE FreeCluster
    <3>1. cluster \in Clusters
      BY <2>6 DEF FreeCluster, TypeOK
    <3>2. cluster' \in Clusters \cup {0}
      BY <2>6, <3>1, NextTyped DEF FreeCluster, TypeOK
    <3>3. table' \in Table /\ bak' \in Table
      BY <2>6, ChangeTyped DEF FreeCluster, TypeOK
    <3> QED
      BY <2>6, <3>2, <3>3 DEF TypeOK, WritingACluster, FreeCluster, device, history
  <2>7. CASE DeleteMark
    <3>1. root' \in Root
      BY <2>7, MarkTyped DEF DeleteMark, TypeOK, Root
    <3>2. /\ op' \in [file : Entry, parent : Clusters \cup {0}, char : Chars,
                      before : Table, mirror : Table]
          /\ cluster' \in Clusters \cup {0}
          /\ proc' \in {"ready", "writedir"}
          /\ proc' = "writedir" => cluster' # 0
      BY <2>7, NoOpTyped DEF DeleteMark, TypeOK, Return
    <3> QED
      BY <2>7, <3>1, <3>2 DEF TypeOK, WritingACluster, DeleteMark, device, history
  <2>8. CASE WriteDir
    <3>1. data' \in [Clusters -> Block]
      <4>1. CASE cluster = op.parent
        <5>1. data' = [data EXCEPT ![cluster] =
                         Mark(data[cluster], op.file, op.char)]
          BY <2>8, <4>1 DEF WriteDir
        <5>2. ASSUME cluster \in Clusters
              PROVE  Mark(data[cluster], op.file, op.char) \in Block
          BY <5>2, MarkTyped DEF TypeOK, WritingACluster, Block
        <5> QED
          BY <5>1, <5>2 DEF TypeOK
      <4>2. CASE cluster # op.parent
        BY <2>8, <4>2, VolumeAssumption DEF WriteDir, TypeOK
      <4> QED
        BY <4>1, <4>2
    <3>2. /\ op' \in [file : Entry, parent : Clusters \cup {0}, char : Chars,
                      before : Table, mirror : Table]
          /\ proc' \in {"ready", "writedir"}
          /\ proc' = "writedir" => cluster' # 0
          /\ cluster' \in Clusters \cup {0}
      <4>1. CASE next_cluster(table, cluster) = 0
        BY <2>8, <4>1, NoOpTyped DEF WriteDir, TypeOK, Return
      <4>2. CASE next_cluster(table, cluster) # 0
        <5>1. cluster' = next_cluster(table, cluster) /\ cluster \in Clusters
          BY <2>8, <4>2 DEF WriteDir, TypeOK, WritingACluster
        <5> QED
          BY <2>8, <4>2, <5>1, NextTyped DEF WriteDir, TypeOK
      <4> QED
        BY <4>1, <4>2
    <3>3. revived' \in BOOLEAN
      BY <2>8 DEF WriteDir, TypeOK
    <3> QED
      BY <2>8, <3>1, <3>2, <3>3 DEF TypeOK, WritingACluster, WriteDir, memory
  <2>9. CASE WriteCopy
    BY <2>9, VolumeAssumption
    DEF TypeOK, WritingACluster, WriteCopy, memory, command, history
  <2>10. CASE WriteRoot
    <3>1. table' \in Table /\ bak' \in Table /\ root' \in Root
      BY <2>10, BlankTyped DEF WriteRoot
    <3>2. copy' \in 0..Copies
      BY <2>10, VolumeAssumption DEF WriteRoot
    <3>3. proc' \in {"ready", "down"}
      BY <2>10 DEF WriteRoot
    <3>4. rootRegion' \in Root
      BY <2>10 DEF WriteRoot, TypeOK
    <3> QED
      BY <2>10, <3>1, <3>2, <3>3, <3>4
      DEF TypeOK, WritingACluster, WriteRoot, command
  <2>11. CASE Failure
    BY <2>11, StopTyped
    DEF Failure, Kill, MountFails, Refused, DeleteParentless
  <2>12. CASE Start
    BY <2>12 DEF TypeOK, WritingACluster, Start, memory, command, device, history
  <2>13. CASE UNCHANGED vars
    BY <2>13 DEF TypeOK, WritingACluster, vars, memory, device, command, history
  <2> QED
    BY <2>1, <2>2, <2>3, <2>4, <2>5, <2>6, <2>7, <2>8, <2>9, <2>10, <2>11,
       <2>12, <2>13 DEF Next, Command, Umount, Quit, Progress
<1> QED
  BY <1>1, <1>2, PTL DEF Spec
-----------------------------------------------------------------------------
(* delete frees the chain of the file and nothing else *)

\* What the loop of delete maintains.  DeleteFreesItsChain speaks of the end
\* of the loop only; here, the cells it has changed are zero and on the
\* chain, its cursor is on the chain, and following the chain from its start
\* or from a zeroed cell leads to the end, to the cursor or to a cell zeroed
\* in both tables.  That last part is what a cycle or a chain shared with
\* another file cannot break.
ZeroInBoth(t, b, c) == t[c] = 0 /\ b[c] = 0

FreeingAt(t, b, before, mirror, first, cursor) ==
  /\ \A c \in Clusters :
       \/ t[c] = before[c] /\ b[c] = mirror[c]
       \/ ZeroInBoth(t, b, c) /\ c \in Chain(before, first)
  /\ cursor = 0 \/ cursor \in Chain(before, first)
  /\ first = 0 \/ first = cursor \/ ZeroInBoth(t, b, first)
  /\ \A c \in Clusters : t[c] = 0 =>
       LET next == next_cluster(before, c)
       IN  next = 0 \/ next = cursor \/ ZeroInBoth(t, b, next)

Freeing == (proc = "delete" /\ op.char = E5) =>
             FreeingAt(table, bak, op.before, op.mirror, op.file.first, cluster)

\* The state of delete before its loop satisfies the invariant of the loop.
LEMMA FreeingStarts ==
  ASSUME TypeOK, NEW file \in Entry, NEW dir, DeleteEntry(file, dir)
  PROVE  Freeing'
<1>1. /\ op' = [file |-> file, parent |-> dir, char |-> E5,
                before |-> table, mirror |-> bak]
      /\ cluster' = file.first /\ table' = table /\ bak' = bak
  BY DEF DeleteEntry, memory
<1>2. cluster' = 0 \/ cluster' \in Chain(table, file.first)
  BY <1>1, EntryFields, ChainStart
<1>3. \A c \in Clusters : table[c] = 0 => next_cluster(table, c) = 0
  BY FreeLeadsNowhere DEF next_cluster
<1>4. FreeingAt(table, bak, table, bak, file.first, file.first)
  BY <1>1, <1>2, <1>3 DEF FreeingAt
<1>5. FreeingAt(table', bak', op'.before, op'.mirror, op'.file.first, cluster')
  BY <1>1, <1>4
<1> QED
  BY <1>5 DEF Freeing

\* One turn of the loop maintains it.
LEMMA FreeingContinues ==
  ASSUME TypeOK, Freeing, FreeCluster, op.char = E5
  PROVE  Freeing'
<1> DEFINE before == op.before
           mirror == op.mirror
           first  == op.file.first
           chain  == Chain(before, first)
<1>1. /\ proc = "delete" /\ cluster \in Clusters /\ op' = op
      /\ cluster' = next_cluster(table, cluster)
      /\ table' = [table EXCEPT ![cluster] = 0]
      /\ bak' = [bak EXCEPT ![cluster] = 0]
      /\ table \in Table /\ bak \in Table
  BY DEF FreeCluster, TypeOK, change_cluster, Narrow, Width16
<1>2. /\ ZeroInBoth(table', bak', cluster)
      /\ \A c \in Clusters : c # cluster => /\ table'[c] = table[c]
                                            /\ bak'[c] = bak[c]
      /\ \A c \in Clusters : table[c] = 0 => table'[c] = 0
      /\ \A c \in Clusters : ZeroInBoth(table, bak, c) => ZeroInBoth(table', bak', c)
  BY <1>1 DEF Table, ZeroInBoth
<1>3. /\ \A c \in Clusters : \/ table[c] = before[c] /\ bak[c] = mirror[c]
                             \/ ZeroInBoth(table, bak, c) /\ c \in chain
      /\ cluster \in chain
      /\ first = 0 \/ first = cluster \/ ZeroInBoth(table, bak, first)
      /\ \A c \in Clusters : table[c] = 0 =>
           \/ next_cluster(before, c) \in {0, cluster}
           \/ ZeroInBoth(table, bak, next_cluster(before, c))
  BY <1>1, FatAssumption DEF Freeing, FreeingAt
<1>4. before \in Table /\ first \in Clusters \cup {0}
  BY EntryFields DEF TypeOK
<1>5. \/ table[cluster] = before[cluster]
         /\ cluster' = next_cluster(before, cluster)
      \/ table[cluster] = 0 /\ cluster' = 0
  BY <1>1, <1>3, FreeLeadsNowhere DEF next_cluster, ZeroInBoth
<1>6. \A c \in Clusters : \/ table'[c] = before[c] /\ bak'[c] = mirror[c]
                          \/ ZeroInBoth(table', bak', c) /\ c \in chain
  BY <1>2, <1>3
<1>7. cluster' = 0 \/ cluster' \in chain
  BY <1>1, <1>3, <1>4, <1>5, NextTyped, ChainNext
<1>8. first = 0 \/ first = cluster' \/ ZeroInBoth(table', bak', first)
  BY <1>2, <1>3, <1>4
<1>9. ASSUME NEW c \in Clusters, table'[c] = 0
      PROVE  \/ next_cluster(before, c) \in {0, cluster'}
             \/ ZeroInBoth(table', bak', next_cluster(before, c))
  <2>1. next_cluster(before, c) \in Clusters \cup {0}
    BY <1>4, NextTyped
  <2>2. CASE table[c] = 0
    BY <1>2, <1>3, <2>1, <2>2
  <2>3. CASE table[c] # 0
    BY <1>2, <1>5, <1>9, <2>3
  <2> QED
    BY <2>2, <2>3
<1>10. FreeingAt(table', bak', before, mirror, first, cluster')
  BY <1>6, <1>7, <1>8, <1>9 DEF FreeingAt
<1>11. op'.before = before /\ op'.mirror = mirror /\ op'.file.first = first
  BY <1>1
<1> QED
  BY <1>10, <1>11 DEF Freeing

\* When the cursor is 0, the cells zeroed in both tables that are on the chain
\* hold its start and are closed, so they are the chain.
LEMMA FreeingEnds ==
  ASSUME NEW t \in Table, NEW b \in Table, NEW before \in Table,
         NEW mirror \in Table, NEW first \in Clusters \cup {0},
         FreeingAt(t, b, before, mirror, first, 0)
  PROVE  t = Freed(before, first, before) /\ b = Freed(before, first, mirror)
<1> DEFINE zeroed == {c \in Clusters : ZeroInBoth(t, b, c)}
<1>1. Closed(before, zeroed)
  BY NextTyped DEF Closed, FreeingAt, ZeroInBoth
<1>2. first = 0 \/ first \in zeroed
  BY DEF FreeingAt
<1>3. Chain(before, first) \subseteq zeroed
  BY <1>1, <1>2, ChainLeast
<1>4. \A c \in Clusters :
        /\ t[c] = IF c \in Chain(before, first) THEN 0 ELSE before[c]
        /\ b[c] = IF c \in Chain(before, first) THEN 0 ELSE mirror[c]
  BY <1>3 DEF FreeingAt, ZeroInBoth
<1> QED
  BY <1>4 DEF Table, Freed

\* When the loop of delete has ended, the cells it has zeroed are those of
\* the chain of the entry, all of them and no other, in both tables.
THEOREM DeleteFrees == Spec => []DeleteFreesItsChain
<1> DEFINE Inv == Freeing /\ DeleteFreesItsChain
<1>1. Init => Inv
  BY DEF Init, Freeing, DeleteFreesItsChain
<1>2. TypeOK /\ TypeOK' /\ Inv /\ [Next]_vars => Inv'
  <2> SUFFICES ASSUME TypeOK, TypeOK', Freeing, DeleteFreesItsChain,
                      [Next]_vars
               PROVE  Freeing' /\ DeleteFreesItsChain'
    OBVIOUS
  <2>0. ASSUME proc' = "delete", op'.char = E5, cluster' = 0, Freeing'
        PROVE  DeleteFreesItsChain'
    <3>1. /\ table' \in Table /\ bak' \in Table
          /\ op'.before \in Table /\ op'.mirror \in Table
          /\ op'.file.first \in Clusters \cup {0}
      BY EntryFields DEF TypeOK
    <3>2. FreeingAt(table', bak', op'.before, op'.mirror, op'.file.first, 0)
      BY <2>0 DEF Freeing
    <3>3. /\ table' = Freed(op'.before, op'.file.first, op'.before)
          /\ bak' = Freed(op'.before, op'.file.first, op'.mirror)
      BY <3>1, <3>2, FreeingEnds
    <3> QED
      BY <3>3 DEF DeleteFreesItsChain
  <2>1. ASSUME NEW path \in Paths, Delete(path)
        PROVE  Freeing' /\ DeleteFreesItsChain'
    <3>1. PICK file \in Entry, dir \in Clusters \cup {0} :
            DeleteEntry(file, dir)
      BY <2>1, FindTyped, SlotTyped, VolumeAssumption DEF Delete
    <3>2. Freeing'
      BY <3>1, FreeingStarts
    <3>3. proc' = "delete" /\ op'.char = E5
      BY <3>1 DEF DeleteEntry
    <3> QED
      BY <2>0, <3>2, <3>3 DEF DeleteFreesItsChain
  <2>2. CASE FreeCluster
    <3>1. proc' = "delete" /\ op' = op
      BY <2>2 DEF FreeCluster
    <3>2. CASE op.char = E5
      <4>1. Freeing'
        BY <2>2, <3>2, FreeingContinues
      <4> QED
        BY <2>0, <3>1, <3>2, <4>1 DEF DeleteFreesItsChain
    <3>3. CASE op.char # E5
      BY <3>1, <3>3 DEF Freeing, DeleteFreesItsChain
    <3> QED
      BY <3>2, <3>3
  <2>3. CASE DeleteMark
    BY <2>3 DEF DeleteMark, Return, Freeing, DeleteFreesItsChain
  <2>4. CASE WriteDir
    BY <2>4 DEF WriteDir, Return, Freeing, DeleteFreesItsChain, memory
  <2>5. ASSUME NEW path \in Paths, Undelete(path)
        PROVE  Freeing' /\ DeleteFreesItsChain'
    <3> DEFINE char == path[Len(path)].char
    <3>1. PICK hit \in find(Restored(path)) :
            UndeleteEntry(At(hit[2]), hit[1], char)
      BY <2>5 DEF Undelete
    <3>2. char # E5 /\ proc = "ready"
      BY <2>5, VolumeAssumption DEF Undelete
    <3>3. proc' = "ready" \/ (proc' = "writedir" /\ op'.char = char)
      BY <3>1, <3>2 DEF UndeleteEntry
    <3> QED
      BY <3>2, <3>3 DEF Freeing, DeleteFreesItsChain
  <2>6. ASSUME proc' \in {"ready", "down", "writefat"}
        PROVE  Freeing' /\ DeleteFreesItsChain'
    BY <2>6 DEF Freeing, DeleteFreesItsChain
  <2>7. CASE UNCHANGED vars
    BY <2>7 DEF vars, memory, command, Freeing, DeleteFreesItsChain
  <2>8. CASE (\E mode \in {"ro", "rw"} : Mount(mode)) \/ Umount \/ Quit
    BY <2>6, <2>8 DEF Mount, init_fat, Umount, Quit, CloseReadOnly, WriteFat
  <2>9. CASE WriteCopy \/ WriteRoot \/ Failure \/ Start
    BY <2>6, <2>9 DEF WriteCopy, WriteRoot, Failure, Kill, MountFails,
                      Refused, DeleteParentless, Stop, Start
  <2> QED
    BY <2>1, <2>2, <2>3, <2>4, <2>5, <2>7, <2>8, <2>9
    DEF Next, Command, Progress
<1>3. Inv => DeleteFreesItsChain
  OBVIOUS
<1> QED
  BY <1>1, <1>2, <1>3, TypeCorrect, PTL DEF Spec
-----------------------------------------------------------------------------
(* The two tables in memory, and memory and the device *)

\* umount refreshes the backup table before it writes the first copy.
Refreshed == proc = "writefat" => bak = table

\* Only umount writes table copies, and it has refreshed the backup table:
\* the tables in memory differ only where the device's copies do.
THEOREM MirrorsDrift == Spec => []MirrorsDriftOnlyOnDevice
<1> DEFINE Inv == Refreshed /\ MirrorsDriftOnlyOnDevice
<1>1. Init => Inv
  BY DEF Init, Blank, Refreshed, MirrorsDriftOnlyOnDevice
<1>2. TypeOK /\ Inv /\ [Next]_vars => Inv'
  <2> SUFFICES ASSUME TypeOK, Refreshed, MirrorsDriftOnlyOnDevice,
                      [Next]_vars
               PROVE  Refreshed' /\ MirrorsDriftOnlyOnDevice'
    OBVIOUS
  <2> USE DEF Refreshed, MirrorsDriftOnlyOnDevice
  <2>1. ASSUME NEW mode, Mount(mode)
        PROVE  Refreshed' /\ MirrorsDriftOnlyOnDevice'
    BY <2>1 DEF Mount, init_fat, device
  <2>2. ASSUME NEW quit, CloseReadOnly(quit)
        PROVE  Refreshed' /\ MirrorsDriftOnlyOnDevice'
    BY <2>2 DEF CloseReadOnly
  <2>3. ASSUME NEW quit, WriteFat(quit)
        PROVE  Refreshed' /\ MirrorsDriftOnlyOnDevice'
    BY <2>3 DEF WriteFat
  <2>4. ASSUME NEW path \in Paths, Delete(path)
        PROVE  Refreshed' /\ MirrorsDriftOnlyOnDevice'
    BY <2>4 DEF Delete, DeleteEntry, memory, device
  <2>5. ASSUME NEW file, NEW dir, NEW char, proc = "ready",
               UndeleteEntry(file, dir, char)
        PROVE  Refreshed' /\ MirrorsDriftOnlyOnDevice'
    <3>1. /\ proc' # "writefat" /\ fd' = fd /\ fat' = fat
          /\ table' = [table EXCEPT ![file.first] = Narrow(EndMark)]
          /\ bak' = [bak EXCEPT ![file.first] = Narrow(EndMark)]
      BY <2>5 DEF UndeleteEntry, change_cluster, device
    <3>2. \A c \in Clusters : table'[c] # bak'[c] => table[c] # bak[c]
      BY <3>1 DEF TypeOK, Table
    <3> QED
      BY <3>1, <3>2
  <2>6. CASE FreeCluster
    <3>1. /\ proc' # "writefat" /\ fd' = fd /\ fat' = fat
          /\ table' = [table EXCEPT ![cluster] = Narrow(0)]
          /\ bak' = [bak EXCEPT ![cluster] = Narrow(0)]
      BY <2>6 DEF FreeCluster, change_cluster, device
    <3>2. \A c \in Clusters : table'[c] # bak'[c] => table[c] # bak[c]
      BY <3>1 DEF TypeOK, Table
    <3> QED
      BY <3>1, <3>2
  <2>7. CASE DeleteMark
    BY <2>7 DEF DeleteMark, Return, device
  <2>8. CASE WriteDir
    BY <2>8 DEF WriteDir, Return, memory
  <2>9. CASE WriteCopy
    BY <2>9 DEF WriteCopy, memory
  <2>10. CASE WriteRoot
    BY <2>10 DEF WriteRoot
  <2>11. CASE Failure
    BY <2>11 DEF Failure, Kill, MountFails, Refused, DeleteParentless, Stop
  <2>12. CASE Start
    BY <2>12 DEF Start, memory, device
  <2>13. CASE UNCHANGED vars
    BY <2>13 DEF vars, memory, device
  <2> QED
    BY <2>1, <2>2, <2>3, <2>4, <2>5, <2>6, <2>7, <2>8, <2>9, <2>10, <2>11,
       <2>12, <2>13 DEF Next, Command, Umount, Quit, Progress, Undelete
<1>3. Inv => MirrorsDriftOnlyOnDevice
  OBVIOUS
<1> QED
  BY <1>1, <1>2, <1>3, TypeCorrect, PTL DEF Spec

\* A command that changes memory or the device runs on a device open for
\* writing only.
WritersHaveWriteAccess == proc \in {"delete", "writedir", "writefat"} => fd = "rw"

\* No step breaks it.
LEMMA WritersStay ==
  ASSUME WritersHaveWriteAccess, [Next]_vars
  PROVE  WritersHaveWriteAccess'
BY DEF WritersHaveWriteAccess, Next, vars, memory, command, device,
   Command, Mount, init_fat, Umount, Quit, CloseReadOnly, WriteFat,
   Delete, DeleteEntry, Undelete, UndeleteEntry, TEST_W_FD,
   Progress, FreeCluster, DeleteMark, WriteDir, WriteCopy, WriteRoot, Return,
   Failure, Kill, MountFails, Refused, DeleteParentless, Stop, Start

\* While the device is open read-only, memory shows what is on it.
THEOREM ReadOnlyShows == Spec => []ReadOnlyShowsDevice
<1> DEFINE Inv == WritersHaveWriteAccess /\ ReadOnlyShowsDevice
<1>1. Init => Inv
  BY DEF Init, WritersHaveWriteAccess, ReadOnlyShowsDevice
<1>2. Inv /\ [Next]_vars => Inv'
  <2> SUFFICES ASSUME WritersHaveWriteAccess, ReadOnlyShowsDevice, [Next]_vars
               PROVE  WritersHaveWriteAccess' /\ ReadOnlyShowsDevice'
    OBVIOUS
  <2> USE DEF WritersHaveWriteAccess, ReadOnlyShowsDevice
  <2>1. CASE Command
    <3>1. ASSUME NEW path, Undelete(path)
          PROVE  WritersHaveWriteAccess' /\ ReadOnlyShowsDevice'
      BY <3>1 DEF Undelete, UndeleteEntry, TEST_W_FD
    <3>2. ASSUME NEW path, Delete(path)
          PROVE  WritersHaveWriteAccess' /\ ReadOnlyShowsDevice'
      BY <3>2 DEF Delete, DeleteEntry, TEST_W_FD
    <3>3. ASSUME NEW mode, Mount(mode)
          PROVE  WritersHaveWriteAccess' /\ ReadOnlyShowsDevice'
      BY <3>3 DEF Mount, init_fat, device
    <3> QED
      BY <2>1, <3>1, <3>2, <3>3
      DEF Command, Umount, Quit, CloseReadOnly, WriteFat
  <2>2. CASE Progress
    BY <2>2 DEF Progress, FreeCluster, DeleteMark, WriteDir, WriteCopy,
                WriteRoot, Return
  <2>3. CASE Failure
    BY <2>3 DEF Failure, Kill, MountFails, Refused, DeleteParentless, Stop
  <2>4. CASE Start
    BY <2>4 DEF Start, memory, device
  <2>5. CASE UNCHANGED vars
    BY <2>5 DEF vars, memory, device
  <2> QED
    BY <2>1, <2>2, <2>3, <2>4, <2>5 DEF Next
<1>3. Inv => ReadOnlyShowsDevice
  OBVIOUS
<1> QED
  BY <1>1, <1>2, <1>3, PTL DEF Spec

-----------------------------------------------------------------------------
(* What umount leaves on the device *)

\* The copies umount has written equal the table in memory.
CopiesWritten == proc = "writefat" => \A i \in 1..copy : fat[i] = table

\* No step breaks it.
LEMMA CopiesStay ==
  ASSUME TypeOK, CopiesWritten, [Next]_vars
  PROVE  CopiesWritten'
<1>1. ASSUME NEW quit, WriteFat(quit) PROVE CopiesWritten'
  BY <1>1 DEF WriteFat, CopiesWritten
<1>2. CASE WriteCopy
  <2>1. /\ copy' = copy + 1 /\ table' = table
        /\ fat' = [fat EXCEPT ![copy + 1] = table]
        /\ copy \in 0..Copies /\ copy + 1 \in 1..Copies
        /\ \A i \in 1..copy : fat[i] = table
    BY <1>2, VolumeAssumption DEF WriteCopy, CopiesWritten, TypeOK, memory
  <2>2. ASSUME NEW i \in 1..copy' PROVE fat'[i] = table'
    BY <2>1, VolumeAssumption DEF TypeOK
  <2> QED
    BY <2>2 DEF CopiesWritten
<1>3. CASE UNCHANGED vars
  BY <1>3 DEF vars, memory, device, CopiesWritten
<1>4. ASSUME proc' # "writefat" PROVE CopiesWritten'
  BY <1>4 DEF CopiesWritten
<1>5. CASE WriteRoot \/ FreeCluster \/ DeleteMark \/ WriteDir
  BY <1>4, <1>5 DEF WriteRoot, FreeCluster, DeleteMark, WriteDir, Return
<1>6. CASE Failure \/ Start
  BY <1>4, <1>6 DEF Failure, Kill, MountFails, Refused, DeleteParentless,
                    Stop, Start
<1>7. ASSUME NEW path, Delete(path) \/ Undelete(path) PROVE CopiesWritten'
  BY <1>4, <1>7 DEF Delete, DeleteEntry, Undelete, UndeleteEntry
<1>8. ASSUME NEW quit \in BOOLEAN, CloseReadOnly(quit) PROVE CopiesWritten'
  BY <1>4, <1>8 DEF CloseReadOnly
<1>9. ASSUME NEW mode, Mount(mode) PROVE CopiesWritten'
  BY <1>4, <1>9 DEF Mount, init_fat
<1> QED
  BY <1>1, <1>2, <1>3, <1>5, <1>6, <1>7, <1>8, <1>9
  DEF Next, Command, Umount, Quit, Progress

\* An umount that returns has made every table copy and the root directory
\* on the device equal to memory as it was.
THEOREM UmountWritesAll == Spec => UmountPersists
<1>1. Init => CopiesWritten
  BY DEF Init, CopiesWritten
<1>2. TypeOK /\ CopiesWritten /\ [Next]_vars => CopiesWritten'
  BY CopiesStay
<1> DEFINE Persists == (fd = "rw" /\ fd' = "none" /\ proc' = "ready") =>
              (\A i \in 1..Copies : fat'[i] = table) /\ rootRegion' = root
<1>3. CopiesWritten /\ [Next]_vars => [Persists]_vars
  <2> SUFFICES ASSUME CopiesWritten, Next, fd = "rw", fd' = "none",
                      proc' = "ready"
               PROVE  (\A i \in 1..Copies : fat'[i] = table)
                      /\ rootRegion' = root
    OBVIOUS
  <2>1. ~Command
    BY DEF Command, Mount, init_fat, Umount, Quit, CloseReadOnly, WriteFat, Delete,
           DeleteEntry, Undelete, UndeleteEntry
  <2>2. ~Failure /\ ~Start
    BY DEF Failure, Kill, MountFails, Refused, DeleteParentless, Stop, Start
  <2>3. WriteRoot
    BY <2>1, <2>2 DEF Next, Progress, FreeCluster, DeleteMark, WriteDir,
                      WriteCopy
  <2> QED
    BY <2>3 DEF WriteRoot, CopiesWritten
<1> QED
  BY <1>1, <1>2, <1>3, TypeCorrect, PTL DEF Spec, UmountPersists

-----------------------------------------------------------------------------
(* Whom an undelete can hurt *)

\* Making one cluster the last of its chain shortens the chains that have it
\* and leaves the others alone.
LEMMA CutChain ==
  ASSUME NEW t \in Table, NEW u, NEW i, NEW c \in Clusters,
         \A y \in Clusters : \/ u[y] = t[y]
                             \/ y = i /\ Link(u[y]) = 0
  PROVE  /\ Chain(u, c) \subseteq Chain(t, c)
         /\ i \notin Chain(t, c) => Chain(u, c) = Chain(t, c)
<1>1. \A d : Chain(t, d) \subseteq Clusters /\ Chain(u, d) \subseteq Clusters
  BY DEF Chain
<1>2. ASSUME NEW y \in Chain(t, c) PROVE next_cluster(t, y) \in Chain(t, c) \cup {0}
  BY <1>1, <1>2, NextTyped, ChainNext
<1>3. Closed(u, Chain(t, c))
  BY <1>1, <1>2 DEF Closed, next_cluster
<1>4. Chain(u, c) \subseteq Chain(t, c)
  BY <1>1, <1>3, ChainStart, ChainLeast
<1>5. ASSUME i \notin Chain(t, c) PROVE Chain(u, c) = Chain(t, c)
  <2>1. ASSUME NEW y \in Chain(u, c)
        PROVE  next_cluster(t, y) \in Chain(u, c) \cup {0}
    <3>1. y \in Clusters /\ next_cluster(t, y) = next_cluster(u, y)
      BY <1>1, <1>4, <1>5 DEF next_cluster
    <3>2. next_cluster(t, y) \in Clusters \cup {0}
      BY <3>1, NextTyped
    <3> QED
      BY <3>1, <3>2, ChainNext
  <2>2. Closed(t, Chain(u, c))
    BY <2>1 DEF Closed
  <2>3. Chain(t, c) \subseteq Chain(u, c)
    BY <1>1, <2>2, ChainStart, ChainLeast
  <2> QED
    BY <1>4, <2>3
<1> QED
  BY <1>4, <1>5

\* An undelete takes clusters away only from files that share the one it
\* claims, and gives no file another's.
THEOREM UndeleteCuts == Spec => UndeleteCutsOnlySharers
<1> DEFINE Cuts ==
      \A path \in Paths : Undelete(path) =>
        \A c \in Clusters :
          /\ Chain(table', c) \subseteq Chain(table, c)
          /\ Chain(table', c) # Chain(table, c) =>
               \E hit \in find(Restored(path)) :
                 At(hit[2]).first \in Chain(table, c)
<1>1. TypeOK /\ [Next]_vars => [Cuts]_vars
  <2> SUFFICES ASSUME TypeOK, NEW path \in Paths, Undelete(path),
                      NEW c \in Clusters
               PROVE  /\ Chain(table', c) \subseteq Chain(table, c)
                      /\ Chain(table', c) # Chain(table, c) =>
                           \E hit \in find(Restored(path)) :
                             At(hit[2]).first \in Chain(table, c)
    OBVIOUS
  <2>0. PICK hit \in find(Restored(path)) :
          UndeleteEntry(At(hit[2]), hit[1], path[Len(path)].char)
    BY DEF Undelete
  <2>1. table' = change_cluster(table, At(hit[2]).first, EndMark)
    BY <2>0 DEF UndeleteEntry
  <2>2. Link(Narrow(EndMark)) = 0
    BY FatAssumption DEF Narrow, Link, Link16, Link32, Width16, End16, Width28,
       End32, EndMark
  <2>3. \A y \in Clusters : \/ table'[y] = table[y]
                            \/ y = At(hit[2]).first /\ Link(table'[y]) = 0
    BY <2>1, <2>2 DEF change_cluster, TypeOK, Table
  <2>4. table \in Table
    BY DEF TypeOK
  <2>5. /\ Chain(table', c) \subseteq Chain(table, c)
        /\ At(hit[2]).first \notin Chain(table, c) =>
             Chain(table', c) = Chain(table, c)
    BY <2>3, <2>4, CutChain
  <2> QED
    BY <2>5
<1> QED
  BY <1>1, TypeCorrect, PTL DEF Spec, UndeleteCutsOnlySharers
=============================================================================
