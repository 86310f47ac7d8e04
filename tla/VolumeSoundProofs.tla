------------------------- MODULE VolumeSoundProofs -------------------------
(***************************************************************************)
(* Deleting and undeleting keep the volume sound, in memory and on the     *)
(* device: for every set of clusters, every kind of FAT, every number of   *)
(* table copies, and every volume whose subdirectories have one cluster    *)
(* and whose entries, deleted or not, have no cluster in common.           *)
(***************************************************************************)
EXTENDS VolumeServiceProofs

-----------------------------------------------------------------------------
(* What the slots hold *)

\* The entries of the volume as memory has them, and as the device does.
Memory == Contents(root, data)
Device == Contents(rootRegion, data)

\* Two volumes with the same entries up to their names, and the same ones
\* unused.
SameShape(e, f) ==
  \A l \in AllSlots : /\ f[l].first = e[l].first
                      /\ f[l].kind = e[l].kind
                      /\ f[l].char = NUL <=> e[l].char = NUL

\* In f, the entries equal to file in the directory dir of e have a new first
\* character.
MarkedIn(e, f, dir, file, char) ==
  \A l \in AllSlots :
    f[l] = IF l[1] = dir /\ e[l] = file THEN [e[l] EXCEPT !.char = char] ELSE e[l]

\* A slot is one of the root directory or of a cluster, and not both.
LEMMA SlotKinds ==
  ASSUME NEW l \in AllSlots
  PROVE  \/ l[1] = 0 /\ l[2] \in RootSlots /\ l = <<0, l[2]>>
         \/ l[1] \in Clusters /\ l[1] # 0 /\ l[2] \in DirSlots
BY FatAssumption DEF AllSlots

\* A slot of the root directory is a slot.
LEMMA RootSlot ==
  ASSUME NEW s \in RootSlots
  PROVE  <<0, s>> \in AllSlots
BY DEF AllSlots

\* The slots of a typed volume hold entries.
LEMMA ContentsTyped ==
  ASSUME NEW r \in Root, NEW d \in [Clusters -> Block]
  PROVE  Contents(r, d) \in [AllSlots -> Entry]
<1>1. ASSUME NEW l \in AllSlots
      PROVE  (IF l[1] = 0 THEN r[l[2]] ELSE d[l[1]][l[2]]) \in Entry
  BY SlotKinds DEF Root, Block
<1> QED
  BY <1>1 DEF Contents

\* Which slots are used is a matter of shape.
LEMMA SameSlots ==
  ASSUME NEW e, NEW f, SameShape(e, f)
  PROVE  UsedSlots(f) = UsedSlots(e)
<1>1. \A l \in AllSlots : Used(f[l]) <=> Used(e[l])
  BY DEF SameShape, Used
<1>2. \A s \in RootSlots : /\ f[<<0, s>>].kind = e[<<0, s>>].kind
                           /\ f[<<0, s>>].first = e[<<0, s>>].first
  BY RootSlot DEF SameShape
<1> QED
  BY <1>1, <1>2 DEF UsedSlots

\* Marking an entry that has a name leaves the shape as it is.
LEMMA MarkedShape ==
  ASSUME NEW e \in [AllSlots -> Entry], NEW f, NEW dir, NEW file, NEW char,
         MarkedIn(e, f, dir, file, char), file.char # NUL, char # NUL
  PROVE  SameShape(e, f)
<1> SUFFICES ASSUME NEW l \in AllSlots
             PROVE  /\ f[l].first = e[l].first
                    /\ f[l].kind = e[l].kind
                    /\ f[l].char = NUL <=> e[l].char = NUL
  BY DEF SameShape
<1>1. CASE l[1] = dir /\ e[l] = file
  <2>1. f[l] = [e[l] EXCEPT !.char = char] /\ e[l] \in Entry
    BY <1>1 DEF MarkedIn
  <2>2. f[l].first = e[l].first /\ f[l].kind = e[l].kind /\ f[l].char = char
    BY <2>1 DEF Entry
  <2> QED
    BY <1>1, <2>2
<1>2. CASE ~(l[1] = dir /\ e[l] = file)
  <2>1. f[l] = e[l]
    BY <1>2 DEF MarkedIn
  <2> QED
    BY <2>1
<1> QED
  BY <1>1, <1>2

\* Marking the root directory marks the slots of the root directory.
LEMMA RootMarked ==
  ASSUME NEW r \in Root, NEW d, NEW file, NEW char
  PROVE  MarkedIn(Contents(r, d), Contents(Mark(r, file, char), d), 0, file, char)
<1>1. \A s \in RootSlots :
        Mark(r, file, char)[s] =
          IF r[s] = file THEN [r[s] EXCEPT !.char = char] ELSE r[s]
  BY DEF Mark, Root
<1> QED
  BY <1>1, SlotKinds DEF MarkedIn, Contents

\* Marking the cluster of a directory marks the slots of that directory.
LEMMA BlockMarked ==
  ASSUME NEW r, NEW d \in [Clusters -> Block], NEW dir \in Clusters,
         NEW file, NEW char
  PROVE  MarkedIn(Contents(r, d),
                  Contents(r, [d EXCEPT ![dir] = Mark(d[dir], file, char)]),
                  dir, file, char)
<1> DEFINE marked == [d EXCEPT ![dir] = Mark(d[dir], file, char)]
<1>1. \A s \in DirSlots :
        marked[dir][s] =
          IF d[dir][s] = file THEN [d[dir][s] EXCEPT !.char = char] ELSE d[dir][s]
  BY DEF Mark, Block
<1>2. \A c \in Clusters : c # dir => marked[c] = d[c]
  OBVIOUS
<1>3. dir # 0
  BY FatAssumption
<1> HIDE DEF marked
<1>4. ASSUME NEW l \in AllSlots
      PROVE  Contents(r, marked)[l] =
               IF l[1] = dir /\ Contents(r, d)[l] = file
               THEN [Contents(r, d)[l] EXCEPT !.char = char]
               ELSE Contents(r, d)[l]
  <2>1. CASE l[1] = 0
    BY <1>3, <2>1 DEF Contents
  <2>2. CASE l[1] \in Clusters /\ l[1] # 0 /\ l[2] \in DirSlots
    <3>1. Contents(r, marked)[l] = marked[l[1]][l[2]]
          /\ Contents(r, d)[l] = d[l[1]][l[2]]
      BY <2>2 DEF Contents
    <3>2. CASE l[1] = dir
      BY <1>1, <2>2, <3>1, <3>2
    <3>3. CASE l[1] # dir
      BY <1>2, <2>2, <3>1, <3>3
    <3> QED
      BY <3>2, <3>3
  <2> QED
    BY <2>1, <2>2, SlotKinds
<1>5. MarkedIn(Contents(r, d), Contents(r, marked), dir, file, char)
  BY <1>4 DEF MarkedIn
<1> QED
  BY <1>5 DEF marked

-----------------------------------------------------------------------------
(* Chains that do not meet *)

\* Cells that lead nowhere shorten chains.
LEMMA ChainsShrink ==
  ASSUME NEW t \in Table, NEW u, NEW c \in Clusters,
         \A y \in Clusters : u[y] = t[y] \/ Link(u[y]) = 0
  PROVE  Chain(u, c) \subseteq Chain(t, c)
<1>1. Chain(t, c) \subseteq Clusters
  BY DEF Chain
<1>2. ASSUME NEW y \in Chain(t, c)
      PROVE  next_cluster(u, y) \in Chain(t, c) \cup {0}
  <2>1. next_cluster(t, y) \in Chain(t, c) \cup {0}
    BY <1>1, NextTyped, ChainNext
  <2> QED
    BY <1>1, <2>1 DEF next_cluster
<1>3. Closed(u, Chain(t, c))
  BY <1>2 DEF Closed
<1> QED
  BY <1>1, <1>3, ChainStart, ChainLeast

\* No cluster is on the chain of an entry that has none.
LEMMA ChainOfNone ==
  ASSUME NEW t
  PROVE  Chain(t, 0) = {}
<1>1. Closed(t, {})
  BY DEF Closed
<1>2. Chain(t, 0) \subseteq {}
  BY <1>1, ChainLeast
<1> QED
  BY <1>2

\* The first cluster of a used entry is a cluster.
LEMMA UsedHasClusters ==
  ASSUME NEW e \in [AllSlots -> Entry], NEW l \in UsedSlots(e)
  PROVE  l \in AllSlots /\ e[l].first \in Clusters
BY DEF UsedSlots, Used, Entry

\* Entries whose chains do not meet are still such when chains shrink and
\* names change.
LEMMA ApartStays ==
  ASSUME NEW t \in Table, NEW u, NEW e \in [AllSlots -> Entry], NEW f,
         Apart(t, e), SameShape(e, f),
         \A y \in Clusters : u[y] = t[y] \/ Link(u[y]) = 0
  PROVE  Apart(u, f)
<1> SUFFICES ASSUME NEW l \in UsedSlots(f), NEW m \in UsedSlots(f), l # m
             PROVE  Chain(u, f[l].first) \cap Chain(u, f[m].first) = {}
  BY DEF Apart
<1>1. l \in UsedSlots(e) /\ m \in UsedSlots(e)
  BY SameSlots
<1>2. /\ e[l].first \in Clusters /\ f[l].first = e[l].first
      /\ e[m].first \in Clusters /\ f[m].first = e[m].first
  BY <1>1, UsedHasClusters DEF SameShape
<1>3. Chain(t, e[l].first) \cap Chain(t, e[m].first) = {}
  BY <1>1 DEF Apart
<1>4. Chain(u, e[l].first) \subseteq Chain(t, e[l].first)
  BY <1>2, ChainsShrink
<1>5. Chain(u, e[m].first) \subseteq Chain(t, e[m].first)
  BY <1>2, ChainsShrink
<1> QED
  BY <1>2, <1>3, <1>4, <1>5

\* The root directory, and the clusters of its subdirectories.
IsDirectory(e, d) ==
  d = 0 \/ \E s \in RootSlots : e[<<0, s>>].kind = "dir" /\ e[<<0, s>>].first = d

\* The clusters of an entry with a name are on the chain of no used entry in
\* another slot.
LEMMA OthersKeepOut ==
  ASSUME NEW t, NEW e, Apart(t, e), NEW here \in AllSlots,
         IsDirectory(e, here[1]), e[here].char # NUL, e[here].kind # "special",
         NEW l \in UsedSlots(e), l # here
  PROVE  Chain(t, e[here].first) \cap Chain(t, e[l].first) = {}
<1>1. CASE e[here].first = 0
  BY <1>1, ChainOfNone
<1>2. CASE e[here].first # 0
  <2>1. here \in UsedSlots(e)
    BY <1>2 DEF UsedSlots, Used, IsDirectory
  <2> QED
    BY <2>1 DEF Apart
<1> QED
  BY <1>1, <1>2

-----------------------------------------------------------------------------
(* What a delete and an undelete do to chains that do not meet *)

\* The hypotheses the two have in common: the entry in the slot here of the
\* directory dir gets a new first character.
Marks(t, e, f, here, file, char) ==
  /\ t \in Table /\ e \in [AllSlots -> Entry]
  /\ Apart(t, e)
  /\ here \in AllSlots /\ IsDirectory(e, here[1]) /\ e[here] = file
  /\ file.char # NUL /\ file.kind # "special"
  /\ char # NUL
  /\ MarkedIn(e, f, here[1], file, char)

\* Every used entry in another slot that is not marked deleted is one that was
\* not deleted, and its chain keeps clear of that of the entry.
LEMMA OthersUnmarked ==
  ASSUME NEW t, NEW e, NEW f, NEW here, NEW file, NEW char,
         Marks(t, e, f, here, file, char), Whole(t, e),
         NEW l \in UsedSlots(f), f[l].char # E5,
         ~(l[1] = here[1] /\ e[l] = file)
  PROVE  /\ l \in UsedSlots(e) /\ f[l] = e[l]
         /\ e[l].first \in Clusters
         /\ Chain(t, file.first) \cap Chain(t, e[l].first) = {}
         /\ \A c \in Chain(t, e[l].first) : t[c] # 0
<1>1. l \in UsedSlots(e)
  BY MarkedShape, SameSlots DEF Marks
<1>2. l \in AllSlots /\ e[l].first \in Clusters
  BY <1>1, UsedHasClusters DEF Marks
<1>3. f[l] = e[l]
  BY <1>2 DEF Marks, MarkedIn
<1>4. l # here
  BY DEF Marks
<1>5. Chain(t, file.first) \cap Chain(t, e[l].first) = {}
  BY <1>1, <1>4, OthersKeepOut DEF Marks
<1>6. \A c \in Chain(t, e[l].first) : t[c] # 0
  BY <1>1, <1>3 DEF Whole
<1> QED
  BY <1>1, <1>2, <1>3, <1>5, <1>6

\* Once the chain of the entry is zeroed and the entry marked deleted, no
\* chain of a live entry has a free cell.
LEMMA FreedStaysWhole ==
  ASSUME NEW t, NEW e, NEW f, NEW here, NEW file,
         Marks(t, e, f, here, file, E5), Whole(t, e),
         NEW u, u = [c \in Clusters |-> IF c \in Chain(t, file.first)
                                       THEN 0 ELSE t[c]]
  PROVE  Whole(u, f)
<1> SUFFICES ASSUME NEW l \in UsedSlots(f), f[l].char # E5,
                    NEW c \in Chain(u, f[l].first)
             PROVE  u[c] # 0
  BY DEF Whole
<1>1. ~(l[1] = here[1] /\ e[l] = file)
  <2>1. l \in AllSlots
    BY DEF UsedSlots
  <2>2. ASSUME l[1] = here[1], e[l] = file PROVE f[l].char = E5
    <3>1. e[l] \in Entry /\ f[l] = [e[l] EXCEPT !.char = E5]
      BY <2>1, <2>2 DEF Marks, MarkedIn
    <3> QED
      BY <3>1 DEF Entry
  <2> QED
    BY <2>2
<1>2. /\ f[l] = e[l] /\ e[l].first \in Clusters
      /\ Chain(t, file.first) \cap Chain(t, e[l].first) = {}
      /\ \A x \in Chain(t, e[l].first) : t[x] # 0
  BY <1>1, OthersUnmarked
<1>3. \A y \in Clusters : u[y] = t[y] \/ Link(u[y]) = 0
  BY FreeLeadsNowhere
<1>4. Chain(u, e[l].first) \subseteq Chain(t, e[l].first)
  BY <1>2, <1>3, ChainsShrink DEF Marks
<1>5. c \in Clusters /\ c \in Chain(t, e[l].first)
  BY <1>2, <1>4 DEF Chain
<1>6. u[c] = t[c]
  BY <1>2, <1>5
<1> QED
  BY <1>2, <1>5, <1>6

\* Once the first cluster of the entry is claimed and the entry has a letter
\* again, no chain of a live entry has a free cell.
LEMMA ClaimedStaysWhole ==
  ASSUME NEW t, NEW e, NEW f, NEW here, NEW file, NEW char,
         Marks(t, e, f, here, file, char), Whole(t, e),
         NEW u, u = change_cluster(t, file.first, EndMark)
  PROVE  Whole(u, f)
<1> SUFFICES ASSUME NEW l \in UsedSlots(f), f[l].char # E5,
                    NEW c \in Chain(u, f[l].first)
             PROVE  u[c] # 0
  BY DEF Whole
<1> DEFINE first == file.first
<1>1. Link(Narrow(EndMark)) = 0 /\ Narrow(EndMark) # 0
  BY FatAssumption DEF Narrow, Link, Link16, Link32, Width16, End16, Width28,
     End32, EndMark
<1>2. \A y \in Clusters : u[y] = IF y = first THEN Narrow(EndMark) ELSE t[y]
  BY DEF change_cluster, Marks, Table
<1>3. CASE l[1] = here[1] /\ e[l] = file
  <2>1. l \in AllSlots /\ Used(f[l]) /\ SameShape(e, f)
    BY MarkedShape DEF UsedSlots, Marks
  <2>2. f[l].first = first /\ first # 0
    BY <1>3, <2>1 DEF SameShape, Used
  <2>3. first \in Clusters
    BY <1>3, <2>1, <2>2 DEF Marks, Entry
  <2>4. Chain(u, first) = {first}
    BY <1>1, <1>2, <2>3, ChainOfOne
  <2> QED
    BY <1>1, <1>2, <2>2, <2>3, <2>4
<1>4. CASE ~(l[1] = here[1] /\ e[l] = file)
  <2>1. /\ f[l] = e[l] /\ e[l].first \in Clusters
        /\ Chain(t, first) \cap Chain(t, e[l].first) = {}
        /\ \A x \in Chain(t, e[l].first) : t[x] # 0
    BY <1>4, OthersUnmarked
  <2>2. Chain(u, e[l].first) \subseteq Chain(t, e[l].first)
    <3>1. \A y \in Clusters : u[y] = t[y] \/ Link(u[y]) = 0
      BY <1>1, <1>2
    <3> QED
      BY <2>1, <3>1, ChainsShrink DEF Marks
  <2>3. c \in Clusters /\ c \in Chain(t, e[l].first)
    BY <2>1, <2>2 DEF Chain
  <2>4. c # first
    BY <2>1, <2>3, ChainStart
  <2> QED
    BY <1>2, <2>1, <2>3, <2>4
<1> QED
  BY <1>3, <1>4

-----------------------------------------------------------------------------
(* Such a volume is sound *)

\* What the entries found by way of a directory are, by slot.
LEMMA LiveIsUsed ==
  ASSUME TypeOK, NEW t, NEW r \in Root,
         \A d \in Subdirectories(r) : Link(t[d]) = 0,
         NEW l \in LiveSlots(t, r)
  PROVE  /\ l \in UsedSlots(Contents(r, data))
         /\ Contents(r, data)[l] = EntryAt(r, l)
         /\ EntryAt(r, l).char # E5
<1> DEFINE e == Contents(r, data)
<1>1. Live(EntryAt(r, l))
      /\ l \in ({0} \X RootSlots) \cup (DirClusters(t, r) \X DirSlots)
  BY DEF LiveSlots
<1>2. ASSUME NEW x \in DirClusters(t, r)
      PROVE  x \in Clusters /\ \E s \in RootSlots :
               r[s].kind = "dir" /\ r[s].first = x
  <2>1. PICK s \in RootSlots : /\ r[s].kind = "dir" /\ Live(r[s])
                               /\ x \in Chain(t, r[s].first)
    BY DEF DirClusters
  <2>2. r[s].first \in Subdirectories(r)
    BY <2>1 DEF Live, Subdirectories
  <2>3. r[s].first \in Clusters /\ Link(t[r[s].first]) = 0
    BY <2>2, SubdirectoriesTyped
  <2>4. x = r[s].first
    BY <2>1, <2>3, ChainOfOne
  <2> QED
    BY <2>1, <2>3, <2>4
<1>3. l \in AllSlots
  BY <1>1, <1>2 DEF AllSlots
<1>4. e[l] = EntryAt(r, l)
  BY <1>3 DEF Contents, EntryAt
<1>5. \A s \in RootSlots : e[<<0, s>>] = r[s]
  BY RootSlot DEF Contents
<1>6. l[1] = 0 \/ \E s \in RootSlots : /\ e[<<0, s>>].kind = "dir"
                                       /\ e[<<0, s>>].first = l[1]
  BY <1>1, <1>2, <1>5
<1> QED
  BY <1>1, <1>3, <1>4, <1>6 DEF UsedSlots, Used, Live

\* Chains that do not meet and have no free cell make a volume sound.
LEMMA ApartIsSound ==
  ASSUME TypeOK, NEW t, NEW r \in Root,
         \A d \in Subdirectories(r) : Link(t[d]) = 0,
         Apart(t, Contents(r, data)), Whole(t, Contents(r, data))
  PROVE  Sound(t, r)
<1> DEFINE e == Contents(r, data)
<1>1. ASSUME NEW l \in LiveSlots(t, r), NEW c \in Chain(t, EntryAt(r, l).first)
      PROVE  t[c] # 0
  BY <1>1, LiveIsUsed DEF Whole
<1>2. ASSUME NEW l \in LiveSlots(t, r), NEW m \in LiveSlots(t, r), l # m
      PROVE  Chain(t, EntryAt(r, l).first) \cap Chain(t, EntryAt(r, m).first) = {}
  BY <1>2, LiveIsUsed DEF Apart
<1> QED
  BY <1>1, <1>2 DEF Sound

-----------------------------------------------------------------------------
(* The invariant *)

\* MemoryStaysSound speaks of the prompt and of live entries.  What makes it
\* last is said of every state: memory and the device differ in names only; the
\* chains of used entries, deleted ones too, do not meet, for an undelete makes
\* a deleted entry live again; and until a command in progress takes effect,
\* the table that counts is the one before it.
ShapesAgree   == fd # "none" => SameShape(Device, Memory)
ApartInMemory == fd # "none" => Apart(Effective, Memory)
ApartOnDevice == Apart(fat[1], Device)
WholeInMemory == (fd # "none" /\ ~exposed) => Whole(Effective, Memory)
WholeOnDevice == (~exposed /\ ~revived /\ (proc = "writefat" => copy = 0))
                 => Whole(fat[1], Device)
MarksAName    == proc \in {"delete", "writedir"} =>
                   op.file.char # NUL /\ op.file.kind # "special"

SoundInv == /\ ShapesAgree /\ ApartInMemory /\ ApartOnDevice
            /\ WholeInMemory /\ WholeOnDevice /\ MarksAName

\* Two volumes with one data area agree in shape whatever becomes of it.
LEMMA ShapeOfRoots ==
  ASSUME NEW r, NEW q, NEW d, NEW b,
         SameShape(Contents(r, d), Contents(q, d))
  PROVE  SameShape(Contents(r, b), Contents(q, b))
<1> SUFFICES ASSUME NEW l \in AllSlots
             PROVE  /\ Contents(q, b)[l].first = Contents(r, b)[l].first
                    /\ Contents(q, b)[l].kind = Contents(r, b)[l].kind
                    /\ Contents(q, b)[l].char = NUL <=> Contents(r, b)[l].char = NUL
  BY DEF SameShape
<1>1. CASE l[1] = 0
  <2>1. /\ Contents(r, b)[l] = Contents(r, d)[l]
        /\ Contents(q, b)[l] = Contents(q, d)[l]
    BY <1>1 DEF Contents
  <2> QED
    BY <2>1 DEF SameShape
<1>2. CASE l[1] # 0
  <2>1. Contents(q, b)[l] = Contents(r, b)[l]
    BY <1>2 DEF Contents
  <2> QED
    BY <2>1
<1> QED
  BY <1>1, <1>2

\* Shapes agree by way of a third.
LEMMA ShapeTransitive ==
  ASSUME NEW e, NEW f, NEW g, SameShape(e, f), SameShape(f, g)
  PROVE  SameShape(e, g)
BY DEF SameShape

\* A table in which some chains do not meet and one that is the same.
LEMMA ShapeKeepsApart ==
  ASSUME NEW t \in Table, NEW e \in [AllSlots -> Entry], NEW f,
         Apart(t, e), SameShape(e, f)
  PROVE  Apart(t, f)
BY ApartStays

\* Marking entries deleted leaves fewer live ones.
LEMMA MarkedDeletedStaysWhole ==
  ASSUME NEW t, NEW e \in [AllSlots -> Entry], NEW f, NEW dir, NEW file,
         Whole(t, e), MarkedIn(e, f, dir, file, E5), file.char # NUL
  PROVE  Whole(t, f)
<1> SUFFICES ASSUME NEW l \in UsedSlots(f), f[l].char # E5
             PROVE  \A c \in Chain(t, f[l].first) : t[c] # 0
  BY DEF Whole
<1>0. SameShape(e, f)
  BY MarkedShape DEF E5, NUL
<1>1. l \in UsedSlots(e) /\ l \in AllSlots
  BY <1>0, SameSlots DEF UsedSlots
<1>2. f[l] = e[l]
  <2>1. CASE l[1] = dir /\ e[l] = file
    <3>1. f[l] = [e[l] EXCEPT !.char = E5] /\ e[l] \in Entry
      BY <1>1, <2>1 DEF MarkedIn
    <3> QED
      BY <3>1 DEF Entry
  <2>2. CASE ~(l[1] = dir /\ e[l] = file)
    BY <1>1, <2>2 DEF MarkedIn
  <2> QED
    BY <2>1, <2>2
<1> QED
  BY <1>1, <1>2 DEF Whole

\* The entries in memory and on the device are typed.
LEMMA VolumesTyped ==
  ASSUME TypeOK
  PROVE  /\ Memory \in [AllSlots -> Entry] /\ Device \in [AllSlots -> Entry]
         /\ fat[1] \in Table /\ Effective \in Table
<1>1. 1 \in 1..Copies
  BY VolumeAssumption
<1> QED
  BY <1>1, ContentsTyped DEF TypeOK, Memory, Device, Effective

\* An entry of a directory has a slot in it.
LEMMA FileHasSlot ==
  ASSUME TypeOK, NEW dir \in Service!Directories, NEW file \in Service!FilesOf(dir)
  PROVE  \E here \in AllSlots :
           here[1] = dir /\ Memory[here] = file /\ IsDirectory(Memory, dir)
<1>1. CASE dir = 0
  <2>1. PICK s \in RootSlots : file = root[s]
    BY <1>1, DirectoriesAre
  <2>2. <<0, s>> \in AllSlots
    BY RootSlot
  <2>3. Memory[<<0, s>>] = file
    BY <2>1, <2>2 DEF Memory, Contents
  <2> QED
    BY <1>1, <2>2, <2>3 DEF IsDirectory
<1>2. CASE dir # 0
  <2>1. dir \in Subdirectories(root)
    BY <1>2, DirectoriesAre
  <2>2. dir \in Clusters
    BY <2>1, SubdirectoriesTyped DEF TypeOK
  <2>3. PICK s \in DirSlots : file = data[dir][s]
    BY <2>2, DirectoriesAre
  <2>4. <<dir, s>> \in AllSlots
    BY <2>2 DEF AllSlots
  <2>5. Memory[<<dir, s>>] = file
    BY <1>2, <2>3, <2>4 DEF Memory, Contents
  <2>6. PICK q \in RootSlots : root[q].kind = "dir" /\ root[q].first = dir
    BY <2>1 DEF Subdirectories
  <2>7. Memory[<<0, q>>] = root[q]
    BY RootSlot DEF Memory, Contents
  <2>8. IsDirectory(Memory, dir)
    BY <2>6, <2>7 DEF IsDirectory
  <2> QED
    BY <2>4, <2>5, <2>8
<1> QED
  BY <1>1, <1>2

-----------------------------------------------------------------------------
(* The invariant holds at first and every step keeps it *)

\* A step that changes neither the volume in memory as it counts nor the device.
LEMMA SoundOn ==
  ASSUME SoundInv, UNCHANGED <<fd, Effective, root, device, history>>,
         (proc' = "writefat" => copy' = 0) => (proc = "writefat" => copy = 0),
         MarksAName'
  PROVE  SoundInv'
<1>1. Memory' = Memory /\ Device' = Device /\ fat' = fat
  BY DEF Memory, Device, device
<1>2. ShapesAgree' /\ ApartInMemory' /\ ApartOnDevice'
  BY <1>1 DEF SoundInv, ShapesAgree, ApartInMemory, ApartOnDevice
<1>3. WholeInMemory' /\ WholeOnDevice'
  BY <1>1 DEF SoundInv, WholeInMemory, WholeOnDevice, history
<1> QED
  BY <1>2, <1>3 DEF SoundInv

\* A step that closes the device and leaves it alone.
LEMMA SoundClosed ==
  ASSUME SoundInv, fd' = "none", UNCHANGED device,
         proc' \notin {"delete", "writedir"},
         (~exposed' /\ ~revived') =>
           ~exposed /\ ~revived /\ (proc = "writefat" => copy = 0)
  PROVE  SoundInv'
BY DEF SoundInv, ShapesAgree, ApartInMemory, ApartOnDevice, WholeInMemory,
   WholeOnDevice, MarksAName, Device, device

\* The table a delete makes of t, or an undelete.
Takes(t, u, file, char) ==
  \/ /\ char = E5
     /\ u = [c \in Clusters |-> IF c \in Chain(t, file.first) THEN 0 ELSE t[c]]
  \/ u = change_cluster(t, file.first, EndMark)

\* A command takes effect: the table is the one it has made, and the entry it
\* is about takes its new first character.
LEMMA EffectIsSound ==
  ASSUME NEW t, NEW e, NEW f, NEW here, NEW file, NEW char, NEW u,
         Marks(t, e, f, here, file, char), Takes(t, u, file, char)
  PROVE  SameShape(e, f) /\ Apart(u, f) /\ (Whole(t, e) => Whole(u, f))
<1>1. SameShape(e, f)
  BY MarkedShape DEF Marks
<1>2. Link(Narrow(EndMark)) = 0
  BY FatAssumption DEF Narrow, Link, Link16, Link32, Width16, End16, Width28,
     End32, EndMark
<1>3. \A y \in Clusters : u[y] = t[y] \/ Link(u[y]) = 0
  BY <1>2, FreeLeadsNowhere DEF Takes, Marks, change_cluster, Table
<1>4. Apart(u, f)
  BY <1>1, <1>3, ApartStays DEF Marks
<1>5. ASSUME Whole(t, e) PROVE Whole(u, f)
  BY <1>5, FreedStaysWhole, ClaimedStaysWhole DEF Takes
<1> QED
  BY <1>1, <1>4, <1>5

\* The initial volume is as the constants say.
LEMMA SoundStart ==
  ASSUME IntactVolumes, Init
  PROVE  SoundInv
<1>1. PICK v \in Volumes : /\ fat = [i \in 1..Copies |-> v.fat]
                           /\ rootRegion = v.root /\ data = v.data
  BY DEF Init
<1>2. fat[1] = v.fat
  BY <1>1, VolumeAssumption
<1>3. Apart(fat[1], Device) /\ Whole(fat[1], Device)
  BY <1>1, <1>2 DEF IntactVolumes, Device
<1> QED
  BY <1>3 DEF Init, SoundInv, ShapesAgree, ApartInMemory, ApartOnDevice,
     WholeInMemory, WholeOnDevice, MarksAName

\* The names of entries are changed to E5 and to letters.
LEMMA CharIsAName ==
  ASSUME NEW char, char = E5 \/ char \in Letters
  PROVE  char # NUL
BY VolumeAssumption DEF E5, NUL

\* delete and undelete are about entries of a name that are not special.
LEMMA FindFindsNames ==
  ASSUME TypeOK, DirectoriesStay, fd # "none", NEW path, Len(path) \in {1, 2},
         NEW hit \in find(path)
  PROVE  At(hit[2]).char # NUL /\ At(hit[2]).kind # "special"
BY FindFinds DEF Matches

\* One turn of FreeCluster, the start of delete, of umount and of the process
\* show nothing yet.
LEMMA SoundWhileHidden ==
  ASSUME PathsNameEntries, TypeOK, DirectoriesStay, SoundInv, [Next]_vars,
         \/ \E path \in Paths : Delete(path)
         \/ WriteFat(FALSE) \/ WriteFat(TRUE)
         \/ FreeCluster
         \/ DeleteMark /\ op.parent # 0
         \/ Start \/ UNCHANGED vars
  PROVE  SoundInv'
<1> USE DEF SoundInv, MarksAName
<1>1. ASSUME NEW path \in Paths, Delete(path) PROVE SoundInv'
  <2>1. path # << >> /\ fd # "none" /\ proc = "ready"
    BY <1>1 DEF PathsNameEntries, Delete, TEST_W_FD
  <2>2. PICK hit \in find(path) : DeleteEntry(At(hit[2]), hit[1])
    BY <1>1, <2>1 DEF Delete
  <2>3. MarksAName'
    BY <2>1, <2>2, PathLength, FindFindsNames DEF DeleteEntry
  <2> QED
    BY <2>1, <2>2, <2>3, SoundOn DEF DeleteEntry, Effective, memory
<1>2. ASSUME NEW quit, WriteFat(quit) PROVE SoundInv'
  BY <1>2, SoundOn DEF WriteFat, Effective
<1>3. CASE FreeCluster
  BY <1>3, SoundOn DEF FreeCluster, Effective
<1>4. CASE DeleteMark /\ op.parent # 0
  BY <1>4, SoundOn DEF DeleteMark, Effective
<1>5. CASE Start
  BY <1>5, SoundOn DEF Start, Effective, memory, command
<1>6. CASE UNCHANGED vars
  BY <1>6, SoundOn DEF vars, Effective, memory, command
<1> QED
  BY <1>1, <1>2, <1>3, <1>4, <1>5, <1>6

\* The slot of the entry a command in progress is about.
LEMMA CommandHasSlot ==
  ASSUME TypeOK, KnowsItsEntry, proc \in {"delete", "writedir"}
  PROVE  \E here \in AllSlots : /\ here[1] = op.parent /\ Memory[here] = op.file
                                /\ IsDirectory(Memory, here[1])
BY FileHasSlot DEF KnowsItsEntry

\* What a command in progress has made of the table it began with, when it is
\* about to mark its entry.
LEMMA CommandHasTable ==
  ASSUME KnowsItsEntry, DeleteFreesItsChain, proc \in {"delete", "writedir"},
         proc = "delete" => cluster = 0
  PROVE  /\ op.char = E5 \/ op.char \in Letters
         /\ Takes(op.before, table, op.file, op.char)
BY DEF KnowsItsEntry, DeleteFreesItsChain, Freed, Takes

\* A command marks its entry in the root directory, or in a subdirectory.
LEMMA SoundMark ==
  ASSUME TypeOK, KnowsItsEntry, DeleteFreesItsChain, WritersHaveWriteAccess,
         SoundInv, proc \in {"delete", "writedir"},
         proc = "delete" => cluster = 0,
         NEW f, MarkedIn(Memory, f, op.parent, op.file, op.char)
  PROVE  SameShape(Memory, f) /\ Apart(table, f) /\ (~exposed => Whole(table, f))
<1>1. PICK here \in AllSlots : /\ here[1] = op.parent /\ Memory[here] = op.file
                               /\ IsDirectory(Memory, here[1])
  BY CommandHasSlot
<1>2. op.char # NUL
  BY CommandHasTable, CharIsAName
<1>3. /\ Apart(op.before, Memory) /\ (~exposed => Whole(op.before, Memory))
      /\ op.file.char # NUL /\ op.file.kind # "special"
  BY DEF SoundInv, ApartInMemory, WholeInMemory, MarksAName, Effective,
     WritersHaveWriteAccess
<1>4. Marks(op.before, Memory, f, here, op.file, op.char)
  <2>1. op.before \in Table /\ Memory \in [AllSlots -> Entry]
    BY VolumesTyped DEF TypeOK
  <2> QED
    BY <1>1, <1>2, <1>3, <2>1 DEF Marks
<1>5. Takes(op.before, table, op.file, op.char)
  BY CommandHasTable
<1>6. /\ SameShape(Memory, f) /\ Apart(table, f)
      /\ Whole(op.before, Memory) => Whole(table, f)
  BY <1>4, <1>5, EffectIsSound
<1> QED
  BY <1>3, <1>6

\* A new root directory in memory, with a new table.
LEMMA SoundNewRoot ==
  ASSUME SoundInv, fd # "none", UNCHANGED <<fd, device, history>>,
         proc \notin {"writefat"}, proc' = "ready",
         SameShape(Memory, Memory'), Apart(table', Memory'),
         ~exposed => Whole(table', Memory')
  PROVE  SoundInv'
<1>1. Device' = Device /\ fat' = fat /\ Effective' = table'
  BY DEF Device, device, Effective
<1>2. ShapesAgree'
  BY <1>1, ShapeTransitive DEF SoundInv, ShapesAgree
<1>3. ApartInMemory' /\ ApartOnDevice'
  BY <1>1 DEF SoundInv, ApartInMemory, ApartOnDevice
<1>4. WholeInMemory' /\ WholeOnDevice'
  BY <1>1 DEF SoundInv, WholeInMemory, WholeOnDevice, history
<1>5. MarksAName'
  BY DEF MarksAName
<1> QED
  BY <1>2, <1>3, <1>4, <1>5 DEF SoundInv

\* delete marks an entry of the root directory.
LEMMA SoundDeleteMark ==
  ASSUME TypeOK, KnowsItsEntry, DeleteFreesItsChain, WritersHaveWriteAccess,
         SoundInv, DeleteMark, op.parent = 0
  PROVE  SoundInv'
<1>1. /\ proc = "delete" /\ cluster = 0 /\ proc' = "ready" /\ table' = table
      /\ root' = Mark(root, op.file, op.char)
      /\ UNCHANGED <<fd, device, history>> /\ data' = data
  BY DEF DeleteMark, Return, device
<1>2. Memory' = Contents(Mark(root, op.file, op.char), data)
  BY <1>1 DEF Memory
<1>3. MarkedIn(Memory, Memory', op.parent, op.file, op.char)
  BY <1>2, RootMarked DEF TypeOK, Memory
<1>4. /\ SameShape(Memory, Memory') /\ Apart(table', Memory')
      /\ ~exposed => Whole(table', Memory')
  BY <1>1, <1>3, SoundMark
<1> QED
  BY <1>1, <1>4, SoundNewRoot DEF WritersHaveWriteAccess

\* undelete claims the first cluster of an entry of the root directory and
\* marks the entry; with an entry of a subdirectory, nothing counts yet.
LEMMA SoundUndelete ==
  ASSUME TypeOK, DirectoriesStay, SoundInv, NEW path \in Paths, Undelete(path)
  PROVE  SoundInv'
<1> DEFINE char == path[Len(path)].char
<1>1. path # << >> /\ fd # "none" /\ char \in Letters /\ proc = "ready"
  BY DEF Undelete, TEST_W_FD
<1>2. PICK hit \in find(Restored(path)) :
        UndeleteEntry(At(hit[2]), hit[1], char)
  BY DEF Undelete
<1> DEFINE file == At(hit[2])
<1>3. Len(Restored(path)) \in {1, 2}
  BY <1>1, PathLength DEF Restored
<1>4. /\ hit[1] \in Service!Directories /\ file \in Service!FilesOf(hit[1])
      /\ file.char # NUL /\ file.kind # "special"
      /\ UndeleteEntry(file, hit[1], char)
  BY <1>1, <1>2, <1>3, FindFinds, FindFindsNames
<1> HIDE DEF file, char
<1>5. CASE hit[1] = 0
  <2>1. /\ proc' = proc /\ table' = change_cluster(table, file.first, EndMark)
        /\ root' = Mark(root, file, char)
        /\ UNCHANGED <<fd, device, history>> /\ data' = data
    BY <1>4, <1>5 DEF UndeleteEntry, device
  <2>2. Memory' = Contents(Mark(root, file, char), data)
    BY <2>1 DEF Memory
  <2>3. MarkedIn(Memory, Memory', 0, file, char)
    BY <2>2, RootMarked DEF TypeOK, Memory
  <2>4. PICK here \in AllSlots : /\ here[1] = 0 /\ Memory[here] = file
                                 /\ IsDirectory(Memory, here[1])
    BY <1>4, <1>5, FileHasSlot
  <2>5. /\ Apart(table, Memory) /\ (~exposed => Whole(table, Memory))
    BY <1>1 DEF SoundInv, ApartInMemory, WholeInMemory, Effective
  <2>6. table \in Table /\ Memory \in [AllSlots -> Entry] /\ char # NUL
    BY <1>1, VolumesTyped, CharIsAName DEF TypeOK
  <2>7. Marks(table, Memory, Memory', here, file, char)
    BY <1>4, <2>3, <2>4, <2>5, <2>6 DEF Marks
  <2>8. Takes(table, table', file, char)
    BY <2>1 DEF Takes
  <2>9. /\ SameShape(Memory, Memory') /\ Apart(table', Memory')
        /\ Whole(table, Memory) => Whole(table', Memory')
    BY <2>7, <2>8, EffectIsSound
  <2> QED
    BY <1>1, <2>1, <2>5, <2>9, SoundNewRoot
<1>6. CASE hit[1] # 0
  <2>1. /\ proc' = "writedir" /\ op'.file = file /\ op'.before = table
        /\ UNCHANGED <<fd, root, device, history>>
    BY <1>4, <1>6 DEF UndeleteEntry
  <2>2. MarksAName'
    BY <1>4, <2>1 DEF MarksAName
  <2>3. Effective' = Effective
    BY <1>1, <2>1 DEF Effective
  <2> QED
    BY <1>1, <2>1, <2>2, <2>3, SoundOn
<1> QED
  BY <1>5, <1>6

\* write_dir marks an entry of a subdirectory, in the data area that memory
\* and the device share.
LEMMA SoundWriteDir ==
  ASSUME TypeOK, DirectoriesStay, KnowsItsEntry, DeleteFreesItsChain,
         WritersHaveWriteAccess, SoundInv, WriteDir
  PROVE  SoundInv'
<1> DEFINE dir == op.parent
<1>1. /\ proc = "writedir" /\ fd = "rw" /\ cluster = dir
      /\ dir \in Subdirectories(root)
  BY DirectoriesAre DEF WriteDir, KnowsItsEntry, WritersHaveWriteAccess
<1>2. dir \in Clusters /\ next_cluster(table, cluster) = 0
  BY <1>1, SubdirectoriesTyped DEF TypeOK, DirectoriesStay, next_cluster
<1>3. /\ data' = [data EXCEPT ![dir] = Mark(data[dir], op.file, op.char)]
      /\ proc' = "ready" /\ revived' = (revived \/ op.char # E5)
      /\ UNCHANGED <<fd, table, root, fat, rootRegion, exposed>>
  BY <1>1, <1>2 DEF WriteDir, Return, memory
<1>4. MarkedIn(Memory, Memory', dir, op.file, op.char)
  <2>1. Memory' = Contents(root, [data EXCEPT ![dir] = Mark(data[dir], op.file, op.char)])
    BY <1>3 DEF Memory
  <2> QED
    BY <1>2, <2>1, BlockMarked DEF TypeOK, Memory
<1>5. MarkedIn(Device, Device', dir, op.file, op.char)
  <2>1. Device' = Contents(rootRegion, [data EXCEPT ![dir] = Mark(data[dir], op.file, op.char)])
    BY <1>3 DEF Device
  <2> QED
    BY <1>2, <2>1, BlockMarked DEF TypeOK, Device
<1>6. SameShape(Memory, Memory') /\ Apart(table, Memory') /\ (~exposed => Whole(table, Memory'))
  BY <1>1, <1>4, SoundMark
<1>7. op.char # NUL /\ op.file.char # NUL
  BY <1>1, CommandHasTable, CharIsAName DEF SoundInv, MarksAName
<1>8. SameShape(Device, Device')
  BY <1>5, <1>7, VolumesTyped, MarkedShape
<1>9. ShapesAgree'
  <2>1. SameShape(Contents(rootRegion, data), Contents(root, data))
    BY <1>1 DEF SoundInv, ShapesAgree, Memory, Device
  <2>2. SameShape(Contents(rootRegion, data'), Contents(root, data'))
    BY <2>1, ShapeOfRoots
  <2> QED
    BY <1>3, <2>2 DEF ShapesAgree, Memory, Device
<1>10. ApartInMemory'
  BY <1>3, <1>6 DEF ApartInMemory, Effective
<1>11. ApartOnDevice'
  BY <1>3, <1>8, VolumesTyped, ShapeKeepsApart DEF SoundInv, ApartOnDevice
<1>12. WholeInMemory'
  BY <1>3, <1>6 DEF WholeInMemory, Effective
<1>13. WholeOnDevice'
  <2> SUFFICES ASSUME ~exposed', ~revived' PROVE Whole(fat[1], Device')
    BY <1>3 DEF WholeOnDevice
  <2>1. op.char = E5 /\ Whole(fat[1], Device)
    BY <1>1, <1>3 DEF SoundInv, WholeOnDevice
  <2>2. MarkedIn(Device, Device', dir, op.file, E5)
    BY <1>5, <2>1
  <2> QED
    BY <1>7, <2>1, <2>2, VolumesTyped, MarkedDeletedStaysWhole
<1>14. MarksAName'
  BY <1>3 DEF MarksAName
<1> QED
  BY <1>9, <1>10, <1>11, <1>12, <1>13, <1>14 DEF SoundInv

\* mount takes memory from the device.
LEMMA SoundMount ==
  ASSUME SoundInv, NEW mode \in {"ro", "rw"}, Mount(mode)
  PROVE  SoundInv'
<1>1. /\ proc = "ready" /\ proc' = "ready" /\ table' = fat[1] /\ root' = rootRegion
      /\ UNCHANGED <<fat, rootRegion, data>>
      /\ exposed' = (exposed \/ revived) /\ revived' = FALSE
  BY DEF Mount, init_fat, device
<1>2. Memory' = Device /\ Device' = Device /\ Effective' = fat[1]
  BY <1>1 DEF Memory, Device, Effective
<1>3. ShapesAgree'
  BY <1>2 DEF ShapesAgree, SameShape
<1>4. ApartInMemory' /\ ApartOnDevice'
  BY <1>1, <1>2 DEF SoundInv, ApartOnDevice, ApartInMemory
<1>5. (~exposed' => Whole(fat[1], Device))
  BY <1>1 DEF SoundInv, WholeOnDevice
<1>6. WholeInMemory' /\ WholeOnDevice'
  BY <1>1, <1>2, <1>5 DEF WholeInMemory, WholeOnDevice
<1>7. MarksAName'
  BY <1>1 DEF MarksAName
<1> QED
  BY <1>3, <1>4, <1>6, <1>7 DEF SoundInv

\* The first table copy umount writes is that of memory; from then on the
\* device has the table of memory and the root directory of its own.
LEMMA SoundWriteCopy ==
  ASSUME TypeOK, WritersHaveWriteAccess, SoundInv, WriteCopy
  PROVE  SoundInv'
<1>1. /\ proc = "writefat" /\ proc' = "writefat" /\ fd = "rw"
      /\ copy \in Nat /\ copy' # 0
      /\ UNCHANGED <<fd, table, root, rootRegion, data, exposed, revived>>
  BY VolumeAssumption DEF WriteCopy, TypeOK, WritersHaveWriteAccess, memory, history
<1>2. Memory' = Memory /\ Device' = Device /\ Effective = table /\ Effective' = table
  BY <1>1 DEF Memory, Device, Effective
<1>3. fat'[1] \in {fat[1], table}
  BY VolumeAssumption DEF WriteCopy, TypeOK
<1>4. Apart(table, Memory) /\ SameShape(Device, Memory)
  BY <1>1, <1>2 DEF SoundInv, ApartInMemory, ShapesAgree
<1>5. SameShape(Memory, Device)
  BY <1>4 DEF SameShape
<1>6. Apart(table, Device)
  BY <1>4, <1>5, VolumesTyped, ShapeKeepsApart DEF TypeOK
<1>7. ApartOnDevice'
  BY <1>2, <1>3, <1>6 DEF SoundInv, ApartOnDevice
<1>8. ShapesAgree' /\ ApartInMemory' /\ WholeInMemory'
  BY <1>1, <1>2 DEF SoundInv, ShapesAgree, ApartInMemory, WholeInMemory
<1>9. WholeOnDevice' /\ MarksAName'
  BY <1>1 DEF WholeOnDevice, MarksAName
<1> QED
  BY <1>7, <1>8, <1>9 DEF SoundInv

\* With the root directory, the device has all of memory.
LEMMA SoundWriteRoot ==
  ASSUME CopiesWritten, WritersHaveWriteAccess, SoundInv, WriteRoot
  PROVE  SoundInv'
<1>1. /\ proc = "writefat" /\ fd = "rw" /\ fd' = "none" /\ copy = Copies
      /\ proc' \in {"ready", "down"} /\ exposed' = exposed
      /\ rootRegion' = root /\ UNCHANGED <<fat, data>>
  BY DEF WriteRoot, WritersHaveWriteAccess
<1>2. fat[1] = table
  BY <1>1, VolumeAssumption DEF CopiesWritten
<1>3. Device' = Memory /\ Effective = table
  BY <1>1 DEF Device, Memory, Effective
<1>4. Apart(table, Memory) /\ (~exposed => Whole(table, Memory))
  BY <1>1, <1>3 DEF SoundInv, ApartInMemory, WholeInMemory
<1>5. ApartOnDevice' /\ WholeOnDevice'
  BY <1>1, <1>2, <1>3, <1>4 DEF ApartOnDevice, WholeOnDevice
<1>6. ShapesAgree' /\ ApartInMemory' /\ WholeInMemory' /\ MarksAName'
  BY <1>1 DEF ShapesAgree, ApartInMemory, WholeInMemory, MarksAName
<1> QED
  BY <1>5, <1>6 DEF SoundInv

\* Every step keeps the volume sound.
LEMMA SoundStep ==
  ASSUME PathsNameEntries, TypeOK, DirectoriesStay, KnowsItsEntry, CopiesWritten,
         DeleteFreesItsChain, WritersHaveWriteAccess, SoundInv, [Next]_vars
  PROVE  SoundInv'
<1>1. ASSUME NEW quit, CloseReadOnly(quit) PROVE SoundInv'
  <2>1. proc = "ready" /\ proc' \in {"ready", "down"} /\ fd' = "none"
        /\ UNCHANGED <<device, exposed, revived>>
    BY <1>1 DEF CloseReadOnly, history
  <2> QED
    BY <2>1, SoundClosed
<1>2. CASE Failure
  <2>1. Stop
    BY <1>2 DEF Failure, Kill, MountFails, Refused, DeleteParentless
  <2>2. /\ proc' = "down" /\ fd' = "none" /\ UNCHANGED device
        /\ exposed' = (exposed \/ revived \/ (proc = "writefat" /\ copy > 0))
    BY <2>1 DEF Stop
  <2>3. copy = 0 \/ copy > 0
    BY VolumeAssumption DEF TypeOK
  <2>4. (~exposed' /\ ~revived') =>
          ~exposed /\ ~revived /\ (proc = "writefat" => copy = 0)
    BY <2>2, <2>3
  <2> QED
    BY <2>2, <2>4, SoundClosed
<1>3. ASSUME NEW mode \in {"ro", "rw"}, Mount(mode) PROVE SoundInv'
  BY <1>3, SoundMount
<1>4. CASE DeleteMark
  BY <1>4, SoundDeleteMark, SoundWhileHidden
<1>5. CASE WriteDir \/ WriteCopy \/ WriteRoot
  BY <1>5, SoundWriteDir, SoundWriteCopy, SoundWriteRoot
<1>6. ASSUME NEW path \in Paths, Undelete(path) PROVE SoundInv'
  BY <1>6, SoundUndelete
<1>7. ASSUME NEW path \in Paths, Delete(path) PROVE SoundInv'
  BY <1>7, SoundWhileHidden
<1>8. CASE WriteFat(FALSE) \/ WriteFat(TRUE)
  BY <1>8, SoundWhileHidden
<1>9. CASE FreeCluster \/ Start \/ UNCHANGED vars
  BY <1>9, SoundWhileHidden
<1>10. CASE Command
  BY <1>1, <1>3, <1>6, <1>7, <1>8, <1>10 DEF Command, Umount, Quit
<1>11. CASE Progress
  BY <1>4, <1>5, <1>9, <1>11 DEF Progress
<1> QED
  BY <1>2, <1>9, <1>10, <1>11 DEF Next

-----------------------------------------------------------------------------
(* The theorems *)

\* What the invariant rests on, and the invariant.
Supported == /\ WritersHaveWriteAccess /\ DirectoriesStay /\ KnowsItsEntry
             /\ CopiesWritten /\ SoundInv

LEMMA SupportedAlways ==
  ASSUME IntactVolumes, OneClusterDirectories, PathsNameEntries
  PROVE  Spec => []Supported
<1>1. Init => Supported
  BY SoundStart, DirectoriesStart
  DEF Supported, Init, WritersHaveWriteAccess, KnowsItsEntry, CopiesWritten
<1>2. TypeOK /\ DeleteFreesItsChain /\ Supported /\ [Next]_vars => Supported'
  BY WritersStay, DirectoriesStayStep, KnowsStep, CopiesStay, SoundStep
  DEF Supported
<1> QED
  BY <1>1, <1>2, TypeCorrect, DeleteFrees, PTL DEF Spec

\* Deleting and undeleting keep the volume in memory sound between commands,
\* whatever was undone, unmounted or stopped before, outside the two windows.
THEOREM MemorySound ==
  ASSUME IntactVolumes, OneClusterDirectories, PathsNameEntries
  PROVE  Spec => []MemoryStaysSound
<1>1. TypeOK /\ Supported => MemoryStaysSound
  <2> SUFFICES ASSUME TypeOK, Supported, fd # "none", proc = "ready", ~exposed
               PROVE  Sound(table, root)
    BY DEF MemoryStaysSound
  <2>1. Apart(table, Contents(root, data)) /\ Whole(table, Contents(root, data))
    BY DEF Supported, SoundInv, ApartInMemory, WholeInMemory, Effective, Memory
  <2>2. \A d \in Subdirectories(root) : Link(table[d]) = 0
    BY DEF Supported, DirectoriesStay
  <2> QED
    BY <2>1, <2>2, ApartIsSound DEF TypeOK
<1> QED
  BY <1>1, SupportedAlways, TypeCorrect, PTL

\* The next mount finds a sound volume on the device, outside the two windows.
THEOREM DeviceSound ==
  ASSUME IntactVolumes, OneClusterDirectories, PathsNameEntries
  PROVE  Spec => []DeviceStaysSound
<1>1. TypeOK /\ Supported => DeviceStaysSound
  <2> SUFFICES ASSUME TypeOK, Supported, ~exposed, ~revived,
                      proc = "writefat" => copy = 0
               PROVE  Sound(fat[1], rootRegion)
    BY DEF DeviceStaysSound
  <2>1. /\ Apart(fat[1], Contents(rootRegion, data))
        /\ Whole(fat[1], Contents(rootRegion, data))
    BY DEF Supported, SoundInv, ApartOnDevice, WholeOnDevice, Device
  <2>2. \A d \in Subdirectories(rootRegion) : Link(fat[1][d]) = 0
    BY VolumeAssumption DEF Supported, DirectoriesStay
  <2> QED
    BY <2>1, <2>2, ApartIsSound DEF TypeOK
<1> QED
  BY <1>1, SupportedAlways, TypeCorrect, PTL
=============================================================================
