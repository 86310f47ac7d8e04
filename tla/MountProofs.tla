---------------------------- MODULE MountProofs ----------------------------
(***************************************************************************)
(* Proofs about a mounted device, by its places (Layout) and as the one    *)
(* the interpreter has open (Shell).  Those about Layout are for devices,  *)
(* tables and directories of every size and any number of failing writes,  *)
(* on volumes such that RegularVolumes; those about Shell for any devices  *)
(* and any bound on descriptors.                                           *)
(***************************************************************************)
EXTENDS Layout, Shell, FiniteSetTheorems, TLAPS


-----------------------------------------------------------------------------
(* Places on the volume *)

\* Where the root directory begins.
RootStart == IF boot.type = 1 THEN BehindTables ELSE DataAt + Far(boot.root[1])

LEMMA Products ==
  ASSUME NEW a \in Nat, NEW b \in Nat, NEW s \in Nat, a <= b
  PROVE  a * s \in Nat /\ a * s <= b * s
  OBVIOUS

\* The remainder of what lies in the copy behind c others.
LEMMA Remainder ==
  ASSUME NEW s \in Nat, NEW c \in Nat, NEW j \in 0..(s - 1)
  PROVE  (c * s + j) % s = j
<1> DEFINE x == c * s + j
           q == x \div s
           r == x % s
<1>1. s > 0 /\ x \in Nat
  OBVIOUS
<1>2. q \in Int /\ r \in 0..(s - 1) /\ x = q * s + r
  BY <1>1
<1>3. (c - q) * s = r - j
  BY <1>1, <1>2
<1> HIDE DEF x, q, r
<1>4. c = q
  <2>1. CASE c - q >= 1
    <3>1. (c - q) * s >= s
      BY <1>1, <1>2, <2>1
    <3> QED
      BY <1>2, <1>3, <3>1
  <2>2. CASE c - q <= -1
    <3>1. (c - q) * s <= -s
      BY <1>1, <1>2, <2>2
    <3> QED
      BY <1>2, <1>3, <3>1
  <2> QED
    BY <1>2, <2>1, <2>2
<1> QED
  BY <1>2, <1>3, <1>4 DEF x, r

\* What a boot sector holds.
LEMMA BootTyped ==
  ASSUME boot \in Boots
  PROVE  /\ boot.type \in {1, 2} /\ boot.total_sectors_16 \in {0, 1}
         /\ boot.reserved_sector_count \in Nat /\ boot.table_count \in Nat \ {0}
         /\ boot.table_size \in Nat /\ boot.root_entry_count \in Nat
         /\ boot.root \in Seq(Nat \ {0, 1}) /\ boot.dirs \subseteq Nat \ {0, 1}
         /\ boot.type = 2 => boot.total_sectors_16 = 0 /\ boot.root_entry_count = 0
<1>1. boot \in Boot
  BY LayoutAssumption
<1> QED
  BY <1>1, LayoutAssumption DEF Boot

LEMMA WordsTyped ==
  /\ EntryWords \in Nat \ {0} /\ ClusterEntries \in Nat \ {0}
  /\ ClusterWords \in Nat \ {0} /\ Wrap \in Nat \ {0} /\ Size \in Nat
<1>1. /\ EntryWords \in Nat \ {0} /\ ClusterEntries \in Nat \ {0}
      /\ Wrap \in Nat \ {0} /\ Size \in Nat
  BY LayoutAssumption
<1>2. ClusterEntries * EntryWords \in Nat \ {0}
  BY <1>1
<1> QED
  BY <1>1, <1>2 DEF ClusterWords

\* A copy of the table lies behind the one before it.
LEMMA CopiesInARow ==
  ASSUME boot \in Boots
  PROVE  /\ TableAt(1) = boot.reserved_sector_count
         /\ BehindTables = TableAt(boot.table_count + 1)
         /\ \A i \in Nat \ {0} : TableAt(i) \in Nat
         /\ \A i \in Nat \ {0} : TableAt(i + 1) = TableAt(i) + boot.table_size
         /\ \A i, j \in Nat \ {0} : i <= j => TableAt(i) <= TableAt(j)
<1> DEFINE R == boot.reserved_sector_count
           S == boot.table_size
<1>1. R \in Nat /\ S \in Nat
  BY BootTyped
<1> HIDE DEF R, S
<1>2. \A i : TableAt(i) = R + (i - 1) * S
  BY DEF TableAt, R, S
<1>3. TableAt(1) = R
  BY <1>1, <1>2
<1>4. ASSUME NEW i \in Nat \ {0} PROVE TableAt(i) \in Nat
  <2>1. i - 1 \in Nat
    OBVIOUS
  <2>2. (i - 1) * S \in Nat
    BY <1>1, <2>1, Products
  <2> QED
    BY <1>1, <1>2, <2>2
<1>5. ASSUME NEW i \in Nat \ {0} PROVE TableAt(i + 1) = TableAt(i) + S
  <2>1. TableAt(i + 1) = R + ((i + 1) - 1) * S /\ TableAt(i) = R + (i - 1) * S
    BY <1>2
  <2>2. ((i + 1) - 1) * S = (i - 1) * S + S
    BY <1>1
  <2>3. (i - 1) * S \in Int
    BY <1>1
  <2> QED
    BY <1>1, <2>1, <2>2, <2>3
<1>6. ASSUME NEW i \in Nat \ {0}, NEW j \in Nat \ {0}, i <= j
      PROVE  TableAt(i) <= TableAt(j)
  <2>1. i - 1 \in Nat /\ j - 1 \in Nat /\ i - 1 <= j - 1
    BY <1>6
  <2>2. /\ (i - 1) * S \in Nat /\ (j - 1) * S \in Nat
        /\ (i - 1) * S <= (j - 1) * S
    BY <1>1, <2>1, Products
  <2> QED
    BY <1>1, <1>2, <2>2
<1> QED
  BY <1>3, <1>4, <1>5, <1>6 DEF BehindTables, R, S

\* The word of the table that a place in one of its copies is for.
LEMMA PlaceInCopy ==
  ASSUME boot \in Boots, NEW i \in 1..boot.table_count,
         NEW p \in TableAt(i)..(TableAt(i + 1) - 1)
  PROVE  /\ p - TableAt(i) \in 0..(boot.table_size - 1)
         /\ p - boot.reserved_sector_count \in
              0..(boot.table_count * boot.table_size - 1)
         /\ (p - boot.reserved_sector_count) % boot.table_size = p - TableAt(i)
<1> DEFINE R == boot.reserved_sector_count
           S == boot.table_size
           T == boot.table_count
           j == p - TableAt(i)
<1>1. R \in Nat /\ S \in Nat /\ T \in Nat \ {0} /\ i \in Nat \ {0} /\ i <= T
  BY BootTyped
<1>2. /\ TableAt(i) \in Nat /\ TableAt(i + 1) = TableAt(i) + S
      /\ TableAt(i + 1) <= TableAt(T + 1) /\ TableAt(T + 1) \in Nat
  BY <1>1, CopiesInARow
<1>3. p \in Int /\ j \in 0..(S - 1) /\ p = TableAt(i) + j
  BY <1>1, <1>2
<1>4. TableAt(i) = R + (i - 1) * S /\ TableAt(T + 1) = R + ((T + 1) - 1) * S
  BY DEF TableAt
<1>5. (i - 1) * S \in Nat /\ T * S \in Nat /\ (T + 1) - 1 = T /\ i - 1 \in Nat
  BY <1>1, Products
<1> HIDE DEF R, S, T, j
<1>6. p - R = (i - 1) * S + j
  BY <1>1, <1>3, <1>4, <1>5
<1>7. (p - R) % S = j
  BY <1>1, <1>3, <1>5, <1>6, Remainder
<1>8. p - R \in 0..(T * S - 1)
  BY <1>1, <1>2, <1>3, <1>4, <1>5, <1>6
<1> QED
  BY <1>3, <1>7, <1>8 DEF R, S, T, j

\* The tables, the root directory and the clusters on a regular volume.
Front == boot.reserved_sector_count

Laid ==
  /\ boot.type \in {1, 2} /\ boot.table_size \in Nat /\ boot.table_count \in Nat \ {0}
  /\ Front \in Nat /\ BehindTables \in Nat /\ DataAt \in Nat
  /\ RootStart \in Nat /\ RootWords \in Nat
  /\ Front <= BehindTables /\ BehindTables <= DataAt /\ BehindTables <= RootStart
  /\ RootStart + RootWords <= Size
  /\ SkipTables = BehindTables
  /\ boot.type = 1 => /\ RootWords = boot.root_entry_count * EntryWords
                      /\ RootStart = BehindTables /\ RootStart + RootWords = DataAt
  /\ boot.type = 2 => /\ DataAt = BehindTables /\ DataAt <= RootStart
                      /\ RootWords = ClusterWords
                      /\ RootStart = DataAt + Far(boot.root[1])
                      /\ Far(boot.root[1]) \in Nat
                      /\ Far(boot.root[1]) % Wrap = Far(boot.root[1])
  /\ FATN = 1 => boot.type = 1
  /\ boot.type = 2 => FATN = 2

LEMMA Geometry ==
  ASSUME boot \in Boots, Regular(boot)
  PROVE  /\ Laid
         /\ \A k \in 0..(RootWords - 1) : RootAt(k) = RootStart + k
         /\ RootEnd = RootStart + RootWords
<1> DEFINE R == boot.reserved_sector_count
           TS == boot.table_count * boot.table_size
           W == boot.root_entry_count * EntryWords
           r == boot.root[1]
<1>1. /\ R \in Nat /\ TS \in Nat /\ W \in Nat /\ boot.type \in {1, 2}
      /\ boot.type = 2 => boot.root_entry_count = 0
  <2>1. /\ R \in Nat /\ boot.table_count \in Nat /\ boot.table_size \in Nat
        /\ boot.root_entry_count \in Nat /\ boot.type \in {1, 2}
        /\ boot.type = 2 => boot.root_entry_count = 0
    BY BootTyped
  <2>2. TS \in Nat /\ W \in Nat
    BY <2>1, Products, WordsTyped
  <2> QED
    BY <2>1, <2>2
<1>2. BehindTables = R + TS
  <2>1. (boot.table_count + 1) - 1 = boot.table_count
    BY BootTyped
  <2> QED
    BY <2>1 DEF BehindTables, TableAt
<1>0. /\ boot.table_size \in Nat /\ boot.table_count \in Nat \ {0}
      /\ SkipTables = BehindTables
      /\ FATN = 1 => boot.type = 1
  <2>1. boot.table_size \in Nat /\ boot.table_count \in Nat \ {0}
    BY BootTyped
  <2>2. boot.table_count >= 2
    BY DEF Regular
  <2>3. (IF boot.table_count > 2 THEN boot.table_count ELSE 2) = boot.table_count
    BY <2>1, <2>2
  <2>4. SkipTables = BehindTables
    BY <1>2, <2>3 DEF SkipTables
  <2>5. FATN = 1 => boot.type = 1
    BY BootTyped DEF FATN
  <2> QED
    BY <2>1, <2>4, <2>5
<1>3. CASE boot.type = 1
  <2>1. DataAt = R + TS + W /\ RootWords = W /\ RootStart = R + TS
    BY <1>2, <1>3 DEF DataAt, RootWords, RootStart
  <2>2. R + TS + W <= Size
    BY <1>3 DEF Regular
  <2>3. \A k : RootAt(k) = R + TS + k
    BY <1>2, <1>3 DEF RootAt
  <2> HIDE DEF R, TS, W
  <2>4. RootEnd = R + TS + (W - 1) + 1
    <3>1. RootAt(W - 1) = R + TS + (W - 1)
      BY <2>3
    <3> QED
      BY <2>1, <3>1 DEF RootEnd
  <2>5. RootEnd = RootStart + RootWords
    BY <1>1, <2>1, <2>4
  <2>6. \A k \in 0..(RootWords - 1) : RootAt(k) = RootStart + k
    BY <2>1, <2>3
  <2>7. R <= BehindTables /\ RootStart + RootWords = DataAt /\ DataAt \in Nat
    BY <1>1, <1>2, <2>1
  <2> QED
    BY <1>0, <1>1, <1>2, <1>3, <2>1, <2>2, <2>5, <2>6, <2>7 DEF Laid, Front, R, W
<1>4. CASE boot.type = 2
  <2>1. /\ DataAt = R + TS /\ RootStart = R + TS + Far(r)
    BY <1>1, <1>2, <1>4 DEF DataAt, RootStart
  <2>2. /\ Len(boot.root) = 1 /\ Far(r) < Wrap
        /\ R + TS + Far(r) + ClusterWords <= Size
    BY <1>4 DEF Regular
  <2>3. r \in Nat \ {0, 1}
    BY <2>2, BootTyped
  <2>4. Far(r) \in Nat
    <3>1. r - 2 \in Nat
      BY <2>3
    <3> QED
      BY <3>1, Products, WordsTyped DEF Far
  <2>5. Far(r) % Wrap = Far(r)
    BY <2>2, <2>4, WordsTyped
  <2>6. RootWords = ClusterWords
    BY <1>4, <2>2, WordsTyped DEF RootWords
  <2>7. ASSUME NEW k \in 0..(ClusterWords - 1)
        PROVE  RootAt(k) = R + TS + Far(r) + k
    <3>1. k \div ClusterWords = 0 /\ k % ClusterWords = k
      BY WordsTyped
    <3>2. RootAt(k) = R + TS + (boot.root[0 + 1] - 2) * ClusterWords + k
      BY <1>4, <2>1, <3>1 DEF RootAt
    <3> QED
      BY <3>2 DEF Far
  <2>8. RootEnd = R + TS + Far(r) + (ClusterWords - 1) + 1
    BY <2>6, <2>7, WordsTyped DEF RootEnd
  <2>9. FATN = 2
    BY <1>4, BootTyped DEF FATN
  <2> HIDE DEF TS, W
  <2>10. /\ DataAt \in Nat /\ RootStart \in Nat /\ R <= BehindTables
         /\ BehindTables <= RootStart /\ DataAt <= RootStart
         /\ RootStart + RootWords <= Size /\ RootWords \in Nat
         /\ RootEnd = RootStart + RootWords
         /\ \A k \in 0..(RootWords - 1) : RootAt(k) = RootStart + k
    BY <1>1, <1>2, <2>1, <2>2, <2>4, <2>6, <2>7, <2>8, WordsTyped
  <2> QED
    BY <1>0, <1>1, <1>2, <1>4, <2>1, <2>4, <2>5, <2>6, <2>9, <2>10 DEF Laid, Front
<1> QED
  BY <1>1, <1>3, <1>4
-----------------------------------------------------------------------------
(* What mount and umount keep *)

\* The place in the table that follows copy copies, as the device holds them
\* when no write has failed.
Reached == TableAt(copy + 1)

Same(p)   == device[p] = intended[p]
InRoot(p) == RootStart <= p /\ p < RootStart + RootWords

AreFunctions ==
  /\ device = [p \in Places |-> device[p]]
  /\ intended = [p \in Places |-> intended[p]]

\* The table in memory is what every copy of it should hold.
TableInMemory ==
  step \in {"read", "open", "write"} =>
    /\ FATN = boot.type /\ data_offset = DataAt
    /\ DOMAIN table = 0..(boot.table_size - 1)
    /\ DOMAIN root_dir = 0..(RootWords - 1)
    /\ \A p \in Places :
         (Front <= p /\ p < BehindTables) =>
           intended[p] = table[(p - Front) % boot.table_size]

\* And so is the root directory.
RootInMemory ==
  step \in {"open", "write"} =>
    \A k \in 0..(RootWords - 1) : root_dir[k] = intended[RootStart + k]

\* The loops over the root directory start at its front, once.
LoopsStand ==
  /\ step = "read" =>
       boot.type = 2 /\ entries = 0 /\ index = 0 /\ cluster = boot.root[1] /\ pos = DataAt
  /\ step = "write" =>
       index = 0 /\ cluster = IF boot.type = 2 THEN boot.root[1] ELSE 0
  /\ step \in {"open", "write"} => entries \in Nat /\ entries * EntryWords = RootWords

\* Nothing is amiss in front of the tables, ever; behind the root directory,
\* unless a directory was too far; between the two and behind, unless a write
\* has failed besides.
SameInFront == \A p \in Places : p < Front => Same(p)
SameBehind ==
  "far" \notin amiss => \A p \in Places : p >= RootStart + RootWords => Same(p)
SameAround ==
  amiss = {} => \A p \in Places : (p >= BehindTables /\ ~InRoot(p)) => Same(p)
SameWhenRead ==
  step = "read" => amiss = {} /\ \A p \in Places : p >= BehindTables => Same(p)

\* umount is never further than the copies it has come to the end of, and has
\* written those unless a write has failed.
Written ==
  step = "write" =>
    /\ Front <= pos /\ pos <= Reached
    /\ "cut" \notin amiss => pos = Reached /\ \A p \in Places : p < Reached => Same(p)
SameWhenClosed ==
  (step = "closed" /\ "cut" \notin amiss) =>
    /\ \A p \in Places : p < DataAt => Same(p)
    /\ amiss = {} => \A p \in Places : Same(p)

IInv == /\ TypeOK /\ AreFunctions /\ TableInMemory /\ RootInMemory /\ LoopsStand
        /\ SameInFront /\ SameBehind /\ SameAround /\ SameWhenRead
        /\ Written /\ SameWhenClosed

LEMMA Ground ==
  ASSUME IInv, RegularVolumes
  PROVE  Laid /\ boot \in Boots /\ Regular(boot)
<1>1. boot \in Boots /\ Regular(boot)
  BY DEF IInv, TypeOK, RegularVolumes
<1> QED
  BY <1>1, Geometry

\* Nothing moves on the volume.
LEMMA NothingMoves ==
  ASSUME boot' = boot
  PROVE  /\ BehindTables' = BehindTables /\ DataAt' = DataAt
         /\ RootStart' = RootStart /\ RootWords' = RootWords
         /\ Front' = Front /\ FATN' = FATN
         /\ copy' = copy => Reached' = Reached
  BY DEF BehindTables, DataAt, RootStart, RootWords, Front, FATN, TableAt, Far, Reached

\* What write_fat has come to the end of.
LEMMA CopiesReached ==
  ASSUME boot \in Boots, copy \in 0..boot.table_count
  PROVE  /\ Reached \in Nat /\ Front <= Reached /\ Reached <= BehindTables
         /\ copy = 0 => Reached = Front
         /\ copy = boot.table_count => Reached = BehindTables
         /\ copy < boot.table_count =>
              /\ Reached + boot.table_size <= BehindTables
              /\ \A p \in Reached..(Reached + boot.table_size - 1) :
                   /\ p - Reached \in 0..(boot.table_size - 1)
                   /\ (p - Front) % boot.table_size = p - Reached
<1> DEFINE T == boot.table_count
<1>1. T \in Nat \ {0} /\ copy \in Nat /\ boot.table_size \in Nat
  BY BootTyped
<1>2. TableAt(1) = Front /\ BehindTables = TableAt(T + 1)
  BY CopiesInARow DEF Front
<1>3. /\ 1 \in Nat \ {0} /\ copy + 1 \in Nat \ {0} /\ T + 1 \in Nat \ {0}
      /\ 1 <= copy + 1 /\ copy + 1 <= T + 1
  BY <1>1
<1>4. Reached \in Nat /\ Front <= Reached /\ Reached <= BehindTables
  BY <1>2, <1>3, CopiesInARow DEF Reached
<1>5. ASSUME copy < T
      PROVE  /\ Reached + boot.table_size <= BehindTables
             /\ \A p \in Reached..(Reached + boot.table_size - 1) :
                  /\ p - Reached \in 0..(boot.table_size - 1)
                  /\ (p - Front) % boot.table_size = p - Reached
  <2>1. /\ copy + 1 \in 1..boot.table_count
        /\ (copy + 1) + 1 \in Nat \ {0} /\ (copy + 1) + 1 <= T + 1
    BY <1>1, <1>5
  <2>2. TableAt((copy + 1) + 1) = Reached + boot.table_size
    BY <1>3, CopiesInARow DEF Reached
  <2>3. TableAt((copy + 1) + 1) <= BehindTables
    BY <1>2, <1>3, <2>1, CopiesInARow
  <2>4. ASSUME NEW p \in Reached..(Reached + boot.table_size - 1)
        PROVE  /\ p - Reached \in 0..(boot.table_size - 1)
               /\ (p - Front) % boot.table_size = p - Reached
    <3>1. p \in TableAt(copy + 1)..(TableAt((copy + 1) + 1) - 1)
      BY <1>1, <1>4, <2>2 DEF Reached
    <3> QED
      BY <2>1, <3>1, PlaceInCopy DEF Reached, Front
  <2> QED
    BY <2>2, <2>3, <2>4
<1> QED
  BY <1>2, <1>4, <1>5 DEF Reached

LEMMA NextCopy ==
  ASSUME boot \in Boots, copy \in 0..boot.table_count, boot' = boot, copy' = copy + 1
  PROVE  Reached' = Reached + boot.table_size
<1>1. copy + 1 \in Nat \ {0}
  BY BootTyped
<1>2. TableAt((copy + 1) + 1) = TableAt(copy + 1) + boot.table_size
  BY <1>1, CopiesInARow
<1>3. Reached' = TableAt((copy + 1) + 1)
  BY DEF Reached, TableAt
<1> QED
  BY <1>2, <1>3 DEF Reached

\* A write changes the n words it writes.
Changes(new, dev, to, words, n) ==
  /\ new = [p \in Places |-> new[p]]
  /\ \A p \in Places : (p < to \/ to + n <= p) => new[p] = dev[p]
  /\ \A p \in Places :
       (to <= p /\ p < to + n /\ p - to \in DOMAIN words) => new[p] = words[p - to]

LEMMA WriteChanges ==
  ASSUME NEW dev, NEW words, NEW to \in Nat, NEW n \in Nat
  PROVE  Changes(Write(dev, to, words, 0, n), dev, to, words, n)
<1> DEFINE new == Write(dev, to, words, 0, n)
<1>1. \A p \in Places : p \in Int
  BY WordsTyped DEF Places
<1>2. new = [p \in Places |->
               IF p \in to..(to + n - 1)
               THEN IF 0 + p - to \in DOMAIN words THEN words[0 + p - to] ELSE Wild
               ELSE dev[p]]
  BY DEF Write
<1>3. \A p \in Places : 0 + p - to = p - to
  BY <1>1
<1> HIDE DEF new
<1>4. Changes(new, dev, to, words, n)
  BY <1>1, <1>2, <1>3 DEF Changes
<1> QED
  BY <1>4 DEF new

\* A table in all its copies changes nothing else.
LEMMA CopiesHold ==
  ASSUME boot \in Boots, Laid, NEW dev, NEW t, NEW new, new = AllCopies(dev, t)
  PROVE  /\ new = [p \in Places |-> new[p]]
         /\ \A p \in Places : (p < Front \/ BehindTables <= p) => new[p] = dev[p]
         /\ \A p \in Places :
              (Front <= p /\ p < BehindTables) =>
                new[p] = t[(p - Front) % boot.table_size]
<1> DEFINE TS == boot.table_count * boot.table_size
<1>1. \A p \in Places : p \in Int
  BY WordsTyped DEF Places
<1>2. new = [p \in Places |->
               IF p - Front \in 0..(TS - 1)
               THEN t[(p - Front) % boot.table_size] ELSE dev[p]]
  BY DEF AllCopies, Front
<1>3. BehindTables = Front + TS /\ TS \in Nat /\ Front \in Nat
  <2>1. boot.table_count \in Nat /\ boot.table_size \in Nat /\ Front \in Nat
    BY DEF Laid
  <2>2. (boot.table_count + 1) - 1 = boot.table_count
    BY <2>1
  <2> QED
    BY <2>1, <2>2, Products DEF BehindTables, TableAt, Front
<1> HIDE DEF TS
<1> QED
  BY <1>1, <1>2, <1>3

\* The root directory of FAT32 is no longer than its cluster.
LEMMA LastCluster ==
  ASSUME boot \in Boots, Regular(boot), boot.type = 2
  PROVE  next_cluster(boot.root[1]) = 0
<1>1. Len(boot.root) = 1
  BY DEF Regular
<1>2. 2..Len(boot.root) = {}
  BY <1>1
<1> QED
  BY <1>2 DEF next_cluster
-----------------------------------------------------------------------------
(* Types *)

LEMMA TypeInitially == ASSUME RegularVolumes PROVE Init => TypeOK
<1> SUFFICES ASSUME Init PROVE TypeOK
  OBVIOUS
<1>1. boot \in Boots /\ Regular(boot)
  BY DEF Init, RegularVolumes
<1>2. RootWords \in Nat /\ boot.table_count \in Nat
  BY <1>1, Geometry DEF Laid
<1>3. Len(boot.root) * ClusterWords \in Nat
  <2>1. Len(boot.root) \in Nat
    BY <1>1, BootTyped
  <2> QED
    BY <2>1, WordsTyped, Products
<1>4. entries * EntryWords = 0
  BY WordsTyped DEF Init
<1> QED
  BY <1>1, <1>2, <1>3, <1>4, LayoutAssumption DEF Init, TypeOK

\* The loop over the root directory ends with its first cluster.
LEMMA FollowTyped ==
  ASSUME IInv, RegularVolumes, boot.type = 2, index = 0, cluster = boot.root[1],
         NEW next, NEW n \in Nat, Follow(next, n), boot' = boot
  PROVE  /\ cluster' = 0 /\ index' = ClusterWords /\ step' = next
         /\ pos' \in Nat /\ Seek \in Nat /\ Seek = pos + Far(boot.root[1])
         /\ pos' = Seek + n /\ entries' = entries + ClusterEntries
         /\ Len(boot.root) * ClusterWords = ClusterWords
<1>1. Laid /\ boot \in Boots /\ Regular(boot) /\ pos \in Nat
  BY Ground DEF IInv, TypeOK
<1>2. cluster' = 0 /\ step' = next
  BY <1>1, LastCluster DEF Follow
<1>3. Seek = pos + Far(boot.root[1]) /\ Seek \in Nat
  BY <1>1 DEF Seek, Laid
<1>4. Len(boot.root) = 1
  BY <1>1 DEF Regular
<1>5. Len(boot.root) * ClusterWords = ClusterWords /\ index' = ClusterWords
  BY <1>4, WordsTyped DEF Follow
<1> QED
  BY <1>2, <1>3, <1>5 DEF Follow

\* What stays where the step changes only the rest.
LEMMA TypeStays ==
  ASSUME TypeOK, boot' = boot, DOMAIN device' = Places, DOMAIN intended' = Places,
         step' \in {"closed", "read", "open", "write", "lost"},
         pos' \in Nat, data_offset' \in Nat,
         entries' * EntryWords \in 0..(2 * RootWords),
         cluster' = 0 \/ \E k \in DOMAIN boot.root : boot.root[k] = cluster',
         index' \in 0..(Len(boot.root) * ClusterWords),
         copy' \in 0..boot.table_count,
         amiss' \subseteq {"cut", "far"}, failures' \in 0..MaxFailures
  PROVE  TypeOK'
<1>1. RootWords' = RootWords
  BY NothingMoves
<1> QED
  BY <1>1 DEF TypeOK

\* A write stays within the bound on those that fail.
LEMMA WritesTyped ==
  ASSUME TypeOK, NEW n \in Nat, NEW full \in Nat, NEW others \in SUBSET {"far"},
         Writes(n, full, others)
  PROVE  /\ amiss' \subseteq {"cut", "far"} /\ failures' \in 0..MaxFailures
         /\ amiss \subseteq amiss' /\ others \subseteq amiss'
         /\ "cut" \notin amiss' => n >= full
         /\ amiss' = {} => amiss = {} /\ others = {}
<1>1. /\ amiss' = amiss \cup others \cup (IF n < full THEN {"cut"} ELSE {})
      /\ amiss \subseteq {"cut", "far"}
  BY DEF Writes, TypeOK
<1>2. failures' \in 0..MaxFailures
  <2>1. failures \in 0..MaxFailures /\ MaxFailures \in Nat
    BY LayoutAssumption DEF TypeOK
  <2>2. CASE n < full
    BY <2>1, <2>2 DEF Writes
  <2>3. CASE ~(n < full)
    BY <2>1, <2>3 DEF Writes
  <2> QED
    BY <2>2, <2>3
<1>3. "cut" \notin amiss' => n >= full
  BY <1>1
<1> QED
  BY <1>1, <1>2, <1>3
-----------------------------------------------------------------------------
(* mount *)

LEMMA Initially == ASSUME RegularVolumes PROVE Init => IInv
<1> SUFFICES ASSUME Init PROVE IInv
  OBVIOUS
<1>1. /\ device = [p \in Places |-> p] /\ intended = device /\ step = "closed"
      /\ amiss = {}
  BY DEF Init
<1>2. AreFunctions /\ \A p \in Places : Same(p)
  BY <1>1 DEF AreFunctions, Same
<1>3. TableInMemory /\ RootInMemory /\ LoopsStand /\ SameWhenRead /\ Written
  BY <1>1 DEF TableInMemory, RootInMemory, LoopsStand, SameWhenRead, Written
<1>4. SameInFront /\ SameBehind /\ SameAround /\ SameWhenClosed
  BY <1>2 DEF SameInFront, SameBehind, SameAround, SameWhenClosed
<1> QED
  BY <1>2, <1>3, <1>4, TypeInitially DEF IInv

\* What either of the two functions makes of the tables.
LEMMA MountedHolds ==
  ASSUME IInv, RegularVolumes, Mounted
  PROVE  /\ AreFunctions' /\ SameInFront' /\ SameBehind' /\ SameAround'
         /\ \A p \in Places : p >= BehindTables => device'[p] = intended'[p]
         /\ DOMAIN table' = 0..(boot.table_size - 1)
         /\ \A p \in Places :
              (Front <= p /\ p < BehindTables) =>
                intended'[p] = table'[(p - Front) % boot.table_size]
<1>1. Laid /\ boot \in Boots
  BY Ground
<1>2. boot' = boot /\ device' = device /\ intended' = AllCopies(device, table')
  BY DEF Mounted
<1>3. /\ intended' = [p \in Places |-> intended'[p]]
      /\ \A p \in Places : (p < Front \/ BehindTables <= p) => intended'[p] = device[p]
      /\ \A p \in Places :
           (Front <= p /\ p < BehindTables) =>
             intended'[p] = table'[(p - Front) % boot.table_size]
  BY <1>1, <1>2, CopiesHold
<1>4. AreFunctions'
  BY <1>2, <1>3 DEF IInv, AreFunctions
<1>5. /\ BehindTables' = BehindTables /\ RootStart' = RootStart
      /\ RootWords' = RootWords /\ Front' = Front
  BY <1>2, NothingMoves
<1>6. \A p \in Places : p \in Int
  BY WordsTyped DEF Places
<1>7. SameInFront'
  BY <1>2, <1>3, <1>5 DEF SameInFront, Same
<1>8. \A p \in Places : p >= BehindTables => device'[p] = intended'[p]
  BY <1>1, <1>2, <1>3, <1>6 DEF Laid
<1>9. SameBehind' /\ SameAround'
  BY <1>1, <1>5, <1>6, <1>8 DEF SameBehind, SameAround, Same, Laid
<1>10. DOMAIN table' = 0..(boot.table_size - 1)
  BY DEF Mounted, Read
<1> QED
  BY <1>3, <1>4, <1>7, <1>8, <1>9, <1>10

LEMMA Mounted16 ==
  ASSUME IInv, RegularVolumes, init_fat_16
  PROVE  IInv'
<1>1. Laid /\ boot \in Boots /\ boot.type = 1 /\ Mounted /\ boot' = boot
  BY Ground DEF init_fat_16, Mounted, Laid
<1>2. /\ BehindTables' = BehindTables /\ DataAt' = DataAt /\ RootStart' = RootStart
      /\ RootWords' = RootWords /\ Front' = Front /\ FATN' = FATN
  BY <1>1, NothingMoves
<1>3. /\ root_dir' = Read(BehindTables, RootWords)
      /\ pos' = BehindTables + RootWords /\ pos' = DataAt /\ data_offset' = DataAt
      /\ entries' * EntryWords = RootWords /\ entries' \in Nat
      /\ step' = "open" /\ amiss' = {}
      /\ UNCHANGED <<boot, device, copy, failures, cluster, index>>
  BY <1>1, BootTyped DEF init_fat_16, Mounted, Laid
<1>4. TypeOK'
  <2>1. DOMAIN device' = Places /\ DOMAIN intended' = Places
    BY <1>1, MountedHolds DEF AreFunctions
  <2>2. RootWords \in Nat /\ DataAt \in Nat
    BY <1>1 DEF Laid
  <2>3. entries' * EntryWords \in 0..(2 * RootWords)
    BY <1>3, <2>2
  <2>4. TypeOK
    BY DEF IInv
  <2>5. /\ cluster' = 0 \/ \E k \in DOMAIN boot.root : boot.root[k] = cluster'
        /\ index' \in 0..(Len(boot.root) * ClusterWords)
        /\ copy' \in 0..boot.table_count
        /\ amiss' \subseteq {"cut", "far"} /\ failures' \in 0..MaxFailures
    BY <1>3, <2>4 DEF TypeOK
  <2> QED
    BY <1>3, <2>1, <2>2, <2>3, <2>4, <2>5, TypeStays
<1>5. TableInMemory'
  <2>1. DOMAIN root_dir' = 0..(RootWords - 1)
    BY <1>3 DEF Read
  <2> QED
    BY <1>1, <1>2, <1>3, <2>1, MountedHolds DEF TableInMemory, init_fat_16
<1>6. RootInMemory'
  <2>1. ASSUME NEW k \in 0..(RootWords - 1)
        PROVE  root_dir'[k] = intended'[RootStart + k]
    <3>1. /\ RootStart = BehindTables /\ RootStart + k \in Places
          /\ RootStart + k >= BehindTables
      BY <1>1, WordsTyped DEF Laid, Places
    <3>2. root_dir'[k] = device[RootStart + k]
      BY <1>3, <3>1 DEF Read
    <3> QED
      BY <1>1, <1>3, <3>1, <3>2, MountedHolds
  <2> QED
    BY <1>2, <2>1 DEF RootInMemory
<1>7. LoopsStand' /\ SameWhenRead' /\ Written' /\ SameWhenClosed'
  BY <1>2, <1>3 DEF LoopsStand, SameWhenRead, Written, SameWhenClosed
<1> QED
  BY <1>1, <1>4, <1>5, <1>6, <1>7, MountedHolds DEF IInv

LEMMA Mounted32 ==
  ASSUME IInv, RegularVolumes, init_fat_32
  PROVE  IInv'
<1>1. Laid /\ boot \in Boots /\ boot.type = 2 /\ Mounted /\ boot' = boot
  BY Ground DEF init_fat_32, Mounted
<1>2. /\ BehindTables' = BehindTables /\ DataAt' = DataAt /\ RootStart' = RootStart
      /\ RootWords' = RootWords /\ Front' = Front /\ FATN' = FATN
  BY <1>1, NothingMoves
<1>3. /\ DOMAIN root_dir' = 0..(RootWords - 1)
      /\ pos' = DataAt /\ data_offset' = DataAt
      /\ entries' = 0 /\ cluster' = boot.root[1] /\ index' = 0
      /\ step' = "read" /\ amiss' = {}
      /\ UNCHANGED <<boot, device, copy, failures>>
  BY <1>1, BootTyped DEF init_fat_32, Mounted, Laid
<1>4. TypeOK'
  <2>1. DOMAIN device' = Places /\ DOMAIN intended' = Places
    BY <1>1, MountedHolds DEF AreFunctions
  <2>2. RootWords \in Nat /\ DataAt \in Nat
    BY <1>1 DEF Laid
  <2>3. entries' * EntryWords \in 0..(2 * RootWords)
    BY <1>3, <2>2, WordsTyped
  <2>4. TypeOK
    BY DEF IInv
  <2>5. Len(boot.root) = 1 /\ 1 \in DOMAIN boot.root
    BY <1>1, Ground, BootTyped DEF Regular
  <2>6. /\ \E k \in DOMAIN boot.root : boot.root[k] = cluster'
        /\ index' \in 0..(Len(boot.root) * ClusterWords)
        /\ copy' \in 0..boot.table_count
        /\ amiss' \subseteq {"cut", "far"} /\ failures' \in 0..MaxFailures
    BY <1>3, <2>4, <2>5, WordsTyped DEF TypeOK
  <2> QED
    BY <1>3, <2>1, <2>2, <2>3, <2>4, <2>6, TypeStays
<1>5. TableInMemory'
  BY <1>1, <1>2, <1>3, MountedHolds DEF TableInMemory, Laid
<1>6. RootInMemory' /\ LoopsStand' /\ Written' /\ SameWhenClosed'
  BY <1>1, <1>2, <1>3 DEF RootInMemory, LoopsStand, Written, SameWhenClosed
<1>7. SameWhenRead'
  BY <1>1, <1>2, <1>3, MountedHolds DEF SameWhenRead, Same
<1> QED
  BY <1>1, <1>4, <1>5, <1>6, <1>7, MountedHolds DEF IInv

LEMMA ReadRootHolds ==
  ASSUME IInv, RegularVolumes, ReadRoot
  PROVE  IInv'
<1>1. /\ Laid /\ boot \in Boots /\ Regular(boot)
      /\ step = "read" /\ Follow("open", ClusterWords)
      /\ UNCHANGED <<boot, device, table, data_offset, copy, intended, amiss, failures>>
  BY Ground DEF ReadRoot, history
<1>2. /\ BehindTables' = BehindTables /\ DataAt' = DataAt /\ RootStart' = RootStart
      /\ RootWords' = RootWords /\ Front' = Front /\ FATN' = FATN
  BY <1>1, NothingMoves
<1>3. /\ boot.type = 2 /\ entries = 0 /\ index = 0 /\ cluster = boot.root[1]
      /\ pos = DataAt
  BY <1>1 DEF IInv, LoopsStand
<1>4. /\ cluster' = 0 /\ index' = ClusterWords /\ step' = "open"
      /\ pos' \in Nat /\ Seek = RootStart
      /\ entries' = entries + ClusterEntries
      /\ Len(boot.root) * ClusterWords = ClusterWords
      /\ RootWords = ClusterWords
  BY <1>1, <1>3, FollowTyped, WordsTyped DEF Laid
<1>5. entries' \in Nat /\ entries' * EntryWords = RootWords
  BY <1>3, <1>4, WordsTyped DEF ClusterWords
<1>6. TypeOK'
  <2>1. TypeOK
    BY DEF IInv
  <2>2. entries' * EntryWords \in 0..(2 * RootWords)
    BY <1>1, <1>5 DEF Laid
  <2>3. index' \in 0..(Len(boot.root) * ClusterWords)
    BY <1>4, WordsTyped
  <2> QED
    BY <1>1, <1>4, <2>1, <2>2, <2>3, TypeStays DEF TypeOK
<1>7. DOMAIN root_dir' = DOMAIN root_dir
  BY DEF ReadRoot
<1>8. TableInMemory'
  BY <1>1, <1>2, <1>7 DEF IInv, TableInMemory
<1>9. RootInMemory'
  <2>1. ASSUME NEW k \in 0..(RootWords - 1)
        PROVE  root_dir'[k] = intended'[RootStart + k]
    <3>1. /\ RootStart + k \in Places /\ RootStart + k >= BehindTables
          /\ k \in 0..(ClusterWords - 1)
      BY <1>1, <1>4, WordsTyped DEF Laid, Places
    <3>2. k \in DOMAIN root_dir
      BY <1>1 DEF IInv, TableInMemory
    <3>3. index * EntryWords = 0 /\ k >= 0 /\ k - 0 = k
      BY <1>3, WordsTyped
    <3>4. root_dir'[k] = Read(RootStart, ClusterWords)[k]
      BY <1>4, <3>2, <3>3 DEF ReadRoot
    <3>5. root_dir'[k] = device[RootStart + k]
      BY <3>1, <3>4 DEF Read
    <3>6. device[RootStart + k] = intended[RootStart + k]
      BY <1>1, <3>1 DEF IInv, SameWhenRead, Same
    <3> QED
      BY <1>1, <3>5, <3>6
  <2> QED
    BY <1>2, <2>1 DEF RootInMemory
<1>10. AreFunctions' /\ SameInFront' /\ SameBehind' /\ SameAround'
  BY <1>1, <1>2
  DEF IInv, AreFunctions, SameInFront, SameBehind, SameAround, Same, InRoot
<1>11. LoopsStand' /\ SameWhenRead' /\ Written' /\ SameWhenClosed'
  BY <1>2, <1>4, <1>5 DEF LoopsStand, SameWhenRead, Written, SameWhenClosed
<1> QED
  BY <1>6, <1>8, <1>9, <1>10, <1>11 DEF IInv

\* A step that leaves memory and device alone, and opens nothing.
LEMMA IdleHolds ==
  ASSUME IInv, Mistaken \/ UNCHANGED vars
  PROVE  IInv'
<1>1. UNCHANGED <<boot, device, pos, table, root_dir, entries, data_offset,
                  copy, cluster, index, intended, amiss, failures>>
  BY DEF Mistaken, vars, loop, history
<1>2. /\ BehindTables' = BehindTables /\ DataAt' = DataAt /\ RootStart' = RootStart
      /\ RootWords' = RootWords /\ Front' = Front /\ FATN' = FATN
      /\ Reached' = Reached
  BY <1>1, NothingMoves
<1>3. step' = step \/ step' = "lost"
  BY DEF Mistaken, vars
<1>4. TypeOK'
  BY <1>1, <1>2, <1>3 DEF IInv, TypeOK
<1>5. AreFunctions' /\ SameInFront' /\ SameBehind' /\ SameAround'
  BY <1>1, <1>2
  DEF IInv, AreFunctions, SameInFront, SameBehind, SameAround, Same, InRoot
<1>6. TableInMemory' /\ RootInMemory' /\ LoopsStand'
  BY <1>1, <1>2, <1>3 DEF IInv, TableInMemory, RootInMemory, LoopsStand
<1>7. SameWhenRead' /\ Written' /\ SameWhenClosed'
  BY <1>1, <1>2, <1>3 DEF IInv, SameWhenRead, Written, SameWhenClosed, Same
<1> QED
  BY <1>4, <1>5, <1>6, <1>7 DEF IInv
-----------------------------------------------------------------------------
(* Changes *)

\* Only the step "open" matters to a change.
LEMMA OpenStays ==
  ASSUME IInv, RegularVolumes, step = "open", step' = "open", boot' = boot
  PROVE  /\ SameWhenRead' /\ Written' /\ SameWhenClosed'
         /\ entries' = entries => LoopsStand'
<1>1. RootWords' = RootWords
  BY NothingMoves
<1> QED
  BY <1>1 DEF IInv, SameWhenRead, Written, SameWhenClosed, LoopsStand

LEMMA ChangeTableHolds ==
  ASSUME IInv, RegularVolumes, NEW k \in DOMAIN table, ChangeTable(k)
  PROVE  IInv'
<1>1. /\ Laid /\ boot \in Boots /\ step = "open" /\ step' = "open"
      /\ table' = [table EXCEPT ![k] = Toggle(@)]
      /\ intended' = AllCopies(intended, table')
      /\ UNCHANGED <<boot, device, pos, root_dir, entries, data_offset, copy,
                     cluster, index, amiss, failures>>
  BY Ground DEF ChangeTable, loop
<1>2. /\ BehindTables' = BehindTables /\ DataAt' = DataAt /\ RootStart' = RootStart
      /\ RootWords' = RootWords /\ Front' = Front /\ FATN' = FATN
  BY <1>1, NothingMoves
<1>3. /\ intended' = [p \in Places |-> intended'[p]]
      /\ \A p \in Places : (p < Front \/ BehindTables <= p) => intended'[p] = intended[p]
      /\ \A p \in Places :
           (Front <= p /\ p < BehindTables) =>
             intended'[p] = table'[(p - Front) % boot.table_size]
  <2>1. Laid /\ boot \in Boots /\ intended' = AllCopies(intended, table')
    BY <1>1
  <2> QED
    BY <2>1, CopiesHold
<1>4. \A p \in Places : p \in Int
  BY WordsTyped DEF Places
<1>5. TypeOK'
  <2>1. DOMAIN intended' = Places
    BY <1>3
  <2> QED
    BY <1>1, <1>2, <2>1 DEF IInv, TypeOK
<1>6. AreFunctions' /\ SameInFront'
  BY <1>1, <1>2, <1>3 DEF IInv, AreFunctions, SameInFront, Same
<1>7. SameBehind' /\ SameAround'
  <2>1. \A p \in Places : BehindTables <= p => (Same(p))' = Same(p)
    BY <1>1, <1>3 DEF Same
  <2>2. \A p \in Places : p >= RootStart + RootWords => BehindTables <= p
    BY <1>1, <1>4 DEF Laid
  <2> QED
    BY <1>1, <1>2, <2>1, <2>2 DEF IInv, SameBehind, SameAround, Same, InRoot
<1>8. TableInMemory'
  <2>1. DOMAIN table' = DOMAIN table
    BY <1>1
  <2> QED
    BY <1>1, <1>2, <1>3, <2>1 DEF IInv, TableInMemory
<1>9. RootInMemory'
  <2>1. ASSUME NEW j \in 0..(RootWords - 1)
        PROVE  root_dir'[j] = intended'[RootStart + j]
    <3>1. RootStart + j \in Places /\ RootStart + j >= BehindTables
      BY <1>1, WordsTyped DEF Laid, Places
    <3> QED
      BY <1>1, <1>3, <3>1 DEF IInv, RootInMemory
  <2> QED
    BY <1>2, <2>1 DEF RootInMemory
<1> QED
  BY <1>1, <1>5, <1>6, <1>7, <1>8, <1>9, OpenStays DEF IInv

LEMMA ChangeEntryHolds ==
  ASSUME IInv, RegularVolumes, NEW k \in DOMAIN root_dir, ChangeEntry(k)
  PROVE  IInv'
<1>1. /\ Laid /\ boot \in Boots /\ Regular(boot)
      /\ step = "open" /\ step' = "open"
      /\ UNCHANGED <<boot, device, pos, table, entries, data_offset, copy,
                     cluster, index, amiss, failures>>
  BY Ground DEF ChangeEntry, loop
<1>2. /\ BehindTables' = BehindTables /\ DataAt' = DataAt /\ RootStart' = RootStart
      /\ RootWords' = RootWords /\ Front' = Front /\ FATN' = FATN
  BY <1>1, NothingMoves
<1>3. k \in 0..(RootWords - 1) /\ DOMAIN root_dir' = DOMAIN root_dir
  BY <1>1 DEF IInv, TableInMemory, ChangeEntry
<1>4. /\ RootAt(k) = RootStart + k
      /\ intended' = [intended EXCEPT ![RootStart + k] = root_dir'[k]]
      /\ \A j \in DOMAIN root_dir : j # k => root_dir'[j] = root_dir[j]
  BY <1>1, <1>3, Geometry DEF ChangeEntry
<1>5. \A p \in Places : p \in Int
  BY WordsTyped DEF Places
<1>6. /\ DOMAIN intended = Places
      /\ intended' = [p \in Places |-> intended'[p]]
      /\ \A p \in Places : p # RootStart + k => intended'[p] = intended[p]
      /\ RootStart + k \in Places => intended'[RootStart + k] = root_dir'[k]
  <2>1. DOMAIN intended = Places
    BY DEF IInv, TypeOK
  <2> QED
    BY <1>4, <2>1
<1>7. \A p \in Places : (p < BehindTables \/ ~InRoot(p)) => p # RootStart + k
  BY <1>1, <1>3, <1>5 DEF Laid, InRoot
<1>8. TypeOK'
  BY <1>1, <1>2, <1>6 DEF IInv, TypeOK
<1>9. AreFunctions'
  BY <1>1, <1>6 DEF IInv, AreFunctions
<1>10. \A p \in Places : (p < BehindTables \/ ~InRoot(p)) => (Same(p))' = Same(p)
  BY <1>1, <1>6, <1>7 DEF Same
<1>11. SameInFront' /\ SameBehind' /\ SameAround'
  <2>1. \A p \in Places : p < Front => p < BehindTables
    BY <1>1, <1>5 DEF Laid
  <2>2. \A p \in Places : p >= RootStart + RootWords => ~InRoot(p)
    BY <1>1, <1>5 DEF Laid, InRoot
  <2>3. \A p \in Places : InRoot(p)' = InRoot(p)
    BY <1>2 DEF InRoot
  <2> QED
    BY <1>1, <1>2, <1>10, <2>1, <2>2, <2>3 DEF IInv, SameInFront, SameBehind, SameAround
<1>12. TableInMemory'
  BY <1>1, <1>2, <1>3, <1>6, <1>7 DEF IInv, TableInMemory
<1>13. RootInMemory'
  <2>1. ASSUME NEW j \in 0..(RootWords - 1)
        PROVE  root_dir'[j] = intended'[RootStart + j]
    <3>1. RootStart + j \in Places /\ j \in DOMAIN root_dir
      <4>1. /\ RootStart \in Nat /\ RootWords \in Nat /\ RootStart + RootWords <= Size
            /\ Size \in Nat
        BY <1>1, WordsTyped DEF Laid
      <4>2. DOMAIN root_dir = 0..(RootWords - 1)
        BY <1>1 DEF IInv, TableInMemory
      <4> QED
        BY <4>1, <4>2 DEF Places
    <3>2. CASE j = k
      <4>1. RootStart + k \in Places
        BY <3>1, <3>2
      <4>2. intended'[RootStart + k] = root_dir'[k]
        BY <1>6, <4>1
      <4> QED
        BY Zenon, <3>2, <4>2
    <3>3. CASE j # k
      <4>1. RootStart + j # RootStart + k
        BY <1>1, <1>3, <3>3 DEF Laid
      <4>2. intended'[RootStart + j] = intended[RootStart + j]
        BY <1>6, <3>1, <4>1
      <4>3. root_dir'[j] = root_dir[j]
        BY <1>4, <3>1, <3>3
      <4>4. root_dir[j] = intended[RootStart + j]
        BY <1>1 DEF IInv, RootInMemory
      <4> QED
        BY <4>2, <4>3, <4>4
    <3> QED
      BY <3>2, <3>3
  <2> QED
    BY <1>2, <2>1 DEF RootInMemory
<1> QED
  BY <1>1, <1>8, <1>9, <1>11, <1>12, <1>13, OpenStays DEF IInv

\* Two clusters do not overlap.
LEMMA ClustersApart ==
  ASSUME NEW c \in Nat \ {0, 1}, NEW d \in Nat \ {0, 1}, c # d
  PROVE  /\ Far(c) \in Nat /\ Far(d) \in Nat
         /\ Far(c) + ClusterWords <= Far(d) \/ Far(d) + ClusterWords <= Far(c)
<1> DEFINE w == ClusterWords
<1>1. w \in Nat
  BY WordsTyped
<1>2. c - 2 \in Nat /\ d - 2 \in Nat
  OBVIOUS
<1>3. Far(c) = (c - 2) * w /\ Far(d) = (d - 2) * w
  BY DEF Far
<1> HIDE DEF w
<1>4. ASSUME NEW a \in Nat, NEW b \in Nat, a < b
      PROVE  a * w + w <= b * w /\ a * w \in Nat /\ b * w \in Nat
  <2>1. a + 1 \in Nat /\ a + 1 <= b
    BY <1>4
  <2>2. (a + 1) * w <= b * w /\ a * w \in Nat /\ b * w \in Nat
    BY <1>1, <2>1, Products
  <2>3. (a + 1) * w = a * w + w
    BY <1>1
  <2> QED
    BY <2>2, <2>3
<1>5. c - 2 < d - 2 \/ d - 2 < c - 2
  OBVIOUS
<1> QED
  BY <1>2, <1>3, <1>4, <1>5 DEF w

\* What a change of a directory does to the device, and should do.
LEMMA DirectoryChanges ==
  ASSUME IInv, RegularVolumes, NEW c \in boot.dirs, NEW k \in 0..(ClusterWords - 1),
         NEW n \in 0..ClusterWords, ChangeDirectory(c, k, n)
  PROVE  /\ cluster_to_sector(c) \in Nat /\ DataAt <= cluster_to_sector(c)
         /\ WordAt(c, k) = DataAt + Far(c) + k /\ Far(c) \in Nat
         /\ "far" \notin amiss' => cluster_to_sector(c) = DataAt + Far(c)
         /\ device' = [p \in Places |-> device'[p]]
         /\ intended' = [p \in Places |-> intended'[p]]
         /\ \A p \in Places :
              device'[p] = IF p = cluster_to_sector(c) + k /\ k < n
                           THEN Toggle(device[p]) ELSE device[p]
         /\ \A p \in Places :
              intended'[p] = IF p = WordAt(c, k) /\ k < n
                             THEN Toggle(intended[p]) ELSE intended[p]
<1> DEFINE place  == cluster_to_sector(c)
           block  == Read(place, ClusterWords)
           marked == [block EXCEPT ![k] = Toggle(@)]
<1>1. Laid /\ boot \in Boots /\ step = "open" /\ data_offset = DataAt
  BY Ground DEF ChangeDirectory, IInv, TableInMemory
<1>2. /\ device' = Write(device, place, marked, 0, n)
      /\ intended' = [intended EXCEPT ![WordAt(c, k)] = IF k < n THEN Toggle(@) ELSE @]
      /\ Writes(n, ClusterWords, IF Far(c) >= Wrap THEN {"far"} ELSE {})
  BY DEF ChangeDirectory
<1>3. c \in Nat \ {0, 1} /\ Far(c) \in Nat
  <2>1. c \in Nat \ {0, 1}
    BY <1>1, BootTyped
  <2>2. c - 2 \in Nat /\ ClusterWords \in Nat
    BY <2>1, WordsTyped
  <2> QED
    BY <2>1, <2>2, Products DEF Far
<1>4. place \in Nat /\ DataAt <= place
  BY <1>1, <1>3, WordsTyped DEF cluster_to_sector, Laid
<1>5. "far" \notin amiss' => place = DataAt + Far(c)
  <2>1. "far" \notin amiss' => Far(c) < Wrap
    BY <1>2, <1>3, WordsTyped DEF Writes
  <2>2. Far(c) < Wrap => Far(c) % Wrap = Far(c)
    BY <1>3, WordsTyped
  <2> QED
    BY <1>1, <2>1, <2>2 DEF cluster_to_sector
<1>6. /\ \A p \in Places : p \in Int
      /\ k \in Nat /\ n \in Nat /\ ClusterWords \in Nat /\ k < ClusterWords
      /\ n <= ClusterWords
  BY WordsTyped DEF Places
<1>7. /\ DOMAIN marked = 0..(ClusterWords - 1)
      /\ \A p \in Places :
           (place <= p /\ p < place + n) =>
             /\ p - place \in DOMAIN marked
             /\ marked[p - place] = IF p = place + k THEN Toggle(device[p]) ELSE device[p]
  <2>1. DOMAIN block = 0..(ClusterWords - 1)
    BY DEF Read
  <2>2. ASSUME NEW p \in Places, place <= p, p < place + n
        PROVE  /\ p - place \in 0..(ClusterWords - 1)
               /\ block[p - place] = device[p]
               /\ p - place = k <=> p = place + k
    <3>1. /\ p - place \in 0..(ClusterWords - 1) /\ place + (p - place) = p
          /\ p - place = k <=> p = place + k
      BY <1>4, <1>6, <2>2
    <3> HIDE DEF place
    <3> QED
      BY <3>1 DEF Read
  <2> HIDE DEF block, place
  <2>3. /\ DOMAIN marked = 0..(ClusterWords - 1)
        /\ \A x \in 0..(ClusterWords - 1) :
             marked[x] = IF x = k THEN Toggle(block[x]) ELSE block[x]
    BY <2>1
  <2> HIDE DEF marked
  <2> QED
    BY <2>2, <2>3
<1> HIDE DEF marked, block, place
<1>8. /\ device' = [p \in Places |-> device'[p]]
      /\ \A p \in Places : (p < place \/ place + n <= p) => device'[p] = device[p]
      /\ \A p \in Places :
           (place <= p /\ p < place + n /\ p - place \in DOMAIN marked) =>
             device'[p] = marked[p - place]
  <2>1. device' = Write(device, place, marked, 0, n) /\ place \in Nat /\ n \in Nat
    BY <1>2, <1>4, <1>6
  <2>2. Changes(device', device, place, marked, n)
    BY <2>1, WriteChanges
  <2> QED
    BY <2>2 DEF Changes
<1>9. ASSUME NEW p \in Places
      PROVE  device'[p] = IF p = place + k /\ k < n
                          THEN Toggle(device[p]) ELSE device[p]
  <2>1. CASE place <= p /\ p < place + n
    <3>1. p = place + k => k < n
      BY <1>4, <1>6, <2>1
    <3> QED
      BY <1>7, <1>8, <2>1, <3>1
  <2>2. CASE p < place \/ place + n <= p
    <3>1. ~(p = place + k /\ k < n)
      BY <1>4, <1>6, <2>2
    <3> QED
      BY <1>8, <2>2, <3>1
  <2> QED
    BY <1>4, <1>6, <2>1, <2>2
<1>10. DOMAIN intended = Places
  BY DEF IInv, TypeOK
<1>11. /\ intended' = [p \in Places |-> intended'[p]]
       /\ \A p \in Places :
            intended'[p] = IF p = WordAt(c, k) /\ k < n
                           THEN Toggle(intended[p]) ELSE intended[p]
  BY <1>2, <1>10
<1>12. WordAt(c, k) = DataAt + Far(c) + k
  BY DEF WordAt
<1> QED
  BY <1>3, <1>4, <1>5, <1>8, <1>9, <1>11, <1>12 DEF place

LEMMA ChangeDirectoryHolds ==
  ASSUME IInv, RegularVolumes, NEW c \in boot.dirs, NEW k \in 0..(ClusterWords - 1),
         NEW n \in 0..ClusterWords, ChangeDirectory(c, k, n)
  PROVE  IInv'
<1> DEFINE place == cluster_to_sector(c)
           word  == WordAt(c, k)
<1>1. /\ Laid /\ boot \in Boots /\ Regular(boot)
      /\ step = "open" /\ step' = "open" /\ pos' = place + n
      /\ UNCHANGED <<boot, table, root_dir, entries, data_offset, copy, cluster, index>>
  BY Ground DEF ChangeDirectory, loop
<1>2. /\ BehindTables' = BehindTables /\ DataAt' = DataAt /\ RootStart' = RootStart
      /\ RootWords' = RootWords /\ Front' = Front /\ FATN' = FATN
  BY <1>1, NothingMoves
<1>3. /\ place \in Nat /\ DataAt <= place /\ Far(c) \in Nat
      /\ word = DataAt + Far(c) + k
      /\ "far" \notin amiss' => place + k = word
      /\ device' = [p \in Places |-> device'[p]]
      /\ intended' = [p \in Places |-> intended'[p]]
      /\ \A p \in Places :
           device'[p] = IF p = place + k /\ k < n
                        THEN Toggle(device[p]) ELSE device[p]
      /\ \A p \in Places :
           intended'[p] = IF p = word /\ k < n
                          THEN Toggle(intended[p]) ELSE intended[p]
  BY DirectoryChanges
<1>4. /\ amiss' \subseteq {"cut", "far"} /\ failures' \in 0..MaxFailures
      /\ amiss \subseteq amiss' /\ (amiss' = {} => amiss = {})
  <2>1. Writes(n, ClusterWords, IF Far(c) >= Wrap THEN {"far"} ELSE {})
    BY DEF ChangeDirectory
  <2>2. (IF Far(c) >= Wrap THEN {"far"} ELSE {}) \in SUBSET {"far"}
    OBVIOUS
  <2>3. TypeOK /\ n \in Nat /\ ClusterWords \in Nat
    BY WordsTyped DEF IInv
  <2> HIDE DEF place, word
  <2> QED
    BY <2>1, <2>2, <2>3, WritesTyped
<1> HIDE DEF place, word
<1>5. /\ \A p \in Places : p \in Int
      /\ k \in Nat /\ ClusterWords \in Nat /\ k < ClusterWords
  BY WordsTyped DEF Places
<1>6. TypeOK'
  <2>1. pos' \in Nat /\ DOMAIN device' = Places /\ DOMAIN intended' = Places
    BY <1>1, <1>3
  <2>2. TypeOK
    BY DEF IInv
  <2> QED
    BY <1>1, <1>4, <2>1, <2>2, TypeStays DEF TypeOK
<1>7. \A p \in Places : p < DataAt => device'[p] = device[p] /\ intended'[p] = intended[p]
  BY <1>1, <1>3, <1>5 DEF Laid
<1>8. "far" \notin amiss' => \A p \in Places : Same(p) => device'[p] = intended'[p]
  BY <1>3 DEF Same
<1>9. AreFunctions' /\ SameInFront'
  <2>1. \A p \in Places : p < Front => p < DataAt
    BY <1>1, <1>5 DEF Laid
  <2> QED
    BY <1>2, <1>3, <1>7, <2>1 DEF IInv, AreFunctions, SameInFront, Same
<1>10. SameBehind' /\ SameAround'
  <2>1. SameBehind'
    BY <1>2, <1>4, <1>8 DEF IInv, SameBehind, Same
  <2>2. SameAround'
    BY <1>2, <1>4, <1>8 DEF IInv, SameAround, Same, InRoot
  <2> QED
    BY <2>1, <2>2
<1>11. TableInMemory'
  <2>1. \A p \in Places : p < BehindTables => p < DataAt
    BY <1>1, <1>5 DEF Laid
  <2> QED
    BY <1>1, <1>2, <1>7, <2>1 DEF IInv, TableInMemory
<1>12. RootInMemory'
  <2>1. ASSUME NEW j \in 0..(RootWords - 1)
        PROVE  root_dir'[j] = intended'[RootStart + j]
    <3>1. RootStart + j \in Places /\ j \in Nat
      BY <1>1, WordsTyped DEF Laid, Places
    <3>2. ASSUME boot.type = 1 PROVE RootStart + j # word
      BY <1>1, <1>3, <1>5, <3>1, <3>2 DEF Laid
    <3>3. ASSUME boot.type = 2 PROVE RootStart + j # word
      <4>1. /\ c \in Nat \ {0, 1} /\ boot.root[1] \in Nat \ {0, 1}
            /\ c # boot.root[1]
        BY <1>1, <3>3, BootTyped DEF Regular
      <4>2. \/ Far(c) + ClusterWords <= Far(boot.root[1])
            \/ Far(boot.root[1]) + ClusterWords <= Far(c)
        BY <4>1, ClustersApart
      <4> QED
        BY <1>1, <1>3, <1>5, <3>1, <3>3, <4>2 DEF Laid
    <3>4. RootStart + j # word => intended'[RootStart + j] = intended[RootStart + j]
      BY <1>3, <3>1
    <3> QED
      BY <1>1, <3>2, <3>3, <3>4 DEF IInv, RootInMemory, Laid
  <2> QED
    BY <1>2, <2>1 DEF RootInMemory
<1> QED
  BY <1>1, <1>6, <1>9, <1>10, <1>11, <1>12, OpenStays DEF IInv
-----------------------------------------------------------------------------
(* umount *)

LEMMA write_fatHolds ==
  ASSUME IInv, RegularVolumes, write_fat
  PROVE  IInv'
<1>1. /\ Laid /\ boot \in Boots /\ Regular(boot)
      /\ step = "open" /\ step' = "write" /\ pos' = Front /\ copy' = 0 /\ index' = 0
      /\ cluster' = IF FATN = 2 THEN boot.root[1] ELSE 0
      /\ UNCHANGED <<boot, device, table, root_dir, entries, data_offset,
                     intended, amiss, failures>>
  BY Ground DEF write_fat, history, Front
<1>2. /\ BehindTables' = BehindTables /\ DataAt' = DataAt /\ RootStart' = RootStart
      /\ RootWords' = RootWords /\ Front' = Front /\ FATN' = FATN
  BY <1>1, NothingMoves
<1>3. FATN = boot.type
  BY <1>1 DEF IInv, TableInMemory
<1>4. boot.type = 2 => 1 \in DOMAIN boot.root
  BY <1>1, BootTyped DEF Regular
<1>5. Reached' = Front
  BY <1>1, CopiesInARow DEF Reached, TableAt, Front
<1>6. TypeOK'
  <2>1. TypeOK /\ Len(boot.root) * ClusterWords \in Nat
    <3>1. Len(boot.root) \in Nat
      BY <1>1, BootTyped
    <3> QED
      BY <3>1, Products, WordsTyped DEF IInv
  <2>2. cluster' = 0 \/ \E k \in DOMAIN boot.root : boot.root[k] = cluster'
    BY <1>1, <1>3, <1>4
  <2>3. copy' \in 0..boot.table_count /\ index' \in 0..(Len(boot.root) * ClusterWords)
    BY <1>1, <2>1 DEF Laid
  <2>4. pos' \in Nat
    BY <1>1 DEF Laid
  <2> QED
    BY <1>1, <2>1, <2>2, <2>3, <2>4, TypeStays DEF TypeOK
<1>7. AreFunctions' /\ SameInFront' /\ SameBehind' /\ SameAround'
  BY <1>1, <1>2
  DEF IInv, AreFunctions, SameInFront, SameBehind, SameAround, Same, InRoot
<1>8. TableInMemory' /\ RootInMemory' /\ LoopsStand'
  BY <1>1, <1>2, <1>3 DEF IInv, TableInMemory, RootInMemory, LoopsStand
<1>9. Written'
  BY <1>1, <1>2, <1>5 DEF Written, IInv, SameInFront, Same, Laid
<1>10. SameWhenRead' /\ SameWhenClosed'
  BY <1>1 DEF SameWhenRead, SameWhenClosed
<1> QED
  BY <1>6, <1>7, <1>8, <1>9, <1>10 DEF IInv

LEMMA WriteCopyHolds ==
  ASSUME IInv, RegularVolumes, NEW n \in 0..boot.table_size, WriteCopy(n)
  PROVE  IInv'
<1> DEFINE S == boot.table_size
<1>1. /\ Laid /\ boot \in Boots /\ step = "write" /\ step' = "write"
      /\ copy \in 0..boot.table_count /\ copy < boot.table_count /\ copy' = copy + 1
      /\ pos' = pos + n /\ device' = Write(device, pos, table, 0, n)
      /\ Writes(n, S, {})
      /\ UNCHANGED <<boot, table, root_dir, entries, data_offset, cluster, index, intended>>
  BY Ground DEF WriteCopy, IInv, TypeOK
<1>2. /\ BehindTables' = BehindTables /\ DataAt' = DataAt /\ RootStart' = RootStart
      /\ RootWords' = RootWords /\ Front' = Front /\ FATN' = FATN
  BY <1>1, NothingMoves
<1>3. Reached' = Reached + S
  BY <1>1, NextCopy
<1>4. /\ Reached \in Nat /\ Front <= Reached /\ Reached + S <= BehindTables
      /\ \A p \in Reached..(Reached + S - 1) :
           p - Reached \in 0..(S - 1) /\ (p - Front) % S = p - Reached
  BY <1>1, CopiesReached
<1>5. /\ Front <= pos /\ pos <= Reached
      /\ "cut" \notin amiss => pos = Reached /\ \A p \in Places : p < Reached => Same(p)
      /\ DOMAIN table = 0..(S - 1)
  BY <1>1 DEF IInv, Written, TableInMemory
<1>6. /\ amiss' \subseteq {"cut", "far"} /\ failures' \in 0..MaxFailures
      /\ amiss \subseteq amiss' /\ (amiss' = {} => amiss = {})
      /\ "cut" \notin amiss' => n >= S
  <2>1. TypeOK /\ n \in Nat /\ S \in Nat /\ {} \in SUBSET {"far"}
    BY <1>1 DEF IInv, Laid
  <2> HIDE DEF S
  <2> QED
    BY <1>1, <2>1, WritesTyped
<1>7. pos \in Nat /\ n \in Nat /\ S \in Nat /\ n <= S
  BY <1>1 DEF IInv, TypeOK, Laid
<1>8. /\ device' = [p \in Places |-> device'[p]]
      /\ \A p \in Places : (p < pos \/ pos + n <= p) => device'[p] = device[p]
      /\ \A p \in Places :
           (pos <= p /\ p < pos + n /\ p - pos \in DOMAIN table) =>
             device'[p] = table[p - pos]
  <2>1. Changes(device', device, pos, table, n)
    BY <1>1, <1>7, WriteChanges
  <2> QED
    BY <2>1 DEF Changes
<1> HIDE DEF S
<1>9. \A p \in Places : p \in Int
  BY WordsTyped DEF Places
<1>10. \A p \in Places : (p < Front \/ BehindTables <= p) => device'[p] = device[p]
  <2>1. /\ Front <= pos /\ pos + n <= BehindTables
        /\ Front \in Nat /\ BehindTables \in Nat
    BY <1>1, <1>4, <1>5, <1>7 DEF Laid
  <2>2. \A p \in Places : (p < Front => p < pos) /\ (BehindTables <= p => pos + n <= p)
    BY <1>7, <1>9, <2>1
  <2> QED
    BY <1>8, <2>2
<1>11. TypeOK'
  <2>1. pos' \in Nat /\ DOMAIN device' = Places /\ copy' \in 0..boot.table_count
    BY <1>1, <1>7, <1>8 DEF Laid
  <2>2. TypeOK
    BY DEF IInv
  <2> QED
    BY <1>1, <1>2, <1>6, <2>1, <2>2 DEF TypeOK
<1>12. AreFunctions' /\ SameInFront'
  <2>1. AreFunctions'
    BY <1>1, <1>8 DEF IInv, AreFunctions
  <2>2. SameInFront'
    BY <1>1, <1>2, <1>10 DEF IInv, SameInFront, Same
  <2> QED
    BY <2>1, <2>2
<1>13. SameBehind' /\ SameAround'
  <2>1. \A p \in Places : BehindTables <= p => device'[p] = device[p]
    BY <1>10
  <2>2. \A p \in Places : p >= RootStart + RootWords => BehindTables <= p
    BY <1>1, <1>9 DEF Laid
  <2>3. SameBehind'
    BY <1>1, <1>2, <1>6, <2>1, <2>2 DEF IInv, SameBehind, Same
  <2>4. SameAround'
    BY <1>1, <1>2, <1>6, <2>1 DEF IInv, SameAround, Same, InRoot
  <2> QED
    BY <2>3, <2>4
<1>14. TableInMemory' /\ RootInMemory' /\ LoopsStand'
  BY <1>1, <1>2 DEF IInv, TableInMemory, RootInMemory, LoopsStand
<1>15. Written'
  <2>1. Front <= pos' /\ pos' <= Reached'
    <3>1. Front \in Nat /\ pos' = pos + n
      BY <1>1 DEF Laid
    <3> QED
      BY <1>3, <1>4, <1>5, <1>7, <3>1
  <2>2. ASSUME "cut" \notin amiss' PROVE pos = Reached /\ n = S /\ "cut" \notin amiss
    BY <1>5, <1>6, <1>7, <2>2
  <2>3. ASSUME "cut" \notin amiss', NEW p \in Places, p < Reached + S
        PROVE  device'[p] = intended[p]
    <3>1. CASE p < Reached
      BY <1>5, <1>8, <2>2, <2>3, <3>1 DEF Same
    <3>2. CASE Reached <= p
      <4>1. p \in Reached..(Reached + S - 1)
        BY <1>4, <1>7, <1>9, <2>3, <3>2
      <4>2. p - Reached \in 0..(S - 1) /\ (p - Front) % S = p - Reached
        BY <1>4, <4>1
      <4>3. device'[p] = table[p - Reached]
        BY <1>5, <1>8, <2>2, <2>3, <3>2, <4>2
      <4>4. Front <= p /\ p < BehindTables
        BY <1>1, <1>4, <1>7, <1>9, <2>3, <3>2 DEF Laid
      <4>5. intended[p] = table[(p - Front) % S]
        BY <1>1, <4>4 DEF IInv, TableInMemory, S
      <4> QED
        BY <4>2, <4>3, <4>5
    <3> QED
      BY <1>4, <1>9, <3>1, <3>2
  <2>4. "cut" \notin amiss' => pos' = Reached'
    BY <1>1, <1>3, <2>2
  <2>5. "cut" \notin amiss' => \A p \in Places : p < Reached' => device'[p] = intended'[p]
    BY <1>1, <1>3, <2>3
  <2> QED
    BY <1>2, <2>1, <2>4, <2>5 DEF Written, Same
<1>16. SameWhenRead' /\ SameWhenClosed'
  BY <1>1 DEF SameWhenRead, SameWhenClosed
<1> QED
  BY <1>11, <1>12, <1>13, <1>14, <1>15, <1>16 DEF IInv

\* The root directory goes as far behind where the tables should end as umount
\* lags behind their end.
LEMMA RootWritten ==
  ASSUME IInv, RegularVolumes, step = "write", copy = boot.table_count,
         NEW to, to = pos + (RootStart - BehindTables),
         NEW n \in 0..RootWords, Writes(n, RootWords, {}),
         device' = Write(device, to, root_dir, 0, n), step' = "closed",
         UNCHANGED <<boot, intended>>
  PROVE  /\ AreFunctions' /\ TableInMemory' /\ RootInMemory'
         /\ SameInFront' /\ SameBehind' /\ SameAround' /\ SameWhenRead'
         /\ Written' /\ SameWhenClosed'
         /\ amiss' \subseteq {"cut", "far"} /\ failures' \in 0..MaxFailures
<1>1. Laid /\ boot \in Boots /\ copy \in 0..boot.table_count /\ pos \in Nat
  BY Ground DEF IInv, TypeOK
<1>2. /\ BehindTables' = BehindTables /\ DataAt' = DataAt /\ RootStart' = RootStart
      /\ RootWords' = RootWords /\ Front' = Front
  BY NothingMoves
<1>3. Reached = BehindTables
  BY <1>1, CopiesReached
<1>4. /\ Front <= pos /\ pos <= BehindTables
      /\ "cut" \notin amiss =>
           pos = BehindTables /\ \A p \in Places : p < BehindTables => Same(p)
      /\ DOMAIN root_dir = 0..(RootWords - 1)
      /\ \A k \in 0..(RootWords - 1) : root_dir[k] = intended[RootStart + k]
  BY <1>3 DEF IInv, Written, TableInMemory, RootInMemory
<1>5. /\ Front \in Nat /\ BehindTables \in Nat /\ RootStart \in Nat /\ RootWords \in Nat
      /\ DataAt \in Nat /\ Front <= BehindTables /\ BehindTables <= RootStart
      /\ n \in Nat /\ n <= RootWords
      /\ DataAt <= RootStart \/ DataAt = RootStart + RootWords
  BY <1>1 DEF Laid
<1>6. /\ to \in Nat /\ Front <= to /\ to <= RootStart /\ to + n <= RootStart + RootWords
      /\ "cut" \notin amiss => to = RootStart
  <2>1. Front <= pos /\ pos <= BehindTables /\ pos \in Nat
    BY <1>1, <1>4
  <2>2. to \in Nat /\ Front <= to /\ to <= RootStart
    BY <1>5, <2>1
  <2>3. to + n <= RootStart + RootWords
    BY <1>5, <2>2
  <2>4. pos = BehindTables => to = RootStart
    BY <1>5
  <2> QED
    BY <1>4, <2>2, <2>3, <2>4
<1>7. /\ amiss' \subseteq {"cut", "far"} /\ failures' \in 0..MaxFailures
      /\ amiss \subseteq amiss' /\ (amiss' = {} => amiss = {})
      /\ "cut" \notin amiss' => n >= RootWords
  <2>1. TypeOK /\ {} \in SUBSET {"far"}
    BY DEF IInv
  <2> QED
    BY <1>5, <2>1, WritesTyped
<1>8. /\ device' = [p \in Places |-> device'[p]]
      /\ \A p \in Places : (p < to \/ to + n <= p) => device'[p] = device[p]
      /\ \A p \in Places :
           (to <= p /\ p < to + n /\ p - to \in DOMAIN root_dir) =>
             device'[p] = root_dir[p - to]
  <2>1. Changes(device', device, to, root_dir, n)
    BY <1>5, <1>6, WriteChanges
  <2> QED
    BY <2>1 DEF Changes
<1>9. \A p \in Places : p \in Int
  BY WordsTyped DEF Places
<1>10. \A p \in Places :
         (p < Front \/ p >= RootStart + RootWords) => device'[p] = device[p]
  <2>1. \A p \in Places : (p < Front => p < to)
                          /\ (p >= RootStart + RootWords => to + n <= p)
    BY <1>5, <1>6, <1>9
  <2> QED
    BY <1>8, <2>1
\* When no write has failed, it is where it should be.
<1>11. ASSUME "cut" \notin amiss'
       PROVE  /\ \A p \in Places : p < BehindTables => device'[p] = intended[p]
              /\ \A p \in Places : InRoot(p) => device'[p] = intended[p]
              /\ \A p \in Places : ~InRoot(p) => device'[p] = device[p]
  <2>1. to = RootStart /\ n = RootWords /\ "cut" \notin amiss
    BY <1>5, <1>6, <1>7, <1>11
  <2>2. \A p \in Places : ~InRoot(p) => device'[p] = device[p]
    BY <1>5, <1>8, <1>9, <2>1 DEF InRoot
  <2>3. \A p \in Places : p < BehindTables => device'[p] = intended[p]
    <3>1. \A p \in Places : p < BehindTables => ~InRoot(p)
      BY <1>5, <1>9 DEF InRoot
    <3> QED
      BY <1>4, <2>1, <2>2, <3>1 DEF Same
  <2>4. ASSUME NEW p \in Places, InRoot(p) PROVE device'[p] = intended[p]
    <3>1. /\ to <= p /\ p < to + n /\ p - to \in 0..(RootWords - 1)
          /\ RootStart + (p - to) = p
      BY <1>5, <1>9, <2>1, <2>4 DEF InRoot
    <3> QED
      BY <1>4, <1>8, <3>1
  <2> QED
    BY <2>2, <2>3, <2>4
<1>12. AreFunctions'
  BY <1>8 DEF IInv, AreFunctions
<1>13. SameInFront' /\ SameBehind'
  <2>1. SameInFront'
    BY <1>2, <1>10 DEF IInv, SameInFront, Same
  <2>2. SameBehind'
    BY <1>2, <1>7, <1>10 DEF IInv, SameBehind, Same
  <2> QED
    BY <2>1, <2>2
<1>14. amiss' = {} => \A p \in Places : device'[p] = intended[p]
  <2>1. SUFFICES ASSUME amiss' = {}, NEW p \in Places PROVE device'[p] = intended[p]
    OBVIOUS
  <2>2. "cut" \notin amiss' /\ amiss = {}
    BY <1>7, <2>1
  <2>3. CASE p < BehindTables \/ InRoot(p)
    BY <1>11, <2>2, <2>3
  <2>4. CASE p >= BehindTables /\ ~InRoot(p)
    BY <1>11, <2>2, <2>4 DEF IInv, SameAround, Same
  <2> QED
    BY <1>5, <1>9, <2>3, <2>4
<1>15. SameAround'
  BY <1>14 DEF SameAround, Same
<1>16. SameWhenClosed'
  <2>1. ASSUME "cut" \notin amiss', NEW p \in Places, p < DataAt
        PROVE  device'[p] = intended[p]
    <3>1. p < BehindTables \/ InRoot(p)
      BY <1>1, <1>5, <1>9, <2>1 DEF Laid, InRoot
    <3> QED
      BY <1>11, <2>1, <3>1
  <2> QED
    BY <1>2, <1>14, <2>1 DEF SameWhenClosed, Same
<1>17. TableInMemory' /\ RootInMemory' /\ SameWhenRead' /\ Written'
  BY DEF TableInMemory, RootInMemory, SameWhenRead, Written
<1> QED
  BY <1>7, <1>12, <1>13, <1>15, <1>16, <1>17

LEMMA WriteRoot16Holds ==
  ASSUME IInv, RegularVolumes, NEW n \in 0..RootWords, WriteRoot16(n)
  PROVE  IInv'
<1>1. /\ Laid /\ boot \in Boots /\ boot.type = 1
      /\ step = "write" /\ step' = "closed" /\ copy = boot.table_count
      /\ pos' = pos + n /\ device' = Write(device, pos, root_dir, 0, n)
      /\ Writes(n, RootWords, {})
      /\ UNCHANGED <<boot, table, root_dir, entries, data_offset, copy, cluster,
                     index, intended>>
  BY Ground DEF WriteRoot16, loop, Laid
<1>2. pos \in Nat /\ n \in Nat /\ RootWords' = RootWords
  BY <1>1, NothingMoves DEF IInv, TypeOK, Laid
<1>3. pos = pos + (RootStart - BehindTables)
  BY <1>1, <1>2 DEF Laid
<1>4. /\ AreFunctions' /\ TableInMemory' /\ RootInMemory'
      /\ SameInFront' /\ SameBehind' /\ SameAround' /\ SameWhenRead'
      /\ Written' /\ SameWhenClosed'
      /\ amiss' \subseteq {"cut", "far"} /\ failures' \in 0..MaxFailures
  BY <1>1, <1>3, RootWritten
<1>5. TypeOK'
  <2>1. DOMAIN device' = Places /\ pos' \in Nat
    BY <1>1, <1>2, <1>4 DEF AreFunctions
  <2> QED
    BY <1>1, <1>2, <1>4, <2>1 DEF IInv, TypeOK
<1>6. LoopsStand'
  BY <1>1 DEF LoopsStand
<1> QED
  BY <1>4, <1>5, <1>6 DEF IInv

LEMMA WriteRoot32Holds ==
  ASSUME IInv, RegularVolumes, NEW n \in 0..ClusterWords, WriteRoot32(n)
  PROVE  IInv'
<1>1. /\ Laid /\ boot \in Boots /\ step = "write" /\ copy = boot.table_count
      /\ device' = Write(device, Seek, root_dir, index * EntryWords, n)
      /\ Writes(n, ClusterWords, {}) /\ Follow("closed", n)
      /\ UNCHANGED <<boot, table, root_dir, data_offset, copy, intended>>
  BY Ground DEF WriteRoot32
<1>2. boot.type = 2
  BY <1>1 DEF IInv, TableInMemory, WriteRoot32
<1>3. /\ index = 0 /\ cluster = boot.root[1]
      /\ entries \in Nat /\ entries * EntryWords = RootWords
  BY <1>1, <1>2 DEF IInv, LoopsStand
<1>4. n \in Nat /\ RootWords' = RootWords /\ RootWords = ClusterWords /\ pos \in Nat
  BY <1>1, <1>2, NothingMoves, WordsTyped DEF IInv, TypeOK, Laid
<1>5. /\ cluster' = 0 /\ index' = ClusterWords /\ step' = "closed"
      /\ pos' \in Nat /\ Seek = pos + Far(boot.root[1])
      /\ entries' = entries + ClusterEntries
      /\ Len(boot.root) * ClusterWords = ClusterWords
  BY <1>1, <1>2, <1>3, <1>4, FollowTyped
<1>6. Seek = pos + (RootStart - BehindTables)
  BY <1>1, <1>2, <1>4, <1>5 DEF Laid
<1>7. device' = Write(device, Seek, root_dir, 0, n)
  <2>1. index * EntryWords = 0
    BY <1>3, WordsTyped
  <2> QED
    BY <1>1, <2>1
<1>8. /\ AreFunctions' /\ TableInMemory' /\ RootInMemory'
      /\ SameInFront' /\ SameBehind' /\ SameAround' /\ SameWhenRead'
      /\ Written' /\ SameWhenClosed'
      /\ amiss' \subseteq {"cut", "far"} /\ failures' \in 0..MaxFailures
  BY <1>1, <1>4, <1>5, <1>6, <1>7, RootWritten
<1>9. entries' * EntryWords \in 0..(2 * RootWords)
  <2>1. ClusterEntries * EntryWords = RootWords
    BY <1>4 DEF ClusterWords
  <2>2. (entries + ClusterEntries) * EntryWords
          = entries * EntryWords + ClusterEntries * EntryWords
    BY <1>3, WordsTyped
  <2> QED
    BY <1>1, <1>3, <1>5, <2>1, <2>2 DEF Laid
<1>10. TypeOK'
  <2>1. DOMAIN device' = Places
    BY <1>8 DEF AreFunctions
  <2>2. TypeOK
    BY DEF IInv
  <2>3. index' \in 0..(Len(boot.root) * ClusterWords)
    BY <1>5, WordsTyped
  <2> QED
    BY <1>1, <1>5, <1>8, <1>9, <2>1, <2>2, <2>3, TypeStays DEF TypeOK
<1>11. LoopsStand'
  BY <1>5 DEF LoopsStand
<1> QED
  BY <1>8, <1>10, <1>11 DEF IInv
-----------------------------------------------------------------------------
(* The theorems *)

LEMMA IInvHolds == ASSUME RegularVolumes PROVE IInv /\ [Next]_vars => IInv'
<1> SUFFICES ASSUME IInv, [Next]_vars PROVE IInv'
  OBVIOUS
<1>1. CASE init_fat_16
  BY <1>1, Mounted16
<1>2. CASE init_fat_32
  BY <1>2, Mounted32
<1>3. CASE Mistaken \/ UNCHANGED vars
  BY <1>3, IdleHolds
<1>4. CASE ReadRoot
  BY <1>4, ReadRootHolds
<1>5. ASSUME NEW k \in DOMAIN table, ChangeTable(k) PROVE IInv'
  BY <1>5, ChangeTableHolds
<1>6. ASSUME NEW k \in DOMAIN root_dir, ChangeEntry(k) PROVE IInv'
  BY <1>6, ChangeEntryHolds
<1>7. ASSUME NEW c \in boot.dirs, NEW k \in 0..(ClusterWords - 1),
             NEW n \in 0..ClusterWords, ChangeDirectory(c, k, n)
      PROVE  IInv'
  BY <1>7, ChangeDirectoryHolds
<1>8. CASE write_fat
  BY <1>8, write_fatHolds
<1>9. ASSUME NEW n \in 0..boot.table_size, WriteCopy(n) PROVE IInv'
  BY <1>9, WriteCopyHolds
<1>10. ASSUME NEW n \in 0..RootWords, WriteRoot16(n) PROVE IInv'
  BY <1>10, WriteRoot16Holds
<1>11. ASSUME NEW n \in 0..ClusterWords, WriteRoot32(n) PROVE IInv'
  BY <1>11, WriteRoot32Holds
<1> QED
  BY <1>1, <1>2, <1>3, <1>4, <1>5, <1>6, <1>7, <1>8, <1>9, <1>10, <1>11 DEF Next

\* Every variable stays in its type: the loops over the root directory end.
THEOREM LayoutTypeCorrect == ASSUME RegularVolumes PROVE Spec => []TypeOK
<1>1. IInv => TypeOK
  BY DEF IInv
<1> QED
  BY <1>1, Initially, IInvHolds, PTL DEF Spec

\* What an open device has in memory is its table and its root directory, all
\* of it and no more, as they are and as changed since.
THEOREM MountReads == ASSUME RegularVolumes PROVE Spec => []MountReadsTheVolume
<1>1. ASSUME IInv PROVE MountReadsTheVolume
  <2>1. SUFFICES ASSUME step = "open" PROVE
          /\ \A k \in 0..(boot.table_size - 1) : table[k] = intended[TableAt(1) + k]
          /\ entries * EntryWords = RootWords
          /\ \A k \in 0..(RootWords - 1) :
               k \in DOMAIN root_dir /\ root_dir[k] = intended[RootAt(k)]
          /\ data_offset = DataAt
    BY DEF MountReadsTheVolume
  <2>2. Laid /\ boot \in Boots /\ Regular(boot)
    BY <1>1, Ground
  <2>3. ASSUME NEW k \in 0..(boot.table_size - 1)
        PROVE  table[k] = intended[TableAt(1) + k]
    <3>1. /\ boot.table_size \in Nat /\ boot.table_count \in Nat \ {0}
          /\ 1 \in 1..boot.table_count /\ 2 <= boot.table_count + 1
          /\ TableAt(1) = Front /\ Front \in Nat
      BY <2>2, CopiesInARow DEF Laid, Front
    <3>2. TableAt(1 + 1) = Front + boot.table_size
      BY <2>2, <3>1, CopiesInARow
    <3>3. TableAt(1 + 1) <= BehindTables
      BY <2>2, <3>1, CopiesInARow
    <3>4. Front + k \in TableAt(1)..(TableAt(1 + 1) - 1)
      BY <3>1, <3>2
    <3>5. ((Front + k) - Front) % boot.table_size = (Front + k) - Front
      <4> DEFINE p == Front + k
      <4>1. (p - boot.reserved_sector_count) % boot.table_size = p - TableAt(1)
        BY <2>2, <3>1, <3>4, PlaceInCopy
      <4> QED
        BY <3>1, <4>1 DEF Front
    <3>6. Front + k \in Places /\ Front <= Front + k /\ Front + k < BehindTables
      BY <2>2, <3>1, <3>2, <3>3, WordsTyped DEF Laid, Places
    <3>7. intended[Front + k] = table[((Front + k) - Front) % boot.table_size]
      BY <1>1, <2>1, <3>6 DEF IInv, TableInMemory
    <3>8. (Front + k) - Front = k
      BY <3>1
    <3> QED
      BY <3>1, <3>5, <3>7, <3>8
  <2>4. ASSUME NEW k \in 0..(RootWords - 1)
        PROVE  k \in DOMAIN root_dir /\ root_dir[k] = intended[RootAt(k)]
    BY <1>1, <2>1, <2>2, Geometry DEF IInv, TableInMemory, RootInMemory
  <2> QED
    BY <1>1, <2>1, <2>3, <2>4 DEF IInv, LoopsStand, TableInMemory
<1> QED
  BY <1>1, Initially, IInvHolds, PTL DEF Spec

\* After an umount in which no write has failed the device holds every change
\* where it belongs, and what was there everywhere else.
THEOREM UmountWrites == ASSUME RegularVolumes PROVE Spec => []UmountWritesTheVolume
<1>1. IInv => UmountWritesTheVolume
  BY DEF IInv, AreFunctions, SameWhenClosed, Same, UmountWritesTheVolume
<1> QED
  BY <1>1, Initially, IInvHolds, PTL DEF Spec

\* However many writes fail, wherever they stop, and however the device is
\* mounted again after that, nothing is written in front of the tables or
\* behind the end of the root directory.
THEOREM FailuresStayInFront == ASSUME RegularVolumes PROVE Spec => []FailureStaysInFront
<1>1. ASSUME IInv PROVE FailureStaysInFront
  <2>1. /\ RootEnd = RootStart + RootWords /\ TableAt(1) = Front
        /\ RootStart \in Nat /\ RootWords \in Nat /\ Front \in Nat
    BY <1>1, Ground, Geometry, CopiesInARow DEF Laid, Front
  <2>2. \A p \in Places \ (TableAt(1)..(RootEnd - 1)) :
          p < Front \/ p >= RootStart + RootWords
    BY <2>1, WordsTyped DEF Places
  <2> QED
    BY <1>1, <2>2 DEF IInv, SameInFront, SameBehind, Same, FailureStaysInFront
<1> QED
  BY <1>1, Initially, IInvHolds, PTL DEF Spec

\* A directory too far for 32 bits is written in the data area, and does not
\* reach the tables, nor the root directory of FAT16.
THEOREM FarDirectoriesStayInData == ASSUME RegularVolumes PROVE Spec => []FarStaysInData
<1>1. IInv => FarStaysInData
  BY DEF IInv, SameWhenClosed, Same, FarStaysInData
<1> QED
  BY <1>1, Initially, IInvHolds, PTL DEF Spec
-----------------------------------------------------------------------------
(* The interpreter *)

\* The invariant adds to the properties that the boot sector in memory goes
\* with the extended one of its type, and that only a device open for writing
\* has changes to lose.
USE DEF change_label

BootIsWhole ==
  /\ fat_boot \in Volumes \cup {Zeros}
  /\ \A bits \in {16, 32} : extended[bits] \in Volumes \cup {Zeros}
  /\ fat_boot \in Volumes => extended[Bits[fat_boot]] = fat_boot

OpenAreDevices ==
  \A d \in Open : opened[d].device \in Devices

ChangesAreWritable == unsaved => fd # 0 /\ opened[fd].write

ShellInv == /\ ShellTypeOK /\ BootIsWhole /\ OpenAreDevices /\ ChangesAreWritable
            /\ AllOfOneDevice /\ ChangesReachTheDevice /\ OnlyMountLeavesOpen

\* The number of descriptors in use is a number.
LEMMA OpenIsFinite == IsFiniteSet(Open) /\ Cardinality(Open) \in Nat
<1>1. IsFiniteSet(Fds)
  BY FS_Interval, ShellAssumption DEF Fds, ShellAssumption
<1>2. Open \in SUBSET Fds
  BY DEF Open
<1> QED
  BY <1>1, <1>2, FS_Subset, FS_CardinalityType

\* What the changes of a process may be lost to.
Causes == {"none", "mount", "dump_fat", "no_parent", "no_name", "no_number",
           "no_table", "end_of_input"}

\* A process that has ended has lost nothing it will miss.
LEMMA EndIsClean == ASSUME ShellInv, End,
                           lost' = lost \/ lost' \in Causes,
                           written'[1] = written'[2] \/ Holds[written'[2]] = "nothing"
                    PROVE  ShellInv'
<1> USE DEF End
<1>1. Open' = {}
  BY DEF Open
<1>2. Cardinality({}) = 0
  BY FS_EmptySet
<1>3. ShellTypeOK'
  BY DEF ShellTypeOK, Closed
<1>4. BootIsWhole' /\ OpenAreDevices' /\ ChangesAreWritable'
  BY <1>1, ShellAssumption DEF BootIsWhole, OpenAreDevices, ChangesAreWritable, Volumes, ShellAssumption
<1>5. AllOfOneDevice'
  BY DEF AllOfOneDevice
<1>6. ChangesReachTheDevice'
  BY DEF ShellInv, ChangesReachTheDevice, Causes
<1>7. OnlyMountLeavesOpen'
  BY <1>1, <1>2 DEF OnlyMountLeavesOpen
<1> QED
  BY <1>3, <1>4, <1>5, <1>6, <1>7 DEF ShellInv

\* Commands that end without a write lose no changes, but for those named.
LEMMA DeathIsClean ==
  ASSUME ShellInv, NEW why, Die(why), ~unsaved \/ why \in Causes
  PROVE  ShellInv'
<1>1. /\ End /\ written' = written
      /\ lost' = lost \/ lost' \in Causes
  BY DEF Die, ShellInv, ShellTypeOK
<1>2. written[1] = written[2] \/ Holds[written[2]] = "nothing"
  BY DEF ShellInv, AllOfOneDevice
<1> QED
  BY <1>1, <1>2, EndIsClean

\* What umount writes goes where it came from, and it loses nothing.
LEMMA ReleaseIsClean ==
  ASSUME ShellInv, fd # 0, Release
  PROVE  /\ lost' = lost
         /\ written'[1] = written'[2] \/ Holds[written'[2]] = "nothing"
<1>1. lost' = lost
  BY DEF Release, WritesBack, ShellInv, ChangesAreWritable
<1>2. CASE opened[fd].write
  BY <1>2 DEF Release, WritesBack, ShellInv, AllOfOneDevice
<1>3. CASE ~opened[fd].write
  <2>1. written' = written
    BY <1>3 DEF Release, WritesBack
  <2>2. written[1] = written[2] \/ Holds[written[2]] = "nothing"
    BY DEF ShellInv, AllOfOneDevice
  <2> QED
    BY <1>1, <2>1, <2>2
<1> QED
  BY <1>1, <1>2, <1>3

LEMMA MountKeepsShellInv ==
  ASSUME ShellInv, NEW dev \in Devices, NEW wflag \in BOOLEAN, mount(dev, wflag)
  PROVE  ShellInv'
<1> DEFINE new == [device |-> dev, write |-> wflag]
<1>a. PICK d \in Free : /\ fd' = d /\ opened' = [opened EXCEPT ![d] = new]
                        /\ fs_fd' = fd' /\ Holds[dev] # "missing"
  BY DEF mount, OpenDevice, CanOpen, Unused
<1>b. d \in Fds /\ d # 0 /\ opened[d] = Closed
  BY <1>a DEF Free, Open, Fds
<1>c. new # Closed /\ dev # Zeros
  BY ShellAssumption DEF Closed, ShellAssumption
<1>d. opened' \in [Fds -> [device : Devices \cup {Zeros}, write : BOOLEAN]] /\ opened'[d] = new
  BY <1>a, <1>b DEF ShellInv, ShellTypeOK
<1>e. Open' = Open \cup {d} /\ d \notin Open
  BY <1>a, <1>b, <1>c, <1>d DEF Open, ShellInv, ShellTypeOK
<1>1. Holds[dev] \in {"volume", "nothing"} /\ fat_boot' \in Volumes
  <2>1. Holds[dev] \in {"volume", "zeros", "nothing"}
    BY <1>a, ShellAssumption DEF ShellAssumption
  <2>2. fat_boot' = Reads(dev, fat_boot) /\ fat_boot' # Zeros
    BY DEF mount, init_fat
  <2>3. fat_boot \in Volumes \cup {Zeros}
    BY DEF ShellInv, BootIsWhole
  <2> QED
    BY <2>1, <2>2, <2>3 DEF Reads, Volumes
<1>2. /\ Holds[dev] = "volume" => fat_boot' = dev /\ memory' = dev
      /\ Holds[dev] = "nothing" => fat_boot' = fat_boot /\ memory' = Heap
  BY <1>1 DEF mount, init_fat, Reads
<1> DEFINE bits == Bits[fat_boot']
<1>3. bits \in {16, 32} /\ TypeOf(fat_boot') = bits
  BY <1>1, ShellAssumption DEF TypeOf, ShellAssumption, Volumes
<1>4. extended \in [{16, 32} -> Devices \cup {Zeros}]
  BY DEF ShellInv, ShellTypeOK
<1>5. /\ extended' \in [{16, 32} -> Devices \cup {Zeros}]
      /\ extended'[bits] = fat_boot'
      /\ \A b \in {16, 32} : extended'[b] \in Volumes \cup {Zeros}
  <2>1. extended' = [extended EXCEPT ![bits] = Reads(dev, extended[bits])]
    BY <1>3 DEF mount, init_fat
  <2>2. Reads(dev, extended[bits]) = fat_boot'
    <3>1. CASE Holds[dev] = "volume"
      BY <3>1, <1>2 DEF Reads
    <3>2. CASE Holds[dev] = "nothing"
      BY <3>2, <1>1, <1>2 DEF Reads, ShellInv, BootIsWhole
    <3> QED
      BY <1>1, <3>1, <3>2
  <2>3. fat_boot' \in Devices
    BY <1>1 DEF Volumes
  <2>4. \A b \in {16, 32} : extended[b] \in Volumes \cup {Zeros}
    BY DEF ShellInv, BootIsWhole
  <2> HIDE DEF bits
  <2> QED
    BY <2>1, <2>2, <2>3, <2>4, <1>1, <1>3, <1>4
<1>6. label' = VolumeLabel[fat_boot']
  <2>1. fat_boot' # Zeros
    BY DEF mount
  <2>2. label' = get_label(fat_boot', extended')
    BY DEF mount
  <2> QED
    BY <2>1, <2>2, <1>3, <1>5 DEF get_label
<1>7. /\ over' = IF fd = 0 THEN over ELSE over + 1
      /\ unsaved' = FALSE /\ proc' = proc /\ written' = written
      /\ lost' \in {lost, "mount"}
  BY DEF mount
<1>8. ShellTypeOK'
  <2>1. fd' \in {0} \cup Open' /\ fs_fd' \in {0} \cup Fds
    BY <1>a, <1>b, <1>e
  <2>2. fat_boot' \in Devices \cup {Zeros} /\ memory' \in Devices \cup {Zeros, Heap}
    BY <1>1, <1>2 DEF Volumes
  <2>3. proc' \in {"prompt", "down"} /\ unsaved' \in BOOLEAN
    BY <1>7, Zenon DEF ShellInv, ShellTypeOK
  <2>4. over \in Nat
    BY DEF ShellInv, ShellTypeOK
  <2>5. over' \in Nat
    BY <1>7, <2>4
  <2> QED
    BY <1>d, <1>5, <2>1, <2>2, <2>3, <2>5 DEF ShellTypeOK
<1>9. BootIsWhole'
  BY <1>1, <1>5 DEF BootIsWhole, Volumes
<1>10. OpenAreDevices'
  BY <1>a, <1>d, <1>e DEF OpenAreDevices, ShellInv, ShellTypeOK, Open
<1>11. ChangesAreWritable'
  BY <1>7 DEF ChangesAreWritable
<1>12. AllOfOneDevice'
  <2>1. opened'[fd'].device = dev
    BY <1>a, <1>d
  <2>2. written[1] = written[2] \/ Holds[written[2]] = "nothing"
    BY DEF ShellInv, AllOfOneDevice
  <2> QED
    BY <1>a, <1>b, <1>1, <1>2, <1>6, <1>7, <2>1, <2>2 DEF AllOfOneDevice, Volumes
<1>13. ChangesReachTheDevice'
  BY <1>7 DEF ShellInv, ChangesReachTheDevice
<1>14. OnlyMountLeavesOpen'
  <2>1. Cardinality(Open') = Cardinality(Open) + 1
    BY <1>e, OpenIsFinite, FS_AddElement
  <2> QED
    BY <1>a, <1>b, <1>7, <2>1 DEF ShellInv, OnlyMountLeavesOpen, ShellTypeOK
<1> QED
  BY <1>8, <1>9, <1>10, <1>11, <1>12, <1>13, <1>14 DEF ShellInv

LEMMA UmountKeepsShellInv == ASSUME ShellInv, umount, fd # 0
                         PROVE  ShellInv'
<1>a. /\ opened' = [opened EXCEPT ![fd] = Closed]
      /\ fd' = 0 /\ label' = NOTHING /\ unsaved' = FALSE
      /\ UNCHANGED <<proc, fs_fd, globals, over>> /\ Release
  BY DEF umount
<1>b. fd \in Open /\ fd \in Fds
  BY DEF ShellInv, ShellTypeOK, Open
<1>c. opened' \in [Fds -> [device : Devices \cup {Zeros}, write : BOOLEAN]]
  BY <1>a DEF ShellInv, ShellTypeOK, Closed
<1>d. Open' = Open \ {fd}
  BY <1>a, <1>b, <1>c DEF Open, ShellInv, ShellTypeOK
<1>1. ShellTypeOK'
  BY <1>a, <1>c DEF ShellInv, ShellTypeOK, globals
<1>2. BootIsWhole' /\ ChangesAreWritable'
  BY <1>a DEF ShellInv, BootIsWhole, ChangesAreWritable, globals
<1>3. OpenAreDevices'
  BY <1>a, <1>d DEF ShellInv, OpenAreDevices, Open, ShellTypeOK
<1>4. AllOfOneDevice' /\ ChangesReachTheDevice'
  BY <1>a, ReleaseIsClean DEF ShellInv, AllOfOneDevice, ChangesReachTheDevice
<1>5. OnlyMountLeavesOpen'
  <2>1. Cardinality(Open') = Cardinality(Open) - 1
    BY <1>b, <1>d, OpenIsFinite, FS_RemoveElement
  <2> QED
    BY <1>a, <2>1, OpenIsFinite DEF ShellInv, OnlyMountLeavesOpen, ShellTypeOK
<1> QED
  BY <1>1, <1>2, <1>3, <1>4, <1>5 DEF ShellInv

LEMMA QuitKeepsShellInv == ASSUME ShellInv, quit_command
                       PROVE  ShellInv'
<1>1. CASE fd # 0 /\ Release
  BY <1>1, ReleaseIsClean, EndIsClean DEF quit_command
<1>2. CASE UNCHANGED <<lost, written>>
  <2>1. written'[1] = written'[2] \/ Holds[written'[2]] = "nothing"
    BY <1>2 DEF ShellInv, AllOfOneDevice
  <2> QED
    BY <1>2, <2>1, EndIsClean DEF quit_command
<1> QED
  BY <1>1, <1>2 DEF quit_command

LEMMA AlterKeepsShellInv == ASSUME ShellInv, Alter
                        PROVE  ShellInv'
<1> USE DEF Alter, globals
<1>1. Open' = Open
  BY DEF Open
<1> QED
  BY <1>1 DEF ShellInv, ShellTypeOK, BootIsWhole, OpenAreDevices, ChangesAreWritable,
              AllOfOneDevice, ChangesReachTheDevice, OnlyMountLeavesOpen, TEST_FD, TEST_W_FD

\* Steps that keep all but proc.
LEMMA QuietKeepsShellInv ==
  ASSUME ShellInv, proc' \in {"prompt", "down"},
         UNCHANGED <<fd, fs_fd, opened, globals, label, unsaved, over, lost, written>>
  PROVE  ShellInv'
<1>1. Open' = Open
  BY DEF Open
<1> QED
  BY <1>1 DEF ShellInv, ShellTypeOK, BootIsWhole, OpenAreDevices, ChangesAreWritable, globals,
              AllOfOneDevice, ChangesReachTheDevice, OnlyMountLeavesOpen

LEMMA DispatchKeepsShellInv ==
  ASSUME ShellInv, NEW verb, NEW given \in BOOLEAN, command_dispatcher(verb, given)
  PROVE  ShellInv'
<1>0. proc \in {"prompt", "down"}
  BY DEF ShellInv, ShellTypeOK
<1>1. CASE UNCHANGED shellVars
  BY <1>0, <1>1, QuietKeepsShellInv DEF shellVars
<1>2. CASE quit_command
  BY <1>2, QuitKeepsShellInv
<1>3. CASE umount
  BY <1>1, <1>3, UmountKeepsShellInv DEF umount
<1>4. CASE Refused(verb)
  <2>1. ~unsaved
    BY <1>4 DEF Refused, TEST_FD, TEST_W_FD, ShellInv, ChangesAreWritable
  <2> QED
    BY <1>4, <2>1, DeathIsClean DEF Refused
<1>5. ASSUME NEW dev \in Devices, NEW wflag \in BOOLEAN, mount(dev, wflag) \/ MountDies(dev, wflag)
      PROVE  ShellInv'
  BY <1>5, MountKeepsShellInv, DeathIsClean DEF MountDies, Causes
<1>6. ASSUME NEW creatable \in BOOLEAN, dump_fat(creatable)
      PROVE  ShellInv'
  <2>1. CASE Die("dump_fat")
    BY <2>1, DeathIsClean DEF Causes
  <2>2. CASE CloseDump /\ UNCHANGED <<proc, fd, fs_fd, globals, label, unsaved, over, lost, written>>
    BY <1>0, <2>2, QuietKeepsShellInv DEF CloseDump
  <2> QED
    BY <1>6, <2>1, <2>2 DEF dump_fat
<1>7. CASE Alter
  BY <1>7, AlterKeepsShellInv
<1>8. CASE DeleteDies
  BY <1>8, DeathIsClean DEF DeleteDies, Causes
<1>9. ASSUME NEW why \in {"no_name", "no_number", "no_table"}, Stray(verb, why)
      PROVE  ShellInv'
  BY <1>9, DeathIsClean DEF Stray, Causes
<1> QED
  BY <1>1, <1>2, <1>3, <1>4, <1>5, <1>6, <1>7, <1>8, <1>9 DEF command_dispatcher, Answer

\* Whatever devices are mounted in whatever order, ShellInv holds.
THEOREM ShellReachable == ShellSpec => []ShellInv
<1>1. ShellInit => ShellInv
  <2> SUFFICES ASSUME ShellInit PROVE ShellInv
    OBVIOUS
  <2> USE DEF ShellInit
  <2>1. Open = {}
    BY DEF Open
  <2>2. Cardinality({}) = 0
    BY FS_EmptySet
  <2>3. ShellTypeOK
    BY DEF ShellTypeOK, Closed
  <2>4. BootIsWhole
    BY ShellAssumption DEF BootIsWhole, Volumes, ShellAssumption
  <2> QED
    BY <2>1, <2>2, <2>3, <2>4 DEF ShellInv, OpenAreDevices, ChangesAreWritable,
       AllOfOneDevice, ChangesReachTheDevice, OnlyMountLeavesOpen
<1>2. ShellInv /\ [ShellNext]_shellVars => ShellInv'
  <2> SUFFICES ASSUME ShellInv, [ShellNext]_shellVars PROVE ShellInv'
    OBVIOUS
  <2>0. proc \in {"prompt", "down"}
    BY DEF ShellInv, ShellTypeOK
  <2>1. CASE main
    BY <2>1, QuietKeepsShellInv DEF main
  <2>2. CASE EndOfInput
    BY <2>2, DeathIsClean DEF EndOfInput, Causes
  <2>3. ASSUME NEW verb, NEW given \in BOOLEAN, command_dispatcher(verb, given)
        PROVE  ShellInv'
    BY <2>3, DispatchKeepsShellInv
  <2>4. CASE UNCHANGED shellVars
    BY <2>0, <2>4, QuietKeepsShellInv DEF shellVars
  <2> QED
    BY <2>1, <2>2, <2>3, <2>4 DEF ShellNext
<1> QED
  BY <1>1, <1>2, PTL DEF ShellSpec

\* The variables of the interpreter keep their types, and fd names a
\* descriptor that is open.
THEOREM ShellTypeCorrect == ShellSpec => []ShellTypeOK
<1>1. ShellInv => ShellTypeOK
  BY DEF ShellInv
<1> QED
  BY <1>1, ShellReachable, PTL

\* Boot sector, tables, label and descriptors are of the open device, through
\* any sequence of mounts, failing ones and mounts over a mounted device too;
\* umount writes on a device what was read from it.
THEOREM MemoryIsOfOneDevice == ShellSpec => []AllOfOneDevice
<1>1. ShellInv => AllOfOneDevice
  BY DEF ShellInv
<1> QED
  BY <1>1, ShellReachable, PTL

\* Only a mount, a dump_fat that fails, a delete without parent, a command
\* that a path without a name, a number beyond the table or a table nobody
\* filled leads astray, and the end of input lose changes.
THEOREM OtherCommandsLoseNothing == ShellSpec => []ChangesReachTheDevice
<1>1. ShellInv => ChangesReachTheDevice
  BY DEF ShellInv
<1> QED
  BY <1>1, ShellReachable, PTL

\* The descriptors in use are that of the open device and one for each mount
\* over a mounted device.
THEOREM OnlyMountLeaks == ShellSpec => []OnlyMountLeavesOpen
<1>1. ShellInv => OnlyMountLeavesOpen
  BY DEF ShellInv
<1> QED
  BY <1>1, ShellReachable, PTL
=============================================================================
