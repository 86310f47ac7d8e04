------------------------------ MODULE MCVolume ------------------------------
(***************************************************************************)
(* Small volumes for the model checker: six clusters, up to three root     *)
(* entries, two entries to a directory cluster.                            *)
(***************************************************************************)
EXTENDS Volume, TLC

CONSTANT End   \* the end mark the formatting system has used

MCClusters == 2..7
DamagedClusters == 2..6
MCTails    == {"d", "x", "y"}
MCStamps   == 0..5

File(char, tail, first, stamp) ==
  [char |-> char, tail |-> tail, kind |-> "file", first |-> first,
   size |-> IF first = 0 THEN 0 ELSE 1, stamp |-> stamp]
Dir(char, first, stamp) ==
  [char |-> char, tail |-> "d", kind |-> "dir", first |-> first,
   size |-> 0, stamp |-> stamp]
None == Unused

\* Chains given as the successor of each cluster that is not free.
Fat(next) == [c \in Clusters |-> IF c \in DOMAIN next THEN next[c] ELSE 0]

Blocks(used) ==
  [c \in Clusters |-> IF c \in DOMAIN used THEN used[c] ELSE <<None, None>>]

\* In the root directory, a deleted file in front of the one that took its
\* name, which has two clusters, and a directory that is itself deleted; in
\* it a file and a deleted one of the same name.
Ghosts ==
  [fat  |-> Fat(2 :> 6 @@ 6 :> End @@ 5 :> End),
   root |-> <<File("E5", "x", 3, 1), File("A", "x", 2, 2), Dir("E5", 4, 3)>>,
   data |-> Blocks(4 :> <<File("A", "y", 5, 4), File("E5", "y", 7, 5)>>)]

\* A file and a directory with one file.
Plain ==
  [fat  |-> Fat(2 :> 6 @@ 6 :> End @@ 4 :> End @@ 5 :> End),
   root |-> <<File("A", "x", 2, 2), Dir("A", 4, 3), None>>,
   data |-> Blocks(4 :> <<File("A", "y", 5, 4), None>>)]

GhostVolumes == {Ghosts, Plain}

\* What follows a stop in one of the two windows is explored on Plain alone,
\* the volume with an unused entry in its root directory.
ExposedIsPlain == exposed => \E s \in RootSlots : rootRegion[s] = None

Paths1(chars, tails) == {<<[char |-> c, tail |-> t]>> : c \in chars, t \in tails}
Paths2(dirs, chars, tails) ==
  {<<[char |-> d, tail |-> "d"], [char |-> c, tail |-> t]>> :
     d \in dirs, c \in chars, t \in tails}
GhostPaths ==
  Paths1({"A", "?"}, {"x"}) \cup Paths1({"A"}, {"d"}) \cup Paths2({"A"}, {"A"}, {"y"})

\* Damage another system may have left: a file whose chain runs into a
\* cycle, a deleted file whose first cluster is on it, and a directory of two
\* clusters.
Damaged ==
  [fat  |-> Fat(2 :> 3 @@ 3 :> 2 @@ 4 :> 5 @@ 5 :> End @@ 6 :> 3),
   root |-> <<File("E5", "x", 3, 1), Dir("A", 4, 2)>>,
   data |-> Blocks(4 :> <<None, File("A", "x", 6, 3)>>
                   @@ 5 :> <<File("B", "y", 3, 4), None>>)]
DamagedVolumes == {Damaged}
DamagedPaths == Paths1({"A"}, {"x"}) \cup Paths2({"A"}, {"A"}, {"x"}) \cup {<< >>}
Junk == {<<None, File("A", "x", 3, 5)>>}
Wild == {File("B", "x", 5, 5)}
NoBlocks  == {}
NoEntries == {}

\* The theorems about soundness and about the service are about such volumes
\* as these.
ASSUME GhostsAreAsAsked ==
  Volumes = GhostVolumes => IntactVolumes /\ OneClusterDirectories /\ PathsNameEntries
=============================================================================
