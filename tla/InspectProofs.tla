--------------------------- MODULE InspectProofs ---------------------------
(***************************************************************************)
(* Proofs about Inspect, for every volume and every file.                  *)
(***************************************************************************)
EXTENDS Inspect, FiniteSetTheorems, SequenceTheorems, TLAPS

\* The loops stay on clusters until they read 0.
LEMMA NextTyped ==
  ASSUME NEW t \in [Clusters -> Cells], NEW c \in Clusters
  PROVE  next_cluster(t, c) \in Clusters \cup {0}
BY InspectAssumption DEF next_cluster, Cell

\* A line printed is remembered or not.
LEMMA OutputTyped ==
  ASSUME lines \in Seq(Line), Len(lines) <= MaxLines, NEW line \in Line, Output(line)
  PROVE  lines' \in Seq(Line) /\ Len(lines') <= MaxLines
BY InspectAssumption DEF Output

\* Every variable stays in its type: what dump takes for the bytes left, an
\* unsigned number, is never more than the size of the file and never wraps
\* below 0, and no line counts more bytes than a cluster holds.
THEOREM TypeCorrect == Spec => []TypeOK
<1>1. Init => TypeOK
  BY InspectAssumption DEF Init, TypeOK
<1>2. TypeOK /\ [Next]_vars => TypeOK'
  <2> SUFFICES ASSUME TypeOK, [Next]_vars PROVE TypeOK'
    OBVIOUS
  <2> USE DEF TypeOK
  <2>1. ASSUME NEW first \in Clusters \cup {0}, NEW bytes \in Sizes, dump(first, bytes)
        PROVE  TypeOK'
    BY <2>1, InspectAssumption DEF dump
  <2>2. ASSUME NEW number \in Clusters, chain(number)
        PROVE  TypeOK'
    BY <2>2, InspectAssumption, FatAssumption DEF chain
  <2>3. CASE PrintCluster
    <3>1. cluster \in Clusters /\ cluster' \in Clusters \cup {0}
      BY <2>3, NextTyped DEF PrintCluster
    <3>2. size' \in 0..asked.size
      BY <2>3, InspectAssumption DEF PrintCluster
    <3>3. [cluster |-> cluster,
           bytes |-> IF size < ClusterBytes THEN size ELSE ClusterBytes,
           at |-> 0] \in Line
      BY <3>1, InspectAssumption, FatAssumption DEF Line
    <3>4. lines' \in Seq(Line) /\ Len(lines') <= MaxLines
      BY <2>3, <3>3, OutputTyped DEF PrintCluster
    <3> QED
      BY <2>3, <3>1, <3>2, <3>4 DEF PrintCluster
  <2>4. CASE PrintNumber
    <3>1. cluster \in Clusters /\ cluster' \in Clusters \cup {0}
      BY <2>4, NextTyped DEF PrintNumber
    <3>2. [cluster |-> cluster % Width16, bytes |-> 0, at |-> 0] \in Line
      BY <3>1, InspectAssumption, FatAssumption DEF Line, Width16
    <3>3. lines' \in Seq(Line) /\ Len(lines') <= MaxLines
      BY <2>4, <3>2, OutputTyped DEF PrintNumber
    <3> QED
      BY <2>4, <3>1, <3>3 DEF PrintNumber
  <2>5. CASE Return
    BY <2>5 DEF Return
  <2>6. ASSUME NEW first \in Clusters \cup {0}, parse_dir(first)
        PROVE  TypeOK'
    BY <2>6, InspectAssumption DEF parse_dir
  <2>7. CASE ReadCluster
    <3>1. cluster \in Clusters /\ cluster' \in Clusters \cup {0}
      BY <2>7, NextTyped DEF ReadCluster
    <3>2. dir_size * EntryBytes \in Nat /\ ClusterBytes \in Nat
      BY InspectAssumption
    <3>3. [cluster |-> cluster, bytes |-> ClusterBytes,
           at |-> dir_size * EntryBytes] \in Line
      BY <3>1, <3>2, FatAssumption DEF Line
    <3>4. lines' \in Seq(Line) /\ Len(lines') <= MaxLines
      BY <2>7, <3>3, OutputTyped DEF ReadCluster
    <3>5. ClusterBytes \div EntryBytes \in Nat
      BY InspectAssumption
    <3>6. nr' \in Nat /\ dir_size' \in Nat
      BY <2>7, <3>5 DEF ReadCluster
    <3> QED
      BY <2>7, <3>1, <3>4, <3>6 DEF ReadCluster
  <2>8. CASE UNCHANGED vars
    BY <2>8 DEF vars
  <2> QED
    BY <2>1, <2>2, <2>3, <2>4, <2>5, <2>6, <2>7, <2>8 DEF Next, Progress
<1> QED
  BY <1>1, <1>2, PTL DEF Spec
-----------------------------------------------------------------------------
(* Following a chain *)

\* A chain starts where it is said to start, goes on with the cluster next in
\* the table, and is no larger than any set that does the same.
LEMMA ChainStart ==
  ASSUME NEW t, NEW c \in Clusters
  PROVE  c \in Chain(t, c)
BY FatAssumption DEF Chain

LEMMA ChainNext ==
  ASSUME NEW t, NEW c, NEW x \in Chain(t, c), next_cluster(t, x) \in Clusters
  PROVE  next_cluster(t, x) \in Chain(t, c)
BY FatAssumption DEF Chain, Closed

LEMMA ChainLeast ==
  ASSUME NEW t, NEW c, NEW S \in SUBSET Clusters, c = 0 \/ c \in S, Closed(t, S)
  PROVE  Chain(t, c) \subseteq S
BY DEF Chain

\* An end of the chain of first in the table t; Ends(first) is EndsIn(table, first).
EndsIn(t, first) ==
  first = 0 \/ \E c \in Chain(t, first) : next_cluster(t, c) = 0

\* The clusters of the lines shown.
Visited(shown) == {shown[k].cluster : k \in 1..Len(shown)}

\* What a loop maintains that shows the clusters of the chain of first, one a
\* line, and is now at the cluster c: it has shown clusters of the chain from
\* its start, in order, none twice, and not c, which comes next.
Walk(t, first, c, shown) ==
  /\ Visited(shown) \subseteq Chain(t, first)
  /\ c = 0 \/ c \in Chain(t, first)
  /\ Len(shown) = 0 => c = first
  /\ Len(shown) # 0 => /\ shown[1].cluster = first
                       /\ next_cluster(t, shown[Len(shown)].cluster) = c
  /\ \A k \in 1..(Len(shown) - 1) :
       next_cluster(t, shown[k].cluster) = shown[k + 1].cluster
  /\ \A j, k \in 1..Len(shown) : j # k => shown[j].cluster # shown[k].cluster
  /\ c \notin Visited(shown)

LEMMA WalkStarts ==
  ASSUME NEW t, NEW first \in Clusters \cup {0}
  PROVE  Walk(t, first, first, << >>)
BY ChainStart DEF Walk, Visited

\* What is known of a sequence of lines with one more line.
LEMMA AppendIs ==
  ASSUME NEW shown \in Seq(Line), NEW line \in Line
  PROVE  /\ Append(shown, line) \in Seq(Line)
         /\ Len(Append(shown, line)) = Len(shown) + 1
         /\ \A k \in 1..Len(shown) : Append(shown, line)[k] = shown[k]
         /\ Append(shown, line)[Len(shown) + 1] = line
OBVIOUS

\* The clusters shown and the next one are closed under the table, when that
\* one does not lead out of them; and then no chain in them has an end.
LEMMA NoReturn ==
  ASSUME NEW t \in [Clusters -> Cells], NEW first \in Clusters \cup {0},
         NEW c \in Clusters, NEW shown \in Seq(Line),
         Walk(t, first, c, shown), EndsIn(t, first)
  PROVE  next_cluster(t, c) \notin Visited(shown) \cup {c}
<1> SUFFICES ASSUME next_cluster(t, c) \in Visited(shown) \cup {c}
             PROVE  FALSE
  OBVIOUS
<1> DEFINE S == Visited(shown) \cup {c}
<1>1. Len(shown) \in Nat
  OBVIOUS
<1>2. S \subseteq Clusters /\ 0 \notin S
  BY FatAssumption DEF Walk, Chain
<1>3. ASSUME NEW y \in S PROVE next_cluster(t, y) \in S
  <2>1. CASE y = c
    BY <2>1
  <2>2. CASE y # c
    <3>1. PICK k \in 1..Len(shown) : y = shown[k].cluster
      BY <2>2 DEF Visited
    <3>2. CASE k = Len(shown)
      BY <1>1, <3>1, <3>2 DEF Walk
    <3>3. CASE k # Len(shown)
      <4>1. k \in 1..(Len(shown) - 1) /\ k + 1 \in 1..Len(shown)
        BY <1>1, <3>3
      <4>2. next_cluster(t, y) = shown[k + 1].cluster
        BY <3>1, <4>1 DEF Walk
      <4> QED
        BY <4>1, <4>2 DEF Visited
    <3> QED
      BY <3>2, <3>3
  <2> QED
    BY <2>1, <2>2
<1>4. first \in S
  <2>1. CASE Len(shown) = 0
    BY <2>1 DEF Walk
  <2>2. CASE Len(shown) # 0
    <3>1. 1 \in 1..Len(shown)
      BY <1>1, <2>2
    <3> QED
      BY <2>2, <3>1 DEF Walk, Visited
  <2> QED
    BY <2>1, <2>2
<1>5. Chain(t, first) \subseteq S
  BY <1>2, <1>3, <1>4, ChainLeast DEF Closed
<1> QED
  BY <1>2, <1>3, <1>4, <1>5 DEF EndsIn

\* One line more.
LEMMA WalkGoesOn ==
  ASSUME NEW t \in [Clusters -> Cells], NEW first \in Clusters \cup {0},
         NEW c \in Clusters, NEW shown \in Seq(Line), NEW line \in Line,
         line.cluster = c, Walk(t, first, c, shown), EndsIn(t, first)
  PROVE  Walk(t, first, next_cluster(t, c), Append(shown, line))
<1> DEFINE new  == Append(shown, line)
           next == next_cluster(t, c)
           n    == Len(shown)
<1>1. /\ n \in Nat /\ new \in Seq(Line) /\ Len(new) = n + 1
      /\ \A k \in 1..n : new[k] = shown[k]
      /\ new[n + 1].cluster = c
  BY AppendIs
<1> HIDE DEF new
<1>2. Visited(new) = Visited(shown) \cup {c}
  <2>1. \A k \in 1..(n + 1) : k \in 1..n \/ k = n + 1
    BY <1>1
  <2>2. Visited(new) \subseteq Visited(shown) \cup {c}
    BY <1>1, <2>1 DEF Visited
  <2>3. 1..n \subseteq 1..(n + 1) /\ n + 1 \in 1..(n + 1)
    BY <1>1
  <2>4. Visited(shown) \cup {c} \subseteq Visited(new)
    BY <1>1, <2>3 DEF Visited
  <2> QED
    BY <2>2, <2>4
<1>3. c \in Chain(t, first) /\ c \notin Visited(shown)
  BY FatAssumption DEF Walk
<1>4. Visited(new) \subseteq Chain(t, first)
  BY <1>2, <1>3 DEF Walk
<1>5. next = 0 \/ next \in Chain(t, first)
  BY <1>3, NextTyped, ChainNext
<1>6. new[1].cluster = first
  <2>1. CASE n = 0
    BY <1>1, <2>1 DEF Walk
  <2>2. CASE n # 0
    BY <1>1, <2>2 DEF Walk
  <2> QED
    BY <2>1, <2>2
<1>7. ASSUME NEW k \in 1..(Len(new) - 1)
      PROVE  next_cluster(t, new[k].cluster) = new[k + 1].cluster
  <2>1. k \in 1..n
    BY <1>1
  <2>2. CASE k = n
    BY <1>1, <2>1, <2>2 DEF Walk
  <2>3. CASE k # n
    <3>1. k \in 1..(n - 1) /\ k + 1 \in 1..n
      BY <1>1, <2>1, <2>3
    <3>2. next_cluster(t, shown[k].cluster) = shown[k + 1].cluster
      BY <3>1 DEF Walk
    <3> QED
      BY <1>1, <2>1, <3>1, <3>2
  <2> QED
    BY <2>2, <2>3
<1>8. ASSUME NEW j \in 1..Len(new), NEW k \in 1..Len(new), j # k
      PROVE  new[j].cluster # new[k].cluster
  <2>1. \A x \in 1..n : new[x].cluster # c
    BY <1>1, <1>3 DEF Visited
  <2>2. CASE j = n + 1 \/ k = n + 1
    BY <1>1, <1>8, <2>1, <2>2
  <2>3. CASE j # n + 1 /\ k # n + 1
    <3>1. j \in 1..n /\ k \in 1..n
      BY <1>1, <2>3
    <3> QED
      BY <1>1, <1>8, <3>1 DEF Walk
  <2> QED
    BY <2>2, <2>3
<1>9. next \notin Visited(new)
  BY <1>2, NoReturn
<1>10. Walk(t, first, next, new)
  BY <1>1, <1>4, <1>5, <1>6, <1>7, <1>8, <1>9 DEF Walk
<1> QED
  BY <1>10 DEF new

\* There are as many clusters shown as lines.
LEMMA CountVisited ==
  ASSUME NEW t, NEW first, NEW c, NEW shown \in Seq(Line), Walk(t, first, c, shown)
  PROVE  IsFiniteSet(Visited(shown)) /\ Cardinality(Visited(shown)) = Len(shown)
<1> DEFINE n == Len(shown)
           f == [k \in 1..n |-> shown[k].cluster]
<1>1. n \in Nat
  OBVIOUS
<1>2. f \in Bijection(1..n, Visited(shown))
  BY DEF Bijection, Injection, Surjection, IsInjective, Visited, Walk
<1>3. ExistsBijection(1..n, Visited(shown))
  BY <1>2 DEF ExistsBijection
<1> QED
  BY <1>1, <1>3, FS_CountingElements, FS_NatBijection

\* A loop that has come to the end has shown the whole chain.
LEMMA WalkEnds ==
  ASSUME NEW t, NEW first \in Clusters \cup {0}, NEW shown \in Seq(Line),
         Walk(t, first, 0, shown)
  PROVE  Visited(shown) = Chain(t, first)
<1>1. Len(shown) \in Nat
  OBVIOUS
<1>2. Visited(shown) \subseteq Clusters
  BY DEF Walk, Chain
<1>3. ASSUME NEW y \in Visited(shown)
      PROVE  next_cluster(t, y) \in Visited(shown) \cup {0}
  <2>1. PICK k \in 1..Len(shown) : y = shown[k].cluster
    BY DEF Visited
  <2>2. CASE k = Len(shown)
    BY <1>1, <2>1, <2>2 DEF Walk
  <2>3. CASE k # Len(shown)
    <3>1. k \in 1..(Len(shown) - 1) /\ k + 1 \in 1..Len(shown)
      BY <1>1, <2>3
    <3>2. next_cluster(t, y) = shown[k + 1].cluster
      BY <2>1, <3>1 DEF Walk
    <3> QED
      BY <3>1, <3>2 DEF Visited
  <2> QED
    BY <2>2, <2>3
<1>4. first = 0 \/ first \in Visited(shown)
  <2>1. CASE Len(shown) = 0
    BY <2>1 DEF Walk
  <2>2. CASE Len(shown) # 0
    <3>1. 1 \in 1..Len(shown)
      BY <1>1, <2>2
    <3> QED
      BY <2>2, <3>1 DEF Walk, Visited
  <2> QED
    BY <2>1, <2>2
<1>5. Chain(t, first) \subseteq Visited(shown)
  BY <1>2, <1>3, <1>4, ChainLeast DEF Closed
<1> QED
  BY <1>5 DEF Walk

\* As long as there is a cluster to show, there is room for its line.
LEMMA WalkFits ==
  ASSUME RoomForLines, NEW t, NEW first, NEW c \in Clusters,
         NEW shown \in Seq(Line), Walk(t, first, c, shown)
  PROVE  Len(shown) < MaxLines
<1>1. Visited(shown) \subseteq Clusters /\ Visited(shown) # Clusters
  BY DEF Walk, Chain
<1>2. /\ Cardinality(Visited(shown)) <= Cardinality(Clusters)
      /\ Cardinality(Visited(shown)) # Cardinality(Clusters)
  <2>1. IsFiniteSet(Clusters) /\ Visited(shown) \in SUBSET Clusters
    BY <1>1 DEF RoomForLines
  <2> QED
    BY <1>1, <2>1, FS_Subset
<1>3. Cardinality(Visited(shown)) = Len(shown)
  BY CountVisited
<1>4. Cardinality(Clusters) \in Nat
  BY FS_CardinalityType DEF RoomForLines
<1> QED
  BY <1>2, <1>3, <1>4, InspectAssumption DEF RoomForLines
-----------------------------------------------------------------------------
(* What the commands maintain *)

\* The chains a command is promised to follow: those that end, and for chain
\* those of numbers no more than 16 bits wide.
Followable ==
  /\ Ends(asked.first)
  /\ command = "chain" => \A c \in Chain(table, asked.first) : c < Width16

\* The loop is on the chain of the cluster asked for.
WalksTheChain ==
  (command # "none" /\ Followable) => Walk(table, asked.first, cluster, lines)

\* dump has taken full clusters from the size as long as there was one left;
\* the line after them has the rest.
FullBefore(k) == k * ClusterBytes <= asked.size
CountsBytes ==
  (command = "dump" /\ Followable) =>
    /\ FullBefore(Len(lines)) => size = asked.size - Len(lines) * ClusterBytes
    /\ \A k \in 1..Len(lines) :
         /\ FullBefore(k) => lines[k].bytes = ClusterBytes
         /\ (FullBefore(k - 1) /\ ~FullBefore(k)) =>
              lines[k].bytes = asked.size - (k - 1) * ClusterBytes

\* parse_dir has put one cluster of entries behind the other.
FillsTheArray ==
  command = "parse_dir" =>
    /\ nr = Len(lines) + 1
    /\ dir_size * EntryBytes = Len(lines) * ClusterBytes
    /\ \A k \in 1..Len(lines) : lines[k].at = (k - 1) * ClusterBytes

IInv == TypeOK /\ WalksTheChain /\ CountsBytes /\ FillsTheArray

\* Multiples of the cluster size.
LEMMA Multiples ==
  ASSUME NEW n \in Int
  PROVE  /\ n * ClusterBytes \in Int
         /\ (n + 1) * ClusterBytes = n * ClusterBytes + ClusterBytes
         /\ (n - 1) * ClusterBytes = n * ClusterBytes - ClusterBytes
BY InspectAssumption

\* The entries of a cluster fill it.
LEMMA EntriesFill ==
  ASSUME NEW d \in Nat
  PROVE  (d + ClusterBytes \div EntryBytes) * EntryBytes
           = d * EntryBytes + ClusterBytes
<1> DEFINE e == EntryBytes
           q == ClusterBytes \div EntryBytes
<1>1. ClusterBytes = e * q + (ClusterBytes % e)
  BY InspectAssumption
<1>2. q \in Nat /\ e \in Nat /\ ClusterBytes % e = 0
  BY InspectAssumption
<1> HIDE DEF q
<1>3. (d + q) * e = d * e + e * q
  BY <1>2
<1> QED
  BY <1>1, <1>2, <1>3, InspectAssumption DEF q

\* A file that needs n clusters fills n - 1 of them and has some bytes more.
LEMMA NeededIs ==
  ASSUME NEW bytes \in Nat, NEW n \in Nat, n = Needed(bytes)
  PROVE  /\ bytes <= n * ClusterBytes
         /\ n # 0 => (n - 1) * ClusterBytes < bytes
         /\ n = 0 => bytes = 0
<1> DEFINE a == bytes + ClusterBytes - 1
<1>1. a \in Nat /\ ClusterBytes \in Nat \ {0}
  BY InspectAssumption
<1>2. /\ a = ClusterBytes * n + (a % ClusterBytes)
      /\ a % ClusterBytes \in 0..(ClusterBytes - 1)
  BY <1>1 DEF Needed
<1>3. ClusterBytes * n = n * ClusterBytes
  BY <1>1
<1>4. (n - 1) * ClusterBytes = n * ClusterBytes - ClusterBytes
  BY Multiples
<1> QED
  BY <1>1, <1>2, <1>3, <1>4, Multiples

\* A step of a loop that shows its cluster as a line and follows the table.
Shows1(line) ==
  /\ line.cluster = cluster
  /\ Output(line)
  /\ cluster' = next_cluster(table, cluster)
  /\ UNCHANGED <<table, command, asked>>

\* It stays on the chain and adds its line.
LEMMA LoopStep ==
  ASSUME RoomForLines, IInv, command # "none", Followable, cluster # 0,
         NEW line \in Line, Shows1(line)
  PROVE  /\ lines' = Append(lines, line)
         /\ Walk(table', asked'.first, cluster', lines')
<1>1. /\ table \in [Clusters -> Cells] /\ asked.first \in Clusters \cup {0}
      /\ cluster \in Clusters /\ lines \in Seq(Line)
      /\ Walk(table, asked.first, cluster, lines)
      /\ EndsIn(table, asked.first)
  BY DEF IInv, TypeOK, WalksTheChain, Followable, Ends, EndsIn
<1>2. Len(lines) < MaxLines
  BY <1>1, WalkFits
<1>3. lines' = Append(lines, line)
  BY <1>2 DEF Shows1, Output
<1>4. Walk(table, asked.first, next_cluster(table, cluster), Append(lines, line))
  BY <1>1, WalkGoesOn DEF Shows1
<1> QED
  BY <1>3, <1>4 DEF Shows1

\* One line of dump.
LEMMA PrintKeeps ==
  ASSUME RoomForLines, IInv, PrintCluster
  PROVE  WalksTheChain' /\ CountsBytes' /\ FillsTheArray'
<1> DEFINE n == Len(lines)
           line == [cluster |-> cluster,
                    bytes |-> IF size < ClusterBytes THEN size ELSE ClusterBytes,
                    at |-> 0]
<1>1. /\ command = "dump" /\ cluster \in Clusters /\ n \in Nat
      /\ size \in Nat /\ asked.size \in Nat /\ ClusterBytes \in Nat \ {0}
      /\ UNCHANGED <<table, command, asked>>
  BY InspectAssumption DEF PrintCluster, IInv, TypeOK
<1>2. line \in Line /\ Shows1(line)
  BY <1>1, FatAssumption DEF Line, Shows1, PrintCluster
<1>3. Followable' <=> Followable
  BY <1>1 DEF Followable, Ends
<1>4. WalksTheChain'
  BY <1>1, <1>2, <1>3, LoopStep, FatAssumption DEF WalksTheChain
<1>5. ASSUME Followable PROVE CountsBytes'
  <2>1. lines' = Append(lines, line)
    BY <1>1, <1>2, <1>5, LoopStep, FatAssumption
  <2>2. /\ Len(lines') = n + 1 /\ lines'[n + 1] = line
        /\ \A k \in 1..n : lines'[k] = lines[k]
    <3>1. lines \in Seq(Line) /\ line \in Line
      BY <1>2 DEF IInv, TypeOK
    <3> HIDE DEF line
    <3> QED
      BY <2>1, <3>1, AppendIs
  <2>3. /\ FullBefore(n) => size = asked.size - n * ClusterBytes
        /\ \A k \in 1..n :
             /\ FullBefore(k) => lines[k].bytes = ClusterBytes
             /\ (FullBefore(k - 1) /\ ~FullBefore(k)) =>
                  lines[k].bytes = asked.size - (k - 1) * ClusterBytes
    BY <1>1, <1>5 DEF IInv, CountsBytes
  <2>4. /\ n * ClusterBytes \in Int
        /\ (n + 1) * ClusterBytes = n * ClusterBytes + ClusterBytes
        /\ (n + 1) - 1 = n
    BY <1>1, Multiples
  <2>5. size' = IF size < ClusterBytes THEN size ELSE size - ClusterBytes
    BY DEF PrintCluster
  <2>6. FullBefore(n + 1) =>
          /\ size' = asked.size - (n + 1) * ClusterBytes
          /\ line.bytes = ClusterBytes
    <3> SUFFICES ASSUME FullBefore(n + 1)
                 PROVE  /\ size' = asked.size - (n + 1) * ClusterBytes
                        /\ line.bytes = ClusterBytes
      OBVIOUS
    <3>1. size = asked.size - n * ClusterBytes /\ size >= ClusterBytes
      BY <1>1, <2>3, <2>4 DEF FullBefore
    <3>2. size' = size - ClusterBytes /\ line.bytes = ClusterBytes
      BY <1>1, <2>5, <3>1
    <3> QED
      BY <1>1, <2>4, <3>1, <3>2
  <2>7. (FullBefore(n) /\ ~FullBefore(n + 1)) =>
          line.bytes = asked.size - n * ClusterBytes
    BY <1>1, <2>3, <2>4 DEF FullBefore
  <2>8. ASSUME NEW k \in 1..(n + 1)
        PROVE  /\ FullBefore(k) => lines'[k].bytes = ClusterBytes
               /\ (FullBefore(k - 1) /\ ~FullBefore(k)) =>
                    lines'[k].bytes = asked.size - (k - 1) * ClusterBytes
    <3>1. CASE k = n + 1
      BY <2>2, <2>4, <2>6, <2>7, <3>1
    <3>2. CASE k # n + 1
      <4>1. k \in 1..n
        BY <1>1, <3>2
      <4> QED
        BY <2>2, <2>3, <4>1
    <3> QED
      BY <3>1, <3>2
  <2>9. \A k : FullBefore(k)' <=> FullBefore(k)
    BY <1>1 DEF FullBefore
  <2> QED
    BY <1>1, <2>2, <2>6, <2>8, <2>9 DEF CountsBytes, FullBefore
<1>6. CountsBytes'
  BY <1>3, <1>5 DEF CountsBytes
<1>7. FillsTheArray'
  BY <1>1 DEF FillsTheArray
<1> QED
  BY <1>4, <1>6, <1>7

\* One line of chain.
LEMMA NumberKeeps ==
  ASSUME RoomForLines, IInv, PrintNumber
  PROVE  WalksTheChain' /\ CountsBytes' /\ FillsTheArray'
<1> DEFINE line == [cluster |-> cluster % Width16, bytes |-> 0, at |-> 0]
<1>1. /\ command = "chain" /\ cluster \in Clusters /\ cluster # 0
      /\ UNCHANGED <<table, command, asked>>
  BY DEF PrintNumber, IInv, TypeOK
<1>2. Followable' <=> Followable
  BY <1>1 DEF Followable, Ends
<1>3. ASSUME Followable PROVE Walk(table', asked'.first, cluster', lines')
  <2>1. cluster \in Chain(table, asked.first)
    BY <1>1, <1>3 DEF IInv, WalksTheChain, Walk
  <2>2. cluster \in Nat /\ cluster < Width16
    BY <1>1, <1>3, <2>1, FatAssumption DEF Followable
  <2>3. cluster % Width16 = cluster
    BY <2>2 DEF Width16
  <2>4. line \in Line /\ Shows1(line)
    BY <1>1, <2>2, <2>3, InspectAssumption DEF Line, Shows1, PrintNumber
  <2> QED
    BY <1>1, <1>3, <2>4, LoopStep
<1> QED
  BY <1>1, <1>2, <1>3 DEF WalksTheChain, CountsBytes, FillsTheArray

\* One cluster of a directory.
LEMMA ReadKeeps ==
  ASSUME RoomForLines, IInv, ReadCluster
  PROVE  WalksTheChain' /\ CountsBytes' /\ FillsTheArray'
<1> DEFINE n == Len(lines)
           line == [cluster |-> cluster, bytes |-> ClusterBytes,
                    at |-> dir_size * EntryBytes]
<1>1. /\ command = "parse_dir" /\ cluster \in Clusters /\ cluster # 0
      /\ UNCHANGED <<table, command, asked>>
      /\ n \in Nat /\ lines \in Seq(Line)
  BY DEF ReadCluster, IInv, TypeOK
<1>2. /\ dir_size \in Nat /\ EntryBytes \in Nat /\ ClusterBytes \in Nat
      /\ dir_size * EntryBytes \in Nat
  BY InspectAssumption DEF IInv, TypeOK
<1>3. line \in Line /\ Shows1(line)
  BY <1>1, <1>2, FatAssumption DEF Line, Shows1, ReadCluster
<1>4. Followable' <=> Followable
  BY <1>1 DEF Followable, Ends
<1>5. WalksTheChain'
  BY <1>1, <1>3, <1>4, LoopStep DEF WalksTheChain
<1>6. /\ nr = n + 1 /\ dir_size * EntryBytes = n * ClusterBytes
      /\ \A k \in 1..n : lines[k].at = (k - 1) * ClusterBytes
  BY <1>1 DEF IInv, FillsTheArray
<1>7. CASE n < MaxLines
  <2>1. /\ lines' = Append(lines, line) /\ nr' = nr + 1
        /\ dir_size' = dir_size + ClusterBytes \div EntryBytes
    BY <1>7 DEF ReadCluster, Output
  <2>2. /\ Len(lines') = n + 1 /\ lines'[n + 1] = line
        /\ \A k \in 1..n : lines'[k] = lines[k]
    BY <1>1, <1>3, <2>1, AppendIs
  <2>3. dir_size' * EntryBytes = (n + 1) * ClusterBytes
    <3>1. dir_size' * EntryBytes = dir_size * EntryBytes + ClusterBytes
      BY <1>2, <2>1, EntriesFill
    <3>2. (n + 1) * ClusterBytes = n * ClusterBytes + ClusterBytes
      BY <1>1, Multiples
    <3> QED
      BY <1>6, <3>1, <3>2
  <2>4. ASSUME NEW k \in 1..(n + 1)
        PROVE  lines'[k].at = (k - 1) * ClusterBytes
    <3>1. CASE k = n + 1
      <4>1. k - 1 = n /\ lines'[k].at = n * ClusterBytes
        BY <1>1, <1>6, <2>2, <3>1
      <4> QED
        BY <4>1
    <3>2. CASE k # n + 1
      <4>1. k \in 1..n
        BY <1>1, <3>2
      <4> QED
        BY <1>6, <2>2, <4>1
    <3> QED
      BY <3>1, <3>2
  <2>5. nr' = (n + 1) + 1
    BY <1>6, <2>1
  <2> QED
    BY <1>1, <1>5, <2>2, <2>3, <2>4, <2>5 DEF FillsTheArray, CountsBytes
<1>8. CASE ~(n < MaxLines)
  BY <1>1, <1>5, <1>6, <1>8
  DEF ReadCluster, Output, FillsTheArray, CountsBytes
<1> QED
  BY <1>7, <1>8

\* A command starts at the cluster asked for, and has shown nothing.
LEMMA StartKeeps ==
  ASSUME TypeOK',
         command' # "none" => lines' = << >>,
         (command' # "none" /\ Followable') => cluster' = asked'.first,
         command' = "dump" => size' = asked'.size,
         command' = "parse_dir" => nr' = 1 /\ dir_size' = 0
  PROVE  WalksTheChain' /\ CountsBytes' /\ FillsTheArray'
<1>1. asked'.first \in Clusters \cup {0} /\ asked'.size \in Nat
  BY DEF TypeOK
<1>2. 0 * ClusterBytes = 0 /\ 0 * EntryBytes = 0
  BY InspectAssumption
<1>3. Len(<< >>) = 0 /\ 1..0 = {}
  OBVIOUS
<1>4. WalksTheChain'
  BY <1>1, WalkStarts DEF WalksTheChain
<1>5. CountsBytes'
  BY <1>1, <1>2, <1>3 DEF CountsBytes
<1>6. FillsTheArray'
  BY <1>2, <1>3 DEF FillsTheArray
<1> QED
  BY <1>4, <1>5, <1>6

\* Every step keeps what the commands maintain.
LEMMA Maintained ==
  ASSUME RoomForLines, IInv, TypeOK', [Next]_vars
  PROVE  IInv'
<1>1. ASSUME NEW first, NEW bytes, dump(first, bytes)
      PROVE  WalksTheChain' /\ CountsBytes' /\ FillsTheArray'
  BY <1>1, StartKeeps DEF dump
<1>2. ASSUME NEW number \in Clusters, chain(number)
      PROVE  WalksTheChain' /\ CountsBytes' /\ FillsTheArray'
  <2>1. /\ command' = "chain" /\ asked'.first = number /\ lines' = << >>
        /\ cluster' = number % Width16 /\ table' = table
    BY <1>2 DEF chain
  <2>2. ASSUME Followable' PROVE cluster' = asked'.first
    <3>1. number < Width16
      BY <2>1, <2>2, ChainStart DEF Followable
    <3> QED
      BY <2>1, <3>1, FatAssumption DEF Width16
  <2> QED
    BY <2>1, <2>2, StartKeeps
<1>3. ASSUME NEW first, parse_dir(first)
      PROVE  WalksTheChain' /\ CountsBytes' /\ FillsTheArray'
  BY <1>3, StartKeeps DEF parse_dir
<1>4. ASSUME Return PROVE WalksTheChain' /\ CountsBytes' /\ FillsTheArray'
  BY <1>4 DEF Return, WalksTheChain, CountsBytes, FillsTheArray
<1>5. ASSUME UNCHANGED vars PROVE WalksTheChain' /\ CountsBytes' /\ FillsTheArray'
  BY <1>5 DEF vars, IInv, WalksTheChain, CountsBytes, FillsTheArray,
              Followable, Ends, FullBefore
<1>6. WalksTheChain' /\ CountsBytes' /\ FillsTheArray'
  BY <1>1, <1>2, <1>3, <1>4, <1>5, PrintKeeps, NumberKeeps, ReadKeeps
  DEF Next, Progress
<1> QED
  BY <1>6 DEF IInv

LEMMA AlwaysMaintained ==
  ASSUME RoomForLines
  PROVE  Spec => []IInv
<1>1. Init /\ TypeOK => IInv
  BY DEF Init, IInv, WalksTheChain, CountsBytes, FillsTheArray
<1>2. IInv /\ TypeOK' /\ [Next]_vars => IInv'
  BY Maintained
<1> QED
  BY <1>1, <1>2, TypeCorrect, PTL DEF Spec

-----------------------------------------------------------------------------
(* The theorems *)

\* At the end of a chain, the lines are the chain.
LEMMA EndShows ==
  ASSUME IInv, command # "none", Followable, cluster = 0
  PROVE  Shows(asked.first)
<1>1. /\ lines \in Seq(Line) /\ asked.first \in Clusters \cup {0}
      /\ Walk(table, asked.first, 0, lines)
  BY DEF IInv, TypeOK, WalksTheChain
<1>2. Len(lines) = Cardinality(Chain(table, asked.first))
  BY <1>1, WalkEnds, CountVisited
<1>3. lines # << >> => lines[1].cluster = asked.first
  BY <1>1, EmptySeq DEF Walk
<1> QED
  BY <1>1, <1>2, <1>3 DEF Walk, Shows

\* A dump shows the bytes of the file, in order and once: whatever the size of
\* clusters and files, for every chain that is as long as the size needs.
THEOREM DumpShowsTheFile ==
  ASSUME RoomForLines
  PROVE  Spec => []DumpIsTheFile
<1>1. IInv => DumpIsTheFile
  <2> SUFFICES ASSUME IInv, AtEnd("dump"), Ends(asked.first),
                      Cardinality(Chain(table, asked.first)) = Needed(asked.size)
               PROVE  /\ Shows(asked.first)
                      /\ \A k \in 1..(Len(lines) - 1) : lines[k].bytes = ClusterBytes
                      /\ asked.size = IF lines = << >> THEN 0
                           ELSE (Len(lines) - 1) * ClusterBytes + Last(lines).bytes
    BY DEF DumpIsTheFile
  <2> DEFINE n == Len(lines)
             s == asked.size
  <2>1. /\ command = "dump" /\ cluster = 0 /\ Followable
        /\ lines \in Seq(Line) /\ s \in Nat /\ n \in Nat
    BY DEF AtEnd, Followable, IInv, TypeOK
  <2>2. Shows(asked.first)
    BY <2>1, EndShows
  <2>3. n = Needed(s)
    BY <2>2 DEF Shows
  <2>4. /\ s <= n * ClusterBytes
        /\ n # 0 => (n - 1) * ClusterBytes < s
        /\ n = 0 => s = 0
    BY <2>1, <2>3, NeededIs
  <2>5. \A k \in 1..n :
          /\ FullBefore(k) => lines[k].bytes = ClusterBytes
          /\ (FullBefore(k - 1) /\ ~FullBefore(k)) =>
               lines[k].bytes = s - (k - 1) * ClusterBytes
    BY <2>1 DEF IInv, CountsBytes
  <2>6. ASSUME NEW k \in 1..(n - 1) PROVE lines[k].bytes = ClusterBytes
    <3>1. k \in 1..n /\ k <= n - 1 /\ n # 0
      BY <2>1
    <3>2. k * ClusterBytes <= (n - 1) * ClusterBytes
      BY <2>1, <3>1, InspectAssumption
    <3>3. k * ClusterBytes \in Int /\ (n - 1) * ClusterBytes \in Int
      <4>1. k \in Int /\ n - 1 \in Int
        BY <2>1
      <4> QED
        BY <4>1, Multiples
    <3>4. (n - 1) * ClusterBytes < s
      BY <2>4, <3>1
    <3>5. FullBefore(k)
      BY <2>1, <3>2, <3>3, <3>4 DEF FullBefore
    <3> QED
      BY <2>5, <3>1, <3>5
  <2>7. ASSUME n # 0
        PROVE  s = (n - 1) * ClusterBytes + lines[n].bytes
    <3>1. /\ n * ClusterBytes \in Int /\ (n - 1) * ClusterBytes \in Int
          /\ (n - 1) * ClusterBytes = n * ClusterBytes - ClusterBytes
      <4>1. n \in Int /\ n - 1 \in Int
        BY <2>1
      <4> QED
        BY <4>1, Multiples
    <3>2. n \in 1..n /\ FullBefore(n - 1)
      <4>1. (n - 1) * ClusterBytes < s
        BY <2>4, <2>7
      <4> QED
        BY <2>1, <2>7, <3>1, <4>1 DEF FullBefore
    <3>3. CASE FullBefore(n)
      <4>1. lines[n].bytes = ClusterBytes /\ n * ClusterBytes <= s
        BY <2>5, <3>2, <3>3 DEF FullBefore
      <4> QED
        BY <2>1, <2>4, <3>1, <4>1, InspectAssumption
    <3>4. CASE ~FullBefore(n)
      <4>1. lines[n].bytes = s - (n - 1) * ClusterBytes
        BY <2>5, <3>2, <3>4
      <4> QED
        BY <2>1, <3>1, <4>1
    <3> QED
      BY <3>3, <3>4
  <2>8. lines = << >> <=> n = 0
    BY <2>1, EmptySeq
  <2>9. Last(lines) = lines[n]
    BY DEF Last
  <2> QED
    BY <2>2, <2>4, <2>6, <2>7, <2>8, <2>9
<1> QED
  BY <1>1, AlwaysMaintained, PTL

\* What parse_dir reads lies in the array without gaps and inside it, and is
\* the whole directory when its chain has an end.
THEOREM DirectoryIsInTheArray ==
  ASSUME RoomForLines
  PROVE  Spec => []ArrayIsTheDirectory
<1>1. IInv => ArrayIsTheDirectory
  <2> SUFFICES ASSUME IInv, command = "parse_dir"
               PROVE  /\ dir_size * EntryBytes = Len(lines) * ClusterBytes
                      /\ \A k \in DOMAIN lines : lines[k].at = (k - 1) * ClusterBytes
                      /\ lines # << >> =>
                           Last(lines).at + ClusterBytes <= (nr - 1) * ClusterBytes
                      /\ (AtEnd("parse_dir") /\ Ends(asked.first))
                           => Shows(asked.first)
    BY DEF ArrayIsTheDirectory
  <2> DEFINE n == Len(lines)
  <2>1. lines \in Seq(Line) /\ n \in Nat /\ DOMAIN lines = 1..n
    BY DEF IInv, TypeOK
  <2>2. /\ nr = n + 1 /\ dir_size * EntryBytes = n * ClusterBytes
        /\ \A k \in 1..n : lines[k].at = (k - 1) * ClusterBytes
    BY DEF IInv, FillsTheArray
  <2>3. ASSUME lines # << >>
        PROVE  Last(lines).at + ClusterBytes <= (nr - 1) * ClusterBytes
    <3>1. n \in 1..n /\ Last(lines) = lines[n]
      BY <2>1, <2>3, EmptySeq DEF Last
    <3>2. Last(lines).at = (n - 1) * ClusterBytes
      BY <2>2, <3>1
    <3>3. /\ (n - 1) * ClusterBytes = n * ClusterBytes - ClusterBytes
          /\ n * ClusterBytes \in Int /\ nr - 1 = n
      BY <2>1, <2>2, Multiples
    <3> QED
      BY <3>2, <3>3, InspectAssumption
  <2>4. (AtEnd("parse_dir") /\ Ends(asked.first)) => Shows(asked.first)
    BY EndShows DEF AtEnd, Followable
  <2> QED
    BY <2>1, <2>2, <2>3, <2>4
<1> QED
  BY <1>1, AlwaysMaintained, PTL

\* chain shows the chain of the number typed, in FAT16 and in FAT32 as long as
\* the numbers have 16 bits.
THEOREM ChainIsShown ==
  ASSUME RoomForLines
  PROVE  Spec => []ChainOfTheNumber
<1>1. IInv => ChainOfTheNumber
  BY EndShows DEF ChainOfTheNumber, AtEnd, Followable
<1> QED
  BY <1>1, AlwaysMaintained, PTL
=============================================================================
