------------------------------ MODULE Inspect ------------------------------
(***************************************************************************)
(* The loops that follow a chain: dump and hdump, which print a file       *)
(* cluster after cluster (they differ in how a byte is printed); chain,    *)
(* which prints the numbers of the clusters; and parse_dir, which reads a  *)
(* directory into an array that grows with every cluster, for find, ls,    *)
(* delete and undelete.  All stop where next_cluster says 0 and nowhere    *)
(* else: not where the size of the file is reached, and not where the      *)
(* chain has been before.                                                  *)
(*                                                                         *)
(* The bytes read are left out: a line printed, or a part of the array, is *)
(* the cluster read and the number of bytes taken from it.  Reads succeed. *)
(***************************************************************************)
EXTENDS FatTable, Sequences, FiniteSets, SequencesExt

CONSTANTS
  Cells,         \* the values the table may hold
  ClusterBytes,  \* SECTOR * fat_boot.sectors_per_cluster
  EntryBytes,    \* sizeof(struct fat_dir_layout)
  Sizes,         \* the sizes of files
  MaxLines       \* bound on what is remembered of the output, so that a
                 \* loop over a cycle is a loop of the model

ASSUME InspectAssumption ==
  /\ Cells \subseteq Cell
  /\ ClusterBytes \in Nat \ {0} /\ EntryBytes \in Nat \ {0}
  /\ ClusterBytes % EntryBytes = 0
  /\ Sizes \subseteq Nat
  /\ MaxLines \in Nat
  /\ \A c \in Clusters : c % Width16 \in Clusters \cup {0}

VARIABLES
  table,      \* fat_table, which these commands only read
  command,    \* "none", "dump" (or hdump), "chain" or "parse_dir"
  asked,      \* the first cluster and size in the entry of the file, or the
              \* cluster number typed
  cluster, size,
  nr, dir_size,  \* of parse_dir: the clusters to make room for next, and the
                 \* entries read
  lines       \* what has been printed or read

vars == <<table, command, asked, cluster, size, nr, dir_size, lines>>

\* What is printed at a time; chain prints no bytes.  Only parse_dir puts them
\* at a place of their own.
Line == [cluster : Nat, bytes : 0..ClusterBytes, at : Nat]

TypeOK ==
  /\ table \in [Clusters -> Cells]
  /\ command \in {"none", "dump", "chain", "parse_dir"}
  /\ asked \in [first : Clusters \cup {0}, size : Nat]
  /\ cluster \in Clusters \cup {0}
  /\ size \in 0..asked.size
  /\ nr \in Nat /\ dir_size \in Nat
  /\ lines \in Seq(Line) /\ Len(lines) <= MaxLines

-----------------------------------------------------------------------------
Init ==
  /\ table \in [Clusters -> Cells]
  /\ command = "none"
  /\ asked = [first |-> 0, size |-> 0]
  /\ cluster = 0 /\ size = 0 /\ nr = 1 /\ dir_size = 0 /\ lines = << >>

Output(line) == lines' = IF Len(lines) < MaxLines THEN Append(lines, line) ELSE lines

\* dump and hdump, once find has found the entry
dump(first, bytes) ==
  /\ command = "none"
  /\ command' = "dump"
  /\ asked' = [first |-> first, size |-> bytes]
  /\ cluster' = first /\ size' = bytes
  /\ lines' = << >>
  /\ UNCHANGED <<table, nr, dir_size>>

\* Slips: the size is counted down for the last, partial cluster as well; the
\* cluster is followed before it is read; a partial cluster is not followed.
SubtractAlways ==
  /\ command = "dump" /\ cluster # 0
  /\ size' = size - ClusterBytes
  /\ Output([cluster |-> cluster,
             bytes |-> IF size < ClusterBytes THEN size ELSE ClusterBytes,
             at |-> 0])
  /\ cluster' = next_cluster(table, cluster)
  /\ UNCHANGED <<table, command, asked, nr, dir_size>>

FollowFirst ==
  /\ command = "dump" /\ cluster # 0
  /\ size' = IF size < ClusterBytes THEN size ELSE size - ClusterBytes
  /\ cluster' = next_cluster(table, cluster)
  /\ Output([cluster |-> cluster',
             bytes |-> IF size < ClusterBytes THEN size ELSE ClusterBytes,
             at |-> 0])
  /\ UNCHANGED <<table, command, asked, nr, dir_size>>

FollowFull ==
  /\ command = "dump" /\ cluster # 0
  /\ size' = IF size < ClusterBytes THEN size ELSE size - ClusterBytes
  /\ Output([cluster |-> cluster,
             bytes |-> IF size < ClusterBytes THEN size ELSE ClusterBytes,
             at |-> 0])
  /\ cluster' = IF size < ClusterBytes THEN cluster ELSE next_cluster(table, cluster)
  /\ UNCHANGED <<table, command, asked, nr, dir_size>>

PrintCluster ==
  /\ command = "dump" /\ cluster # 0
  /\ size' = IF size < ClusterBytes THEN size ELSE size - ClusterBytes
  /\ Output([cluster |-> cluster,
             bytes |-> IF size < ClusterBytes THEN size ELSE ClusterBytes,
             at |-> 0])
  /\ cluster' = next_cluster(table, cluster)
  /\ UNCHANGED <<table, command, asked, nr, dir_size>>

\* chain_command takes the number typed for one of 16 bits.
chain(number) ==
  /\ command = "none"
  /\ command' = "chain"
  /\ asked' = [first |-> number, size |-> 0]
  /\ cluster' = number % Width16
  /\ lines' = << >> /\ size' = 0
  /\ UNCHANGED <<table, nr, dir_size>>

\* A slip: the cluster is followed before it is printed.
PrintNext ==
  /\ command = "chain" /\ cluster # 0
  /\ cluster' = next_cluster(table, cluster)
  /\ Output([cluster |-> cluster' % Width16, bytes |-> 0, at |-> 0])
  /\ UNCHANGED <<table, command, asked, size, nr, dir_size>>

\* And so does "%hu", which prints it.
PrintNumber ==
  /\ command = "chain" /\ cluster # 0
  /\ Output([cluster |-> cluster % Width16, bytes |-> 0, at |-> 0])
  /\ cluster' = next_cluster(table, cluster)
  /\ UNCHANGED <<table, command, asked, size, nr, dir_size>>

parse_dir(first) ==
  /\ command = "none"
  /\ command' = "parse_dir"
  /\ asked' = [first |-> first, size |-> 0]
  /\ cluster' = first /\ size' = 0
  /\ nr' = 1 /\ dir_size' = 0
  /\ lines' = << >>
  /\ UNCHANGED table

\* A slip: dir_size counts bytes, as write_dir counts them.
CountBytes ==
  /\ command = "parse_dir" /\ cluster # 0
  /\ Output([cluster |-> cluster, bytes |-> ClusterBytes, at |-> dir_size * EntryBytes])
  /\ nr' = IF Len(lines) < MaxLines THEN nr + 1 ELSE nr
  /\ dir_size' = IF Len(lines) < MaxLines THEN dir_size + ClusterBytes ELSE dir_size
  /\ cluster' = next_cluster(table, cluster)
  /\ UNCHANGED <<table, command, asked, size>>

\* The array is made as long as nr clusters, and the next one read behind the
\* entries that are there.  Like lines, the array is followed up to MaxLines.
ReadCluster ==
  /\ command = "parse_dir" /\ cluster # 0
  /\ Output([cluster |-> cluster, bytes |-> ClusterBytes, at |-> dir_size * EntryBytes])
  /\ nr' = IF Len(lines) < MaxLines THEN nr + 1 ELSE nr
  /\ dir_size' = IF Len(lines) < MaxLines
                 THEN dir_size + ClusterBytes \div EntryBytes ELSE dir_size
  /\ cluster' = next_cluster(table, cluster)
  /\ UNCHANGED <<table, command, asked, size>>

Return ==
  /\ command # "none" /\ cluster = 0
  /\ command' = "none"
  /\ nr' = 1 /\ dir_size' = 0
  /\ UNCHANGED <<table, asked, cluster, size, lines>>

Progress == PrintCluster \/ PrintNumber \/ ReadCluster \/ Return

Next ==
  \/ \E first \in Clusters \cup {0}, bytes \in Sizes : dump(first, bytes)
  \/ \E number \in Clusters : chain(number)
  \/ \E first \in Clusters \cup {0} : parse_dir(first)
  \/ Progress

\* A command goes on as long as it can.
Spec == Init /\ [][Next]_vars /\ WF_vars(Progress)

\* What a theorem asks of the bound: no chain has more clusters than there are
\* lines to remember.
RoomForLines == IsFiniteSet(Clusters) /\ Cardinality(Clusters) <= MaxLines

-----------------------------------------------------------------------------
(* Properties *)

\* The chain of first has an end.
Ends(first) ==
  first = 0 \/ \E c \in Chain(table, first) : next_cluster(table, c) = 0

\* How many clusters a file of so many bytes takes.
Needed(bytes) == (bytes + ClusterBytes - 1) \div ClusterBytes

\* The lines show the chain of first from its start to its end.
Shows(first) ==
  /\ Len(lines) = Cardinality(Chain(table, first))
  /\ lines # << >> => lines[1].cluster = first
  /\ \A k \in 1..(Len(lines) - 1) :
       next_cluster(table, lines[k].cluster) = lines[k + 1].cluster

AtEnd(name) == command = name /\ cluster = 0

\* A file whose chain is as long as its size needs is dumped in order, every
\* cluster once, all full but the last, which has what is left of the size.
DumpIsTheFile ==
  (AtEnd("dump") /\ Ends(asked.first)
     /\ Cardinality(Chain(table, asked.first)) = Needed(asked.size))
  => /\ Shows(asked.first)
     /\ \A k \in 1..(Len(lines) - 1) : lines[k].bytes = ClusterBytes
     /\ asked.size = IF lines = << >> THEN 0
                     ELSE (Len(lines) - 1) * ClusterBytes + Last(lines).bytes

\* What parse_dir has read lies in the array without gaps, inside what was
\* allocated when it was read and as far as dir_size says; a directory whose
\* chain ends is there whole, in the order of its chain.
ArrayIsTheDirectory ==
  command = "parse_dir" =>
    /\ dir_size * EntryBytes = Len(lines) * ClusterBytes
    /\ \A k \in DOMAIN lines : lines[k].at = (k - 1) * ClusterBytes
    /\ lines # << >> => Last(lines).at + ClusterBytes <= (nr - 1) * ClusterBytes
    /\ (AtEnd("parse_dir") /\ Ends(asked.first)) => Shows(asked.first)

\* A chain that ends is followed to its end, by any of the commands; one that
\* runs into a cycle is not promised anything.
FollowingEnds ==
  (command # "none" /\ Ends(cluster)) ~> (command = "none")

\* chain prints the chain of the cluster whose number was typed, as long as
\* the numbers in it have no more than 16 bits: those of FAT16, and of FAT32
\* up to 65535.
ChainOfTheNumber ==
  (AtEnd("chain") /\ Ends(asked.first)
     /\ \A c \in Chain(table, asked.first) : c < Width16)
  => Shows(asked.first)

\* FAT16.h, on next_cluster_16: "Find next cluster from fat table".  Where the
\* table says a cluster of the volume, that is where dump goes next.
FollowsTheTable ==
  [][(command = "dump" /\ cluster \in Clusters /\ table[cluster] \in Clusters)
       => cluster' = table[cluster]]_vars
=============================================================================
