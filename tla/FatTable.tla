------------------------------ MODULE FatTable ------------------------------
(***************************************************************************)
(* The file allocation table as TFAT holds it in memory: an array indexed  *)
(* by cluster number whose cell says which cluster comes next.  FAT.c      *)
(* dispatches every access on FATN to FAT16.c or FAT32.c, and so do the    *)
(* operators of this module.                                               *)
(*                                                                         *)
(* Cells are numbers of the width the code stores (16 or 32 bits): what    *)
(* counts as the end of a chain is decided by the masks of the code, not   *)
(* by a symbolic marker.                                                   *)
(***************************************************************************)
EXTENDS Naturals

CONSTANTS
  Clusters,   \* the cluster numbers of the data area
  FATN        \* 1: FAT16, 2: FAT32 (FAT.h)

ASSUME FatAssumption ==
  /\ Clusters \subseteq Nat \ {0}
  /\ FATN \in {1, 2}

(***************************************************************************)
(* 0xFFFF + 1, 0xF000, 0x0FFFFFFF + 1, 0x0F000000, and the value undelete  *)
(* passes to change_cluster, 0x0FFFFFFF.                                   *)
(***************************************************************************)
Width16 == 65536
End16   == 61440
Width28 == 268435456
End32   == 251658240
EndMark == 268435455

\* The cluster a cell leads to, 0 when it ends the chain.  A 16-bit v has
\* (v & 0xF000) == 0xF000 exactly when v >= 0xF000, and v & 0x0FFFFFFF is
\* v modulo 2^28.
Link16(v) == IF v >= End16 THEN 0 ELSE v
Link32(v) == IF v % Width28 >= End32 THEN 0 ELSE v % Width28
Link(v)   == IF FATN = 1 THEN Link16(v) ELSE Link32(v)

\* The cells of a volume whose links stay inside the data area.
Cell == {v \in Nat : Link(v) \in Clusters \cup {0}}

next_cluster(t, index) == Link(t[index])

\* change_cluster_16 narrows the new value to uint16_t.
Narrow(v) == IF FATN = 1 THEN v % Width16 ELSE v
change_cluster(t, index, new_value) == [t EXCEPT ![index] = Narrow(new_value)]

(***************************************************************************)
(* The set of clusters a loop "while (cluster) cluster = next_cluster(..)" *)
(* started at c visits: the smallest set that holds c and is closed under  *)
(* next_cluster.  It is defined without recursion, so that it can be       *)
(* proved about, and it is meaningful for a chain with a cycle too.        *)
(***************************************************************************)
Closed(t, S) == \A y \in S : next_cluster(t, y) \in S \cup {0}

Chain(t, c) ==
  LET closed == {S \in SUBSET Clusters : (c = 0 \/ c \in S) /\ Closed(t, S)}
  IN  {x \in Clusters : \A S \in closed : x \in S}
=============================================================================
