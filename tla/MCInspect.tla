----------------------------- MODULE MCInspect -----------------------------
(***************************************************************************)
(* The commands that look at the table, by chains and whole.  They run one *)
(* at a time and keep nothing for each other, so a behaviour looks at the  *)
(* commands of one module and leaves those of the other alone.             *)
(*                                                                         *)
(* Chains: every table over a few clusters, chains with cycles and chains  *)
(* that run into each other among them.                                    *)
(***************************************************************************)
EXTENDS Inspect, Tables

CONSTANTS
  End,     \* the end mark the formatting system has used
  Whole    \* the behaviours with the commands of Tables are checked too

MCCells == Clusters \cup {0, End}

\* Two tables whose cells all differ from each other, the second one a copy
\* or with an error in the first cell, the last or both.
First == [i \in Index |-> 100 + i]
Erred(E) == [i \in Index |-> IF i \in E THEN 0 ELSE First[i]]
MCTables == {<<First, Erred(E)>> : E \in SUBSET {0, TableSize - 1}}

\* No file, one shorter than the table and one longer.
MCFiles == {[k \in 1..n |-> 7] : n \in {0, 1, TableSize + 2}}

\* The answers asked for, and others.
MCLines == {<<"Y", "\n">>, <<"n", "\n">>, <<"n", "o", "\n">>, <<"\n">>}

ASSUME LinesAreRemembered == RoomForLines

VARIABLE part   \* the module whose commands are given

InitChains == part = "chains" /\ Init /\ TablesInit /\ tables = <<First, First>> /\ file = << >>
InitTables == part = "tables" /\ TablesInit /\ Init /\ table = [c \in Clusters |-> 0]

MCInit == InitChains \/ (Whole /\ InitTables)

MCNext == \/ part = "chains" /\ Next /\ UNCHANGED <<part, tablesVars>>
          \/ part = "tables" /\ TablesNext /\ UNCHANGED <<part, vars>>

MCSpec == /\ MCInit /\ [][MCNext]_<<part, vars, tablesVars>>
          /\ WF_<<part, vars, tablesVars>>(part = "chains" /\ Progress /\ UNCHANGED <<part, tablesVars>>)
=============================================================================
