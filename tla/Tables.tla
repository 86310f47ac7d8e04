------------------------------- MODULE Tables -------------------------------
(***************************************************************************)
(* The commands that look at the whole table: fat, which prints it and     *)
(* asks before each ten cells whether to go on; dump_fat, which writes it  *)
(* to a file; test_fat, which compares the two copies in memory; and test, *)
(* which reads the sectors of one cluster.  delete and undelete appear as  *)
(* the calls of change_cluster they make, which change both copies.        *)
(*                                                                         *)
(* fat takes its answers with getchar, so what a line holds beyond the two *)
(* characters it takes stays in the buffer of stdin, for the next question *)
(* of this fat or of a later one: readline, which reads the commands, does *)
(* not look there.                                                         *)
(***************************************************************************)
EXTENDS FatTable, Integers, Sequences, FiniteSets

CONSTANTS
  TableSize,   \* table_size()
  Tables,      \* the pairs of tables, as read from the device
  Files,       \* what may be in the file before dump_fat opens it
  Lines,       \* the lines a user may type
  Changed,     \* the cells delete and undelete may change
  MaxChanges,  \* bound on how many they do
  Sectors,     \* fat_boot.sectors_per_cluster
  DataSector,  \* data_offset, in sectors
  Wrap         \* 2^32, in sectors: fat_addr_t counts bytes

ASSUME TablesAssumption ==
  /\ TableSize \in Nat \ {0}
  /\ FATN = 1 => TableSize <= Width16
  /\ Tables \subseteq [1..2 -> [0..(TableSize - 1) -> Nat]]
  /\ Files \subseteq Seq(Nat)
  /\ \A line \in Lines : line \in Seq(STRING) /\ line # << >>
  /\ Changed \subseteq 0..(TableSize - 1)
  /\ MaxChanges \in Nat
  /\ Sectors \in Nat \ {0} /\ DataSector \in Nat /\ Wrap \in Nat \ {0}

Index == 0..(TableSize - 1)

VARIABLES
  tables,         \* the first two tables on the device
  fat_table, fat_table_bak,
  changed,        \* the cells changed since mount
  walk,           \* the command that runs, "none" when none does
  index,          \* i
  reported,       \* what test_fat has printed
  pending, typed, \* the buffer of stdin, and the last line typed for fat
  plain,          \* every line typed had one character and its end
  old, file,      \* the file dump_fat writes: before it was opened, and now
  offset,         \* of the descriptor dump_fat writes to
  failed,         \* a write to it has failed
  tested, reads, verdict   \* of test: its cluster, what fs_test read of it
                           \* so far, and what is printed

fatVars  == <<pending, typed, plain>>
dumpVars == <<old, file, offset, failed>>
testVars == <<tested, reads, verdict>>
tableVars == <<tables, fat_table, fat_table_bak, changed>>
tablesVars == <<tableVars, walk, index, reported, fatVars, dumpVars, testVars>>

\* get_cluster_16 narrows the index to uint16_t.
Cell16(i) == i % Width16
get_cluster(table, i) == table[IF FATN = 1 THEN Cell16(i) ELSE i]

TablesInit ==
  /\ tables \in Tables
  /\ fat_table = tables[1] /\ fat_table_bak = tables[2]
  /\ changed = {}
  /\ walk = "none" /\ index = 0 /\ reported = << >>
  /\ pending = << >> /\ typed = << >> /\ plain = TRUE
  /\ file \in Files /\ old = << >> /\ offset = 0 /\ failed = FALSE
  /\ tested = 0 /\ reads = << >> /\ verdict = "none"

Begin(command) == walk = "none" /\ walk' = command /\ UNCHANGED index
Walks(command) == walk = command /\ index < TableSize

Through(command) == walk = command /\ index = TableSize

\* The loops end where the table does.  What a command has kept is gone; what
\* fat has left of a line and the file stay.
EndWalk ==
  /\ \E command \in {"fat", "dump_fat", "test_fat"} : Through(command)
  /\ walk' = "none" /\ index' = 0 /\ reported' = << >>
  /\ old' = << >> /\ offset' = 0 /\ failed' = FALSE
  /\ UNCHANGED <<tableVars, fatVars, file, testVars>>

-----------------------------------------------------------------------------
(* change_cluster, as delete and undelete call it *)

\* A slip: the second table is left as it is.
ChangeFirst(i, value) ==
  /\ walk = "none" /\ Cardinality(changed \cup {i}) <= MaxChanges
  /\ fat_table' = change_cluster(fat_table, i, value)
  /\ changed' = changed \cup {i}
  /\ UNCHANGED <<tables, fat_table_bak, walk, index, reported, fatVars,
                 dumpVars, testVars>>

Change(i, value) ==
  /\ walk = "none" /\ Cardinality(changed \cup {i}) <= MaxChanges
  /\ fat_table' = change_cluster(fat_table, i, value)
  /\ fat_table_bak' = change_cluster(fat_table_bak, i, value)
  /\ changed' = changed \cup {i}
  /\ UNCHANGED <<tables, walk, index, reported, fatVars, dumpVars, testVars>>

-----------------------------------------------------------------------------
(* test_fat *)

test_fat ==
  /\ Begin("test_fat")
  /\ UNCHANGED <<tableVars, reported, fatVars, dumpVars, testVars>>

Compare ==
  /\ Walks("test_fat")
  /\ index' = index + 1
  /\ reported' = IF get_cluster(fat_table, index) # get_cluster(fat_table_bak, index)
                 THEN Append(reported, index) ELSE reported
  /\ UNCHANGED <<tableVars, walk, fatVars, dumpVars, testVars>>

-----------------------------------------------------------------------------
(* fat *)

fat ==
  /\ Begin("fat")
  /\ UNCHANGED <<tableVars, reported, fatVars, dumpVars, testVars>>

Asks == Walks("fat") /\ index % 10 = 0

\* getchar waits for a line where the buffer is empty.
Type(line) ==
  /\ Asks /\ Len(pending) < 2
  /\ pending' = pending \o line /\ typed' = line
  /\ plain' = (plain /\ Len(line) = 2)
  /\ UNCHANGED <<tableVars, walk, index, reported, dumpVars, testVars>>

\* Both ways on from an answer; the first prints the cell.
GoOnIf(yes) ==
  /\ walk' = IF yes THEN walk ELSE "none"
  /\ index' = IF yes THEN index + 1 ELSE 0

\* A slip: the end of the line is not taken.
AnswerLeavesEnd ==
  /\ Asks /\ Len(pending) >= 2
  /\ GoOnIf(Head(pending) = "Y")
  /\ pending' = Tail(pending) /\ typed' = << >>
  /\ UNCHANGED <<tableVars, reported, plain, dumpVars, testVars>>

\* Two calls of getchar, the first for the answer.
Answer ==
  /\ Asks /\ Len(pending) >= 2
  /\ GoOnIf(Head(pending) = "Y")
  /\ pending' = Tail(Tail(pending)) /\ typed' = << >>
  /\ UNCHANGED <<tableVars, reported, plain, dumpVars, testVars>>

PrintCell ==
  /\ Walks("fat") /\ index % 10 # 0
  /\ index' = index + 1
  /\ UNCHANGED <<tableVars, walk, reported, fatVars, dumpVars, testVars>>

-----------------------------------------------------------------------------
(* dump_fat *)

\* A slip: the file is opened for appending.
OpenAtEnd ==
  /\ Begin("dump_fat")
  /\ old' = file /\ offset' = Len(file)
  /\ UNCHANGED <<tableVars, reported, fatVars, file, failed, testVars>>

\* The file is created or opened, and not truncated.  (Where open fails, sdie
\* ends the program.)
dump_fat ==
  /\ Begin("dump_fat")
  /\ old' = file
  /\ UNCHANGED <<tableVars, reported, fatVars, file, offset, failed, testVars>>

\* write puts the cell where the last one ended, over what is there.  Nobody
\* looks whether it fails, once in this model.
WriteCell ==
  /\ Walks("dump_fat")
  /\ index' = index + 1
  /\ \/ /\ file' = SubSeq(file, 1, offset) \o <<get_cluster(fat_table, index)>>
                     \o SubSeq(file, offset + 2, Len(file))
        /\ offset' = offset + 1
        /\ UNCHANGED failed
     \/ /\ ~failed /\ failed' = TRUE
        /\ UNCHANGED <<file, offset>>
  /\ UNCHANGED <<tableVars, walk, reported, fatVars, old, testVars>>

-----------------------------------------------------------------------------
(* test *)

test(cluster) ==
  /\ Begin("test") /\ tested' = cluster
  /\ UNCHANGED <<tableVars, reported, fatVars, dumpVars, reads, verdict>>

\* test_cluster keeps what cluster_to_sector returns in a fat_addr_t.
SectorOf(cluster, i) == (DataSector + Sectors * (cluster - 2) + i) % Wrap

\* What read may return, and what fs_test makes of it: a read that returns
\* less than it was asked for is as good as any.
Statuses == {"error", "end", "part", "whole"}
fs_test(status) == status \in {"part", "whole"}

ReadSector(status) ==
  /\ walk = "test" /\ verdict = "none"
  /\ reads' = Append(reads, [sector |-> SectorOf(tested, Len(reads)), status |-> status])
  /\ UNCHANGED <<tableVars, walk, index, reported, fatVars, dumpVars, tested>>

\* Slips: only the last sector decides; the loop goes one sector too far.
TestLastSector(status) ==
  /\ ReadSector(status)
  /\ verdict' = IF Len(reads') < Sectors THEN "none"
                ELSE IF fs_test(status) THEN "Good" ELSE "Bad"

TestOneMore(status) ==
  /\ ReadSector(status)
  /\ verdict' = IF ~fs_test(status) THEN "Bad"
                ELSE IF Len(reads') > Sectors THEN "Good" ELSE "none"

\* The loop returns at the first sector that cannot be read.
test_cluster(status) ==
  /\ ReadSector(status)
  /\ verdict' = IF ~fs_test(status) THEN "Bad"
                ELSE IF Len(reads') = Sectors THEN "Good" ELSE "none"

EndTest ==
  /\ walk = "test" /\ verdict # "none"
  /\ walk' = "none"
  /\ tested' = 0 /\ reads' = << >> /\ verdict' = "none"
  /\ UNCHANGED <<tableVars, index, reported, fatVars, dumpVars>>

TablesNext ==
  \/ \E i \in Changed : Change(i, 0) \/ Change(i, EndMark)
  \/ test_fat \/ Compare
  \/ fat \/ Answer \/ PrintCell
  \/ \E line \in Lines : Type(line)
  \/ dump_fat \/ WriteCell
  \/ \E cluster \in Index : test(cluster)
  \/ \E status \in Statuses : test_cluster(status)
  \/ EndTest \/ EndWalk

TablesSpec == TablesInit /\ [][TablesNext]_tablesVars

-----------------------------------------------------------------------------
(* Properties *)

TablesTypeOK ==
  /\ tables \in Tables
  /\ fat_table \in [Index -> Nat] /\ fat_table_bak \in [Index -> Nat]
  /\ changed \subseteq Changed
  /\ walk \in {"none", "fat", "dump_fat", "test_fat", "test"}
  /\ index \in 0..TableSize
  /\ reported \in Seq(Index)
  /\ pending \in Seq(STRING) /\ typed \in Seq(STRING) /\ plain \in BOOLEAN
  /\ old \in Seq(Nat) /\ file \in Seq(Nat)
  /\ offset \in 0..TableSize /\ failed \in BOOLEAN
  /\ tested \in Index
  /\ reads \in Seq([sector : 0..(Wrap - 1), status : Statuses]) /\ Len(reads) <= Sectors
  /\ verdict \in {"none", "Good", "Bad"}

\* test_fat reports a cell if and only if the first two tables on the device
\* differ in it and this session has not changed it, however often delete and
\* undelete have gone through the tables in memory since.
ReportsTheDevice ==
  Through("test_fat") =>
    \A i \in Index :
      (\E k \in DOMAIN reported : reported[k] = i)
        <=> (tables[1][i] # tables[2][i] /\ i \notin changed)

\* The file dump_fat has written holds the table, if it was not longer before
\* and no write failed; of a longer one, the end is still there, behind it.
DumpHoldsTheTable ==
  (Through("dump_fat") /\ ~failed) =>
    /\ Len(file) = IF Len(old) > TableSize THEN Len(old) ELSE TableSize
    /\ \A i \in Index : file[i + 1] = fat_table[i]
    /\ \A k \in (TableSize + 1)..Len(file) : file[k] = old[k]

\* As long as every line typed is one character and its end, whatever the
\* character, each line answers the question it was typed for and no other,
\* from one fat to the next: the table goes on for Y and only for Y.
EachLineAnswersOnce ==
  [][Asks /\ plain /\ pending # << >> /\ pending' # pending
       => /\ pending' = << >>
          /\ index' = index + 1 <=> typed[1] = "Y"]_tablesVars

\* test says Good of a cluster whose sectors lie in the first 2^32 bytes when
\* it has read these sectors, each once, and none failed; Bad when one did.
VerdictIsOfTheCluster ==
  (verdict # "none" /\ tested >= 2 /\ DataSector + Sectors * (tested - 1) <= Wrap) =>
    /\ \A k \in DOMAIN reads :
         reads[k].sector = DataSector + Sectors * (tested - 2) + (k - 1)
    /\ verdict = "Good" <=>
         Len(reads) = Sectors /\ \A k \in DOMAIN reads : reads[k].status \notin {"error", "end"}
=============================================================================
