---------------------------- MODULE MCLongNames ----------------------------
(***************************************************************************)
(* Three small directories for the model checker.                          *)
(***************************************************************************)
EXTENDS LongNames

MCDirs == {"plain", "mixed", "damaged"}
MCSums == 1..6

Part(start, slot, sum) ==
  [kind |-> "part", gone |-> FALSE, start |-> start, slot |-> slot, sum |-> sum]
Short(kind, sum) ==
  [kind |-> kind, gone |-> FALSE, start |-> FALSE, slot |-> 0, sum |-> sum]
Gone(entry) == [entry EXCEPT !.gone = TRUE]

MCContents ==
  [plain   |-> \* a label, a file with a name of two parts, one with none
     <<Short("label", 1), Part(TRUE, 2, 2), Part(FALSE, 1, 2),
       Short("file", 2), Short("file", 3), Short("unused", 1)>>,
   mixed   |-> \* a name another system has deleted, then a directory's
     <<Gone(Part(TRUE, 1, 4)), Gone(Short("file", 4)),
       Part(TRUE, 1, 5), Short("dir", 5)>>,
   damaged |-> \* a part that follows a complete name, and half a name
     <<Part(TRUE, 1, 6), Part(FALSE, 1, 2), Short("file", 2),
       Part(TRUE, 2, 4), Short("file", 4)>>]

\* The theorems about whole and proper names are about such directories.
ASSUME ContentsAreAsAsked == NamesInOrder /\ NamesOwned
=============================================================================
