---------------------------- MODULE VolumeService ----------------------------
(***************************************************************************)
(* What a user of TFAT may rely on, without table copies, loops over       *)
(* chains, cursors or the states of a process.  A volume is a table, a     *)
(* root directory and the blocks of its subdirectories.  Opening it takes  *)
(* a draft of the first two; delete and undelete change the draft, or the  *)
(* block of a subdirectory at once, in a single step; saving publishes the *)
(* table and then the root directory; whatever else closes the volume      *)
(* drops the draft.                                                        *)
(*                                                                         *)
(* The subdirectories of this volume have one cluster each.                *)
(***************************************************************************)
EXTENDS FatTable

CONSTANTS
  Deleted,     \* the first character of the name of a deleted entry
  Letters,     \* the first characters of names
  RootSlots    \* entry indices of the root directory

VARIABLES
  mode,        \* "none", or the volume is open: "ro" or "rw"
  table, root, \* the draft; no draft is promised while mode is "none"
  saved,       \* the volume: its table, root directory and blocks
  half         \* the table of a draft is saved and its root directory is not

vars == <<mode, table, root, saved, half>>

\* The directories, 0 for the root directory, and what each one holds.
Directories ==
  {0} \cup {root[s].first : s \in {q \in RootSlots : root[q].kind = "dir"}}
EntriesOf(dir) == IF dir = 0 THEN root ELSE saved.blocks[dir]
FilesOf(dir) == {EntriesOf(dir)[s] : s \in DOMAIN EntriesOf(dir)}

\* Every entry equal to file is renamed, and no other.
Renamed(entries, file, char) ==
  [s \in DOMAIN entries |->
     IF entries[s] = file THEN [file EXCEPT !.char = char] ELSE entries[s]]

Rename(dir, file, char) ==
  IF dir = 0
  THEN root' = Renamed(root, file, char) /\ UNCHANGED saved
  ELSE /\ saved' = [saved EXCEPT !.blocks[dir] = Renamed(@, file, char)]
       /\ UNCHANGED root

-----------------------------------------------------------------------------
Init == mode = "none" /\ ~half

Open(m) ==
  /\ ~half
  /\ mode' = m
  /\ table' = saved.table /\ root' = saved.root
  /\ UNCHANGED <<saved, half>>

\* The clusters of file are freed, all of them and no other.
Delete(dir, file) ==
  /\ Rename(dir, file, Deleted)
  /\ LET freed == Chain(table, file.first)
     IN  table' = [c \in Clusters |-> IF c \in freed THEN 0 ELSE table[c]]

\* The first cluster of a deleted file is claimed, all that is known of it.
Undelete(dir, file, char) ==
  /\ file.char = Deleted
  /\ Rename(dir, file, char)
  /\ table' = change_cluster(table, file.first, EndMark)

Change ==
  /\ mode = "rw" /\ ~half
  /\ UNCHANGED <<mode, half>>
  /\ \E dir \in Directories : \E file \in FilesOf(dir) :
       \/ Delete(dir, file)
       \/ \E char \in Letters : Undelete(dir, file, char)

SaveTable ==
  /\ mode = "rw" /\ ~half
  /\ saved' = [saved EXCEPT !.table = table]
  /\ half' = TRUE
  /\ UNCHANGED <<mode, table, root>>

SaveRoot ==
  /\ half
  /\ saved' = [saved EXCEPT !.root = root]
  /\ half' = FALSE
  /\ mode' = "none"

\* umount of a volume open read-only, and every stop of the process.
Drop ==
  /\ mode' = "none" /\ half' = FALSE
  /\ UNCHANGED saved

Next == SaveTable \/ SaveRoot \/ Drop \/ (\E m \in {"ro", "rw"} : Open(m)) \/ Change

Spec == Init /\ [][Next]_vars
=============================================================================
