----------------------------- MODULE LongNames -----------------------------
(***************************************************************************)
(* How TFAT lists a directory whose entries have long names.  A long name  *)
(* is kept in entries of its own, its parts, in front of the entry it      *)
(* belongs to, last part first.  list (user.c) goes through a directory    *)
(* and hands every part to the parser of lfn.c, whose state is global: it  *)
(* is never told that a listing ends, and list tells it of fewer entries   *)
(* than there are.  delete and undelete mark the entry and leave its parts *)
(* as they are.                                                            *)
(*                                                                         *)
(* Left out: the characters of names and their conversion (a part is the   *)
(* entry it was read from), dates, sizes and everything else list prints.  *)
(***************************************************************************)
EXTENDS Integers, Sequences, FiniteSets

CONSTANTS
  Dirs,              \* directories
  Contents,          \* their entries, a sequence for each
  LFN_ID_SLOTMASK,   \* the largest number a part can bear
  Sums               \* checksums of short names; a part bears the checksum
                     \* of the entry it belongs to

\* attr = VFAT_LN_ATTR; a file; a directory; a volume label; name[0] = 0
Kinds == {"part", "file", "dir", "label", "unused"}

\* gone: name[0] = 0xE5.  start and slot: the two halves of a part's id.
Entry == [kind : Kinds, gone : BOOLEAN, start : BOOLEAN,
          slot : 0..LFN_ID_SLOTMASK, sum : Sums]

\* What the name buffer holds at the place of a part: the part, nothing yet,
\* or a terminator at its front.
Junk == [kind |-> "junk"]
End  == [kind |-> "end"]

ASSUME LfnAssumption ==
  /\ LFN_ID_SLOTMASK \in Nat
  /\ Contents \in [Dirs -> Seq(Entry)]

VARIABLES
  disk,         \* the directories
  dir, i, all,  \* the listing: the entries left to show are dir[i..]; all
                \* is show_deleted
  lfn_slot, lfn_parts, lfn_unicode,
  shown,        \* the line printed last: an entry and its long name
  marked        \* history: delete or undelete has changed an entry

lfn  == <<lfn_slot, lfn_parts, lfn_unicode>>
vars == <<disk, dir, i, all, lfn, shown, marked>>

\* The name buffer after malloc, for n parts; after free, it is Buffer(0).
Buffer(n) == [k \in 0..(n - 1) |-> Junk]

Parts == {k \in Int : 0 <= k /\ k < LFN_ID_SLOTMASK}

TypeOK ==
  /\ disk \in [Dirs -> Seq(Entry)]
  /\ dir \in Seq(Entry)
  /\ i \in 1..(Len(dir) + 1)
  /\ all \in BOOLEAN
  /\ lfn_slot \in -1..(LFN_ID_SLOTMASK - 1)
  /\ lfn_parts \in 0..LFN_ID_SLOTMASK
  /\ DOMAIN lfn_unicode \subseteq Parts
  /\ marked \in BOOLEAN

-----------------------------------------------------------------------------
(* The parser *)

lfn_reset == lfn_slot' = -1 /\ lfn_unicode' = Buffer(0) /\ UNCHANGED lfn_parts

\* The part e opens a new name.
Opens(e) == e.start /\ e.slot # 0

\* A slip: parts are kept in the order they are read.
PutForward(buffer, k, e) ==
  [x \in DOMAIN buffer |->
     IF x = Cardinality(DOMAIN buffer) - 1 - k THEN e ELSE buffer[x]]

\* Where a part goes in an open name whose next place is k.  A part marked
\* as the first of a name but numbered 0 opens none, and its terminator
\* lands on the part behind it.
Put(buffer, k, e) ==
  [x \in DOMAIN buffer |->
     IF x = k THEN e ELSE IF x = k + 1 /\ e.start THEN End ELSE buffer[x]]

\* A slip: a complete name that is pending is not found orphaned.
AddSlotToComplete(e) ==
  \/ /\ Opens(e)
     /\ lfn_slot' = e.slot - 1
     /\ lfn_parts' = 1
     /\ lfn_unicode' = Put(Buffer(e.slot), e.slot - 1, e)
  \/ /\ ~Opens(e) /\ lfn_slot >= 0
     /\ lfn_slot' = lfn_slot - 1
     /\ lfn_parts' = lfn_parts + 1
     /\ lfn_unicode' = Put(lfn_unicode, lfn_slot - 1, e)
  \/ /\ ~Opens(e) /\ lfn_slot = -1
     /\ lfn_reset

\* lfn_add_slot, with lfn_check_orphaned when a complete name is pending
lfn_add_slot(e) ==
  \/ /\ Opens(e)
     /\ lfn_slot' = e.slot - 1
     /\ lfn_parts' = 1
     /\ lfn_unicode' = Put(Buffer(e.slot), e.slot - 1, e)
  \/ /\ ~Opens(e) /\ lfn_slot > 0
     /\ lfn_slot' = lfn_slot - 1
     /\ lfn_parts' = lfn_parts + 1
     /\ lfn_unicode' = Put(lfn_unicode, lfn_slot - 1, e)
  \/ /\ ~Opens(e) /\ lfn_slot <= 0
     /\ lfn_reset

\* The name the buffer spells, up to its first terminator.
Spelled(buffer) ==
  LET upto == {k \in DOMAIN buffer : \A x \in 0..k : buffer[x] # End}
  IN  [x \in {k + 1 : k \in upto} |-> buffer[x - 1]]

\* A slip: a name is returned before it is complete.
GetUnfinished == IF lfn_slot # -1 THEN Spelled(lfn_unicode) ELSE << >>

\* The name lfn_get returns: none unless its last part has been read.
lfn_get == IF lfn_slot = 0 THEN Spelled(lfn_unicode) ELSE << >>

-----------------------------------------------------------------------------
(* list *)

Init ==
  /\ disk = Contents
  /\ dir = << >> /\ i = 1 /\ all = FALSE
  /\ lfn_slot = -1 /\ lfn_parts = 0 /\ lfn_unicode = Buffer(0)
  /\ shown = << >>
  /\ marked = FALSE

Listing == i <= Len(dir)
Step    == i' = i + 1 /\ UNCHANGED <<disk, dir, all, marked>>

\* A slip: the position is not set back.
ListFromHere(d, flag) ==
  /\ ~Listing
  /\ dir' = disk[d] /\ all' = flag
  /\ UNCHANGED <<disk, i, lfn, shown, marked>>

List(d, flag) ==
  /\ ~Listing
  /\ dir' = disk[d] /\ i' = 1 /\ all' = flag
  /\ UNCHANGED <<disk, lfn, shown, marked>>

\* Deleted entries are not shown, and the parser does not hear of them.
Hide ==
  /\ Listing /\ dir[i].gone /\ ~all
  /\ Step /\ UNCHANGED <<lfn, shown>>

AddPart ==
  /\ Listing /\ dir[i].kind = "part" /\ ~dir[i].gone
  /\ lfn_add_slot(dir[i])
  /\ Step /\ UNCHANGED shown

\* Nor of labels, entries never used and deleted parts.
Pass ==
  /\ Listing
  /\ \/ dir[i].kind \in {"label", "unused"} /\ (dir[i].gone => all)
     \/ dir[i].kind = "part" /\ dir[i].gone /\ all
  /\ Step /\ UNCHANGED <<lfn, shown>>

\* A slip: the parser is reset only when it has no name to give.
ShowKeepsName ==
  /\ Listing /\ dir[i].kind \in {"file", "dir"} /\ (dir[i].gone => all)
  /\ shown' = <<dir[i], lfn_get>>
  /\ IF lfn_slot = 0 THEN UNCHANGED lfn ELSE lfn_reset
  /\ Step

Show ==
  /\ Listing /\ dir[i].kind \in {"file", "dir"} /\ (dir[i].gone => all)
  /\ shown' = <<dir[i], lfn_get>>
  /\ lfn_reset
  /\ Step

\* delete (gone) and undelete (not gone), as far as list can tell.
MarkEntry(d, k, gone) ==
  /\ ~Listing
  /\ disk[d][k].kind \in {"file", "dir"} /\ disk[d][k].gone # gone
  /\ disk' = [disk EXCEPT ![d][k].gone = gone]
  /\ marked' = TRUE
  /\ UNCHANGED <<dir, i, all, lfn, shown>>

Next ==
  \/ \E d \in Dirs, flag \in BOOLEAN : List(d, flag)
  \/ Hide \/ AddPart \/ Pass \/ Show
  \/ \E d \in Dirs : \E k \in DOMAIN disk[d], gone \in BOOLEAN :
       MarkEntry(d, k, gone)

Spec == Init /\ [][Next]_vars
-----------------------------------------------------------------------------
(* What is asked of the constants where a theorem needs it *)

\* A part that does not open a name comes right behind the part it continues,
\* or behind one that is the last of its own name.
LivePart(e) == e.kind = "part" /\ ~e.gone
InOrder(s) ==
  \A k \in DOMAIN s :
    LivePart(s[k]) /\ ~Opens(s[k]) =>
      /\ k > 1 /\ LivePart(s[k - 1])
      /\ \/ s[k - 1].slot = 1
         \/ s[k - 1].slot = s[k].slot + 1 /\ s[k - 1].sum = s[k].sum

\* The last part of a name comes right before the entry it belongs to, or
\* before another part.
Owned(s) ==
  \A k \in DOMAIN s :
    LivePart(s[k]) /\ s[k].slot = 1 =>
      /\ k < Len(s)
      /\ \/ LivePart(s[k + 1])
         \/ /\ s[k + 1].kind \in {"file", "dir"} /\ ~s[k + 1].gone
            /\ s[k + 1].sum = s[k].sum

NamesInOrder == \A d \in Dirs : InOrder(Contents[d])
NamesOwned   == \A d \in Dirs : Owned(Contents[d])
-----------------------------------------------------------------------------
(* Properties *)

\* No sequence of parts, however damaged the directory and wherever the last
\* listing stopped, makes lfn_add_slot write outside its two buffers, which
\* have room for the parts the first one announced.
WritesInsideBuffers ==
  [][lfn_parts' # lfn_parts =>
       /\ lfn_slot' \in DOMAIN lfn_unicode'
       /\ lfn_parts' - 1 \in DOMAIN lfn_unicode']_vars

Name == IF shown = << >> THEN << >> ELSE shown[2]

\* The same damage never shows a place of the name buffer that no part has
\* been read into.
NamesAreRead == \A k \in DOMAIN Name : Name[k] # Junk

\* A long name is shown whole: its parts are those of one name, in order,
\* whatever entries delete and undelete have marked.  The directories are
\* such that NamesInOrder.
NamesAreWhole ==
  \A k \in DOMAIN Name :
    /\ Name[k].slot = k
    /\ Name[k].sum = Name[1].sum
    /\ Name[k].start <=> k + 1 \notin DOMAIN Name

\* lfn.h, on lfn_get: "Retrieve the long name for the proper dir entry".
LongNameIsProper == \A k \in DOMAIN Name : Name[k].sum = shown[1].sum

\* In directories such that NamesInOrder and NamesOwned, long names are shown
\* beside the entries they belong to as long as no entry has been deleted or
\* undeleted.
ProperUntilMarked == ~marked => LongNameIsProper
=============================================================================
