--------------------------- MODULE ListingProofs ---------------------------
(***************************************************************************)
(* Proofs about the two sides of a listing.  Those about LongNames are for *)
(* every largest part number and all contents of the directories: parts    *)
(* may be missing, repeated or out of order.  Those about Names are for    *)
(* all directories, characters and lengths of names.                       *)
(***************************************************************************)
EXTENDS LongNames, Names, SequenceTheorems, WellFoundedInduction, TLAPS

\* While a name is open, its parts read so far and the places left add up to
\* the size of its buffers, and the parts fill the buffer from lfn_slot on.
NameOpen ==
  lfn_slot # -1 =>
    /\ lfn_parts >= 1 /\ lfn_slot + lfn_parts <= LFN_ID_SLOTMASK
    /\ DOMAIN lfn_unicode = 0..(lfn_slot + lfn_parts - 1)
    /\ \A k \in lfn_slot..(lfn_slot + lfn_parts - 1) : lfn_unicode[k] # Junk

Inv == TypeOK /\ NameOpen /\ NamesAreRead

\* Markers are not parts.
LEMMA JunkIsNoEntry == Junk \notin Entry /\ Junk # End
<1>1. Junk.kind = "junk" /\ End.kind = "end"
  BY DEF Junk, End
<1>2. \A e \in Entry : e.kind # "junk"
  BY DEF Entry, Kinds
<1> QED
  BY <1>1, <1>2

\* What lfn_add_slot makes of an open name.
LEMMA AddSlotFits ==
  ASSUME Inv, NEW e \in Entry, lfn_add_slot(e)
  PROVE  /\ NameOpen'
         /\ lfn_slot' \in -1..(LFN_ID_SLOTMASK - 1)
         /\ lfn_parts' \in 0..LFN_ID_SLOTMASK
         /\ DOMAIN lfn_unicode' \subseteq Parts
         /\ lfn_parts' # lfn_parts =>
              /\ lfn_slot' \in DOMAIN lfn_unicode'
              /\ lfn_parts' - 1 \in DOMAIN lfn_unicode'
<1> USE LfnAssumption
<1>0. e.slot \in 0..LFN_ID_SLOTMASK
  BY DEF Entry
<1>1. CASE Opens(e)
  <2>1. /\ lfn_slot' = e.slot - 1 /\ lfn_parts' = 1
        /\ e.slot \in 1..LFN_ID_SLOTMASK
    BY <1>0, <1>1 DEF lfn_add_slot, Opens
  <2>2. /\ DOMAIN lfn_unicode' = 0..(e.slot - 1)
        /\ lfn_unicode'[e.slot - 1] = e
    BY <1>1, <2>1 DEF lfn_add_slot, Put, Buffer
  <2> QED
    BY <2>1, <2>2, JunkIsNoEntry DEF NameOpen, Parts
<1>2. CASE ~Opens(e) /\ lfn_slot > 0
  <2> DEFINE n == lfn_slot + lfn_parts
  <2>1. /\ lfn_slot' = lfn_slot - 1 /\ lfn_parts' = lfn_parts + 1
        /\ lfn_unicode' = Put(lfn_unicode, lfn_slot - 1, e)
        /\ lfn_slot \in 1..(LFN_ID_SLOTMASK - 1)
    BY <1>2 DEF lfn_add_slot, Inv, TypeOK
  <2>2. /\ lfn_parts \in Nat /\ lfn_parts >= 1 /\ n <= LFN_ID_SLOTMASK
        /\ DOMAIN lfn_unicode = 0..(n - 1)
        /\ \A k \in lfn_slot..(n - 1) : lfn_unicode[k] # Junk
    BY <2>1 DEF Inv, NameOpen, TypeOK
  <2>3. DOMAIN lfn_unicode' = 0..(n - 1)
    BY <2>1, <2>2 DEF Put
  <2>4. ASSUME NEW k \in (lfn_slot - 1)..(n - 1)
        PROVE  lfn_unicode'[k] # Junk
    BY <2>1, <2>2, JunkIsNoEntry DEF Put
  <2>5. lfn_slot' + lfn_parts' = n
    BY <2>1, <2>2
  <2> QED
    BY <2>1, <2>2, <2>3, <2>4, <2>5 DEF NameOpen, Parts
<1>3. CASE ~Opens(e) /\ lfn_slot <= 0
  <2>1. lfn_slot' = -1 /\ lfn_parts' = lfn_parts /\ lfn_unicode' = Buffer(0)
    BY <1>3 DEF lfn_add_slot, lfn_reset, Inv, TypeOK
  <2> QED
    BY <2>1 DEF NameOpen, Buffer, Inv, TypeOK
<1> QED
  BY <1>1, <1>2, <1>3 DEF Inv, TypeOK

\* A name lfn_get returns has been read to its last part.
LEMMA GetIsRead ==
  ASSUME Inv
  PROVE  \A k \in DOMAIN lfn_get : lfn_get[k] # Junk
<1>1. CASE lfn_slot = 0
  <2>1. ASSUME NEW k \in DOMAIN lfn_unicode PROVE lfn_unicode[k] # Junk
    BY <1>1 DEF Inv, NameOpen, TypeOK
  <2>2. DOMAIN lfn_unicode \subseteq Int
    BY DEF Inv, TypeOK, Parts
  <2> QED
    BY <1>1, <2>1, <2>2 DEF lfn_get, Spelled
<1>2. CASE lfn_slot # 0
  BY <1>2 DEF lfn_get
<1> QED
  BY <1>1, <1>2

\* Marking an entry leaves the directories sequences of entries.
LEMMA MarkEntryTyped ==
  ASSUME disk \in [Dirs -> Seq(Entry)], NEW d \in Dirs,
         NEW k \in DOMAIN disk[d], NEW gone \in BOOLEAN, MarkEntry(d, k, gone)
  PROVE  disk' \in [Dirs -> Seq(Entry)]
<1> DEFINE e   == [disk[d][k] EXCEPT !.gone = gone]
           new == [disk[d] EXCEPT ![k] = e]
<1>1. disk[d] \in Seq(Entry) /\ k \in 1..Len(disk[d])
  OBVIOUS
<1>2. disk[d][k] \in Entry
  BY <1>1
<1>3. e \in Entry
  BY <1>2 DEF Entry
<1>4. disk' = [disk EXCEPT ![d] = new]
  BY DEF MarkEntry
<1> HIDE DEF e
<1>5. new \in Seq(Entry)
  BY <1>1, <1>3, ExceptSeq
<1> HIDE DEF new
<1> QED
  BY <1>4, <1>5

\* The strengthened invariant holds before the first listing.
LEMMA Initially == Init => Inv
<1> SUFFICES ASSUME Init PROVE Inv
  OBVIOUS
<1>1. disk \in [Dirs -> Seq(Entry)]
  BY LfnAssumption DEF Init
<1>2. dir \in Seq(Entry) /\ i \in 1..(Len(dir) + 1)
  BY DEF Init
<1>3. /\ lfn_slot = -1 /\ lfn_parts \in 0..LFN_ID_SLOTMASK
      /\ lfn_slot \in -1..(LFN_ID_SLOTMASK - 1)
  BY LfnAssumption DEF Init
<1>4. DOMAIN lfn_unicode \subseteq Parts
  BY DEF Init, Buffer
<1>5. NameOpen
  BY <1>3 DEF NameOpen
<1>6. NamesAreRead
  BY DEF Init, NamesAreRead, Name
<1>7. all \in BOOLEAN /\ marked \in BOOLEAN
  BY DEF Init
<1> QED
  BY <1>1, <1>2, <1>3, <1>4, <1>5, <1>6, <1>7 DEF Inv, TypeOK

\* And every step of a listing, a delete or an undelete keeps it.
LEMMA InvHolds ==
  Inv /\ [Next]_vars =>
    /\ Inv'
    /\ lfn_parts' # lfn_parts =>
         /\ lfn_slot' \in DOMAIN lfn_unicode'
         /\ lfn_parts' - 1 \in DOMAIN lfn_unicode'
<1> DEFINE Fits == lfn_parts' # lfn_parts =>
                     /\ lfn_slot' \in DOMAIN lfn_unicode'
                     /\ lfn_parts' - 1 \in DOMAIN lfn_unicode'
<1> SUFFICES ASSUME Inv, [Next]_vars PROVE Inv' /\ Fits
  OBVIOUS
<1>0. /\ disk \in [Dirs -> Seq(Entry)] /\ dir \in Seq(Entry)
      /\ i \in 1..(Len(dir) + 1) /\ Len(dir) \in Nat
  BY DEF Inv, TypeOK
<1>1. ASSUME Listing
      PROVE  dir[i] \in Entry /\ i + 1 \in 1..(Len(dir) + 1)
  BY <1>0, <1>1 DEF Listing
<1>2. ASSUME NEW d \in Dirs, NEW flag \in BOOLEAN, List(d, flag)
      PROVE  Inv' /\ Fits
  <2>1. dir' \in Seq(Entry) /\ i' \in 1..(Len(dir') + 1)
    BY <1>0, <1>2 DEF List
  <2> QED
    BY <1>2, <2>1 DEF List, lfn, Inv, TypeOK, NameOpen, NamesAreRead, Name
<1>3. CASE Hide \/ Pass
  BY <1>1, <1>3
  DEF Hide, Pass, Step, lfn, Inv, TypeOK, NameOpen, NamesAreRead, Name
<1>4. CASE AddPart
  <2>1. Listing /\ lfn_add_slot(dir[i]) /\ Step /\ shown' = shown
    BY <1>4 DEF AddPart
  <2>2. NamesAreRead'
    BY <2>1 DEF Inv, NamesAreRead, Name
  <2> QED
    BY <1>1, <2>1, <2>2, AddSlotFits DEF Step, Inv, TypeOK
<1>5. CASE Show
  <2>1. /\ Listing /\ Step
        /\ shown' = <<dir[i], lfn_get>>
        /\ lfn_slot' = -1 /\ lfn_parts' = lfn_parts
        /\ lfn_unicode' = Buffer(0)
    BY <1>5 DEF Show, lfn_reset
  <2>2. NamesAreRead'
    BY <2>1, GetIsRead DEF NamesAreRead, Name
  <2>3. NameOpen'
    BY <2>1 DEF NameOpen
  <2>4. DOMAIN lfn_unicode' \subseteq Parts
    BY <2>1 DEF Buffer
  <2> QED
    BY <1>1, <2>1, <2>2, <2>3, <2>4, LfnAssumption DEF Step, Inv, TypeOK
<1>6. ASSUME NEW d \in Dirs, NEW k \in DOMAIN disk[d], NEW gone \in BOOLEAN,
             MarkEntry(d, k, gone)
      PROVE  Inv' /\ Fits
  <2>1. disk' \in [Dirs -> Seq(Entry)]
    BY <1>0, <1>6, MarkEntryTyped
  <2> QED
    BY <1>6, <2>1
    DEF MarkEntry, lfn, Inv, TypeOK, NameOpen, NamesAreRead, Name
<1>7. CASE UNCHANGED vars
  BY <1>7 DEF vars, lfn, Inv, TypeOK, NameOpen, NamesAreRead, Name
<1> QED
  BY <1>2, <1>3, <1>4, <1>5, <1>6, <1>7 DEF Next

\* Every variable stays in its type.
THEOREM TypeCorrect == Spec => []TypeOK
<1>1. Inv => TypeOK
  BY DEF Inv
<1> QED
  BY <1>1, Initially, InvHolds, PTL DEF Spec

\* No place of the name buffer is ever shown that no part was read into.
THEOREM ShownNamesAreRead == Spec => []NamesAreRead
<1>1. Inv => NamesAreRead
  BY DEF Inv
<1> QED
  BY <1>1, Initially, InvHolds, PTL DEF Spec

\* The parser never writes outside its buffers.
THEOREM BuffersSuffice == Spec => WritesInsideBuffers
<1> DEFINE Fits == lfn_parts' # lfn_parts =>
                     /\ lfn_slot' \in DOMAIN lfn_unicode'
                     /\ lfn_parts' - 1 \in DOMAIN lfn_unicode'
<1>1. Inv /\ [Next]_vars => [Fits]_vars
  BY InvHolds
<1> QED
  BY <1>1, Initially, InvHolds, PTL DEF Spec, WritesInsideBuffers
-----------------------------------------------------------------------------
(* The parts of a name belong together *)

\* The directories and the copy that is listed have their parts in order.
PartsInOrder == InOrder(dir) /\ \A d \in Dirs : InOrder(disk[d])

\* The parts of the name that is open or complete are numbered from its end
\* on, and are parts of one name.
OneName(buffer, from, n) ==
  \A k \in from..(n - 1) :
    /\ buffer[k] \in Entry
    /\ buffer[k].slot = k + 1
    /\ buffer[k].sum = buffer[n - 1].sum
    /\ buffer[k].start <=> k = n - 1
PartsOfOneName == lfn_slot # -1 => OneName(lfn_unicode, lfn_slot, lfn_slot + lfn_parts)

\* When the entry before the position is a part, it is the last one the parser
\* has been told of.
LastRead ==
  (lfn_slot # -1 /\ i > 1 /\ LivePart(dir[i - 1])) => lfn_unicode[lfn_slot] = dir[i - 1]

WholeInv == Inv /\ PartsInOrder /\ PartsOfOneName /\ LastRead /\ NamesAreWhole

\* lfn_add_slot continues a name with its next part, or has none.
LEMMA AddSlotContinues ==
  ASSUME WholeInv, Listing, LivePart(dir[i]), lfn_add_slot(dir[i])
  PROVE  /\ PartsOfOneName'
         /\ lfn_slot' # -1 => lfn_unicode'[lfn_slot'] = dir[i]
<1> USE LfnAssumption
<1> DEFINE e == dir[i]
           n == lfn_slot + lfn_parts
<1>0. /\ e \in Entry /\ e.slot \in 0..LFN_ID_SLOTMASK /\ e.start \in BOOLEAN
      /\ i \in DOMAIN dir /\ i \in Nat /\ dir \in Seq(Entry)
  <2>1. dir \in Seq(Entry) /\ i \in 1..Len(dir)
    BY DEF WholeInv, Inv, TypeOK, Listing
  <2>2. e \in Entry
    BY <2>1
  <2>3. e.slot \in 0..LFN_ID_SLOTMASK /\ e.start \in BOOLEAN
    BY <2>2 DEF Entry
  <2> QED
    BY <2>1, <2>2, <2>3
<1>1. CASE Opens(e)
  <2>1. /\ lfn_slot' = e.slot - 1 /\ lfn_parts' = 1
        /\ e.slot \in 1..LFN_ID_SLOTMASK /\ e.start
        /\ lfn_unicode' = Put(Buffer(e.slot), e.slot - 1, e)
    BY <1>0, <1>1 DEF lfn_add_slot, Opens
  <2>2. lfn_unicode'[e.slot - 1] = e
    BY <2>1 DEF Put, Buffer
  <2>3. lfn_slot' + lfn_parts' = e.slot
    BY <2>1
  <2>4. OneName(lfn_unicode', e.slot - 1, e.slot)
    <3> SUFFICES ASSUME NEW k \in (e.slot - 1)..(e.slot - 1)
                 PROVE  /\ lfn_unicode'[k] \in Entry
                        /\ lfn_unicode'[k].slot = k + 1
                        /\ lfn_unicode'[k].sum = lfn_unicode'[e.slot - 1].sum
                        /\ lfn_unicode'[k].start <=> k = e.slot - 1
      BY DEF OneName
    <3>1. k = e.slot - 1
      BY <2>1
    <3>2. lfn_unicode'[k] = e
      BY <2>2, <3>1
    <3> QED
      BY <1>0, <2>1, <2>2, <3>1, <3>2
  <2> QED
    BY <2>1, <2>2, <2>3, <2>4 DEF PartsOfOneName
<1>2. CASE ~Opens(e) /\ lfn_slot > 0
  <2>1. /\ lfn_slot' = lfn_slot - 1 /\ lfn_parts' = lfn_parts + 1
        /\ lfn_unicode' = Put(lfn_unicode, lfn_slot - 1, e)
        /\ lfn_slot \in Nat /\ lfn_parts \in Nat /\ lfn_parts >= 1
        /\ DOMAIN lfn_unicode = 0..(n - 1)
    BY <1>2 DEF lfn_add_slot, WholeInv, Inv, TypeOK, NameOpen
  <2>2. OneName(lfn_unicode, lfn_slot, n)
    BY <1>2, <2>1 DEF WholeInv, PartsOfOneName
  <2>3. /\ i > 1 /\ LivePart(dir[i - 1])
        /\ \/ dir[i - 1].slot = 1
           \/ dir[i - 1].slot = e.slot + 1 /\ dir[i - 1].sum = e.sum
    BY <1>0, <1>2 DEF WholeInv, PartsInOrder, InOrder
  <2>4. lfn_unicode[lfn_slot] = dir[i - 1]
    BY <1>2, <2>1, <2>3 DEF WholeInv, LastRead
  <2>5. lfn_slot \in lfn_slot..(n - 1) /\ n - 1 \in lfn_slot..(n - 1)
    BY <2>1
  <2>6. /\ dir[i - 1].slot = lfn_slot + 1
        /\ dir[i - 1].sum = lfn_unicode[n - 1].sum
    BY <2>2, <2>4, <2>5 DEF OneName
  <2>7. e.slot = lfn_slot /\ e.sum = lfn_unicode[n - 1].sum /\ ~e.start
    BY <1>0, <1>2, <2>1, <2>3, <2>6 DEF Opens
  <2>8. /\ lfn_unicode'[lfn_slot - 1] = e
        /\ \A k \in lfn_slot..(n - 1) : lfn_unicode'[k] = lfn_unicode[k]
    BY <1>2, <2>1, <2>7 DEF Put
  <2>9. OneName(lfn_unicode', lfn_slot - 1, n)
    <3> SUFFICES ASSUME NEW k \in (lfn_slot - 1)..(n - 1)
                 PROVE  /\ lfn_unicode'[k] \in Entry
                        /\ lfn_unicode'[k].slot = k + 1
                        /\ lfn_unicode'[k].sum = lfn_unicode'[n - 1].sum
                        /\ lfn_unicode'[k].start <=> k = n - 1
      BY DEF OneName
    <3>1. lfn_unicode'[n - 1] = lfn_unicode[n - 1]
      BY <2>5, <2>8
    <3>2. CASE k = lfn_slot - 1
      BY <1>0, <2>1, <2>7, <2>8, <3>1, <3>2
    <3>3. CASE k # lfn_slot - 1
      <4>1. k \in lfn_slot..(n - 1)
        BY <2>1, <3>3
      <4> QED
        BY <2>2, <2>8, <3>1, <4>1 DEF OneName
    <3> QED
      BY <3>2, <3>3
  <2>10. lfn_slot' + lfn_parts' = n
    BY <2>1
  <2> QED
    BY <2>1, <2>8, <2>9, <2>10 DEF PartsOfOneName
<1>3. CASE ~Opens(e) /\ lfn_slot <= 0
  <2>1. lfn_slot' = -1
    BY <1>3 DEF lfn_add_slot, lfn_reset, WholeInv, Inv, TypeOK
  <2> QED
    BY <2>1 DEF PartsOfOneName
<1>4. lfn_slot \in Int
  BY DEF WholeInv, Inv, TypeOK
<1> QED
  BY <1>1, <1>2, <1>3, <1>4

\* The name of a complete buffer is the buffer, and is whole.
LEMMA GetIsWhole ==
  ASSUME WholeInv
  PROVE  /\ \A k \in DOMAIN lfn_get :
              /\ lfn_get[k].slot = k
              /\ lfn_get[k].sum = lfn_get[1].sum
              /\ lfn_get[k].start <=> k + 1 \notin DOMAIN lfn_get
         /\ lfn_slot = 0 =>
              \A k \in DOMAIN lfn_get : lfn_get[k].sum = lfn_unicode[0].sum
<1>1. CASE lfn_slot = 0
  <2> DEFINE n == lfn_parts
  <2>1. /\ n \in Nat /\ n >= 1 /\ DOMAIN lfn_unicode = 0..(n - 1)
        /\ OneName(lfn_unicode, 0, n)
    BY <1>1, LfnAssumption DEF WholeInv, Inv, TypeOK, NameOpen, PartsOfOneName
  <2>2. End \notin Entry
    <3>1. End.kind = "end" /\ \A x \in Entry : x.kind # "end"
      BY DEF End, Entry, Kinds
    <3> QED
      BY <3>1
  <2>3. \A k \in 0..(n - 1) : lfn_unicode[k] # End
    BY <2>1, <2>2 DEF OneName
  <2>4. {k \in DOMAIN lfn_unicode : \A x \in 0..k : lfn_unicode[x] # End} = 0..(n - 1)
    BY <2>1, <2>3
  <2>5. {k + 1 : k \in 0..(n - 1)} = 1..n
    <3>1. \A k \in 1..n : k - 1 \in 0..(n - 1) /\ k = (k - 1) + 1
      BY <2>1
    <3>2. \A k \in 0..(n - 1) : k + 1 \in 1..n
      BY <2>1
    <3> QED
      BY <3>1, <3>2
  <2>6. lfn_get = [x \in 1..n |-> lfn_unicode[x - 1]]
    BY <1>1, <2>4, <2>5 DEF lfn_get, Spelled
  <2>7. ASSUME NEW k \in 1..n
        PROVE  /\ lfn_get[k].slot = k
               /\ lfn_get[k].sum = lfn_get[1].sum
               /\ lfn_get[k].sum = lfn_unicode[0].sum
               /\ lfn_get[k].start <=> k + 1 \notin 1..n
    <3>1. k - 1 \in 0..(n - 1) /\ 0 \in 0..(n - 1) /\ 1 \in 1..n
      BY <2>1
    <3>2. /\ lfn_unicode[k - 1].slot = k
          /\ lfn_unicode[k - 1].sum = lfn_unicode[n - 1].sum
          /\ lfn_unicode[0].sum = lfn_unicode[n - 1].sum
          /\ lfn_unicode[k - 1].start <=> k - 1 = n - 1
      BY <2>1, <3>1 DEF OneName
    <3>3. k - 1 = n - 1 <=> k + 1 \notin 1..n
      BY <2>1
    <3>4. lfn_get[k] = lfn_unicode[k - 1] /\ lfn_get[1] = lfn_unicode[0]
      BY <2>6, <3>1
    <3> QED
      BY <3>2, <3>3, <3>4
  <2> QED
    BY <2>6, <2>7
<1>2. CASE lfn_slot # 0
  BY <1>2 DEF lfn_get
<1> QED
  BY <1>1, <1>2

\* delete and undelete leave the parts as they are, and where they are.
LEMMA MarkEntryKeepsParts ==
  ASSUME disk \in [Dirs -> Seq(Entry)], NEW d \in Dirs,
         NEW k \in DOMAIN disk[d], NEW gone \in BOOLEAN, MarkEntry(d, k, gone),
         NEW c \in Dirs, InOrder(disk[c])
  PROVE  InOrder(disk'[c])
<1> DEFINE s == disk[c]
           t == disk'[c]
<1>1. /\ DOMAIN t = DOMAIN s
      /\ \A x \in DOMAIN s : ~(c = d /\ x = k) => t[x] = s[x]
      /\ c = d => t[k] = [s[k] EXCEPT !.gone = gone]
  BY DEF MarkEntry
<1>2. c = d => s[k].kind # "part" /\ t[k].kind # "part"
  <2>1. SUFFICES ASSUME c = d PROVE s[k].kind # "part" /\ t[k].kind # "part"
    OBVIOUS
  <2>2. s \in Seq(Entry) /\ k \in 1..Len(s)
    BY <2>1
  <2>3. s[k] \in Entry
    BY <2>2
  <2>4. t[k].kind = s[k].kind
    BY <1>1, <2>1, <2>3 DEF Entry
  <2> QED
    BY <2>1, <2>4 DEF MarkEntry
<1>3. ASSUME NEW x \in DOMAIN s
      PROVE  /\ LivePart(t[x]) <=> LivePart(s[x])
             /\ LivePart(s[x]) => t[x] = s[x]
  BY <1>1, <1>2 DEF LivePart
<1>4. DOMAIN s = 1..Len(s) /\ Len(s) \in Nat
  OBVIOUS
<1> HIDE DEF s, t
<1>5. ASSUME NEW x \in DOMAIN t, LivePart(t[x]), ~Opens(t[x])
      PROVE  /\ x > 1 /\ LivePart(t[x - 1])
             /\ \/ t[x - 1].slot = 1
                \/ t[x - 1].slot = t[x].slot + 1 /\ t[x - 1].sum = t[x].sum
  <2>1. x \in DOMAIN s /\ LivePart(s[x]) /\ t[x] = s[x]
    BY <1>1, <1>3, <1>5
  <2>2. /\ x > 1 /\ LivePart(s[x - 1])
        /\ \/ s[x - 1].slot = 1
           \/ s[x - 1].slot = s[x].slot + 1 /\ s[x - 1].sum = s[x].sum
    BY <1>5, <2>1 DEF InOrder, s
  <2>3. x - 1 \in DOMAIN s
    BY <1>4, <2>1, <2>2
  <2> QED
    BY <1>3, <2>1, <2>2, <2>3
<1> QED
  BY <1>5 DEF InOrder, t

\* A whole name stays whole while a listing goes on and between listings.
LEMMA WholeStep == WholeInv /\ [Next]_vars => WholeInv'
<1> SUFFICES ASSUME WholeInv, [Next]_vars PROVE WholeInv'
  OBVIOUS
<1>0. Inv' /\ disk \in [Dirs -> Seq(Entry)] /\ dir \in Seq(Entry)
      /\ i \in 1..(Len(dir) + 1) /\ Len(dir) \in Nat
  BY InvHolds DEF WholeInv, Inv, TypeOK
<1>1. ASSUME NEW d \in Dirs, NEW flag \in BOOLEAN, List(d, flag)
      PROVE  WholeInv'
  <2>1. PartsInOrder'
    BY <1>1 DEF List, WholeInv, PartsInOrder
  <2>2. PartsOfOneName' /\ LastRead' /\ NamesAreWhole'
    BY <1>1 DEF List, lfn, WholeInv, PartsOfOneName, LastRead, NamesAreWhole, Name
  <2> QED
    BY <1>0, <2>1, <2>2 DEF WholeInv
<1>2. CASE Hide \/ Pass
  <2>1. Listing /\ Step /\ UNCHANGED <<lfn, shown>> /\ ~LivePart(dir[i])
    BY <1>2 DEF Hide, Pass, LivePart
  <2>2. PartsInOrder' /\ PartsOfOneName' /\ NamesAreWhole'
    BY <2>1 DEF Step, lfn, WholeInv, PartsInOrder, PartsOfOneName, NamesAreWhole, Name
  <2>3. i' - 1 = i /\ dir' = dir
    BY <1>0, <2>1 DEF Step
  <2>4. LastRead'
    BY <2>1, <2>3 DEF LastRead
  <2> QED
    BY <1>0, <2>2, <2>4 DEF WholeInv
<1>3. CASE AddPart
  <2>1. /\ Listing /\ LivePart(dir[i]) /\ lfn_add_slot(dir[i]) /\ Step
        /\ shown' = shown
    BY <1>3 DEF AddPart, LivePart
  <2>2. /\ PartsOfOneName'
        /\ lfn_slot' # -1 => lfn_unicode'[lfn_slot'] = dir[i]
    BY <2>1, AddSlotContinues
  <2>3. i' - 1 = i /\ dir' = dir
    BY <1>0, <2>1 DEF Step
  <2>4. LastRead'
    BY <2>2, <2>3 DEF LastRead
  <2>5. PartsInOrder' /\ NamesAreWhole'
    BY <2>1 DEF Step, WholeInv, PartsInOrder, NamesAreWhole, Name
  <2> QED
    BY <1>0, <2>2, <2>4, <2>5 DEF WholeInv
<1>4. CASE Show
  <2>1. /\ Step /\ shown' = <<dir[i], lfn_get>> /\ lfn_slot' = -1
    BY <1>4 DEF Show, lfn_reset
  <2>2. Name' = lfn_get
    BY <2>1 DEF Name
  <2>3. NamesAreWhole'
    BY <2>2, GetIsWhole DEF NamesAreWhole
  <2>4. PartsInOrder' /\ PartsOfOneName' /\ LastRead'
    BY <2>1 DEF Step, WholeInv, PartsInOrder, PartsOfOneName, LastRead
  <2> QED
    BY <1>0, <2>3, <2>4 DEF WholeInv
<1>5. ASSUME NEW d \in Dirs, NEW k \in DOMAIN disk[d], NEW gone \in BOOLEAN,
             MarkEntry(d, k, gone)
      PROVE  WholeInv'
  <2>1. ASSUME NEW c \in Dirs PROVE InOrder(disk'[c])
    BY <1>0, <1>5, MarkEntryKeepsParts DEF WholeInv, PartsInOrder
  <2>2. dir' = dir
    BY <1>5 DEF MarkEntry
  <2>3. PartsInOrder'
    BY <2>1, <2>2 DEF WholeInv, PartsInOrder
  <2>4. PartsOfOneName' /\ LastRead' /\ NamesAreWhole'
    BY <1>5
    DEF MarkEntry, lfn, WholeInv, PartsOfOneName, LastRead, NamesAreWhole, Name
  <2> QED
    BY <1>0, <2>3, <2>4 DEF WholeInv
<1>6. CASE UNCHANGED vars
  BY <1>0, <1>6
  DEF vars, lfn, WholeInv, PartsInOrder, PartsOfOneName, LastRead, NamesAreWhole,
      Name
<1> QED
  BY <1>1, <1>2, <1>3, <1>4, <1>5, <1>6 DEF Next

\* And is whole before the first listing.
LEMMA WholeInitially == ASSUME NamesInOrder PROVE Init => WholeInv
<1> SUFFICES ASSUME Init PROVE WholeInv
  OBVIOUS
<1>1. dir = << >> /\ disk = Contents /\ lfn_slot = -1 /\ shown = << >>
  BY DEF Init
<1>2. PartsInOrder
  BY <1>1 DEF PartsInOrder, InOrder, NamesInOrder
<1>3. PartsOfOneName /\ LastRead /\ NamesAreWhole
  BY <1>1 DEF PartsOfOneName, LastRead, NamesAreWhole, Name
<1> QED
  BY <1>2, <1>3, Initially DEF WholeInv

\* Long names are shown whole, whatever delete and undelete have marked, when
\* the directories hold their parts in order.
THEOREM NamesStayWhole == ASSUME NamesInOrder PROVE Spec => []NamesAreWhole
<1>1. WholeInv => NamesAreWhole
  BY DEF WholeInv
<1> QED
  BY <1>1, WholeInitially, WholeStep, PTL DEF Spec
-----------------------------------------------------------------------------
(* Long names are shown beside the entries they belong to *)

\* Until an entry is marked, the directories and the copy that is listed have
\* the entries that the names in them belong to.
EntriesAreThere == ~marked => Owned(dir) /\ \A d \in Dirs : Owned(disk[d])

\* And a complete name is pending only right behind its last part.
PendsBehindIts ==
  (~marked /\ lfn_slot = 0) => i > 1 /\ LivePart(dir[i - 1])

ProperInv == WholeInv /\ EntriesAreThere /\ PendsBehindIts /\ ProperUntilMarked

\* The entry it belongs to comes next, or a part that drops it.
LEMMA CompleteIsFollowed ==
  ASSUME ProperInv, ~marked, lfn_slot = 0
  PROVE  /\ Listing
         /\ \/ LivePart(dir[i])
            \/ /\ dir[i].kind \in {"file", "dir"} /\ ~dir[i].gone
               /\ dir[i].sum = lfn_unicode[0].sum
<1>1. /\ dir \in Seq(Entry) /\ Len(dir) \in Nat /\ i \in 1..(Len(dir) + 1)
      /\ lfn_parts \in Nat /\ lfn_parts >= 1
  BY LfnAssumption DEF ProperInv, WholeInv, Inv, TypeOK, NameOpen
<1>2. /\ i > 1 /\ LivePart(dir[i - 1])
      /\ lfn_unicode[0] = dir[i - 1]
  BY DEF ProperInv, PendsBehindIts, WholeInv, LastRead
<1>3. OneName(lfn_unicode, 0, lfn_parts)
  BY <1>1 DEF ProperInv, WholeInv, PartsOfOneName
<1>4. dir[i - 1].slot = 1
  BY <1>1, <1>2, <1>3 DEF OneName
<1>5. i - 1 \in DOMAIN dir /\ (i - 1) + 1 = i
  BY <1>1, <1>2
<1>6. Owned(dir)
  BY DEF ProperInv, EntriesAreThere
<1>7. /\ i - 1 < Len(dir)
      /\ \/ LivePart(dir[i])
         \/ /\ dir[i].kind \in {"file", "dir"} /\ ~dir[i].gone
            /\ dir[i].sum = dir[i - 1].sum
  BY <1>2, <1>4, <1>5, <1>6 DEF Owned
<1> QED
  BY <1>1, <1>2, <1>7 DEF Listing

\* A listing shows every name beside its own entry until one is marked.
LEMMA ProperStep == ProperInv /\ [Next]_vars => ProperInv'
<1> SUFFICES ASSUME ProperInv, [Next]_vars PROVE ProperInv'
  OBVIOUS
<1>0. WholeInv' /\ i \in Nat
  BY WholeStep DEF ProperInv, WholeInv, Inv, TypeOK
<1>1. ASSUME NEW d \in Dirs, NEW flag \in BOOLEAN, List(d, flag)
      PROVE  ProperInv'
  <2>1. EntriesAreThere' /\ ProperUntilMarked'
    BY <1>1
    DEF List, lfn, ProperInv, EntriesAreThere, ProperUntilMarked, LongNameIsProper,
        Name
  <2>2. PendsBehindIts'
    BY <1>1, CompleteIsFollowed DEF List, lfn, PendsBehindIts
  <2> QED
    BY <1>0, <2>1, <2>2 DEF ProperInv
<1>2. CASE Hide \/ Pass
  <2>1. /\ Listing /\ Step /\ UNCHANGED <<lfn, shown>>
        /\ ~LivePart(dir[i])
        /\ ~(dir[i].kind \in {"file", "dir"} /\ ~dir[i].gone)
    BY <1>2 DEF Hide, Pass, LivePart
  <2>2. EntriesAreThere' /\ ProperUntilMarked'
    BY <2>1
    DEF Step, ProperInv, EntriesAreThere, ProperUntilMarked, LongNameIsProper, Name
  <2>3. PendsBehindIts'
    BY <2>1, CompleteIsFollowed DEF Step, lfn, PendsBehindIts
  <2> QED
    BY <1>0, <2>2, <2>3 DEF ProperInv
<1>3. CASE AddPart
  <2>1. Listing /\ LivePart(dir[i]) /\ Step /\ shown' = shown
    BY <1>3 DEF AddPart, LivePart
  <2>2. i' > 1 /\ i' - 1 = i /\ dir' = dir
    BY <1>0, <2>1 DEF Step, ProperInv, WholeInv, Inv, TypeOK
  <2>3. PendsBehindIts'
    BY <2>1, <2>2 DEF PendsBehindIts
  <2>4. EntriesAreThere' /\ ProperUntilMarked'
    BY <2>1
    DEF Step, ProperInv, EntriesAreThere, ProperUntilMarked, LongNameIsProper, Name
  <2> QED
    BY <1>0, <2>3, <2>4 DEF ProperInv
<1>4. CASE Show
  <2>1. /\ Step /\ shown' = <<dir[i], lfn_get>> /\ lfn_slot' = -1
        /\ ~LivePart(dir[i])
    BY <1>4 DEF Show, lfn_reset, LivePart
  <2>2. EntriesAreThere' /\ PendsBehindIts'
    BY <2>1 DEF Step, ProperInv, EntriesAreThere, PendsBehindIts
  <2>3. Name' = lfn_get /\ shown'[1] = dir[i] /\ marked' = marked
    BY <2>1 DEF Name, Step
  <2>4. ASSUME ~marked, NEW k \in DOMAIN lfn_get
        PROVE  lfn_get[k].sum = dir[i].sum
    <3>1. lfn_slot = 0
      BY DEF lfn_get
    <3>2. lfn_get[k].sum = lfn_unicode[0].sum
      BY <3>1, GetIsWhole DEF ProperInv
    <3> QED
      BY <2>1, <2>4, <3>1, <3>2, CompleteIsFollowed
  <2>5. ProperUntilMarked'
    BY <2>3, <2>4 DEF ProperUntilMarked, LongNameIsProper
  <2> QED
    BY <1>0, <2>2, <2>5 DEF ProperInv
<1>5. ASSUME NEW d \in Dirs, NEW k \in DOMAIN disk[d], NEW gone \in BOOLEAN,
             MarkEntry(d, k, gone)
      PROVE  ProperInv'
  BY <1>0, <1>5
  DEF MarkEntry, ProperInv, EntriesAreThere, PendsBehindIts, ProperUntilMarked
<1>6. CASE UNCHANGED vars
  BY <1>0, <1>6
  DEF vars, lfn, ProperInv, EntriesAreThere, PendsBehindIts, ProperUntilMarked,
      LongNameIsProper, Name
<1> QED
  BY <1>1, <1>2, <1>3, <1>4, <1>5, <1>6 DEF Next

\* Before the first listing nothing is shown and nothing pends.
LEMMA ProperInitially ==
  ASSUME NamesInOrder, NamesOwned PROVE Init => ProperInv
<1> SUFFICES ASSUME Init PROVE ProperInv
  OBVIOUS
<1>1. dir = << >> /\ disk = Contents /\ lfn_slot = -1 /\ shown = << >>
  BY DEF Init
<1>2. EntriesAreThere
  BY <1>1 DEF EntriesAreThere, Owned, NamesOwned
<1>3. PendsBehindIts /\ ProperUntilMarked
  BY <1>1 DEF PendsBehindIts, ProperUntilMarked, LongNameIsProper, Name
<1> QED
  BY <1>2, <1>3, WholeInitially DEF ProperInv

\* Long names are shown beside the entries they belong to until delete or
\* undelete marks one, in directories where the entries are there and the
\* parts in order.
THEOREM NamesAreProper ==
  ASSUME NamesInOrder, NamesOwned PROVE Spec => []ProperUntilMarked
<1>1. ProperInv => ProperUntilMarked
  BY DEF ProperInv
<1> QED
  BY <1>1, ProperInitially, ProperStep, PTL DEF Spec
-----------------------------------------------------------------------------
(* Numbers *)

\* Every set of numbers that is not empty has a least one.
LEMMA LeastNumber ==
  ASSUME NEW T, T \subseteq Nat, T # {}
  PROVE  \E x \in T : \A y \in T : x <= y
<1> DEFINE R == OpToRel(<, Nat)
<1>1. IsWellFoundedOn(R, Nat)
  BY NatLessThanWellFounded
<1> HIDE DEF R
<1>2. PICK x \in T : \A y \in T : ~(<<y, x>> \in R)
  BY <1>1, WFMin
<1>3. ASSUME NEW y \in Nat PROVE <<y, x>> \in R <=> y < x
  <2>1. R = {ss \in Nat \X Nat : ss[1] < ss[2]}
    BY Zenon DEF R, OpToRel
  <2>2. <<y, x>> \in Nat \X Nat
    BY <1>2
  <2>3. <<y, x>>[1] = y /\ <<y, x>>[2] = x
    OBVIOUS
  <2>4. <<y, x>> \in R <=> <<y, x>>[1] < <<y, x>>[2]
    BY Zenon, <2>1, <2>2
  <2> QED
    BY <2>3, <2>4
<1>4. \A y \in T : ~(y < x) /\ y \in Nat /\ x \in Nat
  BY <1>2, <1>3
<1>5. \A y \in T : x <= y
  BY <1>4
<1> QED
  BY <1>2, <1>5

\* The community module's least number is that one.
LEMMA MinIs ==
  ASSUME NEW T, T \subseteq Nat, NEW x \in T, \A y \in T : x <= y
  PROVE  Min(T) = x
<1>1. \A z \in T : (\A y \in T : z <= y) => z = x
  BY SMT
<1>2. Min(T) \in T /\ \A y \in T : Min(T) <= y
  BY DEF Min
<1> QED
  BY <1>1, <1>2

LEMMA MaxIs ==
  ASSUME NEW T, T \subseteq Nat, NEW x \in T, \A y \in T : x >= y
  PROVE  Max(T) = x
<1>1. \A z \in T : (\A y \in T : z >= y) => z = x
  BY SMT
<1>2. Max(T) \in T /\ \A y \in T : Max(T) >= y
  BY DEF Max
<1> QED
  BY <1>1, <1>2
-----------------------------------------------------------------------------
(* Texts *)

\* The text in an array of characters ends before its first NUL.
EndsText(s, n) ==
  /\ n \in 0..Len(s) /\ \A k \in 1..n : s[k] # NUL
  /\ n = Len(s) \/ s[n + 1] = NUL

LEMMA TextIs ==
  ASSUME NEW s \in Seq(Chars), NEW n, EndsText(s, n)
  PROVE  Text(s) = SubSeq(s, 1, n)
<1> DEFINE z == s \o <<NUL>>
           I == {j \in 1..Len(z) : z[j] = NUL}
<1>1. /\ Len(s) \in Nat /\ n \in Nat /\ n <= Len(s) /\ Len(z) = Len(s) + 1
      /\ \A j \in 1..Len(s) : z[j] = s[j]
      /\ z[Len(s) + 1] = NUL
  BY DEF EndsText
<1> HIDE DEF z
<1>2. n + 1 \in I
  BY <1>1 DEF EndsText
<1>3. \A j \in I : n + 1 <= j
  BY <1>1 DEF EndsText
<1>4. I \subseteq Nat
  BY <1>1
<1>5. SelectInSeq(z, LAMBDA c : c = NUL) = Min(I)
  BY <1>2 DEF SelectInSeq
<1> HIDE DEF I
<1>6. Min(I) = n + 1
  BY <1>2, <1>3, <1>4, MinIs
<1>7. (n + 1) - 1 = n
  BY <1>1
<1> QED
  BY <1>5, <1>6, <1>7 DEF Text, z

LEMMA TextEnds ==
  ASSUME NEW s \in Seq(Chars)
  PROVE  \E n : EndsText(s, n)
<1> DEFINE T == {m \in Nat : m <= Len(s) /\ (m = Len(s) \/ s[m + 1] = NUL)}
<1>1. Len(s) \in Nat
  OBVIOUS
<1>2. T \subseteq Nat /\ T # {}
  BY <1>1
<1>3. PICK n \in T : \A m \in T : n <= m
  BY <1>2, LeastNumber
<1>4. ASSUME NEW k \in 1..n PROVE s[k] # NUL
  <2>1. k - 1 \in Nat /\ ~(n <= k - 1) /\ (k - 1) + 1 = k /\ k - 1 <= Len(s)
    BY <1>1, <1>3
  <2> QED
    BY <1>3, <2>1
<1> QED
  BY <1>1, <1>3, <1>4 DEF EndsText

\* And rtrim cuts it behind the last character that is not blank.
Blank(c) == c = " "
EndsTrimmed(s, n) ==
  /\ n \in 0..Len(s) /\ \A k \in (n + 1)..Len(s) : Blank(s[k])
  /\ n = 0 \/ ~Blank(s[n])

LEMMA TrimmedIs ==
  ASSUME NEW s \in Seq(Chars), NEW n, EndsTrimmed(s, n)
  PROVE  rtrim(s) = SubSeq(s, 1, n)
<1> DEFINE I == {j \in 1..Len(s) : ~Blank(s[j])}
<1>1. Len(s) \in Nat /\ n \in Nat /\ n <= Len(s)
  BY DEF EndsTrimmed
<1>2. I \subseteq Nat /\ \A j \in I : j <= n
  BY <1>1 DEF EndsTrimmed
<1>3. rtrim(s) = SubSeq(s, 1, IF I # {} THEN Max(I) ELSE 0)
  BY Zenon DEF SelectLastInSeq, rtrim, Blank
<1>4. CASE n = 0
  <2>1. I = {}
    BY <1>1, <1>2, <1>4
  <2> QED
    BY <1>3, <1>4, <2>1
<1>5. CASE n # 0
  <2>1. n \in I
    BY <1>1, <1>5 DEF EndsTrimmed
  <2> HIDE DEF I
  <2>2. Max(I) = n
    BY <1>1, <1>2, <2>1, MaxIs
  <2> QED
    BY <1>3, <2>1, <2>2
<1> QED
  BY <1>4, <1>5

LEMMA TrimmedEnds ==
  ASSUME NEW s \in Seq(Chars)
  PROVE  \E n : EndsTrimmed(s, n)
<1> DEFINE T == {m \in Nat : m <= Len(s) /\ \A k \in (m + 1)..Len(s) : Blank(s[k])}
<1>1. Len(s) \in Nat
  OBVIOUS
<1>2. T \subseteq Nat /\ T # {}
  <2>1. Len(s) \in T
    BY <1>1
  <2> QED
    BY <2>1
<1>3. PICK n \in T : \A m \in T : n <= m
  BY <1>2, LeastNumber
<1>4. ASSUME n # 0 PROVE ~Blank(s[n])
  <2>1. n - 1 \in Nat /\ ~(n <= n - 1) /\ n - 1 <= Len(s)
    BY <1>1, <1>3, <1>4
  <2>2. ASSUME Blank(s[n]), NEW k \in ((n - 1) + 1)..Len(s) PROVE Blank(s[k])
    BY <1>1, <1>3, <2>1, <2>2
  <2> QED
    BY <1>3, <2>1, <2>2
<1> QED
  BY <1>1, <1>3, <1>4 DEF EndsTrimmed

\* What is left of an array whose first character is neither is the same
\* behind that character, whichever it is.
LEMMA FirstChanges ==
  ASSUME NEW x \in Seq(Chars), NEW a \in Chars, NEW b \in Chars,
         a # NUL, b # NUL, ~Blank(a), ~Blank(b)
  PROVE  \E w \in Seq(Chars) : /\ rtrim(Text(<<a>> \o x)) = <<a>> \o w
                               /\ rtrim(Text(<<b>> \o x)) = <<b>> \o w
<1> DEFINE s == <<a>> \o x
           t == <<b>> \o x
<1>1. /\ s \in Seq(Chars) /\ t \in Seq(Chars) /\ Len(s) = Len(x) + 1 /\ Len(t) = Len(s)
      /\ Len(x) \in Nat /\ s[1] = a /\ t[1] = b
      /\ \A k \in 2..Len(s) : s[k] = x[k - 1] /\ t[k] = x[k - 1] /\ t[k] = s[k]
  OBVIOUS
<1> HIDE DEF s, t
<1>2. PICK n : EndsText(s, n)
  BY <1>1, TextEnds
<1>3. n \in 1..Len(s)
  BY <1>1, <1>2 DEF EndsText
<1>4. EndsText(t, n)
  <2>1. n \in 0..Len(t) /\ (n = Len(t) \/ t[n + 1] = NUL)
    BY <1>1, <1>2, <1>3 DEF EndsText
  <2>2. ASSUME NEW k \in 1..n PROVE t[k] # NUL
    BY <1>1, <1>2, <1>3 DEF EndsText
  <2> QED
    BY <2>1, <2>2 DEF EndsText
<1> DEFINE u == SubSeq(s, 1, n)
           v == SubSeq(t, 1, n)
<1>5. /\ u \in Seq(Chars) /\ v \in Seq(Chars) /\ Len(u) = n /\ Len(v) = n
      /\ \A k \in 1..n : u[k] = s[k] /\ v[k] = t[k]
  BY <1>1, <1>3
<1>6. Text(s) = u /\ Text(t) = v
  BY <1>1, <1>2, <1>4, TextIs
<1> HIDE DEF u, v
<1>7. PICK m : EndsTrimmed(u, m)
  BY <1>5, TrimmedEnds
<1>8. m \in 1..n
  <2>1. m \in 0..n /\ (m = 0 => \A k \in 1..n : Blank(u[k]))
    BY <1>3, <1>5, <1>7 DEF EndsTrimmed
  <2>2. 1 \in 1..n /\ u[1] = a
    BY <1>1, <1>3, <1>5
  <2> QED
    BY <2>1, <2>2
<1>9. EndsTrimmed(v, m)
  <2>1. ASSUME NEW k \in (m + 1)..Len(v) PROVE Blank(v[k])
    <3>1. Blank(u[k])
      BY <1>5, <1>7 DEF EndsTrimmed
    <3>2. k \in 2..Len(s) /\ k \in 1..n
      BY <1>1, <1>3, <1>5, <1>8
    <3> QED
      BY <1>1, <1>5, <3>1, <3>2
  <2>2. ~Blank(v[m])
    <3>1. CASE m = 1
      BY <1>1, <1>5, <1>8, <3>1
    <3>2. CASE m # 1
      <4>1. ~Blank(u[m])
        BY <1>7, <1>8 DEF EndsTrimmed
      <4>2. m \in 2..Len(s) /\ m \in 1..n
        BY <1>1, <1>3, <1>8, <3>2
      <4> QED
        BY <1>1, <1>5, <4>1, <4>2
    <3> QED
      BY <3>1, <3>2
  <2>3. m \in 0..Len(v)
    BY <1>3, <1>5, <1>8
  <2> QED
    BY <2>1, <2>2, <2>3 DEF EndsTrimmed
<1>10. rtrim(Text(s)) = SubSeq(u, 1, m) /\ rtrim(Text(t)) = SubSeq(v, 1, m)
  BY <1>5, <1>6, <1>7, <1>9, TrimmedIs
<1> DEFINE w == SubSeq(x, 1, m - 1)
<1>11. w \in Seq(Chars) /\ Len(w) = m - 1 /\ \A k \in 1..(m - 1) : w[k] = x[k]
  BY <1>1, <1>3, <1>8
<1> HIDE DEF w
<1>12. /\ \A k \in 1..m : u[k] = (<<a>> \o w)[k] /\ v[k] = (<<b>> \o w)[k]
       /\ Len(<<a>> \o w) = m /\ Len(<<b>> \o w) = m
  <2>1. /\ Len(<<a>> \o w) = m /\ Len(<<b>> \o w) = m
        /\ (<<a>> \o w)[1] = a /\ (<<b>> \o w)[1] = b
        /\ \A k \in 2..m : (<<a>> \o w)[k] = w[k - 1] /\ (<<b>> \o w)[k] = w[k - 1]
    BY <1>1, <1>8, <1>11
  <2>2. u[1] = a /\ v[1] = b
    BY <1>1, <1>3, <1>5
  <2>3. ASSUME NEW k \in 2..m PROVE u[k] = w[k - 1] /\ v[k] = w[k - 1]
    <3>1. k \in 2..Len(s) /\ k \in 1..n /\ k - 1 \in 1..(m - 1)
      BY <1>1, <1>3, <1>8
    <3> QED
      BY <1>1, <1>5, <1>11, <3>1
  <2>4. ASSUME NEW k \in 1..m
        PROVE  u[k] = (<<a>> \o w)[k] /\ v[k] = (<<b>> \o w)[k]
    <3>1. CASE k = 1
      BY <2>1, <2>2, <3>1
    <3>2. CASE k # 1
      <4>1. k \in 2..m
        BY <1>8, <3>2
      <4> QED
        BY <2>1, <2>3, <4>1
    <3> QED
      BY <3>1, <3>2
  <2> QED
    BY <2>1, <2>4
<1>13. SubSeq(u, 1, m) = <<a>> \o w /\ SubSeq(v, 1, m) = <<b>> \o w
  <2>1. /\ SubSeq(u, 1, m) \in Seq(Chars) /\ Len(SubSeq(u, 1, m)) = m
        /\ SubSeq(v, 1, m) \in Seq(Chars) /\ Len(SubSeq(v, 1, m)) = m
        /\ \A k \in 1..m : SubSeq(u, 1, m)[k] = u[k] /\ SubSeq(v, 1, m)[k] = v[k]
    BY <1>3, <1>5, <1>8
  <2>2. <<a>> \o w \in Seq(Chars) /\ <<b>> \o w \in Seq(Chars)
    BY <1>11
  <2> DEFINE y == SubSeq(u, 1, m)
             z == SubSeq(v, 1, m)
             p == <<a>> \o w
             q == <<b>> \o w
  <2>3. /\ y \in Seq(Chars) /\ z \in Seq(Chars) /\ p \in Seq(Chars) /\ q \in Seq(Chars)
        /\ Len(y) = m /\ Len(z) = m /\ Len(p) = m /\ Len(q) = m
        /\ \A k \in 1..m : y[k] = p[k] /\ z[k] = q[k]
    BY <1>12, <2>1, <2>2
  <2> HIDE DEF y, z, p, q
  <2>4. y = p /\ z = q
    BY <2>3, SeqEqual
  <2> QED
    BY <2>4 DEF y, z, p, q
<1> QED
  BY <1>10, <1>11, <1>13 DEF s, t

\* And an array whose first character is one of the two leaves no text that
\* starts with another character.
LEMMA FirstStays ==
  ASSUME NEW x \in Seq(Chars), NEW a \in Chars
  PROVE  /\ rtrim(Text(<<a>> \o x)) \in Seq(Chars)
         /\ \/ rtrim(Text(<<a>> \o x)) = << >>
            \/ rtrim(Text(<<a>> \o x))[1] = a
<1> DEFINE s == <<a>> \o x
<1>1. s \in Seq(Chars) /\ Len(s) \in Nat /\ s[1] = a
  OBVIOUS
<1> HIDE DEF s
<1>2. PICK n : EndsText(s, n)
  BY <1>1, TextEnds
<1> DEFINE u == SubSeq(s, 1, n)
<1>3. u \in Seq(Chars) /\ Len(u) = n /\ n \in 0..Len(s) /\ \A k \in 1..n : u[k] = s[k]
  BY <1>1, <1>2 DEF EndsText
<1>4. Text(s) = u
  BY <1>1, <1>2, TextIs
<1> HIDE DEF u
<1>5. PICK m : EndsTrimmed(u, m)
  BY <1>3, TrimmedEnds
<1>6. rtrim(Text(s)) = SubSeq(u, 1, m)
  BY <1>3, <1>4, <1>5, TrimmedIs
<1>7. m \in 0..n
  BY <1>3, <1>5 DEF EndsTrimmed
<1>8. CASE m = 0
  <2>1. SubSeq(u, 1, m) = << >> /\ << >> \in Seq(Chars)
    BY <1>3, <1>8
  <2> QED
    BY <1>6, <2>1 DEF s
<1>9. CASE m # 0
  <2>1. m \in 1..n /\ 1 \in 1..m /\ 1 \in 1..n /\ m \in 1..Len(u)
    BY <1>3, <1>7, <1>9
  <2>2. /\ SubSeq(u, 1, m) \in Seq(Chars)
        /\ \A k \in 1..m : SubSeq(u, 1, m)[k] = u[k]
        /\ u[1] = s[1]
    BY <1>3, <2>1
  <2>3. rtrim(Text(s)) \in Seq(Chars) /\ rtrim(Text(s))[1] = a
    BY <1>1, <1>6, <2>1, <2>2
  <2> QED
    BY <2>3 DEF s
<1> QED
  BY <1>8, <1>9
-----------------------------------------------------------------------------
(* Names *)

\* The character a name begins with when the entry's begins with c.
Lead(c, lower) == IF c = E5 THEN "?" ELSE IF c = X05 THEN E5
                  ELSE IF lower THEN tolower[c] ELSE c

LEMMA CharsAre ==
  /\ "?" \in Chars /\ E5 \in Chars /\ "." \in Chars
  /\ "?" # NUL /\ ~Blank("?") /\ E5 # X05 /\ E5 # NUL /\ X05 # NUL
  /\ "?" # "."
  /\ \A c \in Chars : tolower[c] \in Chars
<1>1. /\ "?" \in Chars /\ E5 \in Chars /\ "." \in Chars
  BY Zenon, NamesAssumption
<1>2. "?" # NUL /\ E5 # X05 /\ E5 # NUL /\ X05 # NUL /\ "?" # "." /\ ~Blank("?")
  BY DEF NUL, E5, X05, Blank
<1>3. \A c \in Chars : tolower[c] \in Chars
  BY NamesAssumption
<1> QED
  BY <1>1, <1>2, <1>3

LEMMA CasedTyped ==
  ASSUME NEW s \in Seq(Chars), NEW lower \in BOOLEAN
  PROVE  Cased(s, lower) \in Seq(Chars)
<1>1. \A c \in Chars : tolower[c] \in Chars
  BY CharsAre
<1>2. Len(s) \in Nat /\ DOMAIN s = 1..Len(s) /\ \A k \in 1..Len(s) : s[k] \in Chars
  OBVIOUS
<1>3. \A k \in 1..Len(s) : (IF lower THEN tolower[s[k]] ELSE s[k]) \in Chars
  BY <1>1, <1>2
<1> QED
  BY <1>2, <1>3 DEF Cased

LEMMA NameIs ==
  ASSUME NEW e \in ShortName
  PROVE  LET rest == Cased(Tail(e.name), e.lower_name)
             lead == Lead(e.name[1], e.lower_name)
         IN  /\ rest \in Seq(Chars) /\ lead \in Chars
             /\ get_name(e) = rtrim(Text(<<lead>> \o rest))
<1> DEFINE c == e.name[1]
           lower == e.lower_name
           rest == Cased(Tail(e.name), lower)
<1>1. e.name \in Seq(Chars) /\ e.name # << >> /\ lower \in BOOLEAN
  BY DEF ShortName
<1>2. c \in Chars /\ Tail(e.name) \in Seq(Chars)
  BY <1>1
<1>3. rest \in Seq(Chars)
  BY <1>1, <1>2, CasedTyped
<1>4. Lead(c, lower) \in Chars
  BY <1>2, CharsAre DEF Lead
<1> DEFINE First == CASE c = E5  -> <<"?">>
                      [] c = X05 -> <<E5>>
                      [] OTHER -> Cased(<<c>>, lower)
<1>5. get_name(e) = rtrim(Text(First \o rest))
  BY Zenon DEF get_name
<1> HIDE DEF c, lower, rest
<1>6. Cased(<<c>>, lower) = <<IF lower THEN tolower[c] ELSE c>>
  BY SMT DEF Cased
<1>7. First = <<Lead(c, lower)>>
  BY <1>6 DEF Lead, E5, X05
<1> HIDE DEF First
<1>8. get_name(e) = rtrim(Text(<<Lead(c, lower)>> \o rest))
  BY <1>5, <1>7
<1> QED
  BY <1>3, <1>4, <1>8 DEF c, lower, rest

LEMMA ExtensionTyped ==
  ASSUME NEW e \in ShortName
  PROVE  get_extension(e) \in Seq(Chars)
<1> DEFINE s == Cased(e.extention, e.lower_extention)
<1>1. s \in Seq(Chars)
  BY CasedTyped DEF ShortName
<1> HIDE DEF s
<1>2. PICK n : EndsText(s, n)
  BY <1>1, TextEnds
<1>3. Text(s) = SubSeq(s, 1, n) /\ SubSeq(s, 1, n) \in Seq(Chars)
  BY <1>1, <1>2, TextIs DEF EndsText
<1> DEFINE u == SubSeq(s, 1, n)
<1> HIDE DEF u
<1>4. Text(s) = u /\ u \in Seq(Chars)
  BY <1>3 DEF u
<1>5. PICK m : EndsTrimmed(u, m)
  BY <1>4, TrimmedEnds
<1>6. rtrim(u) = SubSeq(u, 1, m) /\ SubSeq(u, 1, m) \in Seq(Chars)
  BY <1>4, <1>5, TrimmedIs DEF EndsTrimmed
<1> QED
  BY <1>4, <1>6 DEF get_extension, s

\* An entry is a short name again after its first character is changed, and
\* nothing else of it changes.
LEMMA GivenTyped ==
  ASSUME NEW e \in ShortName, NEW c \in Chars
  PROVE  LET f == [e EXCEPT !.name[1] = c]
         IN  /\ f \in ShortName /\ f.name[1] = c /\ Tail(f.name) = Tail(e.name)
             /\ f.extention = e.extention /\ f.lower_name = e.lower_name
             /\ f.lower_extention = e.lower_extention /\ f.directory = e.directory
             /\ f.special = e.special /\ f.file_size = e.file_size
<1> DEFINE f == [e EXCEPT !.name[1] = c]
           n == [e.name EXCEPT ![1] = c]
<1>1. e.name \in Seq(Chars) /\ e.name # << >>
  BY DEF ShortName
<1>2. /\ f.name = n
      /\ f.extention = e.extention /\ f.lower_name = e.lower_name
      /\ f.lower_extention = e.lower_extention /\ f.directory = e.directory
      /\ f.special = e.special /\ f.file_size = e.file_size
  BY DEF ShortName
<1>3. n \in Seq(Chars) /\ n # << >> /\ n[1] = c /\ Len(n) = Len(e.name)
  BY <1>1
<1>4. \A k \in 2..Len(n) : n[k] = e.name[k]
  BY <1>1
<1>5. f \in ShortName
  BY <1>1, <1>2, <1>3 DEF ShortName
<1>6. Tail(n) = Tail(e.name)
  BY <1>1, <1>3, <1>4
<1> QED
  BY <1>2, <1>3, <1>5, <1>6

\* A name that starts with the character shown for a deleted entry's first
\* starts with another once the entry is given it.
LEMMA FirstGiven ==
  ASSUME NEW e \in ShortName, NEW v \in Seq(Chars), NEW c \in Typeable,
         c # E5, c # X05, MatchesTerm(e, <<"?">> \o v),
         ~e.lower_name \/ tolower[c] = c
  PROVE  MatchesTerm([e EXCEPT !.name[1] = c], <<c>> \o v)
<1> DEFINE f == [e EXCEPT !.name[1] = c]
           rest == Cased(Tail(e.name), e.lower_name)
           lead == Lead(e.name[1], e.lower_name)
           name == get_name(e)
           ext == get_extension(e)
           end == <<".">> \o ext
<1>1. /\ c \in Chars /\ c # NUL /\ ~Blank(c)
      /\ Typeable \subseteq Chars
  <2>1. Typeable \subseteq Chars \ {" ", "/", "?", NUL}
    BY Zenon, NamesAssumption
  <2> QED
    BY <2>1 DEF Blank
<1>2. /\ f \in ShortName /\ f.name[1] = c /\ Tail(f.name) = Tail(e.name)
      /\ f.extention = e.extention /\ f.lower_name = e.lower_name
      /\ f.lower_extention = e.lower_extention /\ f.directory = e.directory
      /\ f.special = e.special /\ f.file_size = e.file_size
  BY <1>1, GivenTyped
<1>3. rest \in Seq(Chars) /\ lead \in Chars /\ name = rtrim(Text(<<lead>> \o rest))
  BY NameIs
<1>4. get_name(f) = rtrim(Text(<<Lead(c, e.lower_name)>> \o rest))
  BY <1>2, NameIs
<1>5. Lead(c, e.lower_name) = c
  BY DEF Lead
<1>6. get_extension(f) = ext /\ ext \in Seq(Chars)
  BY <1>2, ExtensionTyped DEF get_extension
<1> HIDE DEF f, rest, lead, name, ext
<1>7. name \in Seq(Chars) /\ (name = << >> \/ name[1] = lead)
  BY <1>3, FirstStays
<1>8. \/ e.file_size # 0 /\ ~e.special /\ <<"?">> \o v = (name \o <<".">>) \o ext
      \/ e.directory /\ <<"?">> \o v = name
  BY DEF MatchesTerm, name, ext
<1>9. (<<"?">> \o v)[1] = "?"
  BY CharsAre
<1>10. lead = "?"
  <2>1. CASE <<"?">> \o v = name
    <3>1. name # << >>
      BY <2>1, CharsAre
    <3> QED
      BY <1>7, <1>9, <2>1, <3>1
  <2>2. CASE <<"?">> \o v = (name \o <<".">>) \o ext
    <3>1. name = << >> => ((name \o <<".">>) \o ext)[1] = "."
      BY <1>6, CharsAre
    <3>2. name # << >> => ((name \o <<".">>) \o ext)[1] = name[1]
      BY <1>6, <1>7, CharsAre
    <3> QED
      BY <1>7, <1>9, <2>2, <3>1, <3>2, CharsAre
  <2> QED
    BY <1>8, <2>1, <2>2
<1>11. PICK w \in Seq(Chars) : name = <<"?">> \o w /\ get_name(f) = <<c>> \o w
  <2>1. "?" \in Chars /\ "?" # NUL /\ ~Blank("?")
    BY CharsAre
  <2>2. \E w \in Seq(Chars) : /\ rtrim(Text(<<"?">> \o rest)) = <<"?">> \o w
                              /\ rtrim(Text(<<c>> \o rest)) = <<c>> \o w
    BY Zenon, <1>1, <1>3, <2>1, FirstChanges
  <2> QED
    BY <1>3, <1>4, <1>5, <1>10, <2>2
<1>12. end \in Seq(Chars)
  BY <1>6, CharsAre
<1>13. ASSUME NEW a \in Chars PROVE ((<<a>> \o w) \o <<".">>) \o ext = <<a>> \o (w \o end)
  <2>1. <<a>> \in Seq(Chars) /\ <<".">> \in Seq(Chars)
    BY CharsAre
  <2>2. ((<<a>> \o w) \o <<".">>) \o ext = (<<a>> \o w) \o end
    BY <1>6, <1>11, <2>1
  <2> HIDE DEF end
  <2>3. (<<a>> \o w) \o end = <<a>> \o (w \o end)
    BY <1>11, <1>12, <2>1
  <2> QED
    BY <2>2, <2>3
<1> HIDE DEF end
<1>14. w \o end \in Seq(Chars)
  BY <1>11, <1>12
<1>15. ASSUME NEW x \in Seq(Chars), <<"?">> \o v = <<"?">> \o x PROVE v = x
  <2> DEFINE p == <<"?">> \o v
             q == <<"?">> \o x
  <2>1. /\ Len(p) = Len(v) + 1 /\ \A k \in 1..Len(v) : v[k] = p[k + 1]
        /\ Len(q) = Len(x) + 1 /\ \A k \in 1..Len(x) : x[k] = q[k + 1]
        /\ Len(v) \in Nat /\ Len(x) \in Nat
    OBVIOUS
  <2>2. p = q
    BY <1>15
  <2> HIDE DEF p, q
  <2>3. Len(v) = Len(x) /\ \A k \in 1..Len(v) : v[k] = x[k]
    BY <2>1, <2>2
  <2> QED
    BY <2>3, SeqEqual
<1>16. Used(f)
  BY <1>1, <1>2 DEF Used
<1>17. CASE e.directory /\ <<"?">> \o v = name
  <2>1. v = w
    BY <1>11, <1>15, <1>17
  <2> QED
    BY <1>2, <1>11, <1>16, <1>17, <2>1 DEF MatchesTerm, f
<1>18. CASE e.file_size # 0 /\ ~e.special /\ <<"?">> \o v = (name \o <<".">>) \o ext
  <2>1. v = w \o end
    BY <1>11, <1>13, <1>14, <1>15, <1>18, CharsAre
  <2>2. <<c>> \o v = (get_name(f) \o <<".">>) \o get_extension(f)
    BY <1>1, <1>6, <1>11, <1>13, <2>1
  <2> QED
    BY <1>2, <1>16, <1>18, <2>2 DEF MatchesTerm, f
<1> QED
  BY <1>8, <1>17, <1>18
-----------------------------------------------------------------------------
(* Names find their entries *)

\* What search does in the directory s: it finds the first match.
FoundIn(s, term) == SelectInSeq(s, LAMBDA e : MatchesTerm(e, term))

LEMMA FirstMatch ==
  ASSUME NEW s \in Seq(ShortName), NEW term, NEW j \in 1..Len(s), MatchesTerm(s[j], term)
  PROVE  FoundIn(s, term) \in 1..j
<1> DEFINE I == {k \in 1..Len(s) : MatchesTerm(s[k], term)}
<1>1. I \subseteq Nat /\ j \in I /\ Len(s) \in Nat
  OBVIOUS
<1>2. FoundIn(s, term) = IF I # {} THEN Min(I) ELSE 0
  BY Zenon DEF FoundIn, SelectInSeq
<1>3. \A x \in I : x \in 1..Len(s)
  OBVIOUS
<1> HIDE DEF I
<1>4. PICK x \in I : \A y \in I : x <= y
  BY <1>1, LeastNumber
<1>5. FoundIn(s, term) = x
  BY <1>1, <1>2, <1>4, MinIs
<1> QED
  BY <1>1, <1>3, <1>4, <1>5

LEMMA FoundMatches ==
  ASSUME NEW s \in Seq(ShortName), NEW term, FoundIn(s, term) # 0
  PROVE  FoundIn(s, term) \in 1..Len(s) /\ MatchesTerm(s[FoundIn(s, term)], term)
<1> DEFINE I == {k \in 1..Len(s) : MatchesTerm(s[k], term)}
<1>1. I \subseteq Nat
  OBVIOUS
<1>2. FoundIn(s, term) = IF I # {} THEN Min(I) ELSE 0
  BY Zenon DEF FoundIn, SelectInSeq
<1>3. \A x \in I : x \in 1..Len(s) /\ MatchesTerm(s[x], term)
  OBVIOUS
<1> HIDE DEF I
<1>4. PICK x \in I : \A y \in I : x <= y
  BY <1>1, <1>2, LeastNumber
<1>5. FoundIn(s, term) = x
  BY <1>1, <1>2, <1>4, MinIs
<1> QED
  BY <1>3, <1>5

\* The inductive invariant: the directory is one, and the name undelete was
\* given last finds an entry, with the exceptions of the property.
GivenIsFound ==
  given # << >> =>
    \/ search(given) # 0 \/ given[1] = E5
    \/ tolower[given[1]] # given[1] /\
         \E j \in DOMAIN entries : entries[j].lower_name /\ entries[j].name[1] = given[1]

NamesInv == entries \in Seq(ShortName) /\ GivenIsFound

\* What is shown for a deleted entry starts with the character for those.
LEMMA DeletedIsShown ==
  ASSUME NEW e \in ShortName, is_deleted(e)
  PROVE  \E v \in Seq(Chars) : Shown(e) = <<"?">> \o v
<1> DEFINE rest == Cased(Tail(e.name), e.lower_name)
<1>1. rest \in Seq(Chars) /\ get_name(e) = rtrim(Text(<<"?">> \o rest))
  <2>1. Lead(e.name[1], e.lower_name) = "?"
    BY DEF is_deleted, Lead
  <2> QED
    BY <2>1, NameIs
<1> HIDE DEF rest
<1>2. "?" \in Chars /\ "?" # NUL /\ ~Blank("?") /\ <<".">> \in Seq(Chars)
  BY CharsAre
<1>3. \E w \in Seq(Chars) : rtrim(Text(<<"?">> \o rest)) = <<"?">> \o w
  BY Zenon, <1>1, <1>2, FirstChanges
<1>4. PICK w \in Seq(Chars) : get_name(e) = <<"?">> \o w
  BY <1>1, <1>3
<1>5. CASE e.directory
  BY <1>4, <1>5 DEF Shown
<1>6. CASE ~e.directory
  <2>1. get_extension(e) \in Seq(Chars)
    BY ExtensionTyped
  <2> DEFINE ext == get_extension(e)
  <2> HIDE DEF ext
  <2>2. ext \in Seq(Chars) /\ <<"?">> \in Seq(Chars)
    BY <1>2, <2>1 DEF ext
  <2>3. ((<<"?">> \o w) \o <<".">>) \o ext = <<"?">> \o ((w \o <<".">>) \o ext)
    <3>1. (<<"?">> \o w) \o <<".">> = <<"?">> \o (w \o <<".">>)
      BY <1>2, <2>2, ConcatAssociative
    <3> DEFINE wd == w \o <<".">>
    <3>2. wd \in Seq(Chars)
      BY <1>2
    <3> HIDE DEF wd
    <3>3. (<<"?">> \o wd) \o ext = <<"?">> \o (wd \o ext)
      BY <2>2, <3>2, ConcatAssociative
    <3> QED
      BY <3>1, <3>3 DEF wd
  <2>4. (w \o <<".">>) \o ext \in Seq(Chars)
    BY <1>2, <2>2
  <2> QED
    BY <1>4, <1>6, <2>3, <2>4 DEF Shown, ext
<1> QED
  BY <1>5, <1>6

\* Names typed as they are shown find the entries they are shown for.
LEMMA ShownIsFound ==
  ASSUME entries \in Seq(ShortName), NEW j \in DOMAIN entries, Lists(entries[j], TRUE)
  PROVE  LET text == Shown(entries[j])
         IN  \/ search(text) = j \/ Shadowed(j, text)
             \/ ~entries[j].directory /\ entries[j].file_size = 0
<1> DEFINE text == Shown(entries[j])
           k == FoundIn(entries, text)
<1> SUFFICES ASSUME entries[j].directory \/ entries[j].file_size # 0
             PROVE  search(text) = j \/ Shadowed(j, text)
  OBVIOUS
<1>1. j \in 1..Len(entries) /\ Len(entries) \in Nat
  OBVIOUS
<1>2. MatchesTerm(entries[j], text)
  <2>1. CASE entries[j].directory
    BY <2>1 DEF MatchesTerm, Lists, Shown
  <2>2. CASE ~entries[j].directory
    BY <2>2 DEF MatchesTerm, Lists, Shown
  <2> QED
    BY <2>1, <2>2
<1>3. search(text) = k
  BY DEF search, FoundIn
<1> HIDE DEF text
<1>4. k \in 1..j
  BY <1>1, <1>2, FirstMatch
<1>5. k \in 1..Len(entries) /\ MatchesTerm(entries[k], text)
  <2>1. k # 0
    BY <1>1, <1>4
  <2> QED
    BY <2>1, FoundMatches
<1> HIDE DEF k
<1>6. ASSUME k # j PROVE Shadowed(j, text)
  <2>1. k \in 1..(j - 1)
    BY <1>1, <1>4, <1>6
  <2>2. \/ Lists(entries[k], TRUE) /\ Shown(entries[k]) = text
        \/ /\ entries[k].directory /\ entries[k].file_size # 0
           /\ text = get_name(entries[k]) \o <<".">> \o get_extension(entries[k])
    <3>1. CASE entries[k].directory
      BY <1>5, <3>1 DEF MatchesTerm, Lists, Shown
    <3>2. CASE ~entries[k].directory
      BY <1>5, <3>2 DEF MatchesTerm, Lists, Shown
    <3> QED
      BY <3>1, <3>2
  <2> QED
    BY <2>1, <2>2 DEF Shadowed
<1> QED
  BY <1>3, <1>6

LEMMA GiveFirstTyped ==
  ASSUME entries \in Seq(ShortName), NEW k \in DOMAIN entries, NEW c \in Chars,
         GiveFirst(k, c)
  PROVE  /\ entries' \in Seq(ShortName) /\ k \in 1..Len(entries')
         /\ entries'[k] = [entries[k] EXCEPT !.name[1] = c]
<1>1. Len(entries) \in Nat /\ DOMAIN entries = 1..Len(entries)
  OBVIOUS
<1>2. \A j \in 1..Len(entries) :
        entries[j] \in ShortName /\ [entries[j] EXCEPT !.name[1] = c] \in ShortName
  BY GivenTyped
<1> DEFINE next(j) == IF entries[j] = entries[k]
                      THEN [entries[j] EXCEPT !.name[1] = c] ELSE entries[j]
<1>3. entries' = [j \in 1..Len(entries) |-> next(j)]
  BY <1>1 DEF GiveFirst
<1>4. \A j \in 1..Len(entries) : next(j) \in ShortName
  BY <1>2
<1>5. next(k) = [entries[k] EXCEPT !.name[1] = c]
  OBVIOUS
<1> HIDE DEF next
<1>6. entries' \in Seq(ShortName) /\ Len(entries') = Len(entries)
  BY <1>1, <1>3, <1>4
<1> QED
  BY <1>1, <1>3, <1>5, <1>6

\* search and undelete, told with what search finds.
LEMMA SearchFinds ==
  ASSUME NEW term PROVE search(term) = FoundIn(entries, term)
BY DEF search, FoundIn

LEMMA UndeleteFinds ==
  ASSUME NEW text, UndeleteName(text)
  PROVE  LET k == FoundIn(entries, <<"?">> \o Tail(text))
         IN  k # 0 /\ GiveFirst(k, text[1]) /\ given' = text
BY DEF UndeleteName, search, FoundIn

LEMMA SearchNext == (search(given))' = FoundIn(entries', given')
BY Zenon DEF search, FoundIn, SelectInSeq

LEMMA NamesStep ==
  ASSUME MarkIsNotTyped
  PROVE  NamesInv /\ [NamesNext]_namesVars => NamesInv'
<1> SUFFICES ASSUME NamesInv, [NamesNext]_namesVars PROVE NamesInv'
  OBVIOUS
<1>1. entries \in Seq(ShortName)
  BY DEF NamesInv
<1>2. E5 \in Chars /\ Typeable \subseteq Chars
  <2>1. Typeable \subseteq Chars \ {" ", "/", "?", NUL}
    BY Zenon, NamesAssumption
  <2> QED
    BY <2>1, CharsAre
<1>3. CASE UNCHANGED namesVars
  <2>1. entries' = entries /\ given' = given
    BY <1>3 DEF namesVars
  <2>2. (search(given))' = search(given)
    BY Zenon, <2>1, SearchFinds, SearchNext
  <2> QED
    BY <2>1, <2>2 DEF NamesInv, GivenIsFound
<1>4. CASE Look
  BY <1>1, <1>4 DEF Look, NamesInv, GivenIsFound
<1>5. ASSUME NEW text, DeleteName(text) PROVE NamesInv'
  <2>1. FoundIn(entries, text) # 0 /\ GiveFirst(FoundIn(entries, text), E5) /\ given' = << >>
    BY <1>5 DEF DeleteName, search, FoundIn
  <2>2. FoundIn(entries, text) \in DOMAIN entries
    BY <1>1, <2>1, FoundMatches
  <2>3. entries' \in Seq(ShortName)
    BY <1>1, <1>2, <2>1, <2>2, GiveFirstTyped
  <2> QED
    BY <2>1, <2>3 DEF NamesInv, GivenIsFound
<1>6. ASSUME NEW e \in ShortName, is_deleted(e), NEW char \in Typeable,
             UndeleteName(<<char>> \o Tail(Shown(e)))
      PROVE  NamesInv'
  <2>1. PICK v \in Seq(Chars) : Shown(e) = <<"?">> \o v
    BY <1>6, DeletedIsShown
  <2> DEFINE text == <<char>> \o Tail(Shown(e))
             term == <<"?">> \o v
             k == FoundIn(entries, term)
  <2>2. Tail(Shown(e)) = v
    BY <2>1, CharsAre
  <2>3. text = <<char>> \o v /\ Tail(text) = v /\ text[1] = char
    <3>1. text = <<char>> \o v
      BY <2>2
    <3>2. Tail(<<char>> \o v) = v /\ (<<char>> \o v)[1] = char
      BY <1>2
    <3> QED
      BY Zenon, <3>1, <3>2
  <2>4. k # 0 /\ GiveFirst(k, char) /\ given' = text
    <3>1. LET m == FoundIn(entries, <<"?">> \o Tail(text))
          IN  m # 0 /\ GiveFirst(m, text[1]) /\ given' = text
      BY Zenon, <1>6, UndeleteFinds
    <3> QED
      BY Zenon, <2>3, <3>1
  <2> HIDE DEF text, term, k
  <2>5. k \in DOMAIN entries /\ MatchesTerm(entries[k], term)
    BY <1>1, <2>4, FoundMatches DEF k
  <2> DEFINE f == entries[k]
             g == [f EXCEPT !.name[1] = char]
  <2>6. entries' \in Seq(ShortName) /\ k \in 1..Len(entries') /\ entries'[k] = g
    BY <1>1, <1>2, <2>4, <2>5, GiveFirstTyped
  <2>7. f \in ShortName /\ g.lower_name = f.lower_name /\ g.name[1] = char
    <3>1. f \in ShortName
      BY <1>1, <2>5
    <3>2. f.name \in Seq(Chars) /\ f.name # << >>
      BY <3>1 DEF ShortName
    <3> QED
      BY <1>1, <1>2, <2>5, <3>1, <3>2, GivenTyped
  <2> HIDE DEF f, g
  <2>8. CASE char = E5
    BY <2>3, <2>4, <2>6, <2>8 DEF NamesInv, GivenIsFound
  <2>9. CASE char # E5 /\ f.lower_name /\ tolower[char] # char
    <3>1. k \in DOMAIN entries' /\ entries'[k].lower_name /\ entries'[k].name[1] = char
      BY <2>6, <2>7, <2>9
    <3> QED
      BY <2>3, <2>4, <2>6, <2>9, <3>1 DEF NamesInv, GivenIsFound
  <2>10. CASE char # E5 /\ (~f.lower_name \/ tolower[char] = char)
    <3>1. char # X05
      BY DEF MarkIsNotTyped
    <3>2. MatchesTerm(f, <<"?">> \o v)
      BY <2>5 DEF f, term
    <3>3. MatchesTerm(g, <<char>> \o v)
      BY <2>7, <2>10, <3>1, <3>2, FirstGiven DEF g
    <3>4. FoundIn(entries', text) \in 1..k
      BY <2>3, <2>6, <3>3, FirstMatch
    <3>5. FoundIn(entries', text) # 0
      BY <2>6, <3>4
    <3>6. (search(given))' # 0
      BY <2>4, <3>5, SearchNext
    <3> QED
      BY <2>6, <3>6 DEF NamesInv, GivenIsFound
  <2> QED
    BY <2>8, <2>9, <2>10
<1>7. CASE \E j \in DOMAIN entries :
             LET text == Shown(entries[j])
             IN  /\ Lists(entries[j], TRUE)
                 /\ \/ CanType(text) /\ DeleteName(text)
                    \/ \E char \in Typeable :
                         /\ is_deleted(entries[j])
                         /\ CanType(<<char>> \o Tail(text))
                         /\ UndeleteName(<<char>> \o Tail(text))
  <2>1. PICK j \in DOMAIN entries :
          \/ DeleteName(Shown(entries[j]))
          \/ \E char \in Typeable :
               is_deleted(entries[j]) /\ UndeleteName(<<char>> \o Tail(Shown(entries[j])))
    BY <1>7
  <2>2. entries[j] \in ShortName
    BY <1>1
  <2> QED
    BY <1>5, <1>6, <2>1, <2>2
<1> QED
  BY <1>3, <1>4, <1>7 DEF NamesNext

\* A name typed as ls shows it finds the entry it was shown for, and the name
\* that undelete was given finds an entry afterwards, with the exceptions the
\* property names, for all directories, names and characters.
THEOREM NamesAreFound ==
  ASSUME MarkIsNotTyped PROVE NamesSpec => []NamesFindTheirEntries
<1>1. NamesInit => NamesInv
  BY NamesAssumption DEF NamesInit, NamesInv, GivenIsFound
<1>2. NamesInv => NamesFindTheirEntries
  BY ShownIsFound DEF NamesInv, GivenIsFound, NamesFindTheirEntries
<1> QED
  BY <1>1, <1>2, NamesStep, PTL DEF NamesSpec
=============================================================================
