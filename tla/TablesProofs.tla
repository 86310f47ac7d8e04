---------------------------- MODULE TablesProofs ----------------------------
(***************************************************************************)
(* Proofs about Tables, for tables of every size, every file and all lines *)
(* typed.                                                                  *)
(***************************************************************************)
EXTENDS Tables, SequenceTheorems, TLAPS

\* Between commands, nothing is left of the last one.
StartsClean ==
  /\ walk # "test_fat" => reported = << >>
  /\ walk \in {"none", "test"} => index = 0
  /\ walk # "dump_fat" => offset = 0 /\ ~failed
  /\ walk # "test" => reads = << >> /\ verdict = "none"

\* The tables in memory differ where those of the device do, but for the cells
\* changed.
TablesDiffer ==
  \A i \in Index :
    fat_table[i] # fat_table_bak[i] <=> (tables[1][i] # tables[2][i] /\ i \notin changed)

\* test_fat has reported what there is to report up to index.
ReportedSoFar ==
  walk = "test_fat" =>
    \A i \in Index : (\E k \in DOMAIN reported : reported[k] = i)
                       <=> (i < index /\ fat_table[i] # fat_table_bak[i])

\* dump_fat has written the table up to index.
WrittenSoFar ==
  walk = "dump_fat" =>
    /\ offset <= index /\ offset <= Len(file)
    /\ ~failed =>
         /\ offset = index
         /\ Len(file) = IF Len(old) > index THEN Len(old) ELSE index
         /\ \A k \in 1..index : file[k] = fat_table[k - 1]
         /\ \A k \in (index + 1)..Len(file) : file[k] = old[k]

\* What is in the buffer of stdin is the line typed last.
OneLine == plain => pending = << >> \/ (pending = typed /\ Len(pending) = 2)

\* test_cluster has read the first sectors of the cluster, and goes on as long
\* as they are good.
ReadSoFar ==
  /\ \A k \in DOMAIN reads : reads[k].sector = SectorOf(tested, k - 1)
  /\ \A k \in 1..(Len(reads) - 1) : fs_test(reads[k].status)
  /\ walk = "test" /\ verdict = "none" =>
       Len(reads) < Sectors /\ \A k \in DOMAIN reads : fs_test(reads[k].status)
  /\ verdict = "Good" =>
       Len(reads) = Sectors /\ \A k \in DOMAIN reads : fs_test(reads[k].status)
  /\ verdict = "Bad" => reads # << >> /\ ~fs_test(reads[Len(reads)].status)

IInv == /\ TablesTypeOK /\ StartsClean /\ TablesDiffer /\ ReportedSoFar
        /\ WrittenSoFar /\ OneLine /\ ReadSoFar

\* get_cluster reads the cell it is asked for: no index is narrowed.
LEMMA GetCluster ==
  ASSUME NEW t, NEW i \in Index
  PROVE  get_cluster(t, i) = t[i]
BY TablesAssumption DEF get_cluster, Cell16, Index, Width16

\* The sector of a cluster fits in 32 bits.
LEMMA SectorFits ==
  ASSUME NEW c \in Index, NEW i \in Nat
  PROVE  SectorOf(c, i) \in 0..(Wrap - 1)
<1>1. DataSector + Sectors * (c - 2) + i \in Int
  BY TablesAssumption DEF Index
<1> QED
  BY <1>1, TablesAssumption DEF SectorOf

LEMMA InitHolds == TablesInit => IInv
<1> SUFFICES ASSUME TablesInit PROVE IInv
  OBVIOUS
<1>0. /\ tables \in Tables /\ fat_table = tables[1] /\ fat_table_bak = tables[2]
      /\ tables \in [1..2 -> [Index -> Nat]]
  BY TablesAssumption DEF TablesInit, Index
<1>1. TablesTypeOK
  <2>1. /\ << >> \in Seq(Index) /\ << >> \in Seq(STRING) /\ << >> \in Seq(Nat)
        /\ << >> \in Seq([sector : 0..(Wrap - 1), status : Statuses])
        /\ Len(<< >>) = 0
    BY EmptySeq
  <2>2. 0 \in Index /\ 0 \in 0..TableSize /\ file \in Seq(Nat) /\ Sectors >= 0
    BY TablesAssumption DEF TablesInit, Index
  <2>3. /\ fat_table \in [Index -> Nat] /\ fat_table_bak \in [Index -> Nat]
        /\ tables \in Tables
    BY <1>0
  <2> HIDE <1>0
  <2> QED
    BY <2>1, <2>2, <2>3 DEF TablesInit, TablesTypeOK
<1>2. TablesDiffer
  BY <1>0 DEF TablesInit, TablesDiffer
<1>3. StartsClean /\ ReportedSoFar /\ WrittenSoFar /\ OneLine /\ ReadSoFar
  BY DEF TablesInit, StartsClean, ReportedSoFar, WrittenSoFar, OneLine, ReadSoFar
<1> QED
  BY <1>1, <1>2, <1>3 DEF IInv

\* change_cluster makes the two tables agree in the cell and leaves the others.
LEMMA ChangeHolds ==
  ASSUME IInv, NEW i \in Changed, NEW v \in {0, EndMark}, Change(i, v)
  PROVE  IInv'
<1>0. i \in Index /\ Narrow(v) \in Nat
  BY TablesAssumption DEF Index, Narrow, EndMark, Width16
<1>1. TablesTypeOK'
  BY <1>0 DEF IInv, TablesTypeOK, Change, change_cluster, fatVars, dumpVars, testVars
<1>2. TablesDiffer'
  BY <1>0 DEF IInv, TablesTypeOK, TablesDiffer, Change, change_cluster
<1>3. (StartsClean /\ ReportedSoFar /\ WrittenSoFar /\ OneLine /\ ReadSoFar)'
  BY DEF IInv, StartsClean, ReportedSoFar, WrittenSoFar, OneLine, ReadSoFar,
         Change, fatVars, dumpVars, testVars, SectorOf
<1> QED
  BY <1>1, <1>2, <1>3 DEF IInv

\* A command begins with nothing done.
LEMMA BeginHolds ==
  ASSUME IInv, test_fat \/ fat \/ dump_fat \/ \E c \in Index : test(c)
  PROVE  IInv'
<1>1. TablesTypeOK'
  BY DEF IInv, TablesTypeOK, test_fat, fat, dump_fat, test, Begin, tableVars,
         fatVars, dumpVars, testVars
<1>2. TablesDiffer' /\ OneLine'
  BY DEF IInv, TablesDiffer, OneLine, test_fat, fat, dump_fat, test, tableVars, fatVars
<1>3. StartsClean'
  BY DEF IInv, StartsClean, test_fat, fat, dump_fat, test, Begin, dumpVars, testVars
<1>4. ReportedSoFar'
  BY DEF IInv, ReportedSoFar, StartsClean, test_fat, fat, dump_fat, test, Begin,
         tableVars, Index
<1>5. WrittenSoFar'
  BY DEF IInv, TablesTypeOK, WrittenSoFar, StartsClean, test_fat, fat, dump_fat,
         test, Begin, tableVars
<1>6. ReadSoFar'
  <2>1. reads' = << >> /\ verdict' = "none"
    BY DEF IInv, StartsClean, test_fat, fat, dump_fat, test, Begin, testVars
  <2> QED
    BY <2>1, TablesAssumption DEF ReadSoFar
<1> QED
  BY <1>1, <1>2, <1>3, <1>4, <1>5, <1>6 DEF IInv

\* test_fat compares one cell more.
LEMMA CompareHolds == ASSUME IInv, Compare PROVE IInv'
<1>a. /\ walk = "test_fat" /\ index \in Index /\ index' = index + 1
     /\ reported \in Seq(Index)
  BY TablesAssumption DEF IInv, TablesTypeOK, Compare, Walks, Index
<1>0. /\ walk = "test_fat" /\ index \in Index /\ index' = index + 1
      /\ reported \in Seq(Index)
      /\ reported' = IF fat_table[index] # fat_table_bak[index]
                     THEN Append(reported, index) ELSE reported
  BY <1>a, GetCluster DEF Compare
<1>1. TablesTypeOK'
  <2>1. index' \in 0..TableSize
    BY <1>0, TablesAssumption DEF Index
  <2>2. reported' \in Seq(Index)
    BY <1>0, AppendProperties
  <2> QED
    BY <2>1, <2>2 DEF IInv, TablesTypeOK, Compare, tableVars, fatVars, dumpVars, testVars
<1>2. ReportedSoFar'
  <2> SUFFICES ASSUME NEW i \in Index
               PROVE  (\E k \in DOMAIN reported' : reported'[k] = i)
                        <=> (i < index + 1 /\ fat_table[i] # fat_table_bak[i])
    BY <1>0 DEF ReportedSoFar, Compare, tableVars
  <2>1. (\E k \in DOMAIN reported : reported[k] = i)
          <=> (i < index /\ fat_table[i] # fat_table_bak[i])
    BY <1>0 DEF IInv, ReportedSoFar
  <2>2. CASE fat_table[index] = fat_table_bak[index]
    BY <1>0, <2>1, <2>2 DEF Index
  <2>3. CASE fat_table[index] # fat_table_bak[index]
    <3>1. /\ DOMAIN reported = 1..Len(reported)
          /\ DOMAIN reported' = 1..(Len(reported) + 1)
          /\ Len(reported) \in Nat
          /\ \A k \in 1..Len(reported) : reported'[k] = reported[k]
          /\ reported'[Len(reported) + 1] = index
      BY <1>0, <2>3, AppendProperties
    <3>2. (\E k \in DOMAIN reported' : reported'[k] = i)
            <=> ((\E k \in DOMAIN reported : reported[k] = i) \/ i = index)
      BY <3>1
    <3> QED
      BY <1>0, <2>1, <2>3, <3>2 DEF Index
  <2> QED
    BY <2>2, <2>3
<1>3. (StartsClean /\ TablesDiffer /\ WrittenSoFar /\ OneLine /\ ReadSoFar)'
  BY <1>0 DEF IInv, StartsClean, TablesDiffer, WrittenSoFar, OneLine, ReadSoFar,
              Compare, tableVars, fatVars, dumpVars, testVars, SectorOf
<1> QED
  BY <1>1, <1>2, <1>3 DEF IInv

\* Two characters are taken.
LEMMA TailTail ==
  ASSUME NEW S, NEW s \in Seq(S), Len(s) >= 2
  PROVE  /\ Tail(Tail(s)) \in Seq(S)
         /\ Len(Tail(Tail(s))) = Len(s) - 2
<1>1. s # << >> /\ Len(s) \in Nat
  OBVIOUS
<1>2. PICK t \in Seq(S) : t = Tail(s) /\ Len(t) = Len(s) - 1
  BY <1>1, HeadTailProperties, Zenon
<1>3. t # << >>
  <2>1. Len(t) # 0
    BY <1>1, <1>2
  <2> QED
    BY <2>1, EmptySeq
<1>4. Tail(t) \in Seq(S) /\ Len(Tail(t)) = Len(t) - 1
  BY <1>2, <1>3, HeadTailProperties, Zenon
<1> QED
  BY <1>1, <1>2, <1>4

\* A line is typed where there is none; an answer takes it whole.
LEMMA FatHolds ==
  ASSUME IInv, (\E line \in Lines : Type(line)) \/ Answer \/ PrintCell
  PROVE  IInv'
<1>0. walk = "fat" /\ index \in Index
  <2>1. walk = "fat" /\ index < TableSize
    BY DEF Type, Answer, PrintCell, Asks, Walks
  <2>2. index \in 0..TableSize
    BY DEF IInv, TablesTypeOK
  <2> QED
    BY <2>1, <2>2, TablesAssumption DEF Index
<1>1. TablesTypeOK'
  <2>1. pending' \in Seq(STRING) /\ typed' \in Seq(STRING) /\ plain' \in BOOLEAN
    <3>1. ASSUME NEW line \in Lines, Type(line)
          PROVE  pending' \in Seq(STRING) /\ typed' \in Seq(STRING) /\ plain' \in BOOLEAN
      <4>1. line \in Seq(STRING) /\ pending \in Seq(STRING) /\ plain \in BOOLEAN
        BY TablesAssumption DEF IInv, TablesTypeOK
      <4>2. pending \o line \in Seq(STRING)
        BY <4>1, ConcatProperties
      <4> QED
        BY <3>1, <4>1, <4>2 DEF Type
    <3>2. ASSUME Answer
          PROVE  pending' \in Seq(STRING) /\ typed' \in Seq(STRING) /\ plain' \in BOOLEAN
      <4>1. pending \in Seq(STRING) /\ Len(pending) >= 2 /\ plain \in BOOLEAN
        BY <3>2 DEF IInv, TablesTypeOK, Answer
      <4>2. Tail(Tail(pending)) \in Seq(STRING) /\ << >> \in Seq(STRING)
        BY <4>1, TailTail
      <4> QED
        BY <3>2, <4>1, <4>2 DEF Answer
    <3>3. CASE PrintCell
      BY <3>3 DEF IInv, TablesTypeOK, PrintCell, fatVars
    <3> QED
      BY <3>1, <3>2, <3>3
  <2>2. index' \in 0..TableSize /\ walk' \in {"fat", "none"}
    BY <1>0, TablesAssumption
    DEF Type, Answer, PrintCell, GoOnIf, Index
  <2> QED
    BY <2>1, <2>2 DEF IInv, TablesTypeOK, Type, Answer, PrintCell, tableVars,
                      dumpVars, testVars
<1>2. OneLine'
  <2>1. ASSUME NEW line \in Lines, Type(line), plain'
        PROVE  pending' = typed' /\ Len(pending') = 2
    <3>0. plain /\ Len(line) = 2 /\ Len(pending) < 2
      BY <2>1 DEF IInv, TablesTypeOK, Type
    <3>1. line \in Seq(STRING)
      BY TablesAssumption, Zenon
    <3>2. pending = << >>
      <4>1. OneLine
        BY DEF IInv
      <4> QED
        BY <3>0, <4>1 DEF OneLine
    <3>3. << >> \o line = line
      BY <3>1, ConcatEmptySeq
    <3> QED
      BY <2>1, <3>0, <3>2, <3>3 DEF Type
  <2>2. ASSUME Answer, plain'
        PROVE  pending' = << >>
    <3>1. pending \in Seq(STRING) /\ Len(pending) = 2
      BY <2>2 DEF IInv, TablesTypeOK, OneLine, Answer
    <3>2. PICK t \in Seq(STRING) : t = Tail(Tail(pending)) /\ Len(t) = Len(pending) - 2
      BY <2>2, <3>1, TailTail, Zenon DEF Answer
    <3>3. t = << >>
      <4>1. Len(t) = 0
        BY <3>1, <3>2
      <4> QED
        BY <3>2, <4>1, EmptySeq
    <3> QED
      BY <2>2, <3>2, <3>3 DEF Answer
  <2>3. CASE PrintCell
    BY <2>3 DEF IInv, OneLine, PrintCell, fatVars
  <2> QED
    BY <2>1, <2>2, <2>3 DEF OneLine
<1>3. walk' \in {"fat", "none"} /\ (walk' = "none" => index' = 0)
  BY <1>0 DEF Type, Answer, PrintCell, GoOnIf
<1>4. (StartsClean /\ TablesDiffer /\ ReportedSoFar /\ WrittenSoFar)'
  BY <1>0, <1>3 DEF IInv, StartsClean, TablesDiffer, ReportedSoFar, WrittenSoFar,
                    Type, Answer, PrintCell, tableVars, dumpVars, testVars
<1>5. ReadSoFar'
  BY <1>0, <1>3 DEF IInv, ReadSoFar, SectorOf, Type, Answer, PrintCell, testVars
<1> QED
  BY <1>1, <1>2, <1>4, <1>5 DEF IInv

\* A value between two sequences, the first of length n.
Joined(g, a, n, v, c) ==
  /\ g \in Seq(Nat)
  /\ Len(g) = n + 1 + Len(c)
  /\ \A k \in 1..n : g[k] = a[k]
  /\ g[n + 1] = v
  /\ \A k \in 1..Len(c) : g[n + 1 + k] = c[k]

LEMMA Between ==
  ASSUME NEW a \in Seq(Nat), NEW c \in Seq(Nat), NEW v \in Nat, NEW n, n = Len(a),
         NEW g, g = a \o <<v>> \o c
  PROVE  Joined(g, a, n, v, c)
<1>1. PICK b : b = a \o <<v>>
  OBVIOUS
<1>2. <<v>> \in Seq(Nat) /\ Len(<<v>>) = 1 /\ <<v>>[1] = v /\ Len(a) \in Nat /\ Len(c) \in Nat
  OBVIOUS
<1>3. /\ b \in Seq(Nat) /\ Len(b) = Len(a) + 1
      /\ \A k \in 1..(Len(a) + 1) : b[k] = IF k <= Len(a) THEN a[k] ELSE <<v>>[k - Len(a)]
  BY <1>1, <1>2, ConcatProperties
<1>4. (\A k \in 1..Len(a) : b[k] = a[k]) /\ b[Len(a) + 1] = v
  <2>1. PICK la \in Nat : la = Len(a)
    BY <1>2
  <2>2. \A k \in 1..(la + 1) : b[k] = IF k <= la THEN a[k] ELSE <<v>>[k - la]
    BY <1>3, <2>1
  <2>3. \A k \in 1..la : b[k] = a[k]
    <3> SUFFICES ASSUME NEW k \in 1..la PROVE b[k] = a[k]
      OBVIOUS
    <3>1. k \in 1..(la + 1) /\ k <= la
      BY <2>1
    <3> QED
      BY <2>2, <3>1
  <2>4. b[la + 1] = v
    <3>1. la + 1 \in 1..(la + 1) /\ ~(la + 1 <= la) /\ la + 1 - la = 1
      BY <2>1
    <3>2. b[la + 1] = <<v>>[la + 1 - la]
      BY <2>2, <3>1
    <3> QED
      BY <1>2, <3>1, <3>2
  <2> QED
    BY <2>1, <2>3, <2>4
<1>5. /\ b \o c \in Seq(Nat) /\ Len(b \o c) = Len(b) + Len(c)
      /\ \A k \in 1..(Len(b) + Len(c)) : (b \o c)[k] = IF k <= Len(b) THEN b[k] ELSE c[k - Len(b)]
  <2>1. b \in Seq(Nat)
    BY <1>3
  <2> QED
    BY <2>1, ConcatProperties
<1>6. /\ \A k \in 1..Len(a) : (b \o c)[k] = a[k]
      /\ (b \o c)[Len(a) + 1] = v
      /\ \A k \in 1..Len(c) : (b \o c)[Len(a) + 1 + k] = c[k]
  <2> DEFINE d == b \o c
  <2>1. PICK la \in Nat, lc \in Nat : la = Len(a) /\ lc = Len(c)
    BY <1>2
  <2>2. Len(b) = la + 1
    BY <1>3, <2>1
  <2>3. \A k \in 1..(la + 1 + lc) : d[k] = IF k <= la + 1 THEN b[k] ELSE c[k - (la + 1)]
    BY <1>5, <2>1, <2>2
  <2> HIDE DEF d
  <2>4. \A k \in 1..la : d[k] = a[k]
    <3> SUFFICES ASSUME NEW k \in 1..la PROVE d[k] = a[k]
      OBVIOUS
    <3>1. k \in 1..(la + 1 + lc) /\ k <= la + 1
      BY <2>1
    <3> QED
      BY <1>4, <2>1, <2>3, <3>1
  <2>5. d[la + 1] = v
    <3>1. la + 1 \in 1..(la + 1 + lc) /\ la + 1 <= la + 1
      BY <2>1
    <3> QED
      BY <1>4, <2>1, <2>3, <3>1
  <2>6. \A k \in 1..lc : d[la + 1 + k] = c[k]
    <3> SUFFICES ASSUME NEW k \in 1..lc PROVE d[la + 1 + k] = c[k]
      OBVIOUS
    <3>1. /\ la + 1 + k \in 1..(la + 1 + lc) /\ ~(la + 1 + k <= la + 1)
          /\ la + 1 + k - (la + 1) = k
      BY <2>1
    <3> QED
      BY <2>3, <3>1
  <2> QED
    BY <2>1, <2>4, <2>5, <2>6 DEF d
<1>7. g = b \o c
  BY <1>1
<1>8. g \in Seq(Nat)
  BY <1>5, <1>7
<1>9. Len(g) = n + 1 + Len(c)
  BY <1>2, <1>3, <1>5, <1>7
<1> QED
  BY <1>6, <1>7, <1>8, <1>9 DEF Joined

\* What dump_fat makes of the file when the write goes well: the cell at its
\* place, the rest as it was.
Written(f, n, v) == SubSeq(f, 1, n) \o <<v>> \o SubSeq(f, n + 2, Len(f))

CellIn(g, f, n, v) ==
  /\ g \in Seq(Nat)
  /\ Len(g) = IF Len(f) > n + 1 THEN Len(f) ELSE n + 1
  /\ \A k \in 1..n : g[k] = f[k]
  /\ g[n + 1] = v
  /\ \A k \in (n + 2)..Len(f) : g[k] = f[k]

LEMMA WriteAt ==
  ASSUME NEW f \in Seq(Nat), NEW n \in 0..Len(f), NEW v \in Nat,
         NEW g, g = Written(f, n, v)
  PROVE  CellIn(g, f, n, v)
<1>1. Len(f) \in Nat /\ n \in Nat /\ \A k \in 1..Len(f) : f[k] \in Nat
  BY LenProperties
<1>2. PICK a : a = SubSeq(f, 1, n)
  OBVIOUS
<1>3. PICK c : c = SubSeq(f, n + 2, Len(f))
  OBVIOUS
<1>4. a \in Seq(Nat) /\ Len(a) = n /\ \A k \in 1..n : a[k] = f[k]
  <2>1. \A k \in 1..n : f[k] \in Nat
    BY <1>1
  <2>2. /\ a \in Seq(Nat) /\ Len(a) = IF 1 <= n THEN n - 1 + 1 ELSE 0
        /\ \A k \in 1..(n - 1 + 1) : a[k] = f[1 + k - 1]
    BY <1>1, <1>2, <2>1, SubSeqProperties
  <2> QED
    BY <1>1, <2>2
<1>5. /\ c \in Seq(Nat) /\ Len(c) = IF Len(f) > n + 1 THEN Len(f) - n - 1 ELSE 0
      /\ \A k \in 1..Len(c) : c[k] = f[n + 1 + k]
  <2>1. \A k \in (n + 2)..Len(f) : f[k] \in Nat
    BY <1>1
  <2>2. /\ c \in Seq(Nat)
        /\ Len(c) = IF n + 2 <= Len(f) THEN Len(f) - (n + 2) + 1 ELSE 0
        /\ \A k \in 1..(Len(f) - (n + 2) + 1) : c[k] = f[n + 2 + k - 1]
    BY <1>1, <1>3, <2>1, SubSeqProperties
  <2>3. Len(c) = IF Len(f) > n + 1 THEN Len(f) - n - 1 ELSE 0
    BY <1>1, <2>2
  <2>4. ASSUME NEW k \in 1..Len(c)
        PROVE  c[k] = f[n + 1 + k]
    <3>1. k \in 1..(Len(f) - (n + 2) + 1) /\ n + 2 + k - 1 = n + 1 + k
      BY <1>1, <2>3
    <3> QED
      BY <2>2, <3>1
  <2> QED
    BY <2>2, <2>3, <2>4
<1>6. g = a \o <<v>> \o c
  BY <1>2, <1>3 DEF Written
<1>7. /\ g \in Seq(Nat) /\ Len(g) = n + 1 + Len(c)
      /\ \A k \in 1..n : g[k] = a[k]
      /\ g[n + 1] = v
      /\ \A k \in 1..Len(c) : g[n + 1 + k] = c[k]
  <2>1. a \in Seq(Nat) /\ c \in Seq(Nat) /\ n = Len(a)
    BY <1>4, <1>5
  <2>2. Joined(g, a, n, v, c)
    BY <1>6, <2>1, Between, Zenon
  <2> QED
    BY <2>2 DEF Joined
<1>8. \A k \in (n + 2)..Len(f) : g[k] = f[k]
  <2> SUFFICES ASSUME NEW k \in (n + 2)..Len(f) PROVE g[k] = f[k]
    OBVIOUS
  <2>1. k - n - 1 \in 1..Len(c) /\ n + 1 + (k - n - 1) = k
    BY <1>1, <1>5
  <2> QED
    BY <1>5, <1>7, <2>1
<1>9. Len(g) = IF Len(f) > n + 1 THEN Len(f) ELSE n + 1
  <2>1. Len(g) = n + 1 + Len(c)
    BY <1>7
  <2>2. Len(c) = IF Len(f) > n + 1 THEN Len(f) - n - 1 ELSE 0
    BY <1>5
  <2>3. Len(f) \in Nat /\ n \in Nat /\ Len(c) \in Nat /\ Len(g) \in Nat
    BY <1>1, <1>5, <1>7, LenProperties
  <2>4. PICK lf \in Nat, lc \in Nat, lg \in Nat : lf = Len(f) /\ lc = Len(c) /\ lg = Len(g)
    BY <2>3, Zenon
  <2>5. lg = n + 1 + lc /\ lc = IF lf > n + 1 THEN lf - n - 1 ELSE 0
    BY <2>1, <2>2, <2>4
  <2>6. lg = IF lf > n + 1 THEN lf ELSE n + 1
    BY <2>3, <2>5
  <2> QED
    BY <2>4, <2>6
<1>10. \A k \in 1..n : g[k] = f[k]
  BY <1>4, <1>7
<1>11. g \in Seq(Nat) /\ g[n + 1] = v
  BY <1>7
<1> QED
  BY <1>8, <1>9, <1>10, <1>11, Zenon DEF CellIn

\* dump_fat writes one cell more, or none if the write fails.
LEMMA WriteHolds == ASSUME IInv, WriteCell PROVE IInv'
<1>0. /\ walk = "dump_fat" /\ walk' = walk /\ index \in Index /\ index' = index + 1
      /\ file \in Seq(Nat) /\ offset \in 0..Len(file) /\ offset <= index
      /\ fat_table[index] \in Nat
      /\ get_cluster(fat_table, index) = fat_table[index]
  <2>1. /\ walk = "dump_fat" /\ walk' = walk /\ index \in Index /\ index' = index + 1
        /\ file \in Seq(Nat) /\ offset \in Nat
        /\ fat_table \in [Index -> Nat]
    <3>1. walk = "dump_fat" /\ walk' = walk /\ index < TableSize /\ index' = index + 1
      BY DEF WriteCell, Walks
    <3>2. /\ index \in 0..TableSize /\ file \in Seq(Nat) /\ offset \in 0..TableSize
          /\ fat_table \in [Index -> Nat]
      BY DEF IInv, TablesTypeOK
    <3>3. index \in Index /\ offset \in Nat
      BY <3>1, <3>2, TablesAssumption DEF Index
    <3> QED
      BY <3>1, <3>2, <3>3
  <2>2. offset <= index /\ offset <= Len(file)
    BY <2>1 DEF IInv, WrittenSoFar
  <2>3. offset \in 0..Len(file)
    <3>1. Len(file) \in Nat
      BY <2>1, LenProperties
    <3> QED
      BY <2>1, <2>2, <3>1
  <2>4. fat_table[index] \in Nat
    BY <2>1
  <2>5. get_cluster(fat_table, index) = fat_table[index]
    BY <2>1, GetCluster
  <2> QED
    BY <2>1, <2>2, <2>3, <2>4, <2>5
<1>1. TablesTypeOK' /\ WrittenSoFar'
  <2>0. index' \in 0..TableSize /\ index \in Nat
    BY <1>0, TablesAssumption DEF Index
  <2>1. CASE /\ file' = Written(file, offset, fat_table[index])
             /\ offset' = offset + 1
             /\ failed' = failed
    <3>1. /\ file' \in Seq(Nat)
          /\ Len(file') = IF Len(file) > offset + 1 THEN Len(file) ELSE offset + 1
          /\ \A k \in 1..offset : file'[k] = file[k]
          /\ file'[offset + 1] = fat_table[index]
          /\ \A k \in (offset + 2)..Len(file) : file'[k] = file[k]
      <4>1. file \in Seq(Nat) /\ offset \in 0..Len(file) /\ fat_table[index] \in Nat
        BY <1>0
      <4>2. file' = Written(file, offset, fat_table[index])
        BY <2>1
      <4>3. CellIn(file', file, offset, fat_table[index])
        BY <4>1, <4>2, WriteAt, Zenon
      <4> QED
        BY <4>3 DEF CellIn
    <3>2. offset' \in 0..TableSize
      BY <1>0, <2>1, TablesAssumption DEF Index
    <3>3. TablesTypeOK'
      BY <2>0, <2>1, <3>1, <3>2, <1>0 DEF IInv, TablesTypeOK, WriteCell, tableVars,
                                          fatVars, testVars
    <3>4. offset' <= index' /\ offset' <= Len(file')
      BY <1>0, <2>0, <2>1, <3>1
    <3>5. ASSUME ~failed
          PROVE  /\ offset' = index'
                 /\ Len(file') = IF Len(old) > index' THEN Len(old) ELSE index'
                 /\ \A k \in 1..index' : file'[k] = fat_table[k - 1]
                 /\ \A k \in (index' + 1)..Len(file') : file'[k] = old[k]
      <4>1. /\ offset = index
            /\ Len(file) = IF Len(old) > index THEN Len(old) ELSE index
            /\ \A k \in 1..index : file[k] = fat_table[k - 1]
            /\ \A k \in (index + 1)..Len(file) : file[k] = old[k]
            /\ Len(old) \in Nat
        BY <1>0, <3>5 DEF IInv, TablesTypeOK, WrittenSoFar
      <4>2. Len(file') = IF Len(old) > index' THEN Len(old) ELSE index'
        BY <1>0, <2>0, <3>1, <4>1
      <4>3. ASSUME NEW k \in 1..index'
            PROVE  file'[k] = fat_table[k - 1]
        <5>1. CASE k = index + 1
          BY <1>0, <3>1, <4>1, <5>1
        <5>2. CASE k # index + 1
          <6>1. k \in 1..index
            BY <1>0, <2>0, <5>2
          <6> QED
            BY <3>1, <4>1, <6>1
        <5> QED
          BY <5>1, <5>2
      <4>4. ASSUME NEW k \in (index' + 1)..Len(file')
            PROVE  file'[k] = old[k]
        <5>1. Len(file) \in Nat /\ k \in Nat /\ k >= index + 2 /\ k <= Len(file)
          BY <1>0, <2>0, <3>1, <4>1
        <5>2. k \in (offset + 2)..Len(file) /\ k \in (index + 1)..Len(file)
          BY <2>0, <4>1, <5>1
        <5> QED
          BY <3>1, <4>1, <5>2
      <4> QED
        BY <1>0, <2>1, <4>1, <4>2, <4>3, <4>4
    <3>6. WrittenSoFar'
      <4>1. fat_table' = fat_table /\ old' = old
        BY DEF WriteCell, tableVars
      <4> QED
        BY <2>1, <3>4, <3>5, <4>1 DEF WrittenSoFar
    <3> QED
      BY <3>3, <3>6
  <2>2. CASE failed' = TRUE /\ UNCHANGED <<file, offset>>
    <3>1. TablesTypeOK'
      BY <1>0, <2>0, <2>2 DEF IInv, TablesTypeOK, WriteCell, tableVars, fatVars, testVars
    <3>2. WrittenSoFar'
      BY <1>0, <2>0, <2>2 DEF WrittenSoFar
    <3> QED
      BY <3>1, <3>2
  <2> QED
    BY <1>0, <2>1, <2>2 DEF WriteCell, Written
<1>2. (StartsClean /\ TablesDiffer /\ ReportedSoFar /\ OneLine)'
  BY <1>0 DEF IInv, StartsClean, TablesDiffer, ReportedSoFar, OneLine, WriteCell,
              tableVars, fatVars, testVars
<1>3. ReadSoFar'
  BY <1>0 DEF IInv, ReadSoFar, SectorOf, WriteCell, testVars
<1> QED
  BY <1>1, <1>2, <1>3 DEF IInv

\* test_cluster reads one sector more and stops at the first it cannot read.
LEMMA TestHolds ==
  ASSUME IInv, NEW status \in Statuses, test_cluster(status)
  PROVE  IInv'
<1> DEFINE read == [sector |-> SectorOf(tested, Len(reads)), status |-> status]
<1>0. /\ walk = "test" /\ walk' = "test" /\ verdict = "none" /\ tested' = tested
      /\ tested \in Index
      /\ reads \in Seq([sector : 0..(Wrap - 1), status : Statuses])
      /\ reads' = Append(reads, read)
      /\ verdict' = IF ~fs_test(status) THEN "Bad"
                    ELSE IF Len(reads') = Sectors THEN "Good" ELSE "none"
  BY DEF IInv, TablesTypeOK, test_cluster, ReadSector
<1>1. /\ Len(reads) \in Nat /\ Len(reads) < Sectors
      /\ \A k \in 1..Len(reads) : /\ reads[k].sector = SectorOf(tested, k - 1)
                                  /\ fs_test(reads[k].status)
  <2>1. DOMAIN reads = 1..Len(reads) /\ Len(reads) \in Nat
    BY <1>0, LenProperties
  <2> QED
    BY <1>0, <2>1 DEF IInv, ReadSoFar
<1>2. read \in [sector : 0..(Wrap - 1), status : Statuses]
  BY <1>0, <1>1, SectorFits
<1>3. read.sector = SectorOf(tested, Len(reads)) /\ read.status = status
  OBVIOUS
<1> HIDE DEF read
<1>4. /\ reads' \in Seq([sector : 0..(Wrap - 1), status : Statuses])
      /\ Len(reads') = Len(reads) + 1
      /\ DOMAIN reads' = 1..(Len(reads) + 1)
      /\ \A k \in 1..Len(reads) : reads'[k] = reads[k]
      /\ reads'[Len(reads) + 1] = read
  BY <1>0, <1>2, AppendProperties, LenProperties
<1>5. TablesTypeOK'
  <2>1. Len(reads') <= Sectors /\ verdict' \in {"none", "Good", "Bad"}
    BY <1>0, <1>1, <1>4, TablesAssumption
  <2> QED
    BY <1>0, <1>4, <2>1 DEF IInv, TablesTypeOK, test_cluster, ReadSector, tableVars,
                            fatVars, dumpVars
<1>6. ReadSoFar'
  <2>1. \A k \in DOMAIN reads' : reads'[k].sector = SectorOf(tested, k - 1)
    <3> SUFFICES ASSUME NEW k \in 1..(Len(reads) + 1)
                 PROVE  reads'[k].sector = SectorOf(tested, k - 1)
      BY <1>4
    <3>1. CASE k \in 1..Len(reads)
      BY <1>1, <1>4, <3>1
    <3>2. CASE k = Len(reads) + 1
      <4>1. k - 1 = Len(reads)
        BY <1>1, <3>2
      <4> QED
        BY <1>3, <1>4, <3>2, <4>1
    <3> QED
      BY <1>1, <3>1, <3>2
  <2>2. \A k \in 1..(Len(reads') - 1) : fs_test(reads'[k].status)
    <3>1. Len(reads') - 1 = Len(reads)
      BY <1>1, <1>4
    <3> QED
      BY <1>1, <1>4, <3>1
  <2>3. fs_test(status) => \A k \in DOMAIN reads' : fs_test(reads'[k].status)
    <3> SUFFICES ASSUME fs_test(status), NEW k \in 1..(Len(reads) + 1)
                 PROVE  fs_test(reads'[k].status)
      BY <1>4
    <3>1. CASE k \in 1..Len(reads)
      BY <1>1, <1>4, <3>1
    <3>2. CASE k = Len(reads) + 1
      BY <1>3, <1>4, <3>2
    <3> QED
      BY <1>1, <3>1, <3>2
  <2>4. verdict' = "none" => Len(reads') < Sectors /\ fs_test(status)
    BY <1>0, <1>1, <1>4, TablesAssumption
  <2>5. verdict' = "Good" => Len(reads') = Sectors /\ fs_test(status)
    BY <1>0
  <2>6. verdict' = "Bad" => reads' # << >> /\ ~fs_test(reads'[Len(reads')].status)
    <3>1. reads' # << >>
      BY <1>1, <1>4, EmptySeq
    <3>2. reads'[Len(reads')].status = status
      BY <1>3, <1>4
    <3> QED
      BY <1>0, <3>1, <3>2
  <2>7. \A k \in DOMAIN reads' : reads'[k].sector = SectorOf(tested', k - 1)
    BY <1>0, <2>1
  <2> QED
    BY <2>2, <2>3, <2>4, <2>5, <2>6, <2>7 DEF ReadSoFar, SectorOf
<1>7. (StartsClean /\ TablesDiffer /\ ReportedSoFar /\ WrittenSoFar /\ OneLine)'
  BY <1>0 DEF IInv, StartsClean, TablesDiffer, ReportedSoFar, WrittenSoFar, OneLine,
              test_cluster, ReadSector, tableVars, fatVars, dumpVars
<1> QED
  BY <1>5, <1>6, <1>7 DEF IInv

\* A command that ends leaves nothing.
LEMMA EndHolds ==
  ASSUME IInv, EndWalk \/ EndTest
  PROVE  IInv'
<1>0. /\ << >> \in Seq(Index) /\ << >> \in Seq(Nat)
      /\ << >> \in Seq([sector : 0..(Wrap - 1), status : Statuses])
      /\ Len(<< >>) = 0 /\ DOMAIN << >> = {}
      /\ 0 \in Index /\ 0 \in 0..TableSize /\ Sectors >= 0
  BY EmptySeq, TablesAssumption DEF Index
<1>1. TablesTypeOK'
  BY <1>0 DEF IInv, TablesTypeOK, EndWalk, EndTest, tableVars, fatVars, dumpVars, testVars
<1>2. walk' = "none" /\ reported' = << >> /\ index' = 0 /\ offset' = 0 /\ ~failed'
      /\ reads' = << >> /\ verdict' = "none"
  BY DEF IInv, StartsClean, EndWalk, EndTest, Through, dumpVars, testVars
<1>3. StartsClean' /\ ReportedSoFar' /\ WrittenSoFar'
  BY <1>2 DEF StartsClean, ReportedSoFar, WrittenSoFar
<1>4. TablesDiffer' /\ OneLine'
  BY DEF IInv, TablesDiffer, OneLine, EndWalk, EndTest, tableVars, fatVars
<1>5. ReadSoFar'
  BY <1>0, <1>2 DEF ReadSoFar
<1> QED
  BY <1>1, <1>3, <1>4, <1>5 DEF IInv

LEMMA StutterHolds == ASSUME IInv, UNCHANGED tablesVars PROVE IInv'
<1>1. TablesTypeOK'
  BY DEF IInv, TablesTypeOK, tablesVars, tableVars, fatVars, dumpVars, testVars
<1>2. (StartsClean /\ TablesDiffer /\ ReportedSoFar)'
  BY DEF IInv, StartsClean, TablesDiffer, ReportedSoFar, tablesVars, tableVars, fatVars,
         dumpVars, testVars
<1>3. (WrittenSoFar /\ OneLine)'
  BY DEF IInv, WrittenSoFar, OneLine, tablesVars, tableVars, fatVars, dumpVars
<1>4. ReadSoFar'
  BY DEF IInv, ReadSoFar, SectorOf, tablesVars, testVars
<1> QED
  BY <1>1, <1>2, <1>3, <1>4 DEF IInv

LEMMA StepHolds == IInv /\ [TablesNext]_tablesVars => IInv'
<1> SUFFICES ASSUME IInv, [TablesNext]_tablesVars PROVE IInv'
  OBVIOUS
<1>1. ASSUME NEW i \in Changed, Change(i, 0) \/ Change(i, EndMark) PROVE IInv'
  BY <1>1, ChangeHolds
<1>2. CASE test_fat \/ fat \/ dump_fat \/ \E cluster \in Index : test(cluster)
  BY <1>2, BeginHolds
<1>3. CASE Compare
  BY <1>3, CompareHolds
<1>4. CASE (\E line \in Lines : Type(line)) \/ Answer \/ PrintCell
  BY <1>4, FatHolds
<1>5. CASE WriteCell
  BY <1>5, WriteHolds
<1>6. ASSUME NEW status \in Statuses, test_cluster(status) PROVE IInv'
  BY <1>6, TestHolds
<1>7. CASE EndWalk \/ EndTest
  BY <1>7, EndHolds
<1>8. CASE UNCHANGED tablesVars
  BY <1>8, StutterHolds
<1> QED
  BY <1>1, <1>2, <1>3, <1>4, <1>5, <1>6, <1>7, <1>8 DEF TablesNext

\* IInv holds of every reachable state.
THEOREM Reachable == TablesSpec => []IInv
BY InitHolds, StepHolds, PTL DEF TablesSpec

\* Every variable stays in its type: no loop leaves the table, and test reads
\* no more sectors than a cluster has.
THEOREM TablesTypeCorrect == TablesSpec => []TablesTypeOK
<1>1. IInv => TablesTypeOK
  BY DEF IInv
<1> QED
  BY <1>1, Reachable, PTL

\* test_fat reports the differences between the tables on the device, but for
\* the cells changed since, for tables of any size.
THEOREM TestFatReports == TablesSpec => []ReportsTheDevice
<1>1. IInv => ReportsTheDevice
  <2> SUFFICES ASSUME IInv, Through("test_fat"), NEW i \in Index
               PROVE  (\E k \in DOMAIN reported : reported[k] = i)
                        <=> (tables[1][i] # tables[2][i] /\ i \notin changed)
    BY DEF ReportsTheDevice
  <2>1. walk = "test_fat" /\ i < index
    BY TablesAssumption DEF Through, Index
  <2> QED
    BY <2>1 DEF IInv, ReportedSoFar, TablesDiffer
<1> QED
  BY <1>1, Reachable, PTL

\* The file dump_fat leaves holds the table, whatever was in it before.
THEOREM DumpFatWrites == TablesSpec => []DumpHoldsTheTable
<1>1. IInv => DumpHoldsTheTable
  <2> SUFFICES ASSUME IInv, Through("dump_fat"), ~failed
               PROVE  /\ Len(file) = IF Len(old) > TableSize THEN Len(old) ELSE TableSize
                      /\ \A i \in Index : file[i + 1] = fat_table[i]
                      /\ \A k \in (TableSize + 1)..Len(file) : file[k] = old[k]
    BY DEF DumpHoldsTheTable
  <2>1. /\ Len(file) = IF Len(old) > TableSize THEN Len(old) ELSE TableSize
        /\ \A k \in 1..TableSize : file[k] = fat_table[k - 1]
        /\ \A k \in (TableSize + 1)..Len(file) : file[k] = old[k]
    BY DEF IInv, WrittenSoFar, Through
  <2>2. ASSUME NEW i \in Index
        PROVE  file[i + 1] = fat_table[i]
    <3>1. i + 1 \in 1..TableSize /\ (i + 1) - 1 = i
      BY TablesAssumption DEF Index
    <3>2. file[i + 1] = fat_table[(i + 1) - 1]
      BY <2>1, <3>1
    <3> QED
      BY <3>1, <3>2
  <2> QED
    BY <2>1, <2>2
<1> QED
  BY <1>1, Reachable, PTL

\* Each line answers the question it was typed for, from one fat to the next.
THEOREM LinesAnswerOnce == TablesSpec => EachLineAnswersOnce
<1> DEFINE Once == Asks /\ plain /\ pending # << >> /\ pending' # pending
                     => /\ pending' = << >>
                        /\ index' = index + 1 <=> typed[1] = "Y"
<1>1. IInv /\ [TablesNext]_tablesVars => [Once]_tablesVars
  <2> SUFFICES ASSUME IInv, TablesNext, Asks, plain, pending # << >>, pending' # pending
               PROVE  /\ pending' = << >>
                      /\ index' = index + 1 <=> typed[1] = "Y"
    OBVIOUS
  <2>1. pending \in Seq(STRING) /\ pending = typed /\ Len(pending) = 2 /\ index \in Nat
    BY DEF IInv, TablesTypeOK, OneLine
  <2>2. Answer
    <3>1. ASSUME NEW line \in Lines PROVE ~Type(line)
      BY <2>1 DEF Type
    <3>2. pending' # pending
      OBVIOUS
    <3> QED
      BY <3>1, <3>2 DEF TablesNext, Change, test_fat, Compare, fat, PrintCell,
         dump_fat, WriteCell, test, test_cluster, ReadSector, EndTest, EndWalk, fatVars
  <2>3. pending' = << >>
    <3>1. PICK t \in Seq(STRING) : t = Tail(Tail(pending)) /\ Len(t) = Len(pending) - 2
      BY <2>1, <2>2, TailTail, Zenon DEF Answer
    <3>2. Len(t) = 0
      BY <2>1, <3>1
    <3>3. t = << >>
      BY <3>1, <3>2, EmptySeq
    <3> QED
      BY <2>2, <3>1, <3>3 DEF Answer
  <2>4. index' = index + 1 <=> typed[1] = "Y"
    <3>1. Head(pending) = typed[1]
      BY <2>1
    <3>2. index' = IF Head(pending) = "Y" THEN index + 1 ELSE 0
      BY <2>2 DEF Answer, GoOnIf
    <3> QED
      BY <2>1, <3>1, <3>2
  <2> QED
    BY <2>3, <2>4
<1>2. TablesSpec => [][Once]_tablesVars
  BY <1>1, Reachable, PTL DEF TablesSpec
<1> QED
  BY <1>2 DEF EachLineAnswersOnce

\* What test says of a cluster in the first 2^32 bytes is what its sectors say.
THEOREM TestTells == TablesSpec => []VerdictIsOfTheCluster
<1>1. IInv => VerdictIsOfTheCluster
  <2> SUFFICES ASSUME IInv, verdict # "none", tested >= 2,
                      DataSector + Sectors * (tested - 1) <= Wrap
               PROVE  /\ \A k \in DOMAIN reads :
                           reads[k].sector = DataSector + Sectors * (tested - 2) + (k - 1)
                      /\ verdict = "Good" <=>
                           /\ Len(reads) = Sectors
                           /\ \A k \in DOMAIN reads : reads[k].status \notin {"error", "end"}
    BY DEF VerdictIsOfTheCluster
  <2>1. /\ tested \in Nat /\ Len(reads) \in Nat /\ Len(reads) <= Sectors
        /\ DOMAIN reads = 1..Len(reads)
        /\ \A k \in DOMAIN reads : reads[k].status \in Statuses
        /\ verdict \in {"Good", "Bad"}
    <3>1. /\ reads \in Seq([sector : 0..(Wrap - 1), status : Statuses])
          /\ Len(reads) <= Sectors /\ tested \in Nat /\ verdict \in {"Good", "Bad"}
      BY DEF IInv, TablesTypeOK, Index
    <3>2. /\ Len(reads) \in Nat /\ DOMAIN reads = 1..Len(reads)
          /\ \A k \in 1..Len(reads) : reads[k] \in [sector : 0..(Wrap - 1), status : Statuses]
      BY <3>1, LenProperties, ElementOfSeq
    <3> QED
      BY <3>1, <3>2
  <2>2. ASSUME NEW k \in DOMAIN reads
        PROVE  reads[k].sector = DataSector + Sectors * (tested - 2) + (k - 1)
    <3>1. PICK m \in Nat : m = Sectors * (tested - 2)
      BY <2>1, TablesAssumption
    <3>2. Sectors * (tested - 1) = m + Sectors
      BY <2>1, <3>1, TablesAssumption
    <3>3. DataSector + m + (k - 1) \in 0..(Wrap - 1)
      BY <2>1, <3>2, TablesAssumption
    <3>4. reads[k].sector = (DataSector + m + (k - 1)) % Wrap
      BY <3>1 DEF IInv, ReadSoFar, SectorOf
    <3>5. PICK n \in 0..(Wrap - 1) : n = DataSector + m + (k - 1)
      BY <3>3
    <3>6. n % Wrap = n
      BY TablesAssumption
    <3> QED
      BY <3>1, <3>4, <3>5, <3>6
  <2>3. \A status \in Statuses : fs_test(status) <=> status \notin {"error", "end"}
    BY DEF Statuses, fs_test
  <2>4. CASE verdict = "Good"
    BY <2>1, <2>2, <2>3, <2>4 DEF IInv, ReadSoFar
  <2>5. CASE verdict = "Bad"
    <3>1. reads # << >> /\ ~fs_test(reads[Len(reads)].status)
      BY <2>5 DEF IInv, ReadSoFar
    <3>2. Len(reads) \in DOMAIN reads
      <4>1. reads \in Seq([sector : 0..(Wrap - 1), status : Statuses])
        BY DEF IInv, TablesTypeOK
      <4>2. Len(reads) \in Nat \ {0}
        BY <3>1, <4>1, EmptySeq
      <4> QED
        BY <2>1, <4>2
    <3> QED
      BY <2>1, <2>2, <2>3, <2>5, <3>1, <3>2
  <2> QED
    BY <2>1, <2>4, <2>5
<1> QED
  BY <1>1, Reachable, PTL
=============================================================================
