--------------------------- MODULE SessionProofs ---------------------------
(***************************************************************************)
(* Proofs about paths and the working directory, for every tree and all    *)
(* paths that may be typed, of any length.                                 *)
(***************************************************************************)
EXTENDS Session, SequenceTheorems, WellFoundedInduction, TLAPS

Text == Seq(Chars)

LEMMA One ==
  ASSUME NEW S, NEW c \in S
  PROVE  <<c>> \in Seq(S) /\ Len(<<c>>) = 1 /\ <<c>>[1] = c
OBVIOUS

LEMMA SlashIs == Slash \in Text /\ Len(Slash) = 1 /\ Slash[1] = "/"
<1>1. "/" \in Chars
  BY SessionAssumption
<1> QED
  BY Zenon, <1>1, One DEF Slash, Text

-----------------------------------------------------------------------------
(* Numbers *)

\* Every set of numbers that is not empty has a least one.
LEMMA LeastNumber ==
  ASSUME NEW T, T \subseteq Nat, T # {}
  PROVE  \E x \in T : \A y \in T : x <= y
<1> DEFINE R == OpToRel(<, Nat)
<1>1. IsWellFoundedOn(R, Nat)
  BY NatLessThanWellFounded
<1> HIDE DEF R
<1>2. PICK x \in T : \A y \in T : ~(<<y, x>> \in R)
  BY <1>1, WFMin
<1>3. ASSUME NEW y \in Nat PROVE <<y, x>> \in R <=> y < x
  <2>1. R = {ss \in Nat \X Nat : ss[1] < ss[2]}
    BY Zenon DEF R, OpToRel
  <2>2. <<y, x>> \in Nat \X Nat
    BY <1>2
  <2>3. <<y, x>>[1] = y /\ <<y, x>>[2] = x
    OBVIOUS
  <2>4. <<y, x>> \in R <=> <<y, x>>[1] < <<y, x>>[2]
    BY Zenon, <2>1, <2>2
  <2> QED
    BY <2>3, <2>4
<1>4. \A y \in T : ~(y < x) /\ y \in Nat /\ x \in Nat
  BY <1>2, <1>3
<1>5. \A y \in T : x <= y
  BY <1>4
<1> QED
  BY <1>2, <1>5

\* What holds of 0 and of every number up to n that follows one of which it
\* holds, holds up to n.
LEMMA UpTo ==
  ASSUME NEW n \in Nat, NEW P, 0 \in P, \A k \in 0..(n - 1) : k \in P => k + 1 \in P
  PROVE  0..n \subseteq P
<1> SUFFICES ASSUME NEW m \in 0..n, m \notin P PROVE FALSE
  OBVIOUS
<1> DEFINE T == {k \in 0..n : k \notin P}
<1>1. T \subseteq Nat /\ m \in T
  OBVIOUS
<1>2. PICK x \in T : \A y \in T : x <= y
  BY <1>1, LeastNumber
<1>3. x \in 0..n /\ x # 0 /\ x \notin P
  OBVIOUS
<1>4. x - 1 \in 0..(n - 1) /\ x - 1 \in 0..n /\ (x - 1) + 1 = x /\ ~(x <= x - 1)
  BY <1>3
<1>5. x - 1 \in P
  BY <1>2, <1>4
<1> QED
  BY <1>3, <1>4, <1>5

-----------------------------------------------------------------------------
(* Names of a path *)

\* The names in front of each place of a path.
Collected(path, f, k) ==
  IF k = 0 THEN << >>
  ELSE LET before == f[k - 1]
       IN  IF path[k] = "/" THEN before
           ELSE IF k = 1 \/ path[k - 1] = "/" THEN Append(before, <<path[k]>>)
           ELSE Append(Front(before), Append(Last(before), path[k]))
Collects(path, n, f) == f = [k \in 0..n |-> Collected(path, f, k)]

LEMMA CollectsSome ==
  ASSUME NEW path, NEW n \in Nat
  PROVE  \E f : Collects(path, n, f)
<1> DEFINE P == {m \in Nat : \E f : Collects(path, m, f)}
<1>1. 0 \in P
  <2> DEFINE f == [k \in 0..0 |-> << >>]
  <2>1. \A k \in 0..0 : Collected(path, f, k) = << >>
    BY DEF Collected
  <2> HIDE DEF f
  <2>2. Collects(path, 0, f)
    BY <2>1 DEF Collects, f
  <2> QED
    BY <2>2
<1>2. ASSUME NEW m \in 0..(n - 1), m \in P PROVE m + 1 \in P
  <2>1. m \in Nat /\ m + 1 \in Nat
    OBVIOUS
  <2>2. PICK f : Collects(path, m, f)
    BY <1>2
  <2> DEFINE g == [k \in 0..(m + 1) |-> IF k = m + 1 THEN Collected(path, f, k) ELSE f[k]]
  <2>3. \A k \in 0..m : g[k] = f[k]
    BY <2>1
  <2>4. g[m + 1] = Collected(path, f, m + 1) /\ DOMAIN g = 0..(m + 1)
    BY <2>1
  <2>5. g = [k \in 0..(m + 1) |-> g[k]]
    OBVIOUS
  <2> HIDE DEF g
  <2>6. \A k \in 0..(m + 1) : k # 0 => g[k - 1] = f[k - 1]
    BY <2>1, <2>3
  <2>7. \A k \in 0..(m + 1) : Collected(path, g, k) = Collected(path, f, k)
    BY <2>6 DEF Collected
  <2>8. \A k \in 0..m : f[k] = Collected(path, f, k)
    BY <2>2 DEF Collects
  <2>9. \A k \in 0..(m + 1) : k \in 0..m \/ k = m + 1
    BY <2>1
  <2>10. \A k \in 0..(m + 1) : g[k] = Collected(path, g, k)
    BY <2>3, <2>4, <2>7, <2>8, <2>9
  <2>11. Collects(path, m + 1, g)
    BY <2>5, <2>10 DEF Collects
  <2> QED
    BY <2>1, <2>11
<1> HIDE DEF P
<1>3. 0..n \subseteq P
  BY <1>1, <1>2, UpTo
<1>4. n \in P
  BY <1>3
<1> QED
  BY <1>4 DEF P

LEMMA TokensAre ==
  ASSUME NEW path \in Text
  PROVE  \E f : Collects(path, Len(path), f) /\ Tokens(path) = f[Len(path)]
<1> DEFINE f == CHOOSE f : Collects(path, Len(path), f)
<1>1. Len(path) \in Nat
  BY DEF Text
<1>2. Collects(path, Len(path), f)
  BY <1>1, CollectsSome
<1>3. Tokens(path) = f[Len(path)]
  BY Zenon DEF Tokens, Collects, Collected
<1> QED
  BY <1>2, <1>3

LEMMA CollectedIs ==
  ASSUME NEW path, NEW n \in Nat, NEW f, Collects(path, n, f), NEW k \in 0..n
  PROVE  f[k] = Collected(path, f, k)
BY DEF Collects

LEMMA CollectedFirst ==
  ASSUME NEW path, NEW n \in Nat, NEW f, Collects(path, n, f)
  PROVE  f[0] = << >>
<1>1. f[0] = Collected(path, f, 0)
  BY CollectedIs
<1> QED
  BY <1>1 DEF Collected

\* The names in front of a place are those of the path up to there.
LEMMA CollectedInPrefix ==
  ASSUME NEW p, NEW q, NEW n \in Nat, NEW m \in Nat, n <= m,
         NEW f, NEW g, Collects(p, n, f), Collects(q, m, g),
         \A k \in 1..n : p[k] = q[k]
  PROVE  \A k \in 0..n : f[k] = g[k]
<1> DEFINE P == {k \in 0..n : f[k] = g[k]}
<1>1. 0 \in P
  <2>1. f[0] = << >> /\ g[0] = << >>
    BY CollectedFirst
  <2> QED
    BY <2>1
<1>2. ASSUME NEW k \in 0..(n - 1), k \in P PROVE k + 1 \in P
  <2>1. k + 1 \in 1..n /\ k + 1 \in 0..n /\ k + 1 \in 0..m /\ (k + 1) - 1 = k /\ k + 1 # 0
    OBVIOUS
  <2>2. f[k + 1] = Collected(p, f, k + 1) /\ g[k + 1] = Collected(q, g, k + 1)
    BY <2>1, CollectedIs
  <2>3. p[k + 1] = q[k + 1] /\ (k + 1 # 1 => p[k] = q[k])
    BY <2>1
  <2>4. f[k] = g[k]
    BY <1>2
  <2>5. Collected(p, f, k + 1) = Collected(q, g, k + 1)
    BY <2>1, <2>3, <2>4 DEF Collected
  <2> QED
    BY <2>1, <2>2, <2>5
<1> HIDE DEF P
<1>3. 0..n \subseteq P
  BY <1>1, <1>2, UpTo
<1> QED
  BY <1>3 DEF P

Letter == Chars \ {"/"}
Name == Seq(Letter) \ {<< >>}

LEMMA CollectedTyped ==
  ASSUME NEW path \in Text, NEW f, Collects(path, Len(path), f)
  PROVE  \A k \in 0..Len(path) : /\ f[k] \in Seq(Name)
                                 /\ k # 0 /\ path[k] # "/" => f[k] # << >>
<1> DEFINE n == Len(path)
           P == {k \in 0..n : /\ f[k] \in Seq(Name)
                              /\ k # 0 /\ path[k] # "/" => f[k] # << >>}
<1>1. n \in Nat /\ \A k \in 1..n : path[k] \in Chars
  BY DEF Text
<1> HIDE DEF n
<1>2. 0 \in P
  <2>1. f[0] = << >>
    BY <1>1, CollectedFirst DEF n
  <2>2. << >> \in Seq(Name) /\ 0 \in 0..n
    BY <1>1
  <2> QED
    BY <2>1, <2>2
<1>3. ASSUME NEW k \in 0..(n - 1), k \in P PROVE k + 1 \in P
  <2>1. k + 1 \in 1..n /\ k + 1 \in 0..n /\ (k + 1) - 1 = k /\ k + 1 # 0
    BY <1>1
  <2>2. f[k + 1] = Collected(path, f, k + 1)
    BY <1>1, <2>1, CollectedIs DEF n
  <2> DEFINE before == f[k]
             c == path[k + 1]
  <2>3. /\ before \in Seq(Name) /\ c \in Chars
        /\ k # 0 /\ path[k] # "/" => before # << >>
    BY <1>1, <1>3, <2>1
  <2>4. f[k + 1] = IF c = "/" THEN before
                   ELSE IF k + 1 = 1 \/ path[k] = "/" THEN Append(before, <<c>>)
                   ELSE Append(Front(before), Append(Last(before), c))
    BY <2>1, <2>2 DEF Collected
  <2> HIDE DEF before, c
  <2>5. CASE c = "/"
    BY <2>1, <2>3, <2>4, <2>5 DEF c
  <2>6. CASE c # "/" /\ (k + 1 = 1 \/ path[k] = "/")
    <3>1. <<c>> \in Name
      BY <2>3, <2>6 DEF Name, Letter
    <3>2. Append(before, <<c>>) \in Seq(Name) /\ Append(before, <<c>>) # << >>
      BY <2>3, <3>1
    <3> QED
      BY <2>1, <2>4, <2>6, <3>2
  <2>7. CASE c # "/" /\ ~(k + 1 = 1 \/ path[k] = "/")
    <3>1. k # 0 /\ before # << >>
      BY <2>3, <2>7
    <3>2. Len(before) \in Nat \ {0}
      BY <2>3, <3>1
    <3>3. Last(before) \in Name /\ Front(before) \in Seq(Name)
      BY <2>3, <3>2 DEF Last, Front
    <3>4. Append(Last(before), c) \in Name
      <4>1. Last(before) \in Seq(Letter) /\ c \in Letter
        BY <2>3, <2>7, <3>3 DEF Name, Letter
      <4> QED
        BY <4>1, AppendProperties DEF Name
    <3> DEFINE t == Front(before)
               m == Append(Last(before), c)
    <3> HIDE DEF t, m
    <3>5. Append(t, m) \in Seq(Name) /\ Append(t, m) # << >>
      BY <3>3, <3>4 DEF t, m
    <3>6. f[k + 1] = Append(t, m)
      BY <2>4, <2>7 DEF t, m
    <3> QED
      BY <2>1, <3>5, <3>6
  <2> QED
    BY <2>5, <2>6, <2>7
<1> HIDE DEF P
<1>4. 0..n \subseteq P
  BY <1>1, <1>2, <1>3, UpTo
<1> QED
  BY <1>4 DEF P, n

LEMMA TokensTyped ==
  ASSUME NEW path \in Text
  PROVE  /\ Tokens(path) \in Seq(Name)
         /\ path # << >> /\ Last(path) # "/" => Tokens(path) # << >>
<1>1. PICK f : Collects(path, Len(path), f) /\ Tokens(path) = f[Len(path)]
  BY TokensAre
<1>2. Len(path) \in Nat /\ Len(path) \in 0..Len(path) /\ (path # << >> => Len(path) # 0)
  BY DEF Text
<1> QED
  BY <1>1, <1>2, CollectedTyped DEF Last

LEMMA TokensOfNone == Tokens(<< >>) = << >>
<1>1. << >> \in Text /\ Len(<< >>) = 0
  BY DEF Text
<1>2. PICK f : Collects(<< >>, 0, f) /\ Tokens(<< >>) = f[0]
  BY <1>1, TokensAre
<1> QED
  BY <1>2, CollectedFirst

\* A '/' at the end makes no name.
LEMMA TokensSlash ==
  ASSUME NEW p \in Text
  PROVE  Tokens(p \o Slash) = Tokens(p)
<1> DEFINE q == p \o Slash
           n == Len(p)
<1>1. /\ q \in Text /\ Len(q) = n + 1 /\ n \in Nat
      /\ q[n + 1] = "/" /\ \A k \in 1..n : q[k] = p[k]
  <2>1. /\ p \in Seq(Chars) /\ Slash \in Seq(Chars) /\ Len(Slash) = 1 /\ Slash[1] = "/"
        /\ n \in Nat /\ (n + 1) - n = 1
    BY SlashIs DEF Text
  <2>2. /\ q \in Seq(Chars) /\ Len(q) = n + 1
        /\ \A k \in 1..(n + 1) : q[k] = IF k <= n THEN p[k] ELSE Slash[k - n]
    BY <2>1, ConcatProperties
  <2> HIDE DEF q, n
  <2>3. q[n + 1] = Slash[(n + 1) - n] /\ \A k \in 1..n : q[k] = p[k]
    BY <2>1, <2>2
  <2> QED
    BY <2>1, <2>2, <2>3 DEF Text
<1>2. PICK f : Collects(p, n, f) /\ Tokens(p) = f[n]
  BY TokensAre
<1> HIDE DEF q, n
<1>3. PICK g : Collects(q, n + 1, g) /\ Tokens(q) = g[n + 1]
  BY <1>1, TokensAre
<1>4. n <= n + 1 /\ n \in 0..n /\ n + 1 \in 0..(n + 1) /\ (n + 1) - 1 = n /\ n + 1 \in Nat /\ n + 1 # 0
  BY <1>1
<1>5. \A k \in 1..n : p[k] = q[k]
  BY <1>1
<1>6. \A k \in 0..n : f[k] = g[k]
  BY <1>1, <1>2, <1>3, <1>4, <1>5, CollectedInPrefix
<1>7. g[n + 1] = Collected(q, g, n + 1)
  BY <1>3, <1>4, CollectedIs
<1>8. g[n + 1] = g[n]
  BY <1>1, <1>4, <1>7 DEF Collected
<1> QED
  BY <1>2, <1>3, <1>4, <1>6, <1>8 DEF q

\* A name behind a '/', or in front of everything, is a name of its own.
LEMMA TokensName ==
  ASSUME NEW p \in Text, p = << >> \/ Last(p) = "/", NEW name \in Name
  PROVE  Tokens(p \o name) = Append(Tokens(p), name)
<1> DEFINE q == p \o name
           n == Len(p)
           m == Len(name)
           T == Tokens(p)
<1>1. /\ q \in Text /\ Len(q) = n + m /\ n \in Nat /\ m \in Nat \ {0}
      /\ \A k \in 1..n : p[k] = q[k]
      /\ \A k \in 1..m : q[n + k] = name[k] /\ name[k] # "/"
      /\ n # 0 => p[n] = "/"
  <2>1. name \in Seq(Chars) /\ \A k \in 1..m : name[k] # "/"
    BY DEF Name, Letter
  <2> QED
    BY <2>1 DEF Text, Name, Last
<1>2. PICK f : Collects(p, n, f) /\ T = f[n]
  BY TokensAre
<1>3. T \in Seq(Name) /\ name \in Seq(Letter)
  BY TokensTyped DEF Name
<1> HIDE DEF q, n, m, T
<1>4. n + m \in Nat /\ n <= n + m /\ n \in 0..n
  BY <1>1
<1>5. PICK g : Collects(q, n + m, g) /\ Tokens(q) = g[n + m]
  BY <1>1, TokensAre
<1>6. g[n] = T
  <2>1. \A k \in 0..n : f[k] = g[k]
    <3> DEFINE N == n + m
    <3>1. /\ N \in Nat /\ n <= N /\ Collects(q, N, g) /\ n \in Nat /\ Collects(p, n, f)
          /\ \A k \in 1..n : p[k] = q[k]
      BY <1>1, <1>2, <1>4, <1>5
    <3> HIDE DEF N
    <3> QED
      BY <3>1, CollectedInPrefix
  <2> QED
    BY <1>2, <1>4, <2>1
<1> DEFINE P == {k \in 0..m : k = 0 \/ g[n + k] = Append(T, SubSeq(name, 1, k))}
<1>7. 0 \in P
  BY <1>1
<1>8. ASSUME NEW k \in 0..(m - 1), k \in P PROVE k + 1 \in P
  <2>1. /\ k \in Nat /\ k + 1 \in 1..m /\ k + 1 \in 0..m /\ n + (k + 1) \in 0..(n + m)
        /\ n + (k + 1) # 0 /\ (n + (k + 1)) - 1 = n + k
    BY <1>1
  <2>2. g[n + (k + 1)] = Collected(q, g, n + (k + 1))
    BY <1>4, <1>5, <2>1, CollectedIs
  <2>3. q[n + (k + 1)] = name[k + 1] /\ name[k + 1] # "/"
    BY <1>1, <2>1
  <2>4. CASE k = 0
    <3>1. n + (k + 1) = 1 \/ q[n + k] = "/"
      BY <1>1, <2>4
    <3>2. g[n + (k + 1)] = Append(g[n + k], <<name[k + 1]>>)
      BY <2>1, <2>2, <2>3, <3>1 DEF Collected
    <3>3. SubSeq(name, 1, k + 1) = <<name[k + 1]>>
      <4>1. k + 1 = 1 /\ 1 \in 1..Len(name)
        BY <2>1, <2>4 DEF m
      <4>2. SubSeq(name, 1, 1) = <<name[1]>>
        <5> DEFINE s == SubSeq(name, 1, 1)
        <5>1. s \in Seq(Letter) /\ Len(s) = 1 /\ s[1] = name[1]
          BY <1>3, <4>1
        <5>2. name[1] \in Letter
          BY <1>3, <4>1
        <5> HIDE DEF s
        <5>3. s = <<name[1]>>
          BY <5>1, <5>2
        <5> QED
          BY <5>3 DEF s
      <4> QED
        BY <4>1, <4>2
    <3>4. g[n + k] = T
      BY <1>1, <1>6, <2>4
    <3> QED
      BY <2>1, <3>2, <3>3, <3>4
  <2>5. CASE k # 0
    <3> DEFINE s == SubSeq(name, 1, k)
    <3>1. k \in 1..m /\ g[n + k] = Append(T, s) /\ q[n + k] # "/" /\ n + (k + 1) # 1
      <4>1. k \in 1..m /\ n + (k + 1) # 1
        BY <1>1, <2>1, <2>5
      <4>2. g[n + k] = Append(T, s)
        BY <1>8, <2>5
      <4> HIDE DEF s
      <4> QED
        BY <1>1, <4>1, <4>2
    <3>2. g[n + (k + 1)] = Append(Front(g[n + k]), Append(Last(g[n + k]), name[k + 1]))
      BY <2>1, <2>2, <2>3, <3>1 DEF Collected
    <3>3. s \in Name
      <4>1. k \in 1..Len(name)
        BY <3>1 DEF m
      <4>2. s \in Seq(Letter) /\ Len(s) = k
        BY <1>3, <4>1
      <4> QED
        BY <4>1, <4>2 DEF Name
    <3>4. SubSeq(name, 1, k + 1) = Append(s, name[k + 1])
      BY <1>1, <1>3, <2>1, <3>1 DEF m
    <3> HIDE DEF s
    <3>5. Front(Append(T, s)) = T /\ Last(Append(T, s)) = s
      BY <1>3, <3>3 DEF Front, Last
    <3> QED
      BY <2>1, <3>1, <3>2, <3>4, <3>5
  <2> QED
    BY <2>4, <2>5
<1> HIDE DEF P
<1>9. 0..m \subseteq P
  BY <1>1, <1>7, <1>8, UpTo
<1>10. g[n + m] = Append(T, SubSeq(name, 1, m))
  <2>1. m \in 0..m /\ m # 0
    BY <1>1
  <2>2. m \in P
    BY <1>9, <2>1
  <2> QED
    BY <2>1, <2>2 DEF P
<1>11. SubSeq(name, 1, m) = name
  BY <1>3 DEF m
<1> QED
  BY <1>5, <1>10, <1>11 DEF q, T

-----------------------------------------------------------------------------
(* Where paths are cut *)

LEMMA GreatestNumber ==
  ASSUME NEW n \in Nat, NEW T, T \subseteq 0..n, T # {}
  PROVE  \E x \in T : \A y \in T : y <= x
<1> DEFINE R == {r \in Nat : \E y \in T : r = n - y}
<1>1. R \subseteq Nat /\ R # {}
  <2>1. PICK y \in T : y \in 0..n
    OBVIOUS
  <2>2. n - y \in R
    BY <2>1
  <2> QED
    BY <2>2
<1>2. PICK r \in R : \A s \in R : r <= s
  BY <1>1, LeastNumber
<1>3. PICK x \in T : r = n - x
  OBVIOUS
<1>4. ASSUME NEW y \in T PROVE y <= x
  <2>1. n - x <= n - y
    <3>1. n - y \in Nat
      OBVIOUS
    <3> QED
      BY <1>2, <1>3, <3>1
  <2>2. x \in 0..n /\ y \in 0..n
    OBVIOUS
  <2> QED
    BY <2>1, <2>2
<1> QED
  BY <1>4

LEMMA CutTyped ==
  ASSUME NEW q \in Text
  PROVE  LET k == CutAt(q)
         IN  /\ k \in Nat \ {0} /\ (k = 1 \/ (k \in 2..Len(q) /\ q[k] = "/"))
             /\ \A j \in 2..Len(q) : j > k => q[j] # "/"
<1> DEFINE cuts == {k \in 2..Len(q) : q[k] = "/"}
<1>1. Len(q) \in Nat /\ cuts \subseteq 0..Len(q)
  BY DEF Text
<1>2. CutAt(q) = IF cuts = {} THEN 1 ELSE CHOOSE k \in cuts : \A j \in cuts : j <= k
  BY DEF CutAt
<1> DEFINE c == CutAt(q)
           Cut == /\ c \in Nat \ {0} /\ (c = 1 \/ (c \in 2..Len(q) /\ q[c] = "/"))
                  /\ \A j \in 2..Len(q) : j > c => q[j] # "/"
<1> SUFFICES Cut
  OBVIOUS
<1>3. CASE cuts = {}
  <2>1. \A j \in 2..Len(q) : q[j] # "/"
    BY <1>3
  <2>2. c = 1
    BY <1>2, <1>3
  <2> HIDE DEF c, cuts
  <2> QED
    BY <2>1, <2>2
<1>4. CASE cuts # {}
  <2>1. \E k \in cuts : \A j \in cuts : j <= k
    BY <1>1, <1>4, GreatestNumber
  <2>2. c \in cuts /\ \A j \in cuts : j <= c
    BY <1>2, <1>4, <2>1
  <2> HIDE DEF c
  <2>3. c \in 2..Len(q) /\ q[c] = "/"
    BY <2>2
  <2>4. ASSUME NEW j \in 2..Len(q), j > c PROVE q[j] # "/"
    <3>1. ~(j <= c)
      BY <1>1, <2>3, <2>4
    <3> QED
      BY <2>2, <3>1
  <2> HIDE DEF cuts
  <2> QED
    BY <1>1, <2>3, <2>4
<1> QED
  BY <1>3, <1>4

\* The last '/' behind the first place is where the path is cut.
LEMMA CutIs ==
  ASSUME NEW q \in Text, NEW k \in 1..Len(q), q[k] = "/",
         \A j \in 2..Len(q) : j > k => q[j] # "/"
  PROVE  CutAt(q) = k
<1> DEFINE c == CutAt(q)
<1>1. /\ c \in Nat \ {0} /\ (c = 1 \/ (c \in 2..Len(q) /\ q[c] = "/"))
      /\ \A j \in 2..Len(q) : j > c => q[j] # "/"
  BY CutTyped
<1>2. Len(q) \in Nat /\ k \in Nat /\ k >= 1 /\ k <= Len(q)
  BY DEF Text
<1> HIDE DEF c
<1>3. ~(c > k)
  BY <1>1, <1>2
<1>4. ~(k > c)
  BY <1>1, <1>2
<1>5. c = k
  BY <1>1, <1>2, <1>3, <1>4
<1> QED
  BY <1>5 DEF c

\* A path that starts and ends with a '/', like those commands use.
IsPath(p) == p \in Text /\ p # << >> /\ p[1] = "/" /\ Last(p) = "/"

LEMMA SlashBehind ==
  ASSUME NEW p \in Text
  PROVE  /\ p \o Slash \in Text /\ Len(p \o Slash) = Len(p) + 1 /\ p \o Slash # << >>
         /\ \A k \in 1..Len(p) : (p \o Slash)[k] = p[k]
         /\ (p \o Slash)[Len(p) + 1] = "/" /\ Last(p \o Slash) = "/"
         /\ p = << >> => (p \o Slash)[1] = "/"
<1> DEFINE q == p \o Slash
           n == Len(p)
<1>1. /\ p \in Seq(Chars) /\ Slash \in Seq(Chars) /\ Len(Slash) = 1 /\ Slash[1] = "/"
      /\ n \in Nat /\ (n + 1) - n = 1
  BY SlashIs DEF Text
<1>2. /\ q \in Seq(Chars) /\ Len(q) = n + 1
      /\ \A k \in 1..(n + 1) : q[k] = IF k <= n THEN p[k] ELSE Slash[k - n]
  BY <1>1, ConcatProperties
<1>3. p = << >> => n = 0
  OBVIOUS
<1> HIDE DEF q, n
<1>4. q[n + 1] = Slash[(n + 1) - n] /\ \A k \in 1..n : q[k] = p[k]
  BY <1>1, <1>2
<1>5. /\ q \in Text /\ Len(q) = n + 1 /\ q # << >> /\ \A k \in 1..n : q[k] = p[k]
      /\ q[n + 1] = "/" /\ Last(q) = "/" /\ (p = << >> => q[1] = "/")
  BY <1>1, <1>2, <1>3, <1>4 DEF Text, Last
<1> QED
  BY <1>5 DEF q, n

LEMMA ChoppedIs ==
  ASSUME NEW p \in Text
  PROVE  /\ Chopped(p \o Slash) = p
         /\ p # << >> /\ Last(p) # "/" => Chopped(p) = p
<1> DEFINE q == p \o Slash
<1>1. /\ q \in Text /\ Len(q) = Len(p) + 1 /\ Last(q) = "/" /\ q # << >>
      /\ \A k \in 1..Len(p) : q[k] = p[k]
  BY SlashBehind
<1>2. p \in Seq(Chars) /\ Len(p) \in Nat
  BY DEF Text
<1> HIDE DEF q
<1>3. Chopped(q) = SubSeq(q, 1, Len(p))
  <2>1. Len(q) - 1 = Len(p)
    BY <1>1, <1>2
  <2> QED
    BY <1>1, <2>1 DEF Chopped, EndsIn, Front
<1>4. SubSeq(q, 1, Len(p)) = p
  <2> DEFINE s == SubSeq(q, 1, Len(p))
  <2>1. s \in Seq(Chars) /\ Len(s) = Len(p) /\ \A k \in 1..Len(p) : s[k] = q[k]
    BY <1>1, <1>2 DEF Text
  <2> HIDE DEF s
  <2>2. s = p
    BY <1>1, <1>2, <2>1, SeqEqual
  <2> QED
    BY <2>2 DEF s
<1>5. p # << >> /\ Last(p) # "/" => Chopped(p) = p
  BY DEF Chopped, EndsIn
<1> QED
  BY <1>3, <1>4, <1>5 DEF q

\* A path that is cut ends with a '/' and starts as it did.
LEMMA ParentTyped ==
  ASSUME NEW path \in Text
  PROVE  LET p == get_parent_path(path)
         IN  /\ p \in Text /\ p # << >> /\ Last(p) = "/"
             /\ path # << >> /\ path[1] = "/" => p[1] = "/"
<1> DEFINE q == Chopped(path)
           c == CutAt(q)
           s == SubSeq(q, 1, c - 1)
<1>1. /\ q \in Text /\ Len(q) \in Nat
      /\ Len(q) # 0 /\ path # << >> => q[1] = path[1]
  BY DEF Chopped, Front, Text
<1>2. c \in Nat \ {0} /\ (c = 1 \/ c \in 2..Len(q))
  BY <1>1, CutTyped
<1>3. get_parent_path(path) = s \o Slash
  BY DEF get_parent_path
<1> HIDE DEF q, c
<1>4. /\ s \in Text /\ Len(s) = c - 1 /\ \A k \in 1..(c - 1) : s[k] = q[k]
  BY <1>1, <1>2 DEF Text
<1> HIDE DEF s
<1>5. /\ s \o Slash \in Text /\ s \o Slash # << >> /\ Last(s \o Slash) = "/"
      /\ s = << >> => (s \o Slash)[1] = "/"
      /\ \A k \in 1..(c - 1) : (s \o Slash)[k] = s[k]
  BY <1>4, SlashBehind
<1>6. CASE c = 1
  <2>1. s = << >>
    BY <1>4, <1>6 DEF Text
  <2> QED
    BY <1>3, <1>5, <2>1
<1>7. CASE c # 1
  <2>1. 1 \in 1..(c - 1) /\ Len(q) # 0
    BY <1>1, <1>2, <1>7
  <2> QED
    BY <1>1, <1>3, <1>4, <1>5, <2>1
<1> QED
  BY <1>6, <1>7

\* Nothing is lost at the seam of two texts.
LEMMA Joined ==
  ASSUME NEW p \in Text, NEW s \in Text
  PROVE  /\ p \o s \in Text /\ Len(p \o s) = Len(p) + Len(s)
         /\ Len(p) \in Nat /\ Len(s) \in Nat
         /\ \A k \in 1..Len(p) : (p \o s)[k] = p[k]
         /\ \A k \in 1..Len(s) : (p \o s)[Len(p) + k] = s[k]
         /\ s # << >> => Last(p \o s) = Last(s)
         /\ p # << >> => p \o s # << >>
         /\ s # << >> => p \o s # << >>
         /\ SubSeq(p \o s, 1, Len(p)) = p
         /\ SubSeq(p \o s, Len(p) + 1, Len(p) + Len(s)) = s
<1> DEFINE q == p \o s
           n == Len(p)
           m == Len(s)
<1>1. /\ q \in Seq(Chars) /\ n \in Nat /\ m \in Nat /\ Len(q) = n + m
      /\ \A k \in 1..(n + m) : q[k] = IF k <= n THEN p[k] ELSE s[k - n]
      /\ p \in Seq(Chars) /\ s \in Seq(Chars)
      /\ (p # << >> => n # 0) /\ (s # << >> => m # 0)
  BY ConcatProperties DEF Text
<1> HIDE DEF q
<1>2. /\ \A k \in 1..n : q[k] = p[k]
      /\ \A k \in 1..m : q[n + k] = s[k]
  <2>1. ASSUME NEW k \in 1..m PROVE q[n + k] = s[k]
    <3>1. n + k \in 1..(n + m) /\ ~(n + k <= n) /\ (n + k) - n = k
      BY <1>1
    <3> QED
      BY <1>1, <3>1
  <2>2. ASSUME NEW k \in 1..n PROVE q[k] = p[k]
    BY <1>1
  <2> QED
    BY <2>1, <2>2
<1>3. s # << >> => Last(q) = Last(s)
  <2>1. m # 0 => m \in 1..m
    BY <1>1
  <2> QED
    BY <1>1, <1>2, <2>1 DEF Last
<1> DEFINE a == SubSeq(q, 1, n)
           b == SubSeq(q, n + 1, n + m)
<1>4. a \in Seq(Chars) /\ Len(a) = n /\ \A k \in 1..n : a[k] = q[k]
  BY <1>1
<1>5. b \in Seq(Chars) /\ Len(b) = m /\ \A k \in 1..m : b[k] = q[n + k]
  BY <1>1
<1> HIDE DEF a, b
<1>6. a = p
  BY <1>1, <1>2, <1>4, SeqEqual
<1>7. b = s
  BY <1>1, <1>2, <1>5, SeqEqual
<1>8. (p # << >> => q # << >>) /\ (s # << >> => q # << >>)
  BY <1>1
<1> QED
  BY <1>1, <1>2, <1>3, <1>6, <1>7, <1>8 DEF q, a, b, n, m, Text

LEMMA Regrouped ==
  ASSUME NEW a \in Text, NEW b \in Text, NEW c \in Text
  PROVE  (a \o b) \o c = a \o (b \o c)
BY ConcatAssociative DEF Text

\* The path without the last of its names is its parent.
LEMMA ParentOf ==
  ASSUME NEW p \in Text, p # << >>, Last(p) = "/", NEW name \in Name
  PROVE  get_parent_path((p \o name) \o Slash) = p
<1> DEFINE q == p \o name
           n == Len(p)
           m == Len(name)
<1>1. name \in Text /\ \A k \in 1..m : name[k] # "/"
  BY DEF Name, Letter, Text
<1>2. /\ q \in Text /\ Len(q) = n + m /\ n \in Nat /\ m \in Nat
      /\ \A k \in 1..n : q[k] = p[k]
      /\ \A k \in 1..m : q[n + k] = name[k]
      /\ SubSeq(q, 1, n) = p
  BY <1>1, Joined
<1>3. n # 0 /\ p[n] = "/"
  BY DEF Last, Text
<1>4. Chopped(q \o Slash) = q
  BY <1>2, ChoppedIs
<1> HIDE DEF q, n, m
<1>5. CutAt(q) = n
  <2>1. n \in 1..Len(q) /\ q[n] = "/"
    BY <1>2, <1>3
  <2>2. ASSUME NEW j \in 2..Len(q), j > n PROVE q[j] # "/"
    <3>1. j - n \in 1..m /\ n + (j - n) = j
      BY <1>2, <2>2
    <3> QED
      BY <1>1, <1>2, <3>1 DEF m
  <2> QED
    BY <1>2, <2>1, <2>2, CutIs
<1>6. get_parent_path(q \o Slash) = SubSeq(q, 1, n - 1) \o Slash
  BY <1>4, <1>5 DEF get_parent_path
<1>7. SubSeq(q, 1, n - 1) \o Slash = p
  <2>1. p \in Seq(Chars) /\ n \in 1..Len(p) /\ 1 \in 1..Len(p) /\ n \in 1..n
    BY <1>2, <1>3 DEF n, Text
  <2>2. SubSeq(p, 1, n) = SubSeq(p, 1, n - 1) \o <<p[n]>>
    BY <2>1, SubSeqRecursiveSecond
  <2>3. SubSeq(p, 1, n) = p
    BY <2>1, SubSeqFull DEF n
  <2>4. SubSeq(q, 1, n - 1) = SubSeq(p, 1, n - 1)
    <3> DEFINE a == SubSeq(q, 1, n - 1)
               b == SubSeq(p, 1, n - 1)
    <3>1. /\ a \in Seq(Chars) /\ Len(a) = n - 1 /\ \A k \in 1..(n - 1) : a[k] = q[k]
      BY <1>2, <1>3 DEF Text
    <3>2. /\ b \in Seq(Chars) /\ Len(b) = n - 1 /\ \A k \in 1..(n - 1) : b[k] = p[k]
      BY <1>2, <2>1
    <3> HIDE DEF a, b
    <3>3. \A k \in 1..(n - 1) : a[k] = b[k]
      BY <1>2, <3>1, <3>2
    <3>4. a = b
      BY <3>1, <3>2, <3>3, SeqEqual
    <3> QED
      BY <3>4 DEF a, b
  <2> QED
    BY <1>3, <2>2, <2>3, <2>4 DEF Slash
<1> QED
  BY <1>6, <1>7 DEF q

-----------------------------------------------------------------------------
(* Names put together *)

Flattens(ss, n, f) == f = [i \in 1..n |-> IF i = 1 THEN ss[i] ELSE f[i - 1] \o ss[i]]

LEMMA FlattensSome ==
  ASSUME NEW ss, NEW n \in Nat
  PROVE  \E f : Flattens(ss, n, f)
<1> DEFINE P == {m \in Nat : \E f : Flattens(ss, m, f)}
<1>1. 0 \in P
  <2> DEFINE f == [k \in 1..0 |-> << >>]
  <2>1. \A g : [i \in 1..0 |-> IF i = 1 THEN ss[i] ELSE g[i - 1] \o ss[i]] = f
    OBVIOUS
  <2> HIDE DEF f
  <2>2. Flattens(ss, 0, f)
    BY <2>1 DEF Flattens
  <2> QED
    BY <2>2
<1>2. ASSUME NEW m \in 0..(n - 1), m \in P PROVE m + 1 \in P
  <2>1. m \in Nat /\ m + 1 \in Nat
    OBVIOUS
  <2>2. PICK f : Flattens(ss, m, f)
    BY <1>2
  <2> DEFINE At(h, i) == IF i = 1 THEN ss[i] ELSE h[i - 1] \o ss[i]
             g == [k \in 1..(m + 1) |-> IF k = m + 1 THEN At(f, k) ELSE f[k]]
  <2>3. \A k \in 1..m : g[k] = f[k]
    BY <2>1
  <2>4. g[m + 1] = At(f, m + 1) /\ DOMAIN g = 1..(m + 1)
    BY <2>1
  <2>5. g = [k \in 1..(m + 1) |-> g[k]]
    OBVIOUS
  <2> HIDE DEF g
  <2>6. \A k \in 1..(m + 1) : k # 1 => g[k - 1] = f[k - 1]
    BY <2>1, <2>3
  <2>7. \A k \in 1..(m + 1) : At(g, k) = At(f, k)
    BY <2>6
  <2>8. \A k \in 1..m : f[k] = At(f, k)
    BY <2>2 DEF Flattens
  <2>9. \A k \in 1..(m + 1) : k \in 1..m \/ k = m + 1
    BY <2>1
  <2> HIDE DEF At
  <2>10. \A k \in 1..(m + 1) : g[k] = At(g, k)
    BY <2>3, <2>4, <2>7, <2>8, <2>9
  <2>11. Flattens(ss, m + 1, g)
    BY <2>5, <2>10 DEF Flattens, At
  <2> QED
    BY <2>1, <2>11
<1> HIDE DEF P
<1>3. 0..n \subseteq P
  BY <1>1, <1>2, UpTo
<1>4. n \in P
  BY <1>3
<1> QED
  BY <1>4 DEF P

LEMMA FlattenIs ==
  ASSUME NEW ss \in Seq(Text), ss # << >>
  PROVE  \E f : Flattens(ss, Len(ss), f) /\ FlattenSeq(ss) = f[Len(ss)]
<1> DEFINE f == CHOOSE f : Flattens(ss, Len(ss), f)
<1>1. Len(ss) \in Nat /\ Len(ss) # 0
  OBVIOUS
<1>2. Flattens(ss, Len(ss), f)
  BY <1>1, FlattensSome
<1>3. FlattenSeq(ss) = f[Len(ss)]
  BY Zenon, <1>1 DEF FlattenSeq, Flattens
<1> QED
  BY <1>2, <1>3

\* The texts up to a place, flattened, are a text, and those of any longer
\* sequence that starts with them.
LEMMA FlattenedInPrefix ==
  ASSUME NEW ss \in Seq(Text), NEW tt, NEW n \in Nat, NEW m \in Nat,
         n <= m, n <= Len(ss), NEW f, NEW g, Flattens(ss, n, f), Flattens(tt, m, g),
         \A k \in 1..n : ss[k] = tt[k]
  PROVE  \A k \in 1..n : f[k] = g[k] /\ f[k] \in Text
<1> DEFINE P == {k \in 0..n : k = 0 \/ (f[k] = g[k] /\ f[k] \in Text)}
<1>1. 0 \in P
  OBVIOUS
<1>2. ASSUME NEW k \in 0..(n - 1), k \in P PROVE k + 1 \in P
  <2>1. /\ k + 1 \in 1..n /\ k + 1 \in 0..n /\ k + 1 \in 1..m /\ (k + 1) - 1 = k
        /\ k + 1 \in 1..Len(ss)
    OBVIOUS
  <2>2. /\ f[k + 1] = IF k + 1 = 1 THEN ss[k + 1] ELSE f[k] \o ss[k + 1]
        /\ g[k + 1] = IF k + 1 = 1 THEN tt[k + 1] ELSE g[k] \o tt[k + 1]
    BY <2>1 DEF Flattens
  <2>3. ss[k + 1] = tt[k + 1] /\ ss[k + 1] \in Text
    BY <2>1
  <2>4. CASE k = 0
    BY <2>1, <2>2, <2>3, <2>4
  <2>5. CASE k # 0
    <3>1. f[k] = g[k] /\ f[k] \in Text
      BY <1>2, <2>5
    <3>2. f[k] \o ss[k + 1] \in Text
      BY <2>3, <3>1, Joined
    <3>3. k + 1 # 1
      BY <2>5
    <3> QED
      BY <2>1, <2>2, <2>3, <3>1, <3>2, <3>3
  <2> QED
    BY <2>4, <2>5
<1> HIDE DEF P
<1>3. 0..n \subseteq P
  BY <1>1, <1>2, UpTo
<1>4. \A k \in 1..n : k \in 0..n /\ k # 0
  OBVIOUS
<1> QED
  BY <1>3, <1>4 DEF P

LEMMA FlattenAppend ==
  ASSUME NEW ss \in Seq(Text), NEW t \in Text
  PROVE  FlattenSeq(Append(ss, t)) = FlattenSeq(ss) \o t /\ FlattenSeq(ss) \in Text
<1> DEFINE tt == Append(ss, t)
           n == Len(ss)
<1>1. /\ tt \in Seq(Text) /\ tt # << >> /\ Len(tt) = n + 1 /\ n \in Nat
      /\ \A k \in 1..n : ss[k] = tt[k]
      /\ tt[n + 1] = t
  OBVIOUS
<1> HIDE DEF tt
<1>2. PICK g : Flattens(tt, n + 1, g) /\ FlattenSeq(tt) = g[n + 1]
  BY <1>1, FlattenIs
<1>3. g[n + 1] = IF n + 1 = 1 THEN t ELSE g[n] \o t
  <2>1. n + 1 \in 1..(n + 1) /\ (n + 1) - 1 = n
    BY <1>1
  <2>2. g[n + 1] = IF n + 1 = 1 THEN tt[n + 1] ELSE g[(n + 1) - 1] \o tt[n + 1]
    BY <1>2, <2>1 DEF Flattens
  <2> QED
    BY <1>1, <2>1, <2>2
<1>4. CASE ss = << >>
  <2>1. n + 1 = 1 /\ FlattenSeq(ss) = << >>
    BY <1>4 DEF FlattenSeq
  <2>2. << >> \in Text /\ << >> \o t = t
    BY ConcatEmptySeq DEF Text
  <2> QED
    BY <1>2, <1>3, <2>1, <2>2 DEF tt
<1>5. CASE ss # << >>
  <2>1. PICK f : Flattens(ss, n, f) /\ FlattenSeq(ss) = f[n]
    BY <1>5, FlattenIs
  <2>2. n \in 1..n /\ n + 1 # 1 /\ n <= n + 1 /\ n + 1 \in Nat /\ n <= Len(ss)
    BY <1>1, <1>5
  <2>3. \A k \in 1..n : f[k] = g[k] /\ f[k] \in Text
    <3> DEFINE m == n + 1
    <3>1. /\ m \in Nat /\ n \in Nat /\ n <= m /\ n <= Len(ss)
          /\ Flattens(ss, n, f) /\ Flattens(tt, m, g)
          /\ \A k \in 1..n : ss[k] = tt[k]
      BY <1>1, <1>2, <2>1, <2>2
    <3> HIDE DEF m, n
    <3> QED
      BY <3>1, FlattenedInPrefix
  <2> QED
    BY <1>2, <1>3, <2>1, <2>2, <2>3 DEF tt
<1> QED
  BY <1>4, <1>5

LEMMA JoinAppend ==
  ASSUME NEW names \in Seq(Name), NEW name \in Name
  PROVE  /\ Join(Append(names, name)) = (Join(names) \o name) \o Slash
         /\ Join(names) \in Text /\ Join(names) # << >>
<1> DEFINE closed(ns) == [k \in DOMAIN ns |-> ns[k] \o Slash]
           more == Append(names, name)
<1>1. name \in Text /\ Slash \in Text /\ \A k \in 1..Len(names) : names[k] \in Text
  BY SlashIs DEF Name, Letter, Text
<1>2. name \o Slash \in Text /\ \A k \in 1..Len(names) : names[k] \o Slash \in Text
  BY <1>1, Joined
<1>3. closed(names) \in Seq(Text) /\ Len(closed(names)) = Len(names)
  <2> DEFINE with(k) == names[k] \o Slash
             n == Len(names)
  <2>1. n \in Nat /\ \A k \in 1..n : with(k) \in Text
    BY <1>2
  <2>2. closed(names) = [k \in 1..n |-> with(k)]
    OBVIOUS
  <2> HIDE DEF with, n, closed
  <2>3. closed(names) \in Seq(Text) /\ Len(closed(names)) = n
    BY <2>1, <2>2
  <2> QED
    BY <2>3 DEF n
<1>4. closed(more) = Append(closed(names), name \o Slash)
  <2> DEFINE a == closed(more)
             b == closed(names)
             c == Append(b, name \o Slash)
  <2>1. /\ more \in Seq(Name) /\ Len(more) = Len(names) + 1
        /\ \A k \in 1..Len(names) : more[k] = names[k]
        /\ more[Len(names) + 1] = name
        /\ Len(names) \in Nat
    OBVIOUS
  <2> HIDE DEF more
  <2>2. \A k \in 1..(Len(names) + 1) : k \in 1..Len(names) \/ k = Len(names) + 1
    BY <2>1
  <2>3. \A k \in 1..(Len(names) + 1) : more[k] \o Slash \in Text
    BY <1>2, <2>1, <2>2
  <2>4. /\ a \in Seq(Text) /\ Len(a) = Len(names) + 1
        /\ \A k \in 1..(Len(names) + 1) : a[k] = more[k] \o Slash
    BY <2>1, <2>3
  <2>5. /\ b \in Seq(Text) /\ Len(b) = Len(names)
        /\ \A k \in 1..Len(names) : b[k] = names[k] \o Slash
    BY <1>3
  <2> HIDE DEF a, b
  <2>6. /\ c \in Seq(Text) /\ Len(c) = Len(names) + 1
        /\ \A k \in 1..Len(names) : c[k] = b[k]
        /\ c[Len(names) + 1] = name \o Slash
    BY <1>2, <2>5
  <2> HIDE DEF c
  <2>7. \A k \in 1..(Len(names) + 1) : a[k] = c[k]
    BY <2>1, <2>2, <2>4, <2>5, <2>6
  <2>8. a = c
    BY <2>4, <2>6, <2>7, SeqEqual
  <2> QED
    BY <2>8 DEF a, b, c
<1>5. Join(names) = Slash \o FlattenSeq(closed(names)) /\ Join(more) = Slash \o FlattenSeq(closed(more))
  BY DEF Join
<1> DEFINE x == FlattenSeq(closed(names))
           y == name \o Slash
<1>6. FlattenSeq(closed(more)) = x \o y /\ x \in Text
  BY <1>2, <1>3, <1>4, FlattenAppend
<1> HIDE DEF closed, more, x
<1>7. Slash \o (x \o y) = (Slash \o x) \o y
  BY <1>1, <1>2, <1>6, Regrouped
<1>8. Slash \o x \in Text /\ Slash \o x # << >>
  <2>1. Slash # << >>
    BY DEF Slash
  <2> QED
    BY <1>1, <1>6, <2>1, Joined
<1>9. (Slash \o x) \o y = ((Slash \o x) \o name) \o Slash
  BY <1>1, <1>8, Regrouped
<1> QED
  BY <1>5, <1>6, <1>7, <1>8, <1>9 DEF more, x

LEMMA JoinOfNone == Join(<< >>) = Slash
<1> DEFINE none == [k \in DOMAIN << >> |-> << >>[k] \o Slash]
<1>1. none = << >>
  OBVIOUS
<1>2. FlattenSeq(none) = << >>
  BY <1>1 DEF FlattenSeq
<1>3. Slash \o << >> = Slash
  BY SlashIs, ConcatEmptySeq DEF Text
<1> QED
  BY <1>2, <1>3 DEF Join

LEMMA JoinEnds ==
  ASSUME NEW names \in Seq(Name)
  PROVE  Join(names) \in Text /\ Join(names) # << >> /\ Last(Join(names)) = "/"
<1>1. CASE names = << >>
  <2>1. Slash # << >> /\ Last(Slash) = "/"
    BY SlashIs DEF Last, Slash
  <2> QED
    BY <1>1, <2>1, JoinOfNone, SlashIs
<1>2. CASE names # << >>
  <2>1. PICK front \in Seq(Name), name \in Name : names = Append(front, name)
    BY <1>2, SequenceEmptyOrAppend
  <2>2. Join(names) = (Join(front) \o name) \o Slash /\ Join(front) \in Text
    BY <2>1, JoinAppend
  <2>3. name \in Text
    BY DEF Name, Letter, Text
  <2>4. Join(front) \o name \in Text
    BY <2>2, <2>3, Joined
  <2> QED
    BY <2>2, <2>4, SlashBehind
<1> QED
  BY <1>1, <1>2

-----------------------------------------------------------------------------
(* Paths made complete *)

\* address_convertor gives the text it starts with a '/' at its end.
Closed(p) == IF EndsIn(p, "/") THEN p ELSE p \o Slash
Behind(path, k) == Drop(path, IF Len(path) > k /\ path[k + 1] = "/" THEN k + 1 ELSE k)
Begun(path) ==
  IF Starts(path, <<".", ".">>) THEN get_parent_path(current_path) \o Behind(path, 2)
  ELSE IF path[1] = "." THEN current_path \o Behind(path, 1)
  ELSE IF path[1] # "/" THEN current_path \o path
  ELSE path

LEMMA Converts ==
  ASSUME NEW path
  PROVE  address_convertor(path) = Closed(Begun(path))
BY Zenon DEF address_convertor, Closed, Begun, Behind

LEMMA ClosedIs ==
  ASSUME NEW p \in Text
  PROVE  /\ Closed(p) \in Text /\ Closed(p) # << >> /\ Last(Closed(p)) = "/"
         /\ p # << >> => Closed(p)[1] = p[1]
         /\ Tokens(Closed(p)) = Tokens(p)
<1>1. CASE EndsIn(p, "/")
  BY <1>1 DEF Closed, EndsIn
<1>2. CASE ~EndsIn(p, "/")
  <2>1. Closed(p) = p \o Slash
    BY <1>2 DEF Closed
  <2>2. p # << >> => 1 \in 1..Len(p)
    BY DEF Text
  <2> QED
    BY <2>1, <2>2, SlashBehind, TokensSlash
<1> QED
  BY <1>1, <1>2

LEMMA DropTyped ==
  ASSUME NEW p \in Text, NEW k \in Nat
  PROVE  Drop(p, k) \in Text
<1>1. p \in Seq(Chars) /\ Len(p) \in Nat /\ k + 1 \in Int
  BY DEF Text
<1>2. \A i \in (k + 1)..Len(p) : p[i] \in Chars
  BY <1>1
<1> QED
  BY <1>1, <1>2, SubSeqProperties DEF Drop, Text

LEMMA BehindTyped ==
  ASSUME NEW p \in Text, NEW k \in Nat
  PROVE  Behind(p, k) \in Text
BY DropTyped DEF Behind

\* The working directory is a text, and a path while a device is mounted; the
\* last delete or undelete marked what it should.
SessionInv ==
  /\ current_path \in Text /\ current_path # << >>
  /\ CwdIsAPath /\ MarksWhatItFrees

LEMMA BegunTyped ==
  ASSUME SessionInv, NEW path \in Text, path # << >>
  PROVE  /\ Begun(path) \in Text /\ Begun(path) # << >>
         /\ mounted => Begun(path)[1] = "/"
<1> DEFINE up == get_parent_path(current_path)
<1>1. current_path \in Text /\ current_path # << >> /\ (mounted => current_path[1] = "/")
  BY DEF SessionInv, CwdIsAPath
<1>2. up \in Text /\ up # << >> /\ (mounted => up[1] = "/")
  BY <1>1, ParentTyped
<1>3. ASSUME NEW a \in Text, a # << >>, mounted => a[1] = "/", NEW b \in Text
      PROVE  a \o b \in Text /\ a \o b # << >> /\ (mounted => (a \o b)[1] = "/")
  <2>1. 1 \in 1..Len(a)
    BY <1>3 DEF Text
  <2> QED
    BY <1>3, <2>1, Joined
<1>4. Behind(path, 1) \in Text /\ Behind(path, 2) \in Text
  BY BehindTyped
<1> HIDE DEF up
<1>5. CASE Starts(path, <<".", ".">>)
  BY <1>2, <1>3, <1>4, <1>5 DEF Begun, up
<1>6. CASE ~Starts(path, <<".", ".">>) /\ path[1] = "."
  BY <1>1, <1>3, <1>4, <1>6 DEF Begun
<1>7. CASE ~Starts(path, <<".", ".">>) /\ path[1] # "." /\ path[1] # "/"
  BY <1>1, <1>3, <1>7 DEF Begun
<1>8. CASE ~Starts(path, <<".", ".">>) /\ path[1] # "." /\ path[1] = "/"
  BY <1>8 DEF Begun
<1> QED
  BY <1>5, <1>6, <1>7, <1>8

LEMMA ConvertTyped ==
  ASSUME SessionInv, NEW path \in Text, path # << >>
  PROVE  LET p == address_convertor(path)
         IN  /\ p \in Text /\ p # << >> /\ Last(p) = "/"
             /\ mounted => p[1] = "/"
             /\ Tokens(p) = Tokens(Begun(path))
BY BegunTyped, ClosedIs, Converts

\* cd .. goes to the path without its last name.
LEMMA UpIs ==
  ASSUME SessionInv
  PROVE  UpIsParent
<1> SUFFICES ASSUME mounted, Tokens(current_path) # << >>,
                    current_path = Join(Tokens(current_path))
             PROVE  address_convertor(<<".", ".">>) = Join(Front(Tokens(current_path)))
  BY DEF UpIsParent
<1> DEFINE names == Tokens(current_path)
           dots == <<".", ".">>
<1>1. names \in Seq(Name) /\ names # << >>
  BY TokensTyped DEF SessionInv
<1> HIDE DEF names
<1>2. PICK front \in Seq(Name), name \in Name : names = Append(front, name)
  BY <1>1, SequenceEmptyOrAppend
<1>3. Front(names) = front
  BY <1>2 DEF Front
<1>4. /\ Join(front) \in Text /\ Join(front) # << >> /\ Last(Join(front)) = "/"
      /\ current_path = (Join(front) \o name) \o Slash
  BY <1>2, JoinEnds, JoinAppend DEF names
<1>5. get_parent_path(current_path) = Join(front)
  BY <1>4, ParentOf
<1>6. Starts(dots, dots) /\ Behind(dots, 2) = << >>
  <2>1. dots \in Text /\ Len(dots) = 2
    BY SessionAssumption DEF Text
  <2>2. Drop(dots, 2) = << >>
    BY <2>1, SubSeqEmpty DEF Drop
  <2> QED
    BY <2>1, <2>2 DEF Starts, IsPrefix, Behind
<1>7. Begun(dots) = Join(front)
  <2>1. Join(front) \o << >> = Join(front)
    BY <1>4, ConcatEmptySeq DEF Text
  <2> QED
    BY <1>5, <1>6, <2>1 DEF Begun
<1>8. Closed(Join(front)) = Join(front)
  BY <1>4 DEF Closed, EndsIn
<1> QED
  BY <1>3, <1>7, <1>8, Converts DEF names

-----------------------------------------------------------------------------
(* What find finds *)

\* A text is what is in front of a place in it and what is behind.
LEMMA Parted ==
  ASSUME NEW q \in Text, NEW k \in 0..Len(q)
  PROVE  LET a == SubSeq(q, 1, k)
             b == SubSeq(q, k + 1, Len(q))
         IN  /\ a \in Text /\ Len(a) = k /\ \A i \in 1..k : a[i] = q[i]
             /\ b \in Text /\ Len(b) = Len(q) - k /\ \A i \in 1..(Len(q) - k) : b[i] = q[k + i]
             /\ q = a \o b
<1> DEFINE a == SubSeq(q, 1, k)
           b == SubSeq(q, k + 1, Len(q))
           c == a \o b
           n == Len(q)
<1>1. q \in Seq(Chars) /\ n \in Nat /\ k \in 0..n
  BY DEF Text
<1>2. a \in Seq(Chars) /\ Len(a) = k /\ \A i \in 1..k : a[i] = q[i]
  BY <1>1
<1>3. b \in Seq(Chars) /\ Len(b) = n - k /\ \A i \in 1..(n - k) : b[i] = q[k + i]
  BY <1>1
<1> HIDE DEF a, b
<1>4. /\ c \in Seq(Chars) /\ Len(c) = k + (n - k)
      /\ \A i \in 1..k : c[i] = a[i]
      /\ \A i \in 1..(n - k) : c[k + i] = b[i]
  <2>1. a \in Text /\ b \in Text
    BY <1>2, <1>3 DEF Text
  <2>2. /\ c \in Text /\ Len(c) = Len(a) + Len(b)
        /\ \A i \in 1..Len(a) : c[i] = a[i]
        /\ \A i \in 1..Len(b) : c[Len(a) + i] = b[i]
    BY <2>1, Joined
  <2> HIDE DEF c, n
  <2> QED
    BY <1>2, <1>3, <2>2 DEF Text
<1> HIDE DEF c, n
<1>5. ASSUME NEW i \in 1..n PROVE c[i] = q[i]
  <2>1. CASE i \in 1..k
    BY <1>2, <1>4, <2>1
  <2>2. CASE i \notin 1..k
    <3>1. i - k \in 1..(n - k) /\ k + (i - k) = i
      BY <1>1, <2>2
    <3>2. c[k + (i - k)] = b[i - k] /\ b[i - k] = q[k + (i - k)]
      BY <1>3, <1>4, <3>1
    <3> QED
      BY <3>1, <3>2
  <2> QED
    BY <2>1, <2>2
<1>6. Len(c) = n
  BY <1>1, <1>4
<1>7. c = q
  BY <1>1, <1>4, <1>5, <1>6, SeqEqual DEF n
<1> QED
  BY <1>2, <1>3, <1>7 DEF a, b, c, n, Text

LEMMA FrontIs ==
  ASSUME NEW p \in Text, p # << >>, Last(p) = "/"
  PROVE  /\ p = Front(p) \o Slash /\ Front(p) \in Text
         /\ Len(p) \in Nat /\ Len(p) >= 1 /\ Len(Front(p)) = Len(p) - 1
         /\ \A i \in 1..(Len(p) - 1) : Front(p)[i] = p[i]
<1> DEFINE n == Len(p)
           j == n - 1
           a == SubSeq(p, 1, j)
           b == SubSeq(p, j + 1, n)
<1>1. p \in Seq(Chars) /\ n \in Nat /\ n >= 1 /\ p[n] = "/"
  BY DEF Text, Last
<1>2. j \in 0..n /\ j + 1 = n /\ n - j = 1
  BY <1>1
<1>3. /\ a \in Text /\ Len(a) = j /\ \A i \in 1..j : a[i] = p[i]
      /\ b \in Text /\ Len(b) = 1 /\ b[1] = p[n]
      /\ p = a \o b
  <2> HIDE DEF j
  <2>1. /\ a \in Text /\ Len(a) = j /\ \A i \in 1..j : a[i] = p[i]
        /\ b \in Text /\ Len(b) = n - j /\ \A i \in 1..(n - j) : b[i] = p[j + i]
        /\ p = a \o b
    BY <1>2, Parted
  <2>2. 1 \in 1..(n - j)
    BY <1>2
  <2> QED
    BY <1>2, <2>1, <2>2
<1> HIDE DEF b
<1>4. b = Slash
  <2>1. \A i \in 1..1 : b[i] = Slash[i]
    BY <1>1, <1>3, SlashIs
  <2>2. b \in Seq(Chars) /\ Slash \in Seq(Chars) /\ Len(b) = 1 /\ Len(Slash) = 1
    BY <1>3, SlashIs DEF Text
  <2> QED
    BY <2>1, <2>2, SeqEqual
<1>5. Front(p) = a
  BY DEF Front
<1> HIDE DEF a
<1>6. p = a \o Slash
  BY Zenon, <1>3, <1>4
<1> QED
  BY <1>1, <1>3, <1>5, <1>6

\* A path other than / and without two '/' in a row is a name behind the path
\* of its parent, which is / or has names too.
LEMMA PathIs ==
  ASSUME NEW path, IsPath(path), path # Slash, ~Doubled(path)
  PROVE  \E p \in Text, name \in Name :
           /\ path = (p \o name) \o Slash
           /\ p # << >> /\ Last(p) = "/"
           /\ p = Slash \/ Tokens(p) # << >>
<1> DEFINE n == Len(path)
           m == n - 1
           q == SubSeq(path, 1, m)
           k == CutAt(q)
           p == SubSeq(q, 1, k)
           name == SubSeq(q, k + 1, m)
<1>1. path \in Text /\ n \in Nat /\ path[1] = "/" /\ path[n] = "/" /\ n >= 1
  BY DEF IsPath, Text, Last
<1>2. n >= 2
  <2>1. CASE n = 1
    <3>1. \A i \in 1..1 : path[i] = Slash[i]
      BY <1>1, SlashIs
    <3>2. path \in Seq(Chars) /\ Slash \in Seq(Chars) /\ Len(path) = Len(Slash)
      BY <1>1, <2>1, SlashIs DEF Text
    <3>3. path = Slash
      BY <2>1, <3>1, <3>2, SeqEqual
    <3> QED
      BY <3>3
  <2> QED
    BY <1>1, <2>1
<1>3. \A i \in 2..n : ~(path[i] = "/" /\ path[i - 1] = "/")
  BY DEF Doubled
<1>4. /\ q \in Text /\ Len(q) = m /\ \A i \in 1..m : q[i] = path[i]
      /\ path = q \o Slash
  BY FrontIs DEF IsPath, Front
<1> HIDE DEF q
<1>5. /\ k \in Nat \ {0} /\ (k = 1 \/ (k \in 2..m /\ q[k] = "/"))
      /\ \A j \in 2..m : j > k => q[j] # "/"
  BY <1>4, CutTyped
<1> HIDE DEF k
<1>6. q[m] # "/"
  <2>1. n \in 2..n /\ n - 1 = m /\ m \in 1..m
    BY <1>1, <1>2
  <2>2. path[m] # "/"
    BY <1>1, <1>3, <2>1
  <2> QED
    BY <1>4, <2>1, <2>2
<1>7. m \in Nat /\ k < m /\ q[k] = "/" /\ k \in 1..m
  <2>1. 1 \in 1..m
    BY <1>1, <1>2
  <2>2. q[1] = "/"
    BY <1>1, <1>4, <2>1
  <2> QED
    BY <1>1, <1>2, <1>5, <1>6, <2>2
<1> HIDE DEF m
<1>8. /\ p \in Text /\ Len(p) = k /\ \A i \in 1..k : p[i] = q[i]
      /\ name \in Text /\ Len(name) = m - k /\ \A i \in 1..(m - k) : name[i] = q[k + i]
      /\ q = p \o name
  <2>1. k \in 0..Len(q)
    BY <1>4, <1>7
  <2> QED
    BY <1>4, <2>1, Parted
<1> HIDE DEF p, name
<1>9. name \in Name
  <2>1. \A i \in 1..(m - k) : k + i \in 2..m /\ k + i > k
    BY <1>7
  <2>2. ASSUME NEW i \in 1..(m - k) PROVE name[i] # "/"
    <3>1. q[k + i] # "/"
      BY <1>5, <2>1
    <3> QED
      BY Zenon, <1>8, <3>1
  <2>3. name \in Seq(Chars) /\ Len(name) = m - k /\ m - k \in Nat \ {0}
    BY <1>7, <1>8 DEF Text
  <2>4. \A i \in 1..Len(name) : name[i] \in Letter
    BY <2>2, <2>3 DEF Letter
  <2>5. name \in Seq(Letter)
    BY <2>3, <2>4
  <2> QED
    BY <2>3, <2>5 DEF Name
<1>10. p # << >> /\ Last(p) = "/"
  BY <1>7, <1>8 DEF Last, Text
<1>11. p = Slash \/ Tokens(p) # << >>
  <2>1. CASE k = 1
    <3>1. p \in Seq(Chars) /\ Slash \in Seq(Chars) /\ Len(Slash) = 1 /\ \A i \in 1..1 : p[i] = Slash[i]
      BY <1>7, <1>8, <2>1, SlashIs DEF Text
    <3>2. p = Slash
      BY <1>8, <2>1, <3>1, SeqEqual
    <3> QED
      BY <3>2
  <2>2. CASE k # 1
    <3> DEFINE r == Front(p)
    <3>1. k \in 2..n /\ k - 1 \in 1..m /\ k \in 2..m
      BY <1>1, <1>2, <1>7, <2>2 DEF m
    <3>2. q[k - 1] # "/"
      BY <1>3, <1>4, <1>7, <3>1
    <3>3. k - 1 \in 1..k
      BY <3>1
    <3>4. p[k - 1] # "/"
      BY <1>8, <3>2, <3>3
    <3>5. p = r \o Slash /\ r \in Text /\ Len(r) = k - 1 /\ \A i \in 1..(k - 1) : r[i] = p[i]
      BY <1>8, <1>10, FrontIs
    <3> HIDE DEF r
    <3>6. r # << >> /\ Last(r) # "/"
      BY <3>1, <3>4, <3>5 DEF Last, Text
    <3> QED
      BY <3>5, <3>6, TokensTyped, TokensSlash
  <2> QED
    BY <2>1, <2>2
<1>12. path = (p \o name) \o Slash
  BY Zenon, <1>4, <1>8
<1> QED
  BY Zenon, <1>8, <1>9, <1>10, <1>11, <1>12

\* What search may return for a name of a path in a directory.
Found == {None} \cup {search(d, n) : d \in Folders \cup {Root}, n \in Name}

LEMMA SearchFinds ==
  ASSUME NEW d \in Folders \cup {Root}, NEW n \in Name
  PROVE  search(d, n) \in Found
BY DEF Found

LEMMA SearchIn ==
  ASSUME NEW d, NEW n, search(d, n) # None
  PROVE  search(d, n)[1] = d
<1> DEFINE hits == {k \in DOMAIN Entries[d] : NameOf(<<d, k>>) = n}
           c == CHOOSE k \in hits : \A j \in hits : k <= j
<1>1. search(d, n) = IF hits = {} THEN None ELSE <<d, c>>
  BY Zenon DEF search
<1> HIDE DEF hits, c
<1>2. search(d, n) = <<d, c>>
  BY <1>1
<1> QED
  BY <1>2

\* The entries find comes by on the way to each name.
Next1(entry, name) == IF Parses(entry) THEN search(Named(entry), name) ELSE None
Step(tokens, w, k) ==
  IF k = 1 THEN <<search(Root, Head(tokens))>>
  ELSE LET before == w[k - 1] IN Append(before, Next1(Last(before), tokens[k]))
Walks(tokens, n, w) == w = [k \in 1..n |-> Step(tokens, w, k)]

LEMMA WalksSome ==
  ASSUME NEW tokens, NEW n \in Nat
  PROVE  \E w : Walks(tokens, n, w)
<1> DEFINE P == {m \in Nat : \E w : Walks(tokens, m, w)}
<1>1. 0 \in P
  <2> DEFINE w == [k \in 1..0 |-> << >>]
  <2>1. \A v : [k \in 1..0 |-> Step(tokens, v, k)] = w
    OBVIOUS
  <2> HIDE DEF w
  <2>2. Walks(tokens, 0, w)
    BY <2>1 DEF Walks
  <2> QED
    BY <2>2
<1>2. ASSUME NEW m \in 0..(n - 1), m \in P PROVE m + 1 \in P
  <2>1. m \in Nat /\ m + 1 \in Nat
    OBVIOUS
  <2>2. PICK w : Walks(tokens, m, w)
    BY <1>2
  <2> DEFINE g == [k \in 1..(m + 1) |-> IF k = m + 1 THEN Step(tokens, w, k) ELSE w[k]]
  <2>3. \A k \in 1..m : g[k] = w[k]
    BY <2>1
  <2>4. g[m + 1] = Step(tokens, w, m + 1) /\ DOMAIN g = 1..(m + 1)
    BY <2>1
  <2>5. g = [k \in 1..(m + 1) |-> g[k]]
    OBVIOUS
  <2> HIDE DEF g
  <2>6. \A k \in 1..(m + 1) : k # 1 => g[k - 1] = w[k - 1]
    BY <2>1, <2>3
  <2>7. \A k \in 1..(m + 1) : Step(tokens, g, k) = Step(tokens, w, k)
    BY <2>6 DEF Step
  <2>8. \A k \in 1..m : w[k] = Step(tokens, w, k)
    BY <2>2 DEF Walks
  <2>9. \A k \in 1..(m + 1) : k \in 1..m \/ k = m + 1
    BY <2>1
  <2>10. \A k \in 1..(m + 1) : g[k] = Step(tokens, g, k)
    BY <2>3, <2>4, <2>7, <2>8, <2>9
  <2>11. Walks(tokens, m + 1, g)
    BY <2>5, <2>10 DEF Walks
  <2> QED
    BY <2>1, <2>11
<1> HIDE DEF P
<1>3. 0..n \subseteq P
  BY <1>1, <1>2, UpTo
<1>4. n \in P
  BY <1>3
<1> QED
  BY <1>4 DEF P

LEMMA FindIs ==
  ASSUME mounted, NEW path \in Text, Tokens(path) # << >>
  PROVE  \E w : /\ Walks(Tokens(path), Len(Tokens(path)), w)
                /\ Way(path) = w[Len(Tokens(path))]
                /\ find(path) = Last(w[Len(Tokens(path))])
<1> DEFINE tokens == Tokens(path)
           n == Len(tokens)
           w == CHOOSE v : Walks(tokens, n, v)
<1>1. n \in Nat
  BY TokensTyped
<1>2. Walks(tokens, n, w)
  BY <1>1, WalksSome
<1>3. Way(path) = IF tokens = << >> THEN <<WildEntry>>
                  ELSE IF ~mounted THEN <<None>> ELSE w[n]
  BY Zenon DEF Way, Walks, Step, Next1
<1>4. Way(path) = w[n]
  BY <1>3
<1> HIDE DEF w, n
<1>5. find(path) = Last(w[n])
  BY <1>4 DEF find
<1> QED
  BY <1>2, <1>4, <1>5 DEF n

LEMMA WalkIs ==
  ASSUME NEW tokens, NEW n \in Nat, NEW w, Walks(tokens, n, w), NEW k \in 1..n
  PROVE  w[k] = Step(tokens, w, k)
BY DEF Walks

LEMMA NextFound ==
  ASSUME NEW entry, NEW name \in Name
  PROVE  Next1(entry, name) \in Found
<1>1. CASE Parses(entry)
  <2>1. Named(entry) \in Folders \cup {Root}
    BY <1>1 DEF Parses
  <2>2. search(Named(entry), name) \in Found
    BY <2>1, SearchFinds
  <2> QED
    BY <1>1, <2>2 DEF Next1
<1>2. CASE ~Parses(entry)
  BY <1>2 DEF Next1, Found
<1> QED
  BY <1>1, <1>2

\* Two paths that share their first names are walked alike that far.
LEMMA WalkTogether ==
  ASSUME NEW ss \in Seq(Name), NEW tt, NEW n \in Nat, NEW m \in Nat,
         n <= m, n <= Len(ss), NEW v, NEW w, Walks(ss, n, v), Walks(tt, m, w),
         \A k \in 1..n : ss[k] = tt[k]
  PROVE  \A k \in 1..n : v[k] = w[k] /\ v[k] \in Seq(Found) /\ v[k] # << >>
<1> DEFINE P == {k \in 0..n : k = 0 \/ (v[k] = w[k] /\ v[k] \in Seq(Found) /\ v[k] # << >>)}
<1>1. 0 \in P
  OBVIOUS
<1>2. ASSUME NEW k \in 0..(n - 1), k \in P PROVE k + 1 \in P
  <2>1. /\ k + 1 \in 1..n /\ k + 1 \in 0..n /\ k + 1 \in 1..m /\ (k + 1) - 1 = k
        /\ k + 1 \in 1..Len(ss)
    OBVIOUS
  <2>2. v[k + 1] = Step(ss, v, k + 1) /\ w[k + 1] = Step(tt, w, k + 1)
    BY <2>1, WalkIs
  <2>3. ss[k + 1] = tt[k + 1] /\ ss[k + 1] \in Name
    BY <2>1
  <2>4. CASE k = 0
    <3> DEFINE a == search(Root, ss[1])
    <3>1. k + 1 = 1 /\ Head(ss) = ss[1] /\ Head(tt) = tt[1]
      BY <2>4
    <3>2. v[k + 1] = <<a>> /\ w[k + 1] = <<a>>
      BY <2>2, <2>3, <3>1 DEF Step
    <3>3. a \in Found
      BY <2>3, <3>1, SearchFinds
    <3> HIDE DEF a
    <3>4. <<a>> \in Seq(Found) /\ <<a>> # << >>
      BY <3>3
    <3> QED
      BY <2>1, <3>2, <3>4
  <2>5. CASE k # 0
    <3> DEFINE b == v[k]
               a == Next1(Last(b), ss[k + 1])
    <3>1. v[k] = w[k] /\ b \in Seq(Found) /\ k + 1 # 1
      BY <1>2, <2>5
    <3>2. v[k + 1] = Append(b, a) /\ w[k + 1] = Append(b, a)
      BY <2>1, <2>2, <2>3, <3>1 DEF Step
    <3>3. a \in Found
      BY <2>3, NextFound
    <3> HIDE DEF a, b
    <3>4. Append(b, a) \in Seq(Found) /\ Append(b, a) # << >>
      BY <3>1, <3>3
    <3> QED
      BY <2>1, <3>2, <3>4
  <2> QED
    BY <2>4, <2>5
<1> HIDE DEF P
<1>3. 0..n \subseteq P
  BY <1>1, <1>2, UpTo
<1>4. \A k \in 1..n : k \in 0..n /\ k # 0
  OBVIOUS
<1> QED
  BY <1>3, <1>4 DEF P

\* A path of one name leads into the root.
LEMMA FindInRoot ==
  ASSUME mounted, NEW path \in Text, NEW name \in Name, Tokens(path) = <<name>>
  PROVE  find(path) = search(Root, name)
<1>1. Tokens(path) # << >> /\ Len(Tokens(path)) = 1 /\ Head(Tokens(path)) = name
  OBVIOUS
<1>2. PICK w : Walks(Tokens(path), 1, w) /\ find(path) = Last(w[1])
  BY <1>1, FindIs
<1>3. w[1] = <<search(Root, name)>>
  <2>1. 1 \in 1..1 /\ 1 \in Nat
    OBVIOUS
  <2>2. w[1] = Step(Tokens(path), w, 1)
    BY Zenon, <1>2, <2>1, WalkIs
  <2> QED
    BY Zenon, <1>1, <2>2 DEF Step
<1>4. \A e : Last(<<e>>) = e
  BY DEF Last
<1> QED
  BY <1>2, <1>3, <1>4

\* One more name leads from what the names in front of it find.
LEMMA FindBelow ==
  ASSUME mounted, NEW p \in Text, NEW path \in Text, NEW name \in Name,
         Tokens(p) # << >>, Tokens(path) = Append(Tokens(p), name)
  PROVE  find(path) = Next1(find(p), name)
<1> DEFINE ss == Tokens(p)
           tt == Tokens(path)
           n == Len(ss)
<1>1. ss \in Seq(Name) /\ n \in Nat \ {0}
  BY TokensTyped
<1>2. tt # << >> /\ Len(tt) = n + 1 /\ tt[n + 1] = name /\ \A k \in 1..n : ss[k] = tt[k]
  BY <1>1
<1>3. PICK v : Walks(ss, n, v) /\ find(p) = Last(v[n])
  BY FindIs
<1>4. PICK w : Walks(tt, n + 1, w) /\ find(path) = Last(w[n + 1])
  BY <1>2, FindIs
<1> HIDE DEF ss, tt
<1>5. /\ n + 1 \in Nat /\ n <= n + 1 /\ n <= Len(ss) /\ n \in 1..n
      /\ n + 1 \in 1..(n + 1) /\ (n + 1) - 1 = n /\ n + 1 # 1
  BY <1>1
<1> HIDE DEF n
<1>6. v[n] = w[n] /\ v[n] \in Seq(Found) /\ v[n] # << >>
  <2> DEFINE m == n + 1
  <2>1. m \in Nat /\ n \in Nat /\ n <= m /\ Walks(tt, m, w)
    BY <1>1, <1>4, <1>5
  <2> HIDE DEF m
  <2>2. \A k \in 1..n : v[k] = w[k] /\ v[k] \in Seq(Found) /\ v[k] # << >>
    BY <1>1, <1>2, <1>3, <1>5, <2>1, WalkTogether
  <2> QED
    BY <1>5, <2>2
<1>7. w[n + 1] = Step(tt, w, n + 1)
  BY <1>4, <1>5, WalkIs
<1>8. w[n + 1] = Append(v[n], Next1(find(p), name))
  BY <1>2, <1>3, <1>5, <1>6, <1>7 DEF Step
<1> DEFINE b == v[n]
           a == Next1(find(p), name)
<1>9. a \in Found /\ b \in Seq(Found)
  BY <1>6, NextFound
<1> HIDE DEF a, b
<1>10. Last(Append(b, a)) = a
  BY <1>9 DEF Last
<1> QED
  BY <1>4, <1>8, <1>10 DEF a, b

LEMMA TokensOfSlash == Tokens(Slash) = << >>
<1>1. << >> \in Text
  BY DEF Text
<1>2. << >> \o Slash = Slash
  BY SlashIs, ConcatEmptySeq DEF Text
<1>3. Tokens(<< >> \o Slash) = Tokens(<< >>)
  BY Zenon, <1>1, TokensSlash
<1> QED
  BY Zenon, <1>2, <1>3, TokensOfNone

\* What find finds by a path is in the directory it finds by its parent.
LEMMA InItsParent ==
  ASSUME mounted, NEW path, IsPath(path), ~Doubled(path),
         find(path) \notin {None, WildEntry}
  PROVE  find(path)[1] = IF get_parent_path(path) = Slash THEN Root
                         ELSE Named(find(get_parent_path(path)))
<1>1. path # Slash
  <2>1. Tokens(path) = << >> => find(path) = Last(<<WildEntry>>)
    BY DEF find, Way
  <2>2. Last(<<WildEntry>>) = WildEntry
    BY DEF Last
  <2> QED
    BY TokensOfSlash, <2>1, <2>2
<1>2. PICK p \in Text, name \in Name :
        /\ path = (p \o name) \o Slash
        /\ p # << >> /\ Last(p) = "/"
        /\ p = Slash \/ Tokens(p) # << >>
  BY <1>1, PathIs
<1>3. get_parent_path(path) = p
  BY <1>2, ParentOf
<1>4. path \in Text /\ Tokens(path) = Append(Tokens(p), name)
  <2>1. name \in Text
    BY DEF Name, Letter, Text
  <2>2. p \o name \in Text
    BY <2>1, Joined
  <2>3. Tokens(p \o name) = Append(Tokens(p), name)
    BY <1>2, TokensName
  <2>4. Tokens((p \o name) \o Slash) = Tokens(p \o name)
    BY <2>2, TokensSlash
  <2> QED
    BY <1>2, <2>3, <2>4 DEF IsPath
<1>5. CASE p = Slash
  <2>2. Tokens(path) = <<name>>
    <3>1. \A e : Append(<< >>, e) = <<e>>
      OBVIOUS
    <3> QED
      BY Zenon, <1>4, <1>5, TokensOfSlash, <3>1
  <2>3. find(path) = search(Root, name)
    BY <1>4, <2>2, FindInRoot
  <2> QED
    BY <1>3, <1>5, <2>3, SearchIn
<1>6. CASE p # Slash
  <2>1. find(path) = Next1(find(p), name)
    BY <1>2, <1>4, <1>6, FindBelow
  <2>2. find(path) = search(Named(find(p)), name)
    BY <2>1 DEF Next1
  <2> QED
    BY <1>3, <1>6, <2>2, SearchIn
<1> QED
  BY <1>5, <1>6

-----------------------------------------------------------------------------
(* What undelete looks for *)

LEMMA DropJoined ==
  ASSUME NEW u \in Text, NEW z \in Text, NEW j \in 0..Len(u)
  PROVE  Drop(u \o z, j) = Drop(u, j) \o z
<1> DEFINE a == SubSeq(u, 1, j)
           b == SubSeq(u, j + 1, Len(u))
           c == b \o z
<1>1. a \in Text /\ Len(a) = j /\ b \in Text /\ u = a \o b
  BY Parted
<1>2. u \o z = a \o c
  <2>1. (a \o b) \o z = a \o (b \o z)
    BY <1>1, Regrouped
  <2> QED
    BY Zenon, <1>1, <2>1
<1>3. c \in Text
  BY <1>1, Joined
<1>4. Drop(u, j) = b
  BY DEF Drop
<1> HIDE DEF a, b, c
<1>5. SubSeq(a \o c, Len(a) + 1, Len(a) + Len(c)) = c /\ Len(a \o c) = Len(a) + Len(c)
  BY <1>1, <1>3, Joined
<1>6. Drop(a \o c, j) = c
  BY <1>1, <1>5 DEF Drop
<1> QED
  BY <1>2, <1>4, <1>6 DEF c

\* The part of a path that ends with a '/' goes on doing so.
LEMMA DropEnds ==
  ASSUME NEW u \in Text, Last(u) = "/", NEW j \in 0..Len(u)
  PROVE  Drop(u, j) = << >> \/ Last(Drop(u, j)) = "/"
<1> DEFINE b == SubSeq(u, j + 1, Len(u))
           n == Len(u)
<1>1. b \in Text /\ Len(b) = n - j /\ \A i \in 1..(n - j) : b[i] = u[j + i]
  BY Parted
<1>2. n \in Nat
  BY DEF Text
<1>3. b # << >> => Len(b) # 0
  BY <1>1 DEF Text
<1>4. Drop(u, j) = b
  BY DEF Drop
<1> HIDE DEF b, n
<1>5. ASSUME b # << >> PROVE Last(b) = "/"
  <2>1. n - j \in 1..(n - j) /\ j + (n - j) = n
    BY <1>1, <1>2, <1>3, <1>5 DEF n
  <2>2. b[n - j] = u[n]
    BY <1>1, <2>1
  <2> QED
    BY <1>1, <2>2 DEF Last, n
<1> QED
  BY <1>4, <1>5

LEMMA StartsWithDots ==
  ASSUME NEW p \in Text
  PROVE  Starts(p, <<".", ".">>) <=> Len(p) >= 2 /\ p[1] = "." /\ p[2] = "."
<1> DEFINE dots == <<".", ".">>
<1>1. p \in Seq(Chars) /\ Len(p) \in Nat /\ dots \in Seq(Chars) /\ Len(dots) = 2
      /\ dots[1] = "." /\ dots[2] = "."
  BY SessionAssumption DEF Text
<1> HIDE DEF dots
<1>2. Starts(p, dots) <=> Len(p) >= 2 /\ \A i \in 1..2 : p[i] = dots[i]
  <2>1. ASSUME Len(p) >= 2
        PROVE  SubSeq(p, 1, 2) = SubSeq(dots, 1, 2) <=> \A i \in 1..2 : p[i] = dots[i]
    <3> DEFINE a == SubSeq(p, 1, 2)
               b == SubSeq(dots, 1, 2)
    <3>1. a \in Seq(Chars) /\ Len(a) = 2 /\ \A i \in 1..2 : a[i] = p[i]
      BY <1>1, <2>1
    <3>2. b \in Seq(Chars) /\ Len(b) = 2 /\ \A i \in 1..2 : b[i] = dots[i]
      <4>1. b = dots
        BY <1>1, SubSeqFull
      <4> QED
        BY <1>1, <4>1
    <3> HIDE DEF a, b
    <3>3. (\A i \in 1..2 : a[i] = b[i]) => a = b
      BY <3>1, <3>2, SeqEqual
    <3> QED
      BY <3>1, <3>2, <3>3 DEF a, b
  <2> QED
    BY <1>1, <2>1 DEF Starts, IsPrefix
<1>3. (\A i \in 1..2 : p[i] = dots[i]) <=> p[1] = "." /\ p[2] = "."
  BY <1>1
<1> QED
  BY <1>2, <1>3 DEF dots

Skipped(u, k) == IF k < Len(u) /\ u[k + 1] = "/" THEN k + 1 ELSE k

LEMMA BehindJoined ==
  ASSUME NEW u \in Text, NEW k \in 0..Len(u), NEW x \in Text, x # << >>, x[1] # "/"
  PROVE  Behind(u \o x, k) = Drop(u, Skipped(u, k)) \o x
<1> DEFINE p == u \o x
<1>1. /\ Len(p) = Len(u) + Len(x) /\ Len(u) \in Nat /\ Len(x) \in Nat /\ Len(x) # 0
      /\ \A i \in 1..Len(u) : p[i] = u[i]
      /\ \A i \in 1..Len(x) : p[Len(u) + i] = x[i]
  <2>1. Len(x) # 0
    BY DEF Text
  <2> QED
    BY <2>1, Joined
<1>2. Behind(p, k) = Drop(p, IF Len(p) > k /\ p[k + 1] = "/" THEN k + 1 ELSE k)
  BY DEF Behind
<1> HIDE DEF p
<1>3. Len(p) > k /\ p[k + 1] = "/" <=> k < Len(u) /\ u[k + 1] = "/"
  <2>1. CASE k < Len(u)
    <3>1. k + 1 \in 1..Len(u) /\ Len(p) > k
      BY <1>1, <2>1
    <3> QED
      BY <1>1, <2>1, <3>1
  <2>2. CASE ~(k < Len(u))
    <3>1. k = Len(u) /\ 1 \in 1..Len(x)
      BY <1>1, <2>2
    <3>2. p[k + 1] = x[1]
      BY <1>1, <3>1
    <3> QED
      BY <2>2, <3>2
  <2> QED
    BY <2>1, <2>2
<1>4. Skipped(u, k) \in 0..Len(u)
  BY <1>1 DEF Skipped
<1>5. Behind(p, k) = Drop(p, Skipped(u, k))
  BY <1>2, <1>3 DEF Skipped
<1> QED
  BY <1>4, <1>5, DropJoined DEF p

\* What completes a path does not depend on its last name: it ends with a '/'.
LEMMA Completed ==
  ASSUME SessionInv, mounted, NEW u \in Text,
         u = << >> \/ (Len(u) >= 2 /\ Last(u) = "/")
  PROVE  \E w \in Text :
           /\ w # << >> /\ Last(w) = "/"
           /\ \A z \in Text : z # << >> /\ z[1] # "/" /\ (u = << >> => z[1] # ".")
                               => Begun(u \o z) = w \o z
<1> DEFINE cwd == current_path
           up == get_parent_path(cwd)
           Ends(w) == w \in Text /\ w # << >> /\ Last(w) = "/"
<1>1. Ends(cwd) /\ Ends(up)
  BY ParentTyped DEF SessionInv, CwdIsAPath, EndsIn
<1> HIDE DEF up
<1>2. CASE u = << >>
  <2>1. ASSUME NEW z \in Text, z # << >>, z[1] # "/", z[1] # "."
        PROVE  Begun(u \o z) = cwd \o z
    <3>1. u \o z = z
      BY <1>2, ConcatEmptySeq DEF Text
    <3>2. ~Starts(z, <<".", ".">>)
      BY <2>1, StartsWithDots
    <3> QED
      BY <2>1, <3>1, <3>2 DEF Begun
  <2> QED
    BY <1>1, <1>2, <2>1
<1>3. CASE u # << >>
  <2>1. Len(u) \in Nat /\ Len(u) >= 2 /\ Last(u) = "/" /\ 1 \in 1..Len(u) /\ 2 \in 1..Len(u)
        /\ 1 \in 0..Len(u) /\ 2 \in 0..Len(u)
    BY <1>3 DEF Text
  <2>2. ASSUME NEW z \in Text
        PROVE  /\ u \o z \in Text /\ (u \o z)[1] = u[1]
               /\ Starts(u \o z, <<".", ".">>) <=> Starts(u, <<".", ".">>)
    <3>1. /\ u \o z \in Text /\ Len(u \o z) >= 2
          /\ (u \o z)[1] = u[1] /\ (u \o z)[2] = u[2]
      BY <2>1, Joined
    <3> QED
      BY <2>1, <3>1, StartsWithDots
  <2>3. ASSUME NEW base, Ends(base), NEW k \in {1, 2}
        PROVE  LET w == base \o Drop(u, Skipped(u, k))
               IN  /\ Ends(w)
                   /\ \A z \in Text : z # << >> /\ z[1] # "/" => base \o Behind(u \o z, k) = w \o z
    <3> DEFINE d == Drop(u, Skipped(u, k))
    <3>1. Skipped(u, k) \in 0..Len(u)
      BY <2>1 DEF Skipped
    <3>2. d \in Text /\ (d = << >> \/ Last(d) = "/")
      BY <2>1, <3>1, DropEnds, DropTyped
    <3>3. \A z \in Text : z # << >> /\ z[1] # "/" => Behind(u \o z, k) = d \o z
      BY <2>1, BehindJoined
    <3> HIDE DEF d
    <3>4. Ends(base \o d)
      <4>1. CASE d = << >>
        <5>1. base \o << >> = base
          BY <2>3, ConcatEmptySeq DEF Text
        <5> QED
          BY Zenon, <2>3, <4>1, <5>1
      <4>2. CASE d # << >>
        BY <2>3, <3>2, <4>2, Joined
      <4> QED
        BY <4>1, <4>2
    <3>5. \A z \in Text : base \o (d \o z) = (base \o d) \o z
      BY <2>3, <3>2, Regrouped
    <3>6. \A z \in Text : z # << >> /\ z[1] # "/" => base \o Behind(u \o z, k) = (base \o d) \o z
      BY Zenon, <3>3, <3>5
    <3> QED
      BY Zenon, <3>4, <3>6 DEF d
  <2>4. CASE Starts(u, <<".", ".">>)
    <3> DEFINE w == up \o Drop(u, Skipped(u, 2))
    <3>1. Ends(w) /\ \A z \in Text : z # << >> /\ z[1] # "/" => up \o Behind(u \o z, 2) = w \o z
      BY <1>1, <2>3
    <3> HIDE DEF w
    <3>2. \A z \in Text : Begun(u \o z) = up \o Behind(u \o z, 2)
      BY <2>2, <2>4 DEF Begun, up
    <3> QED
      BY Zenon, <1>3, <3>1, <3>2
  <2>5. CASE ~Starts(u, <<".", ".">>) /\ u[1] = "."
    <3> DEFINE w == cwd \o Drop(u, Skipped(u, 1))
    <3>1. Ends(w) /\ \A z \in Text : z # << >> /\ z[1] # "/" => cwd \o Behind(u \o z, 1) = w \o z
      BY <1>1, <2>3
    <3> HIDE DEF w
    <3>2. \A z \in Text : Begun(u \o z) = cwd \o Behind(u \o z, 1)
      BY <2>2, <2>5 DEF Begun
    <3> QED
      BY Zenon, <1>3, <3>1, <3>2
  <2>6. CASE ~Starts(u, <<".", ".">>) /\ u[1] # "." /\ u[1] # "/"
    <3>1. Ends(cwd \o u)
      BY <1>1, <1>3, <2>1, Joined
    <3>2. \A z \in Text : Begun(u \o z) = cwd \o (u \o z)
      BY <2>2, <2>6 DEF Begun
    <3>3. \A z \in Text : cwd \o (u \o z) = (cwd \o u) \o z
      BY <1>1, Regrouped
    <3> DEFINE w == cwd \o u
    <3>4. \A z \in Text : Begun(u \o z) = w \o z
      BY Zenon, <3>2, <3>3
    <3> HIDE DEF w
    <3> QED
      BY Zenon, <1>3, <3>1, <3>4 DEF w
  <2>7. CASE ~Starts(u, <<".", ".">>) /\ u[1] # "." /\ u[1] = "/"
    <3>1. ASSUME NEW z \in Text PROVE Begun(u \o z) = u \o z
      <4>1. ~Starts(u \o z, <<".", ".">>) /\ (u \o z)[1] = "/" /\ "/" # "."
        BY <2>2, <2>7
      <4> QED
        BY Zenon, <4>1 DEF Begun
    <3> QED
      BY Zenon, <1>3, <2>1, <3>1
  <2> QED
    BY <2>4, <2>5, <2>6, <2>7
<1> QED
  BY <1>2, <1>3

LEMMA WithMark ==
  ASSUME NEW y \in Name
  PROVE  LET z == [y EXCEPT ![1] = "?"]
         IN  /\ z \in Name /\ Len(z) = Len(y) /\ z[1] = "?"
             /\ \A i \in 1..Len(y) : z[i] = IF i = 1 THEN "?" ELSE y[i]
<1>1. y \in Seq(Letter) /\ Len(y) \in Nat /\ Len(y) # 0 /\ 1 \in 1..Len(y) /\ "?" \in Letter
  BY SessionAssumption DEF Name, Letter
<1> DEFINE z == [y EXCEPT ![1] = "?"]
<1>2. z \in Seq(Letter) /\ Len(z) = Len(y) /\ \A i \in 1..Len(y) : z[i] = IF i = 1 THEN "?" ELSE y[i]
  BY <1>1, ExceptSeq
<1> HIDE DEF z
<1>3. z \in Name /\ z[1] = "?"
  BY <1>1, <1>2 DEF Name
<1> QED
  BY <1>2, <1>3 DEF z

\* fix_deleted_char puts a '?' at the start of the last name, and hands back
\* what was there.
LEMMA FixedIs ==
  ASSUME NEW path, NEW u \in Text, u = << >> \/ (Len(u) >= 2 /\ Last(u) = "/"),
         NEW y \in Name, Chopped(path) = u \o y
  PROVE  /\ fix_deleted_char(path).char = y[1]
         /\ fix_deleted_char(path).path = u \o [y EXCEPT ![1] = "?"]
<1> DEFINE q == u \o y
           k == DeletedAt(q)
           n == Len(u)
           m == Len(y)
           z == [y EXCEPT ![1] = "?"]
           r == u \o z
<1>1. y \in Text /\ m \in Nat /\ m >= 1 /\ \A i \in 1..m : y[i] # "/"
  BY DEF Name, Letter, Text
<1>2. /\ q \in Text /\ Len(q) = n + m /\ n \in Nat
      /\ \A i \in 1..n : q[i] = u[i]
      /\ \A i \in 1..m : q[n + i] = y[i]
  BY <1>1, Joined
<1>3. \A j \in 2..Len(q) : j > n => q[j] # "/"
  <2> HIDE DEF q, n, m
  <2> SUFFICES ASSUME NEW j \in 2..Len(q), j > n PROVE q[j] # "/"
    OBVIOUS
  <2>1. j - n \in 1..m /\ n + (j - n) = j
    BY <1>1, <1>2
  <2>2. q[n + (j - n)] = y[j - n]
    BY <1>2, <2>1
  <2> QED
    BY <1>1, <2>1, <2>2
<1>4. n = 0 \/ (n >= 2 /\ u[n] = "/")
  BY DEF Last, Text
<1> HIDE DEF q
<1>5. k = n + 1
  <2>1. CASE n = 0
    <3>1. CutAt(q) = 1
      <4> DEFINE c == CutAt(q)
      <4>1. c \in Nat \ {0} /\ (c = 1 \/ (c \in 2..Len(q) /\ q[c] = "/"))
        BY <1>2, CutTyped
      <4> HIDE DEF c, n
      <4>2. c = 1
        BY <1>3, <2>1, <4>1
      <4> QED
        BY <4>2 DEF c
    <3> QED
      BY <2>1, <3>1 DEF DeletedAt
  <2>2. CASE n # 0
    <3> HIDE DEF n, m
    <3>1. n >= 2 /\ n \in 1..Len(q) /\ q[n] = "/"
      <4>1. n \in 1..n /\ n >= 2 /\ u[n] = "/"
        BY <1>2, <1>4, <2>2
      <4>2. n \in 1..Len(q)
        BY <1>1, <1>2, <4>1
      <4> QED
        BY <1>2, <4>1, <4>2
    <3>2. CutAt(q) = n
      BY <1>2, <1>3, <3>1, CutIs
    <3> QED
      BY <3>1, <3>2 DEF DeletedAt
  <2> QED
    BY <2>1, <2>2
<1>6. fix_deleted_char(path) =
        IF k > Len(q) THEN [char |-> "", path |-> Append(q, "?")]
                      ELSE [char |-> q[k], path |-> [q EXCEPT ![k] = "?"]]
  BY Zenon DEF fix_deleted_char, q
<1> HIDE DEF k
<1>7. ~(k > Len(q)) /\ q[k] = y[1] /\ k \in 1..Len(q) /\ 1 \in 1..m
  <2>1. 1 \in 1..m
    BY <1>1
  <2>2. q[n + 1] = y[1]
    BY <1>2, <2>1
  <2> HIDE DEF n, m
  <2>3. ~(k > Len(q)) /\ k \in 1..Len(q)
    BY <1>1, <1>2, <1>5
  <2> QED
    BY <1>5, <2>1, <2>2, <2>3
<1> DEFINE s == [q EXCEPT ![k] = "?"]
<1>8. s = r
  <2>1. /\ s \in Seq(Chars) /\ Len(s) = Len(q)
        /\ \A i \in 1..Len(q) : s[i] = IF i = k THEN "?" ELSE q[i]
    <3>1. q \in Seq(Chars) /\ "?" \in Chars
      BY <1>2, SessionAssumption DEF Text
    <3> QED
      BY <1>7, <3>1, ExceptSeq
  <2>2. z \in Text /\ Len(z) = m /\ \A i \in 1..m : z[i] = IF i = 1 THEN "?" ELSE y[i]
    BY WithMark DEF Name, Letter, Text
  <2> HIDE DEF s, z
  <2>3. /\ r \in Seq(Chars) /\ Len(r) = n + m
        /\ \A i \in 1..n : r[i] = u[i]
        /\ \A i \in 1..m : r[n + i] = z[i]
    <3>1. /\ r \in Text /\ Len(r) = n + Len(z)
          /\ \A i \in 1..n : r[i] = u[i]
          /\ \A i \in 1..Len(z) : r[n + i] = z[i]
      BY <2>2, Joined
    <3> HIDE DEF r, n, m
    <3> QED
      BY <2>2, <3>1 DEF Text
  <2> HIDE DEF r, n, m
  <2>4. ASSUME NEW i \in 1..(n + m) PROVE s[i] = r[i]
    <3>1. CASE i \in 1..n
      <4>1. i # k /\ i \in 1..Len(q)
        BY <1>1, <1>2, <1>5, <3>1
      <4>2. s[i] = q[i]
        BY <2>1, <4>1
      <4> QED
        BY <1>2, <2>3, <3>1, <4>2
    <3>2. CASE i \notin 1..n
      <4>1. i - n \in 1..m /\ n + (i - n) = i /\ (i = k <=> i - n = 1)
        BY <1>1, <1>2, <1>5, <3>2
      <4>2. r[i] = z[i - n] /\ q[i] = y[i - n]
        BY <1>2, <2>3, <4>1
      <4>3. s[i] = IF i = k THEN "?" ELSE q[i]
        BY <1>2, <2>1
      <4> QED
        BY <2>2, <4>1, <4>2, <4>3
    <3> QED
      BY <3>1, <3>2
  <2> QED
    BY <1>2, <2>1, <2>3, <2>4, SeqEqual
<1> DEFINE c == q[k]
<1> HIDE DEF s, c
<1>9. fix_deleted_char(path) = [char |-> c, path |-> s]
  BY Zenon, <1>6, <1>7 DEF s, c
<1>10. fix_deleted_char(path).char = c /\ fix_deleted_char(path).path = s
  BY <1>9
<1> QED
  BY Zenon, <1>7, <1>8, <1>10 DEF c

\* What a path looks like without the '/' at its end: its last name behind
\* the '/' it is cut at.
LEMMA TypedPathIs ==
  ASSUME NEW path \in Text, ~Doubled(path), Tokens(path) # << >>
  PROVE  LET q == Chopped(path)
         IN  /\ path = q \/ path = q \o Slash
             /\ q \in Text /\ q # << >> /\ Last(q) # "/"
             /\ q[1] = path[1] /\ Tokens(q) = Tokens(path)
<1> DEFINE q == Chopped(path)
<1>1. path # << >>
  BY TokensOfNone
<1>2. CASE Last(path) # "/"
  <2>1. q = path
    BY <1>1, <1>2, ChoppedIs
  <2> QED
    BY <1>1, <1>2, <2>1
<1>3. CASE Last(path) = "/"
  <2>1. q = Front(path)
    BY <1>1, <1>3 DEF Chopped, EndsIn
  <2> DEFINE n == Len(path)
  <2>2. /\ path = q \o Slash /\ q \in Text /\ Len(q) = n - 1 /\ n \in Nat /\ n >= 1
        /\ \A i \in 1..(n - 1) : q[i] = path[i]
    BY <1>1, <1>3, <2>1, FrontIs
  <2> HIDE DEF q
  <2>3. q # << >>
    <3>1. SUFFICES ASSUME q = << >> PROVE FALSE
      OBVIOUS
    <3>2. << >> \o Slash = Slash
      BY SlashIs, ConcatEmptySeq DEF Text
    <3>3. path = Slash
      BY Zenon, <2>2, <3>1, <3>2
    <3> QED
      BY <3>3, TokensOfSlash
  <2>4. n - 1 # 0
    BY <2>2, <2>3 DEF Text
  <2>5. n \in 2..n /\ 1 \in 1..(n - 1) /\ n - 1 \in 1..(n - 1)
    BY <2>2, <2>4
  <2>6. path[n - 1] # "/"
    BY <1>3, <2>5 DEF Doubled, Last
  <2>7. Last(q) # "/" /\ q[1] = path[1]
    BY <2>2, <2>5, <2>6 DEF Last
  <2>8. Tokens(q) = Tokens(path)
    BY <2>2, TokensSlash
  <2> QED
    BY <2>2, <2>3, <2>7, <2>8 DEF q
<1> QED
  BY <1>2, <1>3

-----------------------------------------------------------------------------
(* Steps *)

LEMMA TypedIs ==
  ASSUME NEW path \in Typed
  PROVE  path \in Text /\ path # << >> /\ \A k \in 1..Len(path) : path[k] # "?"
<1>1. path \in Seq(Chars \ {"?"}) /\ path # << >>
  BY SessionAssumption
<1> QED
  BY <1>1 DEF Text

LEMMA ChoppedTyped ==
  ASSUME NEW path \in Text
  PROVE  Chopped(path) \in Text
BY DEF Chopped, Front, Text

LEMMA FixTyped ==
  ASSUME NEW path \in Text
  PROVE  fix_deleted_char(path).path \in Text /\ fix_deleted_char(path).path # << >>
<1> DEFINE q == Chopped(path)
           k == DeletedAt(q)
<1>1. q \in Text /\ "?" \in Chars
  BY ChoppedTyped, SessionAssumption
<1>2. k \in Nat \ {0}
  BY <1>1, CutTyped DEF DeletedAt
<1>3. fix_deleted_char(path) =
        IF k > Len(q) THEN [char |-> "", path |-> Append(q, "?")]
                      ELSE [char |-> q[k], path |-> [q EXCEPT ![k] = "?"]]
  BY Zenon DEF fix_deleted_char
<1> HIDE DEF q, k
<1>4. CASE k > Len(q)
  <2> DEFINE p == Append(q, "?")
  <2>1. p \in Text /\ p # << >>
    BY <1>1, AppendProperties DEF Text
  <2> HIDE DEF p
  <2>2. fix_deleted_char(path) = [char |-> "", path |-> p]
    BY <1>3, <1>4 DEF p
  <2>3. [char |-> "", path |-> p].path = p
    OBVIOUS
  <2> QED
    BY Zenon, <2>1, <2>2, <2>3
<1>5. CASE ~(k > Len(q))
  <2> DEFINE p == [q EXCEPT ![k] = "?"]
             c == q[k]
  <2>1. q \in Seq(Chars) /\ Len(q) \in Nat /\ Len(q) # 0
    BY <1>1, <1>2, <1>5 DEF Text
  <2>2. p \in Seq(Chars) /\ Len(p) = Len(q)
    BY <1>1, <1>2, <1>5, <2>1, ExceptSeq
  <2> HIDE DEF p, c
  <2>3. p # << >>
    BY <2>1, <2>2
  <2>4. fix_deleted_char(path) = [char |-> c, path |-> p]
    BY Zenon, <1>3, <1>5 DEF p, c
  <2> QED
    BY <2>2, <2>3, <2>4 DEF Text
<1> QED
  BY <1>4, <1>5

\* What delete and undelete do with a path that is typed, or a '?' put into it.
LEMMA ActKeeps ==
  ASSUME SessionInv, NEW path \in Text, path # << >>, NEW char,
         ActOn(address_convertor(path), char)
  PROVE  SessionInv'
<1> DEFINE ndir  == address_convertor(path)
           pndir == get_parent_path(ndir)
           file  == find(ndir)
           up    == find(pndir)
           parent == IF pndir = Slash THEN Root ELSE Named(up)
<1>1. /\ mounted /\ file \notin {None, WildEntry}
      /\ act' = [done |-> TRUE, marked |-> file[1] = parent, doubled |-> Doubled(ndir)]
      /\ UNCHANGED <<mounted, current_path>>
  BY Zenon DEF ActOn
<1>2. IsPath(ndir)
  BY <1>1, ConvertTyped DEF IsPath
<1>3. ~Doubled(ndir) => file[1] = parent
  BY <1>1, <1>2, InItsParent
<1>4. (file[1] = parent) \/ Doubled(ndir)
  BY <1>3
<1>5. act'.marked = (file[1] = parent) /\ act'.doubled = Doubled(ndir)
  BY <1>1
<1> HIDE DEF ndir, pndir, file, up, parent
<1>6. MarksWhatItFrees'
  BY Zenon, <1>4, <1>5 DEF MarksWhatItFrees
<1> QED
  BY <1>1, <1>6 DEF SessionInv, CwdIsAPath

LEMMA Started == Init => SessionInv
<1> SUFFICES ASSUME Init PROVE SessionInv
  OBVIOUS
<1>1. current_path \in Text /\ current_path # << >>
  BY SessionAssumption DEF Init, Text
<1>2. CwdIsAPath /\ MarksWhatItFrees
  BY DEF Init, CwdIsAPath, MarksWhatItFrees, NoAct
<1> QED
  BY <1>1, <1>2 DEF SessionInv

LEMMA Stays == SessionInv /\ [Next]_vars => SessionInv'
<1> SUFFICES ASSUME SessionInv, [Next]_vars PROVE SessionInv'
  OBVIOUS
<1>1. CASE Mount
  <2>1. current_path' = Slash /\ act' = NoAct
    BY <1>1 DEF Mount
  <2>2. Slash[1] = "/" /\ EndsIn(Slash, "/") /\ Slash \in Text /\ Slash # << >>
    BY SlashIs DEF EndsIn, Last, Slash
  <2> QED
    BY <2>1, <2>2 DEF SessionInv, CwdIsAPath, MarksWhatItFrees, NoAct
<1>2. CASE Umount
  <2>1. mounted' = FALSE /\ current_path' = <<"-">> /\ act' = NoAct
    BY <1>2 DEF Umount
  <2>2. <<"-">> \in Text /\ <<"-">> # << >>
    BY SessionAssumption DEF Text
  <2> QED
    BY <2>1, <2>2 DEF SessionInv, CwdIsAPath, MarksWhatItFrees, NoAct
<1>3. ASSUME NEW path \in Typed, cd(path) PROVE SessionInv'
  <2> DEFINE npath == address_convertor(path)
  <2>1. current_path' = npath /\ act' = NoAct /\ mounted' = mounted
    BY <1>3 DEF cd
  <2>2. npath \in Text /\ npath # << >> /\ Last(npath) = "/" /\ (mounted => npath[1] = "/")
    BY TypedIs, ConvertTyped
  <2> HIDE DEF npath
  <2> QED
    BY <2>1, <2>2 DEF SessionInv, CwdIsAPath, EndsIn, MarksWhatItFrees, NoAct
<1>4. ASSUME NEW path \in Typed, delete(path) PROVE SessionInv'
  BY <1>4, TypedIs, ActKeeps DEF delete
<1>5. ASSUME NEW path \in Typed, undelete(path) PROVE SessionInv'
  <2> DEFINE fixed == fix_deleted_char(path)
  <2>1. ActOn(address_convertor(fixed.path), fixed.char)
    BY <1>5 DEF undelete
  <2>2. fixed.path \in Text /\ fixed.path # << >>
    BY TypedIs, FixTyped
  <2> HIDE DEF fixed
  <2> QED
    BY <2>1, <2>2, ActKeeps
<1>6. CASE UNCHANGED vars
  BY <1>6 DEF SessionInv, CwdIsAPath, MarksWhatItFrees, vars
<1> QED
  BY <1>1, <1>2, <1>3, <1>4, <1>5, <1>6 DEF Next

\* The last name of a path: alone, behind a '/' that is not the first
\* character, or behind the '/' an absolute path of one name starts with.
LEMMA LastNameOf ==
  ASSUME NEW q \in Text, q # << >>, Last(q) # "/"
  PROVE  \E u \in Text, y \in Name :
           /\ q = u \o y
           /\ u = << >> \/ u = Slash \/ (Len(u) >= 2 /\ Last(u) = "/")
<1> DEFINE m == Len(q)
           k == CutAt(q)
           c == IF k = 1 /\ q[1] # "/" THEN 0 ELSE k
           u == SubSeq(q, 1, c)
           y == SubSeq(q, c + 1, m)
<1>1. m \in Nat /\ m >= 1 /\ q[m] # "/"
  BY DEF Text, Last
<1>2. /\ k \in Nat \ {0} /\ (k = 1 \/ (k \in 2..m /\ q[k] = "/"))
      /\ \A j \in 2..m : j > k => q[j] # "/"
  BY CutTyped
<1> HIDE DEF k, m
<1>3. c \in 0..m /\ c # m /\ (c = 0 \/ q[c] = "/") /\ \A j \in 1..m : j > c => q[j] # "/"
  <2>1. CASE k = 1 /\ q[1] # "/"
    BY <1>1, <1>2, <2>1
  <2>2. CASE ~(k = 1 /\ q[1] # "/")
    <3>1. c = k /\ q[k] = "/"
      BY <1>2, <2>2
    <3>2. k # m /\ k <= m
      BY <1>1, <1>2, <3>1
    <3>3. \A j \in 1..m : j > k => j \in 2..m
      BY <1>1, <1>2
    <3> HIDE DEF c
    <3> QED
      BY <1>1, <1>2, <3>1, <3>2, <3>3
  <2> QED
    BY <2>1, <2>2
<1> HIDE DEF c
<1>4. /\ u \in Text /\ Len(u) = c /\ \A i \in 1..c : u[i] = q[i]
      /\ y \in Text /\ Len(y) = m - c /\ \A i \in 1..(m - c) : y[i] = q[c + i]
      /\ q = u \o y
  BY <1>3, Parted DEF m
<1> HIDE DEF u, y
<1>5. y \in Name
  <2>1. y \in Seq(Chars) /\ m - c \in Nat /\ m - c # 0
    BY <1>1, <1>3, <1>4 DEF Text
  <2>2. ASSUME NEW i \in 1..(m - c) PROVE y[i] \in Letter
    <3>1. c + i \in 1..m /\ c + i > c
      BY <1>1, <1>3
    <3>2. q[c + i] # "/" /\ y[i] = q[c + i]
      BY <1>3, <1>4, <3>1
    <3>3. y[i] \in Chars
      BY <1>4, <2>1
    <3> QED
      BY <3>2, <3>3 DEF Letter
  <2>3. y \in Seq(Letter)
    BY <1>4, <2>1, <2>2
  <2> QED
    BY <1>4, <2>1, <2>3 DEF Name
<1>6. u = << >> \/ u = Slash \/ (Len(u) >= 2 /\ Last(u) = "/")
  <2>1. CASE c = 0
    BY <1>4, <2>1 DEF Text
  <2>2. CASE c = 1
    <3>1. u \in Seq(Chars) /\ Slash \in Seq(Chars) /\ Len(u) = Len(Slash) /\ u[1] = "/"
      BY <1>3, <1>4, <2>2, SlashIs DEF Text
    <3>2. \A i \in 1..Len(u) : u[i] = Slash[i]
      BY <1>4, <2>2, <3>1, SlashIs
    <3> QED
      BY <3>1, <3>2, SeqEqual
  <2>3. CASE c \notin {0, 1}
    <3>1. c >= 2 /\ c \in 1..c
      BY <1>1, <1>3, <2>3
    <3> QED
      BY <1>3, <1>4, <3>1 DEF Last
  <2> QED
    BY <2>1, <2>2, <2>3
<1> QED
  BY <1>4, <1>5, <1>6

LEMMA LooksFor ==
  ASSUME SessionInv
  PROVE  UndeleteLooksForTyped
<1> SUFFICES ASSUME mounted, NEW path \in Fixable, ~OneNameAbsolute(path)
             PROVE  ChangesLastName(path)
  BY DEF UndeleteLooksForTyped
<1> DEFINE q == Chopped(path)
           names == Tokens(path)
<1>1. /\ path \in Text /\ path # << >> /\ ~Doubled(path)
      /\ names # << >> /\ Last(names)[1] # "."
  BY TypedIs DEF Fixable
<1>2. /\ path = q \/ path = q \o Slash
      /\ q \in Text /\ q # << >> /\ Last(q) # "/"
      /\ q[1] = path[1] /\ Tokens(q) = names
  BY <1>1, TypedPathIs
<1> HIDE DEF q, names
<1>3. PICK u \in Text, y \in Name :
        /\ q = u \o y
        /\ u = << >> \/ u = Slash \/ (Len(u) >= 2 /\ Last(u) = "/")
  BY <1>2, LastNameOf
<1>4. names = Append(Tokens(u), y)
  <2>1. u = << >> \/ Last(u) = "/"
    BY <1>3, SlashIs DEF Last
  <2> QED
    BY <1>2, <1>3, <2>1, TokensName
<1>5. Tokens(u) \in Seq(Name)
  BY TokensTyped
<1>6. y[1] # "."
  <2>1. Last(names) = y
    BY <1>4, <1>5 DEF Last
  <2> QED
    BY <1>1, <2>1
<1>7. y \in Text /\ y # << >> /\ Len(y) \in Nat /\ 1 \in 1..Len(y) /\ y[1] # "/"
  BY DEF Name, Letter, Text
<1>8. u # Slash
  <2> SUFFICES ASSUME u = Slash PROVE FALSE
    OBVIOUS
  <2>1. path[1] = "/"
    <3>1. (Slash \o y)[1] = Slash[1]
      BY <1>7, SlashIs, Joined
    <3>2. q[1] = Slash[1]
      BY Zenon, <1>3, <3>1
    <3> QED
      BY <1>2, <3>2, SlashIs
  <2>2. names = <<y>>
    <3>1. Append(<< >>, y) = <<y>>
      OBVIOUS
    <3> QED
      BY Zenon, <1>4, <3>1, TokensOfSlash
  <2>3. Len(names) = 1
    BY <2>2
  <2> QED
    BY <2>1, <2>3 DEF OneNameAbsolute, names
<1>9. u = << >> \/ (Len(u) >= 2 /\ Last(u) = "/")
  BY <1>3, <1>8
<1>10. PICK w \in Text :
         /\ w # << >> /\ Last(w) = "/"
         /\ \A z \in Text : z # << >> /\ z[1] # "/" /\ (u = << >> => z[1] # ".")
                             => Begun(u \o z) = w \o z
  BY <1>9, Completed
<1> DEFINE x == [y EXCEPT ![1] = "?"]
           fixed == fix_deleted_char(path)
           full == Tokens(address_convertor(path))
<1>11. fixed.char = y[1] /\ fixed.path = u \o x
  BY <1>3, <1>9, FixedIs DEF q
<1>12. x \in Name /\ x[1] = "?" /\ x \in Text /\ x # << >>
  BY WithMark DEF Name, Letter, Text
<1> HIDE DEF x, fixed
<1>13. full = Append(Tokens(w), y)
  <2>1. Tokens(w \o y) = Append(Tokens(w), y)
    BY <1>10, TokensName
  <2>2. CASE path = q
    <3>1. Begun(path) = w \o y
      BY <1>3, <1>6, <1>7, <1>10, <2>2
    <3> QED
      BY <1>1, <2>1, <3>1, ConvertTyped
  <2>3. CASE path = q \o Slash
    <3> DEFINE z == y \o Slash
    <3>1. path = u \o z
      <4>1. (u \o y) \o Slash = u \o (y \o Slash)
        BY <1>7, SlashIs, Regrouped
      <4>2. path = (u \o y) \o Slash
        BY Zenon, <1>3, <2>3
      <4> QED
        BY Zenon, <4>1, <4>2
    <3>2. z \in Text /\ z # << >> /\ z[1] = y[1]
      BY <1>7, SlashBehind
    <3> HIDE DEF z
    <3>3. Begun(u \o z) = w \o z
      BY <1>6, <1>7, <1>10, <3>2
    <3>4. w \o z = (w \o y) \o Slash
      BY <1>7, SlashIs, Regrouped DEF z
    <3>5. w \o y \in Text
      BY <1>7, Joined
    <3>6. Tokens((w \o y) \o Slash) = Tokens(w \o y)
      BY <3>5, TokensSlash
    <3>7. Tokens(Begun(path)) = Append(Tokens(w), y)
      BY Zenon, <2>1, <3>1, <3>3, <3>4, <3>6
    <3> QED
      BY <1>1, <3>7, ConvertTyped
  <2> QED
    BY <1>2, <2>2, <2>3
<1>14. Tokens(address_convertor(fixed.path)) = Append(Tokens(w), x)
  <2>1. Begun(u \o x) = w \o x
    BY <1>10, <1>12
  <2>2. Tokens(w \o x) = Append(Tokens(w), x)
    BY <1>10, <1>12, TokensName
  <2>3. u \o x \in Text /\ u \o x # << >>
    BY <1>12, Joined
  <2>4. Tokens(address_convertor(u \o x)) = Tokens(Begun(u \o x))
    BY <2>3, ConvertTyped
  <2> QED
    BY Zenon, <1>11, <2>1, <2>2, <2>4
<1>15. Front(full) = Tokens(w) /\ Last(full) = y
  <2>1. Tokens(w) \in Seq(Name)
    BY TokensTyped
  <2>2. Front(Append(Tokens(w), y)) = Tokens(w) /\ Last(Append(Tokens(w), y)) = y
    BY <2>1 DEF Front, Last
  <2> QED
    BY Zenon, <1>13, <2>2
<1> HIDE DEF full
<1>16. /\ Tokens(address_convertor(fixed.path)) = Append(Front(full), [Last(full) EXCEPT ![1] = "?"])
       /\ fixed.char = Last(full)[1]
  BY <1>11, <1>14, <1>15 DEF x
<1> QED
  BY Zenon, <1>16 DEF ChangesLastName, full, fixed

-----------------------------------------------------------------------------
(* Entries *)

Given(e) == Entries[e[1]][e[2]].name
Of(e)    == Entries[e[1]][e[2]].of
Firsts   == Chars \cup {""}

LEMMA EntryIs ==
  ASSUME NEW d \in Folders \cup {Root}, NEW k \in DOMAIN Entries[d]
  PROVE  /\ k \in Nat /\ k # 0
         /\ <<d, k>> \in Listed
         /\ Entries[d][k].name \in Text /\ Entries[d][k].name # << >>
         /\ Entries[d][k].of \in Folders \cup Files \cup {Zero}
<1> DEFINE Names == Seq(Chars) \ {<< >>}
           Kinds == Folders \cup Files \cup {Zero}
           Rec == [name : Names, of : Kinds]
<1>1. d \in DOMAIN Entries /\ Entries[d] \in Seq(Rec)
  BY SessionAssumption
<1> HIDE DEF Names, Kinds
<1>2. \A r \in Rec : r.name \in Names /\ r.of \in Kinds
  OBVIOUS
<1> HIDE DEF Rec
<1>3. k \in 1..Len(Entries[d]) /\ Len(Entries[d]) \in Nat
  BY <1>1
<1>4. Entries[d][k] \in Rec
  BY <1>1, <1>3
<1>5. <<d, k>> \in {d} \X DOMAIN Entries[d]
  OBVIOUS
<1>6. <<d, k>> \in Listed
  BY Zenon, <1>1, <1>5 DEF Listed
<1> QED
  BY <1>2, <1>3, <1>4, <1>6 DEF Names, Kinds, Text

LEMMA ListedIs ==
  ASSUME NEW e \in Listed
  PROVE  /\ e = <<e[1], e[2]>> /\ e[1] \in Folders \cup {Root} /\ e[2] \in DOMAIN Entries[e[1]]
         /\ e[2] \in Nat /\ e[2] # 0
         /\ Given(e) \in Text /\ Given(e) # << >>
         /\ Of(e) \in Folders \cup Files \cup {Zero}
         /\ e # None /\ e # WildEntry /\ Named(e) = Of(e)
<1>1. PICK d \in DOMAIN Entries : e \in {d} \X DOMAIN Entries[d]
  BY Zenon DEF Listed
<1>2. e = <<e[1], e[2]>> /\ e[1] = d /\ e[2] \in DOMAIN Entries[d]
  BY <1>1
<1>3. d \in Folders \cup {Root}
  BY SessionAssumption
<1>4. /\ e[2] \in Nat /\ e[2] # 0
      /\ Entries[d][e[2]].name \in Text /\ Entries[d][e[2]].name # << >>
      /\ Entries[d][e[2]].of \in Folders \cup Files \cup {Zero}
  BY <1>2, <1>3, EntryIs
<1>5. e # None /\ e # WildEntry
  <2>1. None[2] = 0 /\ WildEntry[2] = 0
    BY DEF None, WildEntry
  <2> QED
    BY <1>4, <2>1
<1> QED
  BY <1>2, <1>3, <1>4, <1>5 DEF Given, Of, Named

\* A name keeps its length when its first character is lost.
LEMMA NameOfIs ==
  ASSUME first \in [Listed -> Firsts], NEW e \in Listed
  PROVE  Len(NameOf(e)) = Len(Given(e))
<1> DEFINE a == <<first[e]>>
           b == Tail(Given(e))
<1>1. Given(e) \in Seq(Chars) /\ Given(e) # << >>
  BY ListedIs DEF Text
<1>2. b \in Seq(Firsts) /\ Len(b) = Len(Given(e)) - 1 /\ Len(Given(e)) \in Nat
  <2>1. b \in Seq(Chars) /\ Len(b) = Len(Given(e)) - 1 /\ Len(Given(e)) \in Nat
    BY <1>1
  <2> HIDE DEF b
  <2>2. \A c \in Chars : c \in Firsts
    BY DEF Firsts
  <2>3. b \in Seq(Firsts)
    BY <2>1, <2>2
  <2> QED
    BY <2>1, <2>3
<1>3. a \in Seq(Firsts) /\ Len(a) = 1
  OBVIOUS
<1>4. NameOf(e) = a \o b
  BY Zenon DEF NameOf, Given
<1> HIDE DEF a, b
<1>5. Len(a \o b) = Len(a) + Len(b)
  BY <1>2, <1>3, ConcatProperties
<1> QED
  BY <1>2, <1>3, <1>4, <1>5

\* An entry that has the name . or .. and was made with one of them has the
\* one it was made with.
LEMMA DotsAre ==
  ASSUME first \in [Listed -> Firsts], NEW e \in Listed, Given(e) \in Dots, NameOf(e) \in Dots
  PROVE  Given(e) = NameOf(e)
<1>1. Len(NameOf(e)) = Len(Given(e))
  BY NameOfIs
<1>2. Len(<<".">>) = 1 /\ Len(<<".", ".">>) = 2
  OBVIOUS
<1>3. ASSUME NEW s \in Dots, NEW t \in Dots, Len(s) = Len(t) PROVE s = t
  <2>1. s \in {<<".">>, <<".", ".">>} /\ t \in {<<".">>, <<".", ".">>}
    BY Zenon DEF Dots
  <2>2. CASE s = <<".">>
    BY <1>2, <1>3, <2>1, <2>2
  <2>3. CASE s = <<".", ".">>
    BY <1>2, <1>3, <2>1, <2>3
  <2> QED
    BY Zenon, <2>1, <2>2, <2>3
<1> QED
  BY Zenon, <1>1, <1>3

\* search finds an entry of the name with none of the same name in front.
LEMMA SearchIs ==
  ASSUME NEW d \in Folders \cup {Root}, NEW name
  PROVE  /\ search(d, name) # None =>
              /\ search(d, name) \in Listed /\ search(d, name)[1] = d
              /\ NameOf(search(d, name)) = name
              /\ \A e \in Listed : ~Covers(e, search(d, name))
         /\ \A e \in Listed :
              e[1] = d /\ NameOf(e) = name /\ (\A f \in Listed : ~Covers(f, e))
                => search(d, name) = e
<1> DEFINE hits == {k \in DOMAIN Entries[d] : NameOf(<<d, k>>) = name}
           c == CHOOSE k \in hits : \A j \in hits : k <= j
<1>1. hits \subseteq Nat /\ \A k \in DOMAIN Entries[d] : k \in Nat /\ <<d, k>> \in Listed
  BY EntryIs
<1>2. search(d, name) = IF hits = {} THEN None ELSE <<d, c>>
  BY Zenon DEF search
<1>3. hits # {} => c \in hits /\ \A j \in hits : c <= j
  <2>1. hits # {} => \E k \in hits : \A j \in hits : k <= j
    BY <1>1, LeastNumber
  <2> QED
    BY Zenon, <2>1
<1>4. \A k : k \in hits <=> k \in DOMAIN Entries[d] /\ NameOf(<<d, k>>) = name
  OBVIOUS
<1>5. ASSUME NEW e \in Listed, e[1] = d
      PROVE  e = <<d, e[2]>> /\ e[2] \in DOMAIN Entries[d] /\ e[2] \in Nat
  BY <1>5, ListedIs
<1> HIDE DEF hits, c
<1>6. ASSUME search(d, name) # None
      PROVE  /\ search(d, name) \in Listed /\ search(d, name)[1] = d
             /\ NameOf(search(d, name)) = name
             /\ \A e \in Listed : ~Covers(e, search(d, name))
  <2>1. hits # {} /\ search(d, name) = <<d, c>>
    BY <1>2, <1>6
  <2>2. c \in DOMAIN Entries[d] /\ c \in Nat /\ NameOf(<<d, c>>) = name /\ <<d, c>> \in Listed
    BY <1>1, <1>3, <1>4, <2>1
  <2>3. ASSUME NEW e \in Listed, Covers(e, <<d, c>>) PROVE FALSE
    <3>1. e[1] = d /\ e[2] < c /\ NameOf(e) = name
      BY <2>2, <2>3 DEF Covers
    <3>2. e = <<d, e[2]>> /\ e[2] \in DOMAIN Entries[d] /\ e[2] \in Nat
      BY <1>5, <3>1
    <3>3. e[2] \in hits
      BY Zenon, <1>4, <3>1, <3>2
    <3>4. c <= e[2]
      BY <1>3, <2>1, <3>3
    <3> QED
      BY <2>2, <3>1, <3>2, <3>4
  <2> QED
    BY <2>1, <2>2, <2>3
<1>7. ASSUME NEW e \in Listed, e[1] = d, NameOf(e) = name, \A f \in Listed : ~Covers(f, e)
      PROVE  search(d, name) = e
  <2>1. e = <<d, e[2]>> /\ e[2] \in DOMAIN Entries[d] /\ e[2] \in Nat
    BY <1>5, <1>7
  <2>2. e[2] \in hits
    BY Zenon, <1>4, <1>7, <2>1
  <2>3. search(d, name) = <<d, c>> /\ c \in hits /\ c <= e[2]
    BY <1>2, <1>3, <2>2
  <2>4. c \in Nat /\ <<d, c>> \in Listed /\ NameOf(<<d, c>>) = name
    BY <1>1, <1>4, <2>3
  <2>5. ~(c < e[2])
    <3>1. ~Covers(<<d, c>>, e)
      BY <1>7, <2>4
    <3> QED
      BY <1>7, <2>4, <3>1 DEF Covers
  <2> QED
    BY <2>1, <2>3, <2>4, <2>5
<1> QED
  BY <1>6, <1>7

-----------------------------------------------------------------------------
(* Names resolved on paper *)

Plain == Name \ Dots

Resolved(names, f, k) ==
  IF k = 0 THEN << >>
  ELSE LET before == f[k - 1]
       IN  IF names[k] = <<".">> THEN before
           ELSE IF names[k] = <<".", ".">>
           THEN (IF before = << >> THEN before ELSE Front(before))
           ELSE Append(before, names[k])
Resolves(names, n, f) == f = [k \in 0..n |-> Resolved(names, f, k)]

LEMMA ResolvesSome ==
  ASSUME NEW names, NEW n \in Nat
  PROVE  \E f : Resolves(names, n, f)
<1> DEFINE P == {m \in Nat : \E f : Resolves(names, m, f)}
<1>1. 0 \in P
  <2> DEFINE f == [k \in 0..0 |-> << >>]
  <2>1. \A k \in 0..0 : Resolved(names, f, k) = << >>
    BY DEF Resolved
  <2> HIDE DEF f
  <2>2. Resolves(names, 0, f)
    BY <2>1 DEF Resolves, f
  <2> QED
    BY <2>2
<1>2. ASSUME NEW m \in 0..(n - 1), m \in P PROVE m + 1 \in P
  <2>1. m \in Nat /\ m + 1 \in Nat
    OBVIOUS
  <2>2. PICK f : Resolves(names, m, f)
    BY <1>2
  <2> DEFINE g == [k \in 0..(m + 1) |-> IF k = m + 1 THEN Resolved(names, f, k) ELSE f[k]]
  <2>3. \A k \in 0..m : g[k] = f[k]
    BY <2>1
  <2>4. g[m + 1] = Resolved(names, f, m + 1) /\ DOMAIN g = 0..(m + 1)
    BY <2>1
  <2>5. g = [k \in 0..(m + 1) |-> g[k]]
    OBVIOUS
  <2> HIDE DEF g
  <2>6. \A k \in 0..(m + 1) : k # 0 => g[k - 1] = f[k - 1]
    BY <2>1, <2>3
  <2>7. \A k \in 0..(m + 1) : Resolved(names, g, k) = Resolved(names, f, k)
    BY <2>6 DEF Resolved
  <2>8. \A k \in 0..m : f[k] = Resolved(names, f, k)
    BY <2>2 DEF Resolves
  <2>9. \A k \in 0..(m + 1) : k \in 0..m \/ k = m + 1
    BY <2>1
  <2>10. \A k \in 0..(m + 1) : g[k] = Resolved(names, g, k)
    BY <2>3, <2>4, <2>7, <2>8, <2>9
  <2>11. Resolves(names, m + 1, g)
    BY <2>5, <2>10 DEF Resolves
  <2> QED
    BY <2>1, <2>11
<1> HIDE DEF P
<1>3. 0..n \subseteq P
  BY <1>1, <1>2, UpTo
<1>4. n \in P
  BY <1>3
<1> QED
  BY <1>4 DEF P

LEMMA ResolveIs ==
  ASSUME NEW names \in Seq(Name)
  PROVE  \E f : Resolves(names, Len(names), f) /\ Resolve(names) = f[Len(names)]
<1> DEFINE f == CHOOSE f : Resolves(names, Len(names), f)
<1>1. Len(names) \in Nat
  OBVIOUS
<1>2. Resolves(names, Len(names), f)
  BY <1>1, ResolvesSome
<1>3. Resolve(names) = f[Len(names)]
  BY Zenon DEF Resolve, Resolves, Resolved
<1> QED
  BY <1>2, <1>3

LEMMA ResolvedIs ==
  ASSUME NEW names, NEW n \in Nat, NEW f, Resolves(names, n, f), NEW k \in 0..n
  PROVE  f[k] = Resolved(names, f, k)
BY DEF Resolves

\* What is resolved is without . and ..
LEMMA ResolvedTyped ==
  ASSUME NEW names \in Seq(Name), NEW f, Resolves(names, Len(names), f)
  PROVE  \A k \in 0..Len(names) : f[k] \in Seq(Plain)
<1> DEFINE n == Len(names)
           P == {k \in 0..n : f[k] \in Seq(Plain)}
<1>1. n \in Nat /\ \A k \in 1..n : names[k] \in Name
  OBVIOUS
<1> HIDE DEF n
<1>2. 0 \in P
  <2>1. f[0] = Resolved(names, f, 0) /\ 0 \in 0..n
    BY <1>1, ResolvedIs DEF n
  <2>2. f[0] = << >>
    BY <2>1 DEF Resolved
  <2>3. << >> \in Seq(Plain)
    OBVIOUS
  <2>4. f[0] \in Seq(Plain)
    BY Zenon, <2>2, <2>3
  <2> QED
    BY <2>1, <2>4
<1>3. ASSUME NEW k \in 0..(n - 1), k \in P PROVE k + 1 \in P
  <2>1. k + 1 \in 1..n /\ k + 1 \in 0..n /\ (k + 1) - 1 = k /\ k + 1 # 0
    BY <1>1
  <2>2. f[k + 1] = Resolved(names, f, k + 1)
    BY <1>1, <2>1, ResolvedIs DEF n
  <2> DEFINE before == f[k]
             name == names[k + 1]
  <2>3. before \in Seq(Plain) /\ name \in Name
    BY <1>1, <1>3, <2>1
  <2>4. f[k + 1] = IF name = <<".">> THEN before
                   ELSE IF name = <<".", ".">>
                   THEN (IF before = << >> THEN before ELSE Front(before))
                   ELSE Append(before, name)
    BY <2>1, <2>2 DEF Resolved
  <2> HIDE DEF before, name
  <2>5. before # << >> => Front(before) \in Seq(Plain)
    <3>1. ASSUME before # << >> PROVE Len(before) \in Nat /\ Len(before) # 0
      BY <2>3, <3>1
    <3> QED
      BY <2>3, <3>1 DEF Front
  <2>6. name \notin Dots => Append(before, name) \in Seq(Plain)
    <3>1. name \notin Dots => name \in Plain
      BY <2>3 DEF Plain
    <3> QED
      BY <2>3, <3>1
  <2>7. name \in Dots <=> name = <<".">> \/ name = <<".", ".">>
    BY Zenon DEF Dots
  <2>8. f[k + 1] \in Seq(Plain)
    BY Zenon, <2>3, <2>4, <2>5, <2>6, <2>7
  <2> QED
    BY <2>1, <2>8
<1> HIDE DEF P
<1>4. 0..n \subseteq P
  BY <1>1, <1>2, <1>3, UpTo
<1> QED
  BY <1>4 DEF P, n

-----------------------------------------------------------------------------
(* Chains of directories *)

\* The directory behind so many entries of a chain.
DirAt(c, i) == IF i = 0 THEN Root ELSE Of(c[i])

\* A chain of entries with these names, each in the directory the one in front
\* of it names.
Chained(names, c) ==
  /\ c \in Seq(Listed) /\ Len(c) = Len(names)
  /\ \A i \in 1..Len(c) :
       c[i][1] = DirAt(c, i - 1) /\ Of(c[i]) \in Folders /\ NameOf(c[i]) = names[i]

LEMMA Walked ==
  ASSUME NEW tokens \in Seq(Name), NEW w, Walks(tokens, Len(tokens), w)
  PROVE  \A k \in 1..Len(tokens) :
           /\ w[k] \in Seq(Found) /\ Len(w[k]) = k
           /\ \A i \in 1..k : w[k][i] = Last(w[i])
           /\ Last(w[k]) = IF k = 1 THEN search(Root, tokens[1])
                           ELSE Next1(Last(w[k - 1]), tokens[k])
<1> DEFINE n == Len(tokens)
           Good(k) == /\ w[k] \in Seq(Found) /\ Len(w[k]) = k
                      /\ \A i \in 1..k : w[k][i] = Last(w[i])
                      /\ Last(w[k]) = IF k = 1 THEN search(Root, tokens[1])
                                      ELSE Next1(Last(w[k - 1]), tokens[k])
           P == {k \in 0..n : k = 0 \/ Good(k)}
<1>1. n \in Nat /\ \A k \in 1..n : tokens[k] \in Name
  OBVIOUS
<1>2. \A k \in 1..n : w[k] = Step(tokens, w, k)
  BY <1>1, WalkIs
<1>3. \A s \in Seq(Found), e \in Found :
        /\ Append(s, e) \in Seq(Found) /\ Len(Append(s, e)) = Len(s) + 1
        /\ Append(s, e)[Len(s) + 1] = e /\ Last(Append(s, e)) = e
        /\ \A i \in 1..Len(s) : Append(s, e)[i] = s[i]
  BY DEF Last
<1> HIDE DEF n
<1>4. 0 \in P
  BY <1>1
<1>5. ASSUME NEW k \in 0..(n - 1), k \in P PROVE k + 1 \in P
  <2>1. k + 1 \in 1..n /\ k + 1 \in 0..n /\ (k + 1) - 1 = k
    BY <1>1
  <2>2. w[k + 1] = Step(tokens, w, k + 1) /\ tokens[k + 1] \in Name
    BY <1>1, <1>2, <2>1
  <2>3. CASE k = 0
    <3> DEFINE a == search(Root, tokens[1])
    <3>1. Head(tokens) = tokens[1] /\ k + 1 = 1
      BY <2>1, <2>3 DEF n
    <3>2. w[1] = <<a>>
      BY <2>2, <3>1 DEF Step
    <3>3. a \in Found
      BY <2>2, <3>1, SearchFinds
    <3> HIDE DEF a
    <3>4. <<a>> \in Seq(Found) /\ Len(<<a>>) = 1 /\ Last(<<a>>) = a /\ <<a>>[1] = a
      BY <3>3 DEF Last
    <3>5. w[1] \in Seq(Found) /\ Len(w[1]) = 1 /\ Last(w[1]) = a /\ w[1][1] = a
      BY Zenon, <3>2, <3>4
    <3>6. \A i \in 1..1 : w[1][i] = Last(w[i])
      BY <3>5
    <3>7. Good(1)
      BY <3>5, <3>6 DEF a
    <3> HIDE DEF Good
    <3> QED
      BY <2>1, <3>1, <3>7
  <2>4. CASE k # 0
    <3> DEFINE b == w[k]
               a == Next1(Last(w[k]), tokens[k + 1])
    <3>1. Good(k) /\ k + 1 # 1 /\ k \in Nat
      BY <1>1, <1>5, <2>4
    <3>2. b \in Seq(Found) /\ Len(b) = k /\ \A i \in 1..k : b[i] = Last(w[i])
      BY <3>1
    <3> HIDE DEF Good
    <3>3. w[k + 1] = Append(b, a)
      BY <2>1, <2>2, <3>1 DEF Step
    <3>4. a \in Found
      BY <2>2, NextFound
    <3> HIDE DEF a, b
    <3>5. /\ w[k + 1] \in Seq(Found) /\ Len(w[k + 1]) = k + 1
          /\ w[k + 1][k + 1] = a /\ Last(w[k + 1]) = a
          /\ \A i \in 1..k : w[k + 1][i] = b[i]
      BY <1>3, <3>2, <3>3, <3>4
    <3>6. \A i \in 1..(k + 1) : i \in 1..k \/ i = k + 1
      BY <3>1
    <3>7. \A i \in 1..(k + 1) : w[k + 1][i] = Last(w[i])
      BY <3>2, <3>5, <3>6
    <3>8. Last(w[k + 1]) = IF k + 1 = 1 THEN search(Root, tokens[1])
                           ELSE Next1(Last(w[(k + 1) - 1]), tokens[k + 1])
      BY <2>1, <3>1, <3>5 DEF a
    <3>9. Good(k + 1)
      BY Zenon, <3>5, <3>7, <3>8 DEF Good
    <3> QED
      BY <2>1, <3>9
  <2> QED
    BY <2>3, <2>4
<1> HIDE DEF P, Good
<1>6. 0..n \subseteq P
  BY <1>1, <1>4, <1>5, UpTo
<1>7. \A k \in 1..n : k \in 0..n /\ k # 0
  BY <1>1
<1>8. \A k \in 1..n : Good(k)
  BY <1>6, <1>7 DEF P
<1> QED
  BY Zenon, <1>8 DEF Good, n

\* The entries with these names, . and .. too, each in the directory the one in
\* front of it names; the last may name anything.
Trail(names, c) ==
  /\ c \in Seq(Listed) /\ Len(c) = Len(names)
  /\ \A i \in 1..Len(c) :
       /\ c[i][1] = DirAt(c, i - 1) /\ NameOf(c[i]) = names[i]
       /\ i # 1 => Of(c[i - 1]) \in Folders

\* Along such a trail with no entry of the same name in front of one of it,
\* find comes to its last entry.
LEMMA TrailLeads ==
  ASSUME mounted, NEW path \in Text, Tokens(path) # << >>, NEW c, Trail(Tokens(path), c),
         \A i \in 1..Len(c) : \A e \in Listed : ~Covers(e, c[i])
  PROVE  find(path) = c[Len(Tokens(path))]
<1> DEFINE names == Tokens(path)
           n == Len(names)
<1>1. names \in Seq(Name) /\ n \in Nat /\ n # 0 /\ n \in 1..n /\ 1 \in 1..n
  BY TokensTyped
<1>2. PICK w : Walks(names, n, w) /\ find(path) = Last(w[n])
  BY FindIs
<1>3. \A k \in 1..n : Last(w[k]) = IF k = 1 THEN search(Root, names[1])
                                   ELSE Next1(Last(w[k - 1]), names[k])
  BY <1>1, <1>2, Walked
<1>4. /\ c \in Seq(Listed) /\ Len(c) = n
      /\ \A i \in 1..n : /\ c[i] \in Listed /\ c[i][1] = DirAt(c, i - 1)
                         /\ NameOf(c[i]) = names[i]
                         /\ i # 1 => Of(c[i - 1]) \in Folders
                         /\ \A e \in Listed : ~Covers(e, c[i])
  BY DEF Trail
<1> HIDE DEF n, names
<1>5. ASSUME NEW d \in Folders \cup {Root}, NEW i \in 1..n, c[i][1] = d
      PROVE  search(d, names[i]) = c[i]
  BY <1>4, <1>5, SearchIs
<1> DEFINE P == {k \in 0..n : k = 0 \/ Last(w[k]) = c[k]}
<1>6. 0 \in P
  BY <1>1
<1>7. ASSUME NEW k \in 0..(n - 1), k \in P PROVE k + 1 \in P
  <2>1. k + 1 \in 1..n /\ k + 1 \in 0..n /\ (k + 1) - 1 = k
    BY <1>1
  <2>2. CASE k = 0
    <3>1. k + 1 = 1 /\ c[1][1] = Root
      BY <1>4, <2>1, <2>2 DEF DirAt
    <3>2. search(Root, names[1]) = c[1]
      BY <1>1, <1>5, <3>1
    <3>3. Last(w[1]) = c[1]
      BY <1>1, <1>3, <3>2
    <3> QED
      BY <2>1, <3>1, <3>3
  <2>3. CASE k # 0
    <3>1. k \in 1..n /\ Last(w[k]) = c[k] /\ k + 1 # 1
      BY <1>1, <1>7, <2>3
    <3>2. c[k + 1][1] = Of(c[k]) /\ Of(c[k]) \in Folders /\ c[k] \in Listed
      BY <1>4, <2>1, <2>3, <3>1 DEF DirAt
    <3>3. Parses(c[k]) /\ Named(c[k]) = Of(c[k])
      BY <3>2, ListedIs DEF Parses
    <3>4. Next1(c[k], names[k + 1]) = search(Of(c[k]), names[k + 1])
      BY Zenon, <3>3 DEF Next1
    <3>5. search(Of(c[k]), names[k + 1]) = c[k + 1]
      BY <1>5, <2>1, <3>2
    <3>6. Last(w[k + 1]) = Next1(Last(w[k]), names[k + 1])
      BY <1>3, <2>1, <3>1
    <3> QED
      BY <2>1, <3>1, <3>4, <3>5, <3>6
  <2> QED
    BY <2>2, <2>3
<1> HIDE DEF P
<1>8. 0..n \subseteq P
  BY <1>1, <1>6, <1>7, UpTo
<1>9. n \in 0..n
  BY <1>1
<1>10. Last(w[n]) = c[n]
  BY <1>1, <1>8, <1>9 DEF P
<1> QED
  BY <1>2, <1>10 DEF n, names

\* The entries find comes by, when it comes to one, are such a trail.
LEMMA WalkIsTrail ==
  ASSUME NEW T \in Seq(Name), T # << >>, NEW w, Walks(T, Len(T), w), Last(w[Len(T)]) # None
  PROVE  /\ Trail(T, w[Len(T)]) /\ Len(w[Len(T)]) = Len(T)
         /\ \A i \in 1..Len(T) : /\ w[Len(T)][i] = Last(w[i])
                                /\ \A e \in Listed : ~Covers(e, w[Len(T)][i])
<1> DEFINE n == Len(T)
           c == w[n]
           at(k) == Last(w[k])
<1>1. n \in Nat /\ n # 0 /\ n \in 1..n /\ 1 \in 1..n /\ \A k \in 1..n : T[k] \in Name
  OBVIOUS
<1>2. \A k \in 1..n : at(k) = IF k = 1 THEN search(Root, T[1]) ELSE Next1(at(k - 1), T[k])
  BY Walked
<1>3. c \in Seq(Found) /\ Len(c) = n /\ \A i \in 1..n : c[i] = at(i)
  BY <1>1, Walked
<1>4. at(n) # None
  OBVIOUS
<1> HIDE DEF n, c, at
<1>5. ASSUME NEW k \in 1..n, k # 1, at(k) # None
      PROVE  /\ k - 1 \in 1..n /\ at(k - 1) # None /\ Named(at(k - 1)) \in Folders
             /\ at(k) = search(Named(at(k - 1)), T[k])
  <2>1. at(k) = Next1(at(k - 1), T[k])
    BY <1>2, <1>5
  <2>2. Parses(at(k - 1)) /\ at(k) = search(Named(at(k - 1)), T[k])
    BY <1>5, <2>1 DEF Next1
  <2>3. k - 1 \in 1..n
    BY <1>1, <1>5
  <2> QED
    BY <2>2, <2>3 DEF Parses
<1> DEFINE P == {j \in 0..(n - 1) : at(n - j) # None}
<1>6. 0 \in P
  BY <1>1, <1>4
<1>7. ASSUME NEW j \in 0..((n - 1) - 1), j \in P PROVE j + 1 \in P
  <2>1. /\ n - j \in 1..n /\ n - j # 1 /\ j + 1 \in 0..(n - 1)
        /\ (n - j) - 1 = n - (j + 1)
    BY <1>1
  <2>2. at((n - j) - 1) # None
    BY <1>5, <1>7, <2>1
  <2> QED
    BY <2>1, <2>2
<1> HIDE DEF P
<1>8. 0..(n - 1) \subseteq P
  <2>1. n - 1 \in Nat
    BY <1>1
  <2> DEFINE m == n - 1
  <2>2. m \in Nat /\ \A j \in 0..(m - 1) : j \in P => j + 1 \in P
    BY <1>7, <2>1
  <2> HIDE DEF m
  <2>3. 0..m \subseteq P
    BY <1>6, <2>2, UpTo
  <2> QED
    BY <2>3 DEF m
<1>9. ASSUME NEW k \in 1..n PROVE at(k) # None
  <2>1. n - k \in 0..(n - 1) /\ n - (n - k) = k
    BY <1>1
  <2>2. n - k \in P
    BY <1>8, <2>1
  <2> QED
    BY <2>1, <2>2 DEF P
<1>10. ASSUME NEW k \in 1..n
       PROVE  /\ at(k) \in Listed /\ NameOf(at(k)) = T[k]
              /\ at(k)[1] = IF k = 1 THEN Root ELSE Of(at(k - 1))
              /\ k # 1 => Of(at(k - 1)) \in Folders
              /\ \A e \in Listed : ~Covers(e, at(k))
  <2>1. CASE k = 1
    <3>1. at(1) = search(Root, T[1]) /\ at(1) # None
      BY <1>1, <1>2, <1>9
    <3> DEFINE b == search(Root, T[1])
    <3>2. b \in Listed /\ b[1] = Root /\ NameOf(b) = T[1] /\ \A e \in Listed : ~Covers(e, b)
      BY <3>1, SearchIs
    <3>3. at(1) = b
      BY <3>1
    <3> HIDE DEF b
    <3>4. at(1) \in Listed /\ NameOf(at(1)) = T[1] /\ at(1)[1] = Root
      BY <3>2, <3>3
    <3>5. \A e \in Listed : ~Covers(e, at(1))
      BY Zenon, <3>2, <3>3
    <3> QED
      BY <2>1, <3>4, <3>5
  <2>2. CASE k # 1
    <3> DEFINE d == Named(at(k - 1))
    <3>1. d \in Folders /\ at(k) = search(d, T[k]) /\ at(k) # None /\ at(k - 1) # None
          /\ k - 1 \in 1..n
      BY <1>5, <1>9, <2>2
    <3>2. at(k - 1) \in Found
      <4>1. c[k - 1] \in Found
        BY <1>3, <3>1
      <4> QED
        BY <1>3, <3>1, <4>1
    <3>3. at(k - 1) \in Listed
      <4>1. PICK b \in Folders \cup {Root}, x \in Name : at(k - 1) = search(b, x)
        BY <3>1, <3>2 DEF Found
      <4> QED
        BY <3>1, <4>1, SearchIs
    <3>4. d = Of(at(k - 1))
      BY <3>3, ListedIs
    <3> HIDE DEF d
    <3>5. /\ at(k) \in Listed /\ at(k)[1] = d /\ NameOf(at(k)) = T[k]
          /\ \A e \in Listed : ~Covers(e, at(k))
      BY <3>1, SearchIs
    <3> QED
      BY <2>2, <3>1, <3>4, <3>5
  <2> QED
    BY <2>1, <2>2
<1>11. c \in Seq(Listed)
  <2>1. \A i \in 1..Len(c) : c[i] \in Listed
    BY <1>3, <1>10
  <2> QED
    BY <1>3, <2>1
<1>12. ASSUME NEW i \in 1..n
       PROVE  /\ c[i][1] = DirAt(c, i - 1) /\ NameOf(c[i]) = T[i]
              /\ i # 1 => Of(c[i - 1]) \in Folders
  <2>1. i = 1 \/ (i - 1 \in 1..n /\ i - 1 # 0)
    BY <1>1
  <2>2. CASE i = 1
    BY <1>3, <1>10, <2>2 DEF DirAt
  <2>3. CASE i # 1
    BY <1>3, <1>10, <2>1, <2>3 DEF DirAt
  <2> QED
    BY <2>2, <2>3
<1>13. Trail(T, c)
  BY <1>3, <1>11, <1>12 DEF Trail, n
<1>14. \A i \in 1..n : c[i] = at(i) /\ \A e \in Listed : ~Covers(e, c[i])
  BY <1>3, <1>10
<1> QED
  BY <1>3, <1>13, <1>14 DEF n, c, at

\* An entry whose name is . or .. and was not, or was and is not.
Odd(e) == (NameOf(e) \in Dots) # (Given(e) \in Dots)
Uncovered(e) == \A x \in Listed : ~Covers(x, e)
Fits(names, c, W) ==
  Chained(names, c) /\ \A i \in 1..Len(c) : c[i] \in W /\ Uncovered(c[i])

LEMMA FitsNone ==
  ASSUME NEW W
  PROVE  Fits(<< >>, << >>, W) /\ DirAt(<< >>, Len(<< >>)) = Root
<1>1. << >> \in Seq(Listed) /\ Len(<< >>) = 0
  OBVIOUS
<1> QED
  BY <1>1 DEF Fits, Chained, DirAt

LEMMA FitsShorter ==
  ASSUME NEW S, NEW names \in Seq(S), NEW c, NEW W, Fits(names, c, W), c # << >>
  PROVE  /\ names # << >> /\ Len(c) \in Nat /\ Len(c) # 0
         /\ Fits(Front(names), Front(c), W)
         /\ c[Len(c)][1] = DirAt(Front(c), Len(Front(c)))
<1> DEFINE n == Len(c)
           d == Front(c)
           more == Front(names)
<1>1. /\ c \in Seq(Listed) /\ n = Len(names)
      /\ \A i \in 1..n : /\ c[i][1] = DirAt(c, i - 1) /\ Of(c[i]) \in Folders
                         /\ NameOf(c[i]) = names[i] /\ c[i] \in W /\ Uncovered(c[i])
  BY DEF Fits, Chained
<1>2. n \in Nat /\ n # 0 /\ n \in 1..n /\ names # << >>
  BY <1>1
<1>3. d \in Seq(Listed) /\ Len(d) = n - 1 /\ \A i \in 1..(n - 1) : d[i] = c[i]
  BY <1>1, <1>2 DEF Front
<1>4. Len(more) = n - 1 /\ \A i \in 1..(n - 1) : more[i] = names[i]
  BY <1>1, <1>2 DEF Front
<1> HIDE DEF n, d, more
<1>5. \A i \in 0..(n - 1) : DirAt(d, i) = DirAt(c, i)
  <2>1. \A i \in 0..(n - 1) : i = 0 \/ i \in 1..(n - 1)
    BY <1>2
  <2> QED
    BY <1>3, <2>1 DEF DirAt
<1>6. \A i \in 1..(n - 1) : i \in 1..n /\ i - 1 \in 0..(n - 1)
  BY <1>2
<1>7. ASSUME NEW i \in 1..(n - 1)
      PROVE  /\ d[i][1] = DirAt(d, i - 1) /\ Of(d[i]) \in Folders
             /\ NameOf(d[i]) = more[i] /\ d[i] \in W /\ Uncovered(d[i])
  BY <1>1, <1>3, <1>4, <1>5, <1>6
<1>8. Fits(more, d, W)
  BY <1>3, <1>4, <1>7 DEF Fits, Chained
<1>9. c[n][1] = DirAt(d, Len(d))
  <2>1. n - 1 \in 0..(n - 1)
    BY <1>2
  <2> QED
    BY <1>1, <1>2, <1>3, <1>5, <2>1
<1> QED
  BY <1>2, <1>8, <1>9 DEF n, d, more

LEMMA FitsLonger ==
  ASSUME NEW S, NEW names \in Seq(S), NEW name \in S, NEW c, NEW W, Fits(names, c, W),
         NEW e \in Listed, e \in W, Uncovered(e), NameOf(e) = name,
         e[1] = DirAt(c, Len(c)), Of(e) \in Folders
  PROVE  /\ Fits(Append(names, name), Append(c, e), W)
         /\ DirAt(Append(c, e), Len(Append(c, e))) = Of(e)
<1> DEFINE n == Len(c)
           d == Append(c, e)
           more == Append(names, name)
<1>1. /\ c \in Seq(Listed) /\ n = Len(names) /\ n \in Nat
      /\ \A i \in 1..n : /\ c[i][1] = DirAt(c, i - 1) /\ Of(c[i]) \in Folders
                         /\ NameOf(c[i]) = names[i] /\ c[i] \in W /\ Uncovered(c[i])
  BY DEF Fits, Chained
<1>2. d \in Seq(Listed) /\ Len(d) = n + 1 /\ d[n + 1] = e /\ \A i \in 1..n : d[i] = c[i]
  BY <1>1
<1>3. Len(more) = n + 1 /\ more[n + 1] = name /\ \A i \in 1..n : more[i] = names[i]
  BY <1>1
<1>4. e[1] = DirAt(c, n)
  OBVIOUS
<1> HIDE DEF n, d, more
<1>5. \A i \in 0..n : DirAt(d, i) = DirAt(c, i)
  <2>1. \A i \in 0..n : i = 0 \/ i \in 1..n
    BY <1>1
  <2> QED
    BY <1>2, <2>1 DEF DirAt
<1>6. \A i \in 1..(n + 1) : i \in 1..n \/ i = n + 1
  BY <1>1
<1>7. ASSUME NEW i \in 1..(n + 1)
      PROVE  /\ d[i][1] = DirAt(d, i - 1) /\ Of(d[i]) \in Folders
             /\ NameOf(d[i]) = more[i] /\ d[i] \in W /\ Uncovered(d[i])
  <2>1. CASE i \in 1..n
    <3>1. i - 1 \in 0..n
      BY <1>1, <2>1
    <3> QED
      BY <1>1, <1>2, <1>3, <1>5, <2>1, <3>1
  <2>2. CASE i = n + 1
    <3>1. i - 1 = n /\ n \in 0..n
      BY <1>1, <2>2
    <3>2. DirAt(d, i - 1) = DirAt(c, n)
      BY <1>5, <3>1
    <3> QED
      BY <1>2, <1>3, <1>4, <2>2, <3>2
  <2> QED
    BY <1>6, <2>1, <2>2
<1>8. Fits(more, d, W)
  BY <1>2, <1>3, <1>7 DEF Fits, Chained
<1>9. DirAt(d, Len(d)) = Of(e)
  <2>1. n + 1 # 0
    BY <1>1
  <2> QED
    BY <1>2, <2>1 DEF DirAt
<1> QED
  BY <1>8, <1>9 DEF d, more

\* Where find has got to after some names of a path, the names resolved on
\* paper have a chain to; so what names cluster 0 is the root on paper.
LEMMA Walking ==
  ASSUME TreeIsProper, first \in [Listed -> Firsts],
         NEW T \in Seq(Name), T # << >>,
         NEW w, Walks(T, Len(T), w), NEW f, Resolves(T, Len(T), f),
         Last(w[Len(T)]) # None, Named(Last(w[Len(T)])) \notin Files,
         NEW W, W \subseteq Listed, \A e \in W : ~Odd(e),
         \A i \in 1..Len(T) : Last(w[i]) \in Listed => Last(w[i]) \in W
  PROVE  Named(Last(w[Len(T)])) = Zero => f[Len(T)] = << >>
<1> DEFINE n == Len(T)
           at(k) == Last(w[k])
           dir(k) == IF k = 0 THEN Root ELSE Named(at(k))
           Good(k) == \/ k # 0 /\ at(k) = None
                      \/ dir(k) \in Files
                      \/ \E c : /\ Fits(f[k], c, W)
                                /\ dir(k) = DirAt(c, Len(c)) \/ (dir(k) = Zero /\ c = << >>)
           P == {k \in 0..n : Good(k)}
<1>1. n \in Nat /\ n # 0 /\ n \in 1..n /\ \A k \in 1..n : T[k] \in Name
  OBVIOUS
<1>2. \A k \in 1..n : at(k) = IF k = 1 THEN search(Root, T[1]) ELSE Next1(at(k - 1), T[k])
  BY Walked
<1>3. \A k \in 0..n : f[k] = Resolved(T, f, k) /\ f[k] \in Seq(Plain)
  BY <1>1, ResolvedIs, ResolvedTyped
<1>4. at(n) # None /\ dir(n) \notin Files /\ \A i \in 1..n : at(i) \in Listed => at(i) \in W
  BY <1>1
<1>5. {Root, Zero, Wild} \cap (Folders \cup Files) = {} /\ Folders \cap Files = {}
  BY SessionAssumption
<1> HIDE DEF n, at
<1>6. 0 \in P
  <2>1. f[0] = << >> /\ 0 \in 0..n
    BY <1>1, <1>3 DEF Resolved
  <2>2. Good(0)
    BY Zenon, <2>1, FitsNone
  <2> QED
    BY <2>1, <2>2
<1>7. ASSUME NEW k \in 0..(n - 1), k \in P PROVE k + 1 \in P
  <2>1. k + 1 \in 1..n /\ k + 1 \in 0..n /\ (k + 1) - 1 = k /\ k + 1 # 0 /\ k \in 0..n
    BY <1>1
  <2> SUFFICES ASSUME at(k + 1) # None PROVE Good(k + 1)
    BY <2>1
  <2> DEFINE e == at(k + 1)
             d == dir(k)
             name == T[k + 1]
  <2>2. name \in Name /\ e # None
    BY <1>1, <2>1
  <2>3. e = search(d, name) /\ d \in Folders \cup {Root} /\ (k # 0 => at(k) # None)
    <3>1. CASE k = 0
      BY <1>1, <1>2, <2>1, <3>1
    <3>2. CASE k # 0
      <4>1. k + 1 # 1
        BY <2>1, <3>2
      <4>2. e = Next1(at(k), name)
        BY <1>2, <2>1, <4>1
      <4>3. Parses(at(k)) /\ e = search(Named(at(k)), name)
        BY <2>2, <4>2 DEF Next1
      <4> QED
        BY <3>2, <4>3 DEF Parses
    <3> QED
      BY <3>1, <3>2
  <2>4. PICK c : Fits(f[k], c, W) /\ d = DirAt(c, Len(c))
    <3>1. d \notin Files /\ d # Zero
      BY <1>5, <2>3, SessionAssumption DEF Root, Zero
    <3>2. Good(k)
      BY <1>7
    <3> HIDE DEF dir
    <3> QED
      BY <2>3, <3>1, <3>2
  <2>5. /\ e \in Listed /\ e[1] = d /\ NameOf(e) = name /\ Uncovered(e)
        /\ Named(e) = Of(e) /\ Of(e) \in Folders \cup Files \cup {Zero}
    <3> HIDE DEF e, d, name
    <3>1. search(d, name) # None
      BY Zenon, <2>2, <2>3
    <3>2. /\ search(d, name) \in Listed /\ search(d, name)[1] = d
          /\ NameOf(search(d, name)) = name
          /\ \A x \in Listed : ~Covers(x, search(d, name))
      BY <2>3, <3>1, SearchIs
    <3>3. e \in Listed /\ e[1] = d /\ NameOf(e) = name /\ Uncovered(e)
      BY Zenon, <2>3, <3>2 DEF Uncovered
    <3> QED
      BY <3>3, ListedIs
  <2>6. e \in W /\ (name \in Dots <=> Given(e) \in Dots)
    <3>1. e \in W
      BY <1>4, <2>1, <2>5
    <3>2. ~Odd(e)
      BY <3>1
    <3> QED
      BY <2>5, <3>1, <3>2 DEF Odd
  <2>7. /\ Given(e) \in Dots => e[1] \in Folders
        /\ Given(e) = <<".">> => Of(e) = e[1]
        /\ Of(e) = Zero => Given(e) = <<".", ".">>
        /\ \A g \in Listed : Given(e) = <<".", ".">> /\ Given(g) \notin Dots /\ Of(g) = e[1]
             => Of(e) = IF g[1] = Root THEN Zero ELSE g[1]
    BY Zenon, <2>5 DEF TreeIsProper, Given, Of
  <2>8. dir(k + 1) = Of(e)
    BY <2>1, <2>5
  <2>9. f[k + 1] = IF name = <<".">> THEN f[k]
                   ELSE IF name = <<".", ".">>
                   THEN (IF f[k] = << >> THEN f[k] ELSE Front(f[k]))
                   ELSE Append(f[k], name)
    BY <1>3, <2>1 DEF Resolved
  <2>10. f[k] \in Seq(Plain)
    BY <1>3, <2>1
  <2>11. <<".">> \in Dots /\ <<".", ".">> \in Dots
    BY Zenon DEF Dots
  <2> HIDE DEF e, d, name, dir
  <2>12. CASE name = <<".">>
    <3>1. Given(e) = <<".">>
      BY <2>5, <2>6, <2>11, <2>12, DotsAre
    <3>2. Of(e) = d
      BY <2>5, <2>7, <3>1
    <3>3. f[k + 1] = f[k]
      BY <2>9, <2>12
    <3> QED
      BY <2>4, <2>8, <3>2, <3>3
  <2>13. CASE name = <<".", ".">>
    <3> DEFINE m == Len(c)
               g == c[m]
    <3>1. Given(e) = <<".", ".">>
      BY <2>5, <2>6, <2>11, <2>13, DotsAre
    <3>2. d \in Folders /\ d # Root
      BY <1>5, <2>5, <2>7, <2>11, <3>1
    <3>3. c # << >>
      <4>1. DirAt(<< >>, Len(<< >>)) = Root
        BY FitsNone
      <4> QED
        BY <2>4, <3>2, <4>1
    <3>4. /\ f[k] # << >> /\ m \in Nat /\ m # 0
          /\ Fits(Front(f[k]), Front(c), W)
          /\ g[1] = DirAt(Front(c), Len(Front(c)))
      BY <2>4, <2>10, <3>3, FitsShorter
    <3>5. g \in Listed /\ g \in W /\ Of(g) = d /\ NameOf(g) = f[k][m] /\ Len(f[k]) = m
      BY <2>4, <3>4 DEF Fits, Chained, DirAt
    <3>6. Given(g) \notin Dots
      <4>1. f[k][m] \in Plain
        BY <2>10, <3>4, <3>5
      <4>2. ~Odd(g)
        BY <3>5
      <4> QED
        BY <3>5, <4>1, <4>2 DEF Odd, Plain
    <3>7. Of(e) = IF g[1] = Root THEN Zero ELSE g[1]
      BY Zenon, <2>5, <2>7, <3>1, <3>5, <3>6
    <3>8. f[k + 1] = Front(f[k])
      <4>1. <<".", ".">> # <<".">>
        BY Len(<<".", ".">>) = 2, Len(<<".">>) = 1
      <4> QED
        BY Zenon, <2>9, <2>13, <3>4, <4>1
    <3> DEFINE h == Front(c)
    <3>9. h \in Seq(Listed)
      BY <2>4, <3>3 DEF Fits, Chained, Front
    <3> HIDE DEF m, g, h
    <3>10. CASE g[1] = Root
      <4>1. h = << >>
        <5>1. SUFFICES ASSUME Len(h) # 0 PROVE FALSE
          BY <3>9
        <5>2. Len(h) \in 1..Len(h)
          BY <3>9, <5>1
        <5>3. Of(h[Len(h)]) \in Folders
          BY <3>4, <5>2 DEF Fits, Chained, h
        <5>4. DirAt(h, Len(h)) = Of(h[Len(h)])
          BY <5>1 DEF DirAt
        <5> QED
          BY <1>5, <3>4, <3>10, <5>3, <5>4 DEF h
      <4> QED
        BY <2>8, <3>4, <3>7, <3>8, <3>10, <4>1 DEF h
    <3>11. CASE g[1] # Root
      BY <2>8, <3>4, <3>7, <3>8, <3>11 DEF h
    <3> QED
      BY <3>10, <3>11
  <2>14. CASE name # <<".">> /\ name # <<".", ".">>
    <3>1. name \in Plain
      <4>1. name \notin Dots
        BY Zenon, <2>14 DEF Dots
      <4> QED
        BY <2>2, <4>1 DEF Plain, name
    <3>2. Of(e) # Zero
      <4>1. Given(e) \notin Dots
        BY <2>6, <3>1 DEF Plain
      <4> QED
        BY <2>7, <2>11, <4>1
    <3>3. f[k + 1] = Append(f[k], name)
      BY Zenon, <2>9, <2>14
    <3>4. CASE Of(e) \in Files
      BY <2>8, <3>4
    <3>5. CASE Of(e) \notin Files
      <4>1. Of(e) \in Folders
        BY <2>5, <3>2, <3>5
      <4>2. e[1] = DirAt(c, Len(c))
        BY <2>4, <2>5
      <4>3. Fits(Append(f[k], name), Append(c, e), W) /\ DirAt(Append(c, e), Len(Append(c, e))) = Of(e)
        BY <2>4, <2>5, <2>6, <2>10, <3>1, <4>1, <4>2, FitsLonger
      <4> QED
        BY Zenon, <2>8, <3>3, <4>3
    <3> QED
      BY <3>4, <3>5
  <2> QED
    BY <2>12, <2>13, <2>14
<1>8. n \in P
  <2> HIDE DEF P
  <2>1. 0..n \subseteq P
    BY <1>1, <1>6, <1>7, UpTo
  <2> QED
    BY <1>1, <2>1
<1>9. Good(n)
  BY <1>8
<1>10. PICK c : /\ Fits(f[n], c, W)
                /\ dir(n) = DirAt(c, Len(c)) \/ (dir(n) = Zero /\ c = << >>)
  <2> HIDE DEF dir
  <2> QED
    BY <1>1, <1>4, <1>9
<1>11. dir(n) = Named(at(n))
  BY <1>1
<1> HIDE DEF dir
<1>12. ASSUME dir(n) = Zero PROVE f[n] = << >>
  <2>1. c \in Seq(Listed) /\ Len(c) = Len(f[n]) /\ \A i \in 1..Len(c) : Of(c[i]) \in Folders
    BY <1>10 DEF Fits, Chained
  <2>2. Zero \notin Folders /\ Zero # Root
    BY <1>5 DEF Zero, Root
  <2>3. c = << >>
    <3>1. SUFFICES ASSUME Len(c) # 0 PROVE FALSE
      BY <2>1
    <3>2. Len(c) \in 1..Len(c)
      BY <2>1, <3>1
    <3>3. DirAt(c, Len(c)) \in Folders
      BY <2>1, <3>1, <3>2 DEF DirAt
    <3>4. c # << >>
      BY <3>1
    <3> QED
      BY <1>10, <1>12, <2>2, <3>3, <3>4
  <2>4. f[n] \in Seq(Plain) /\ Len(f[n]) = 0
    BY <1>1, <1>3, <2>1, <2>3
  <2> QED
    BY <2>4
<1> QED
  BY <1>11, <1>12 DEF n, at

-----------------------------------------------------------------------------
(* The working directory's chain *)

\* Of the entries cd passed, one whose name is . or .. and was not, or was and
\* is not.
SomeOdd == \E e \in passed : Odd(e)

\* The names have a trail of entries that cd passed, what has come to cover
\* one of them was renamed since, and the last one names a directory, or
\* cluster 0 where the names are those of the root.
Follows(names) ==
  \E c : /\ Trail(names, c)
         /\ \A i \in 1..Len(c) : /\ c[i] \in passed
                                 /\ \A e \in Listed : Covers(e, c[i]) => e \in renamed
         /\ names # << >> =>
              \/ Of(c[Len(names)]) \in Folders
              \/ Of(c[Len(names)]) = Zero /\ (Resolve(names) = << >> \/ SomeOdd)

CwdInv ==
  /\ SessionInv
  /\ first \in [Listed -> Firsts] /\ saved \in [AtRoot -> Firsts] /\ passed \subseteq Listed
  /\ mounted => ~dangling
  /\ mounted => passed \cap renamed # {} \/ Follows(Tokens(current_path))

LEMMA ResolveOfNone == Resolve(<< >>) = << >>
<1>1. << >> \in Seq(Name) /\ Len(<< >>) = 0 /\ 0 \in 0..0 /\ 0 \in Nat
  OBVIOUS
<1>2. PICK f : Resolves(<< >>, 0, f) /\ Resolve(<< >>) = f[0]
  BY <1>1, ResolveIs
<1>3. f[0] = << >>
  BY <1>1, <1>2, ResolvedIs DEF Resolved
<1> QED
  BY Zenon, <1>2, <1>3

LEMMA CwdLeads == CwdInv => CwdNamesADirectory
<1> DEFINE names == Tokens(current_path)
<1> SUFFICES ASSUME CwdInv, mounted, passed \cap renamed = {},
                    ~ \E e \in renamed, p \in passed : Covers(e, p)
             PROVE  Works \/ (Unread /\ (Resolve(names) = << >> \/ SomeOdd))
  BY DEF CwdNamesADirectory, SomeOdd, Odd, Given
<1>1. current_path \in Text
  BY DEF CwdInv, SessionInv
<1>2. Follows(names)
  BY DEF CwdInv
<1>3. CASE names = << >>
  <2>1. Way(current_path) = <<WildEntry>>
    BY Zenon, <1>3 DEF Way
  <2>2. find(current_path) = WildEntry
    BY <2>1 DEF find, Last
  <2>3. WildEntry # None /\ Named(WildEntry) = Wild
    BY DEF WildEntry, None, Wild, Named
  <2>4. Unread
    BY <2>2, <2>3 DEF Unread
  <2> QED
    BY <1>3, <2>4, ResolveOfNone
<1>4. CASE names # << >>
  <2> DEFINE n == Len(names)
  <2>1. PICK c : /\ Trail(names, c)
                 /\ \A i \in 1..Len(c) : /\ c[i] \in passed
                                         /\ \A e \in Listed : Covers(e, c[i]) => e \in renamed
                 /\ \/ Of(c[n]) \in Folders
                    \/ Of(c[n]) = Zero /\ (Resolve(names) = << >> \/ SomeOdd)
    BY <1>2, <1>4 DEF Follows
  <2>2. \A i \in 1..Len(c) : \A e \in Listed : ~Covers(e, c[i])
    BY <2>1
  <2>3. find(current_path) = c[n]
    BY <1>1, <1>4, <2>1, <2>2, TrailLeads
  <2>4. c[n] \in Listed
    <3>1. names \in Seq(Name)
      BY <1>1, TokensTyped
    <3>2. n \in 1..n
      BY <1>4, <3>1
    <3> QED
      BY <2>1, <3>2 DEF Trail
  <2>5. c[n] # None /\ Named(c[n]) = Of(c[n])
    BY <2>4, ListedIs
  <2> HIDE DEF n, names
  <2>6. CASE Of(c[n]) \in Folders
    BY <2>3, <2>5, <2>6 DEF Works, Parses
  <2>7. CASE Of(c[n]) = Zero /\ (Resolve(names) = << >> \/ SomeOdd)
    BY <2>3, <2>5, <2>7 DEF Unread
  <2> QED
    BY <2>1, <2>6, <2>7
<1> QED
  BY <1>3, <1>4

\* delete and undelete change the names of entries only, and of those they
\* count among the renamed.
LEMMA ActFollows ==
  ASSUME CwdInv, SessionInv', NEW ndir, NEW char \in Firsts, ActOn(ndir, char)
  PROVE  CwdInv'
<1> DEFINE pndir == get_parent_path(ndir)
           file  == find(ndir)
           marked == file[1] = IF pndir = Slash THEN Root ELSE Named(find(pndir))
<1>1. /\ first' = IF marked THEN [first EXCEPT ![file] = char] ELSE first
      /\ renamed' = IF marked THEN renamed \cup {file} ELSE renamed
      /\ UNCHANGED <<mounted, dangling, current_path, saved, passed>>
  BY Zenon DEF ActOn
<1> HIDE DEF file, marked
<1>2. /\ first \in [Listed -> Firsts] /\ saved \in [AtRoot -> Firsts] /\ passed \subseteq Listed
      /\ mounted => ~dangling
  BY DEF CwdInv
<1>3. first' \in [Listed -> Firsts]
  BY <1>1, <1>2
<1>4. renamed \subseteq renamed'
  BY <1>1
<1>5. ASSUME NEW e \in Listed, e \notin renamed' PROVE NameOf(e)' = NameOf(e)
  <2>1. first'[e] = first[e]
    BY <1>1, <1>2, <1>5
  <2> QED
    BY <2>1 DEF NameOf
<1>6. ASSUME mounted, passed \cap renamed' = {}
      PROVE  Follows(Tokens(current_path))'
  <2> DEFINE names == Tokens(current_path)
  <2>1. Follows(names)
    BY <1>4, <1>6 DEF CwdInv
  <2>2. names' = names
    BY <1>1
  <2> HIDE DEF names
  <2>3. PICK c : /\ Trail(names, c)
                 /\ \A i \in 1..Len(c) : /\ c[i] \in passed
                                         /\ \A e \in Listed : Covers(e, c[i]) => e \in renamed
                 /\ names # << >> =>
                      \/ Of(c[Len(names)]) \in Folders
                      \/ Of(c[Len(names)]) = Zero /\ (Resolve(names) = << >> \/ SomeOdd)
    BY <2>1 DEF Follows
  <2>4. \A i \in 1..Len(c) : c[i] \in Listed /\ c[i] \notin renamed'
    BY <1>2, <1>6, <2>3
  <2>5. \A i \in 1..Len(c) : NameOf(c[i])' = NameOf(c[i])
    BY <1>5, <2>4
  <2>6. Trail(names, c)'
    BY <2>2, <2>3, <2>5 DEF Trail, DirAt, Of
  <2>7. ASSUME NEW i \in 1..Len(c), NEW e \in Listed, Covers(e, c[i])'
        PROVE  e \in renamed'
    <3>1. SUFFICES ASSUME e \notin renamed' PROVE FALSE
      OBVIOUS
    <3>2. NameOf(e)' = NameOf(e) /\ NameOf(c[i])' = NameOf(c[i])
      BY <1>5, <2>5, <3>1
    <3>3. Covers(e, c[i])
      BY <2>7, <3>2 DEF Covers
    <3> QED
      BY <1>4, <2>3, <3>1, <3>3
  <2>8. SomeOdd => SomeOdd'
    <3>1. SUFFICES ASSUME NEW e \in passed, Odd(e) PROVE SomeOdd'
      BY DEF SomeOdd
    <3>2. NameOf(e)' = NameOf(e)
      BY <1>2, <1>5, <1>6
    <3>3. Odd(e)'
      BY <3>1, <3>2 DEF Odd, Given
    <3> QED
      BY <1>1, <3>3 DEF SomeOdd
  <2>9. \A i \in 1..Len(c) : c[i] \in passed'
    BY <1>1, <2>3
  <2>10. names' # << >> =>
           \/ Of(c[Len(names')]) \in Folders
           \/ Of(c[Len(names')]) = Zero /\ (Resolve(names') = << >> \/ SomeOdd')
    BY <2>2, <2>3, <2>8
  <2>11. Follows(names)'
    BY <2>6, <2>7, <2>9, <2>10 DEF Follows, Of
  <2> QED
    BY <2>11 DEF names
<1> QED
  BY <1>1, <1>2, <1>3, <1>6 DEF CwdInv

LEMMA CharTyped ==
  ASSUME NEW path \in Text
  PROVE  fix_deleted_char(path).char \in Firsts
<1> DEFINE q == Chopped(path)
           k == DeletedAt(q)
<1>1. q \in Text
  BY ChoppedTyped
<1>2. k \in Nat \ {0}
  BY <1>1, CutTyped DEF DeletedAt
<1>3. fix_deleted_char(path) =
        IF k > Len(q) THEN [char |-> "", path |-> Append(q, "?")]
                      ELSE [char |-> q[k], path |-> [q EXCEPT ![k] = "?"]]
  BY Zenon DEF fix_deleted_char
<1> DEFINE a == Append(q, "?")
           b == [q EXCEPT ![k] = "?"]
<1> HIDE DEF q, k, a, b
<1>4. CASE k > Len(q)
  <2>1. fix_deleted_char(path) = [char |-> "", path |-> a]
    BY Zenon, <1>3, <1>4 DEF a
  <2>2. [char |-> "", path |-> a].char = ""
    OBVIOUS
  <2> QED
    BY Zenon, <2>1, <2>2 DEF Firsts
<1>5. CASE ~(k > Len(q))
  <2>1. fix_deleted_char(path) = [char |-> q[k], path |-> b]
    BY Zenon, <1>3, <1>5 DEF b
  <2>2. fix_deleted_char(path).char = q[k]
    BY <2>1
  <2>3. q[k] \in Chars
    BY <1>1, <1>2, <1>5 DEF Text
  <2> QED
    BY <2>2, <2>3 DEF Firsts
<1> QED
  BY <1>4, <1>5

\* cd leaves a trail behind: the entries it passed.
LEMMA Arrives ==
  ASSUME TreeIsProper, CwdInv, mounted, NEW path \in Typed, cd(path)
  PROVE  LET T == Tokens(current_path')
         IN  \E c : /\ Trail(T, c)
                    /\ \A i \in 1..Len(c) : c[i] \in passed' /\ Uncovered(c[i])
                    /\ T # << >> =>
                         \/ Of(c[Len(T)]) \in Folders
                         \/ /\ Of(c[Len(T)]) = Zero
                            /\ Resolve(T) = << >> \/ \E e \in passed' : Odd(e)
<1> DEFINE npath == address_convertor(path)
           T == Tokens(npath)
           n == Len(T)
           W == Range(Way(npath)) \cap Listed
           Goal == \E c : /\ Trail(T, c)
                          /\ \A i \in 1..Len(c) : c[i] \in W /\ Uncovered(c[i])
                          /\ T # << >> =>
                               \/ Of(c[n]) \in Folders
                               \/ /\ Of(c[n]) = Zero
                                  /\ Resolve(T) = << >> \/ \E e \in W : Odd(e)
<1>1. Accepts(npath) /\ current_path' = npath /\ passed' = W
  BY DEF cd
<1> SUFFICES Goal
  BY Zenon, <1>1
<1>2. npath \in Text
  BY TypedIs, ConvertTyped DEF CwdInv
<1>3. T \in Seq(Name)
  BY <1>2, TokensTyped
<1>4. first \in [Listed -> Firsts] /\ ~dangling
  BY DEF CwdInv
<1>5. PICK f : Resolves(T, n, f) /\ Resolve(T) = f[n]
  BY <1>3, ResolveIs
<1>6. CASE T = << >>
  <2>1. << >> \in Seq(Listed) /\ Len(<< >>) = 0
    OBVIOUS
  <2>2. Trail(T, << >>)
    BY <1>6, <2>1 DEF Trail
  <2> HIDE DEF T, W
  <2> QED
    BY <1>6, <2>1, <2>2
<1>7. CASE T # << >>
  <2>1. PICK w : Walks(T, n, w) /\ Way(npath) = w[n] /\ find(npath) = Last(w[n])
    BY <1>2, <1>7, FindIs
  <2>2. find(npath) # None /\ Named(find(npath)) \in Folders \cup {Zero, Wild}
    <3>1. npath # Slash
      BY <1>7, TokensOfSlash
    <3> QED
      BY <1>1, <1>4, <3>1 DEF Accepts
  <2> DEFINE c == w[n]
  <2>3. /\ Trail(T, c) /\ Len(c) = n
        /\ \A i \in 1..n : c[i] = Last(w[i]) /\ \A e \in Listed : ~Covers(e, c[i])
    BY <1>3, <1>7, <2>1, <2>2, WalkIsTrail
  <2>4. n \in Nat /\ n \in 1..n
    BY <1>3, <1>7
  <2>5. c \in Seq(Listed) /\ \A i \in 1..n : c[i] \in Listed
    BY <2>3 DEF Trail
  <2>6. \A i \in 1..n : c[i] \in Range(Way(npath))
    <3>1. Range(c) = {c[i] : i \in DOMAIN c}
      BY Zenon DEF Range
    <3>2. DOMAIN c = 1..n
      BY <2>3, <2>5
    <3> QED
      BY <2>1, <3>1, <3>2
  <2>7. \A i \in 1..n : c[i] \in W /\ Uncovered(c[i]) /\ Last(w[i]) \in W
    BY <2>3, <2>5, <2>6 DEF Uncovered
  <2>8. find(npath) = c[n] /\ Named(c[n]) = Of(c[n]) /\ Of(c[n]) \in Folders \cup Files \cup {Zero}
    BY <2>1, <2>3, <2>4, <2>5, ListedIs
  <2>9. Of(c[n]) \in Folders \cup {Zero} /\ Of(c[n]) \notin Files
    BY <2>2, <2>8, SessionAssumption
  <2>10. W \subseteq Listed
    OBVIOUS
  <2> HIDE DEF W, n, T, npath, c
  <2>11. ASSUME Of(c[n]) = Zero, ~ \E e \in W : Odd(e) PROVE Resolve(T) = << >>
    <3>1. Named(Last(w[n])) = Zero /\ Last(w[n]) # None /\ Named(Last(w[n])) \notin Files
      BY <2>1, <2>2, <2>8, <2>9, <2>11
    <3>2. \A e \in W : ~Odd(e)
      BY <2>11
    <3>3. f[n] = << >>
      BY <1>3, <1>4, <1>5, <1>7, <2>1, <2>7, <2>10, <3>1, <3>2, Walking DEF n
    <3> QED
      BY <1>5, <3>3
  <2>12. \A i \in 1..Len(c) : c[i] \in W /\ Uncovered(c[i])
    BY <2>3, <2>7
  <2> QED
    BY <2>3, <2>9, <2>11, <2>12
<1> QED
  BY <1>6, <1>7

LEMMA CwdStarted == Init => CwdInv
<1> SUFFICES ASSUME Init PROVE CwdInv
  OBVIOUS
<1>1. /\ SessionInv /\ mounted = FALSE /\ passed = {}
      /\ first = [e \in Listed |-> FirstOf(e)] /\ saved = [e \in AtRoot |-> FirstOf(e)]
  BY Started DEF Init
<1>2. ASSUME NEW e \in Listed PROVE FirstOf(e) \in Firsts
  <2>1. Given(e) \in Seq(Chars) /\ Given(e) # << >>
    BY ListedIs DEF Text
  <2>2. FirstOf(e) = Head(Given(e))
    BY Zenon DEF FirstOf, Given
  <2>3. Head(Given(e)) \in Chars
    BY <2>1
  <2> QED
    BY <2>2, <2>3 DEF Firsts
<1>3. first \in [Listed -> Firsts] /\ saved \in [AtRoot -> Firsts]
  BY <1>1, <1>2 DEF AtRoot
<1> QED
  BY <1>1, <1>3 DEF CwdInv

LEMMA CwdStays ==
  ASSUME TreeIsProper
  PROVE  CwdInv /\ [Next]_vars => CwdInv'
<1> SUFFICES ASSUME CwdInv, [Next]_vars PROVE CwdInv'
  OBVIOUS
<1>1. SessionInv'
  BY Stays DEF CwdInv
<1>2. /\ first \in [Listed -> Firsts] /\ saved \in [AtRoot -> Firsts] /\ passed \subseteq Listed
      /\ (mounted => ~dangling) /\ SessionInv
  BY DEF CwdInv
<1>3. CASE Mount
  <2>1. /\ mounted' = TRUE /\ dangling' = FALSE /\ current_path' = Slash /\ passed' = {}
        /\ first' = [e \in Listed |-> IF e \in AtRoot THEN saved[e] ELSE first[e]]
        /\ saved' = saved
    BY <1>3 DEF Mount
  <2>2. first' \in [Listed -> Firsts]
    BY <1>2, <2>1
  <2>3. Trail(<< >>, << >>)' /\ Len(<< >>) = 0
    <3>1. << >> \in Seq(Listed) /\ Len(<< >>) = 0
      OBVIOUS
    <3> QED
      BY <3>1 DEF Trail
  <2>4. Follows(<< >>)'
    BY <2>3 DEF Follows
  <2>5. Follows(Tokens(current_path))'
    BY <2>1, <2>4, TokensOfSlash
  <2> QED
    BY <1>1, <1>2, <2>1, <2>2, <2>5 DEF CwdInv
<1>4. CASE Umount
  <2>1. /\ mounted' = FALSE /\ passed' = {} /\ first' = first
        /\ saved' = [e \in AtRoot |-> first[e]]
    BY <1>4 DEF Umount
  <2>2. saved' \in [AtRoot -> Firsts]
    BY <1>2, <2>1 DEF AtRoot
  <2> QED
    BY <1>1, <1>2, <2>1, <2>2 DEF CwdInv
<1>5. ASSUME NEW path \in Typed, cd(path) PROVE CwdInv'
  <2>1. /\ passed' = Range(Way(address_convertor(path))) \cap Listed
        /\ UNCHANGED <<mounted, dangling, first, saved>>
    BY <1>5 DEF cd
  <2>2. ASSUME mounted PROVE Follows(Tokens(current_path))'
    <3> DEFINE names == Tokens(current_path)
    <3>1. PICK c : /\ Trail(names', c)
                   /\ \A i \in 1..Len(c) : c[i] \in passed' /\ Uncovered(c[i])
                   /\ names' # << >> =>
                        \/ Of(c[Len(names')]) \in Folders
                        \/ /\ Of(c[Len(names')]) = Zero
                           /\ Resolve(names') = << >> \/ \E e \in passed' : Odd(e)
      BY Zenon, <1>5, <2>2, Arrives
    <3> HIDE DEF names
    <3>2. \A e : NameOf(e)' = NameOf(e)
      BY <2>1 DEF NameOf
    <3>3. Trail(names, c)'
      BY <3>1, <3>2 DEF Trail, DirAt, Of
    <3>4. \A i \in 1..Len(c) : c[i] \in passed' /\ \A e \in Listed : ~Covers(e, c[i])'
      BY <3>1, <3>2 DEF Uncovered, Covers
    <3>5. (\E e \in passed' : Odd(e)) => SomeOdd'
      BY <3>2 DEF SomeOdd, Odd, Given
    <3>6. names' # << >> =>
            \/ Of(c[Len(names')]) \in Folders
            \/ Of(c[Len(names')]) = Zero /\ (Resolve(names') = << >> \/ SomeOdd')
      BY <3>1, <3>5
    <3>7. Follows(names)'
      BY <3>3, <3>4, <3>6 DEF Follows, Of
    <3> QED
      BY <3>7 DEF names
  <2> QED
    BY <1>1, <1>2, <2>1, <2>2 DEF CwdInv
<1>6. ASSUME NEW path \in Typed, delete(path) PROVE CwdInv'
  <2>1. Deleted \in Firsts
    BY SessionAssumption DEF Deleted, Firsts
  <2> QED
    BY <1>1, <1>6, <2>1, ActFollows DEF delete
<1>7. ASSUME NEW path \in Typed, undelete(path) PROVE CwdInv'
  <2> DEFINE fixed == fix_deleted_char(path)
  <2>1. ActOn(address_convertor(fixed.path), fixed.char)
    BY <1>7 DEF undelete
  <2>2. path \in Text
    BY TypedIs
  <2>3. fixed.char \in Firsts
    BY Zenon, <2>2, CharTyped
  <2> HIDE DEF fixed
  <2> QED
    BY <1>1, <2>1, <2>3, ActFollows
<1>8. CASE UNCHANGED vars
  <2>1. UNCHANGED <<mounted, dangling, current_path, first, saved, passed, renamed>>
    BY <1>8 DEF vars
  <2> QED
    BY Zenon, <1>1, <2>1 DEF CwdInv, Follows, Trail, DirAt, Of, SomeOdd, Odd, NameOf, Given, Covers
<1> QED
  BY <1>3, <1>4, <1>5, <1>6, <1>7, <1>8 DEF Next

-----------------------------------------------------------------------------
(* Theorems *)

\* With a device, the working directory starts and ends with a '/', whatever
\* paths cd was given: change_current_path's comment asks for the '/' at the
\* end.
THEOREM WorkingDirectoryIsAPath == Spec => []CwdIsAPath
<1>1. SessionInv => CwdIsAPath
  BY DEF SessionInv
<1> QED
  BY <1>1, Started, Stays, PTL DEF Spec

\* cd .. undoes a cd into a directory, however deep the working directory.
THEOREM UpUndoesDown == Spec => []UpIsParent
<1>1. SessionInv => UpIsParent
  BY UpIs
<1> QED
  BY <1>1, Started, Stays, PTL DEF Spec

\* delete and undelete, from any working directory and through . and .., mark
\* the entry whose clusters they free or claim, in a tree of any shape, unless
\* the path they complete has two '/' in a row.
THEOREM MarksGoWithClusters == Spec => []MarksWhatItFrees
<1>1. SessionInv => MarksWhatItFrees
  BY DEF SessionInv
<1> QED
  BY <1>1, Started, Stays, PTL DEF Spec

\* From every working directory, undelete looks for the name that was typed
\* with a '?' for its first character, and puts that character back, unless
\* the path is absolute and of one name.
THEOREM UndeleteFindsItsName == Spec => []UndeleteLooksForTyped
<1>1. SessionInv => UndeleteLooksForTyped
  BY LooksFor
<1> QED
  BY <1>1, Started, Stays, PTL DEF Spec

\* In every tree whose . and .. name what they should, the text of the working
\* directory goes on leading find to a directory until an entry on the way cd
\* took is renamed or one in front of it gets its name; unless it is the root
\* by a text other than "/", which find comes to and parse_dir does not read.
THEOREM WorkingDirectoryStays ==
  ASSUME TreeIsProper
  PROVE  Spec => []CwdNamesADirectory
<1>1. CwdInv /\ [Next]_vars => CwdInv'
  BY CwdStays
<1> QED
  BY <1>1, CwdStarted, CwdLeads, PTL DEF Spec
=============================================================================
