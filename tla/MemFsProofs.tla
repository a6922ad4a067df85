----------------------------- MODULE MemFsProofs -----------------------------
(***************************************************************************)
(* The linked inodes of MemFs are one tree, link counts and charges are    *)
(* exact, and no operation loses more than the inode it replaces, for      *)
(* every set of names, every limit and every number of inodes.             *)
(*                                                                         *)
(* An operation is at most one cut of a leaf and one addition or move of a *)
(* subtree.  The lemmas treat these on the shape of the tree (file types,  *)
(* parents, link counts) and on the entry list of one directory apart.     *)
(***************************************************************************)
EXTENDS MemFs, FiniteSetTheorems, SequenceTheorems, TLAPS

-----------------------------------------------------------------------------
(* Entry lists: the directory contents, a sequence of <<name, inode>>.      *)

EntrySeq == Seq(Name \X Ino)

NamesIn(s) == {s[k][1] : k \in DOMAIN s}
KidsIn(s)  == {s[k][2] : k \in DOMAIN s}

\* No name and no inode occurs twice.
Distinct(s) ==
  \A k, l \in DOMAIN s : s[k][1] = s[l][1] \/ s[k][2] = s[l][2] => k = l

\* What RemoveAt returns, position by position.
LEMMA RemoveAtFacts ==
  ASSUME NEW S, NEW s \in Seq(S), NEW i \in 1 .. Len(s)
  PROVE  /\ RemoveAt(s, i) \in Seq(S)
         /\ Len(RemoveAt(s, i)) = Len(s) - 1
         /\ \A k \in 1 .. Len(s) - 1 :
              RemoveAt(s, i)[k] = IF k < i THEN s[k] ELSE s[k + 1]
<1> DEFINE a == SubSeq(s, 1, i - 1)
           b == SubSeq(s, i + 1, Len(s))
<1>1. a \in Seq(S) /\ Len(a) = i - 1 /\ \A k \in 1 .. i - 1 : a[k] = s[k]
  OBVIOUS
<1>2. b \in Seq(S) /\ Len(b) = Len(s) - i
      /\ \A k \in 1 .. Len(s) - i : b[k] = s[i + k]
  OBVIOUS
<1> HIDE DEF a, b
<1>3. /\ a \o b \in Seq(S) /\ Len(a \o b) = Len(s) - 1
      /\ \A k \in 1 .. Len(s) - 1 :
           (a \o b)[k] = IF k <= i - 1 THEN a[k] ELSE b[k - (i - 1)]
  <2>1. Len(a) + Len(b) = Len(s) - 1
    BY <1>1, <1>2
  <2>2. /\ a \o b \in Seq(S) /\ Len(a \o b) = Len(a) + Len(b)
        /\ \A k \in 1 .. Len(a) + Len(b) :
             (a \o b)[k] = IF k <= Len(a) THEN a[k] ELSE b[k - Len(a)]
    <3>1. a \in Seq(S) /\ b \in Seq(S)
      BY <1>1, <1>2
    <3> QED
      BY ONLY Zenon, <3>1, ConcatProperties
  <2>3. Len(a) = i - 1
    BY <1>1
  <2> QED
    BY ONLY Zenon, <2>1, <2>2, <2>3
<1>4. ASSUME NEW k \in 1 .. Len(s) - 1
      PROVE  (a \o b)[k] = IF k < i THEN s[k] ELSE s[k + 1]
  <2>1. CASE k < i
    BY <1>1, <1>3, <2>1
  <2>2. CASE ~(k < i)
    <3>1. (a \o b)[k] = b[k - (i - 1)]
      BY <1>3, <2>2
    <3>2. k - (i - 1) \in 1 .. Len(s) - i /\ i + (k - (i - 1)) = k + 1
      BY <2>2
    <3> QED
      BY <1>2, <2>2, <3>1, <3>2
  <2> QED
    BY Zenon, <2>1, <2>2
<1>5. RemoveAt(s, i) = a \o b
  BY DEF RemoveAt, a, b
<1> QED
  BY <1>3, <1>4, <1>5

\* An entry list without one entry.
LEMMA RemovedList ==
  ASSUME NEW s \in EntrySeq, Distinct(s), NEW i \in DOMAIN s
  PROVE  /\ RemoveAt(s, i) \in EntrySeq
         /\ Distinct(RemoveAt(s, i))
         /\ NamesIn(RemoveAt(s, i)) = NamesIn(s) \ {s[i][1]}
         /\ KidsIn(RemoveAt(s, i)) = KidsIn(s) \ {s[i][2]}
<1> DEFINE r == RemoveAt(s, i)
           back(k) == IF k < i THEN k ELSE k + 1
<1>1. Len(s) \in Nat /\ DOMAIN s = 1 .. Len(s) /\ i \in 1 .. Len(s)
  BY DEF EntrySeq
<1>2. r \in EntrySeq /\ DOMAIN r = 1 .. Len(s) - 1
      /\ \A k \in 1 .. Len(s) - 1 : r[k] = s[back(k)]
  <2> DEFINE T == Name \X Ino
  <2>1. s \in Seq(T)
    BY DEF EntrySeq
  <2> HIDE DEF T
  <2>2. /\ r \in Seq(T) /\ Len(r) = Len(s) - 1
        /\ \A k \in 1 .. Len(s) - 1 : r[k] = IF k < i THEN s[k] ELSE s[k + 1]
    BY Zenon, <1>1, <2>1, RemoveAtFacts
  <2> HIDE DEF r
  <2>3. DOMAIN r = 1 .. Len(s) - 1
    BY <2>2
  <2>4. r \in EntrySeq
    BY <2>2 DEF EntrySeq, T
  <2> QED
    BY <2>2, <2>3, <2>4
<1> HIDE DEF r
<1>3. \A k \in DOMAIN r : back(k) \in DOMAIN s /\ back(k) # i /\ r[k] = s[back(k)]
  BY <1>1, <1>2
<1>4. \A l \in DOMAIN s : l # i => \E k \in DOMAIN r : back(k) = l
  <2>1. SUFFICES ASSUME NEW l \in DOMAIN s, l # i PROVE \E k \in DOMAIN r : back(k) = l
    OBVIOUS
  <2>2. CASE l < i
    BY <1>1, <1>2, <2>2
  <2>3. CASE l > i
    <3>1. l - 1 \in DOMAIN r /\ back(l - 1) = l
      BY <1>1, <1>2, <2>3
    <3> QED
      BY <3>1
  <2> QED
    BY <1>1, <2>1, <2>2, <2>3
<1>5. \A k, l \in DOMAIN r : back(k) = back(l) => k = l
  BY <1>1, <1>2
<1> HIDE DEF back
<1>6. Distinct(r)
  BY <1>3, <1>5 DEF Distinct
<1>7. NamesIn(r) = NamesIn(s) \ {s[i][1]}
  <2>1. \A x \in NamesIn(r) : x \in NamesIn(s) \ {s[i][1]}
    BY <1>3 DEF NamesIn, Distinct
  <2>2. \A x \in NamesIn(s) \ {s[i][1]} : x \in NamesIn(r)
    BY <1>3, <1>4 DEF NamesIn
  <2> QED
    BY <2>1, <2>2
<1>8. KidsIn(r) = KidsIn(s) \ {s[i][2]}
  <2>1. \A x \in KidsIn(r) : x \in KidsIn(s) \ {s[i][2]}
    BY <1>3 DEF KidsIn, Distinct
  <2>2. \A x \in KidsIn(s) \ {s[i][2]} : x \in KidsIn(r)
    BY <1>3, <1>4 DEF KidsIn
  <2> QED
    BY <2>1, <2>2
<1> QED
  BY <1>2, <1>6, <1>7, <1>8 DEF r

\* An entry list with one more entry, of a new name and a new inode.
LEMMA AppendedList ==
  ASSUME NEW s \in EntrySeq, Distinct(s), NEW n \in Name \ NamesIn(s),
         NEW c \in Ino \ KidsIn(s)
  PROVE  /\ Append(s, <<n, c>>) \in EntrySeq
         /\ Distinct(Append(s, <<n, c>>))
         /\ KidsIn(Append(s, <<n, c>>)) = KidsIn(s) \union {c}
<1> DEFINE r == Append(s, <<n, c>>)
           e == Len(s) + 1
<1>1. Len(s) \in Nat /\ DOMAIN s = 1 .. Len(s)
  BY DEF EntrySeq
<1>2. r \in EntrySeq /\ DOMAIN r = 1 .. e /\ r[e] = <<n, c>>
      /\ \A k \in DOMAIN s : r[k] = s[k]
  BY <1>1 DEF EntrySeq
<1> HIDE DEF r
<1>3. DOMAIN r = DOMAIN s \union {e} /\ e \notin DOMAIN s
  BY <1>1, <1>2
<1>4. r[e][1] = n /\ r[e][2] = c
  BY <1>2
<1> HIDE DEF e
<1>5. \A k \in DOMAIN s : r[k][1] # n /\ r[k][2] # c
  BY <1>2 DEF NamesIn, KidsIn
<1>6. Distinct(r)
  BY Zenon, <1>2, <1>3, <1>4, <1>5 DEF Distinct
<1>7. KidsIn(r) = KidsIn(s) \union {c}
  <2>1. \A k \in DOMAIN s : r[k][2] = s[k][2]
    BY <1>2
  <2>2. ASSUME NEW k \in DOMAIN r PROVE r[k][2] \in KidsIn(s) \union {c}
    BY <1>3, <1>4, <2>1 DEF KidsIn
  <2>3. ASSUME NEW k \in DOMAIN s PROVE s[k][2] \in KidsIn(r)
    BY <1>3, <2>1 DEF KidsIn
  <2>4. c \in KidsIn(r)
    BY <1>3, <1>4 DEF KidsIn
  <2> QED
    BY <2>2, <2>3, <2>4 DEF KidsIn
<1> QED
  BY <1>2, <1>6, <1>7 DEF r

\* An entry list in which one inode gets a new name.
LEMMA RenamedList ==
  ASSUME NEW s \in EntrySeq, Distinct(s), NEW n \in Name \ NamesIn(s), NEW c \in Ino
  PROVE  LET r == [k \in DOMAIN s |-> IF s[k][2] = c THEN <<n, c>> ELSE s[k]]
         IN  r \in EntrySeq /\ Distinct(r) /\ KidsIn(r) = KidsIn(s)
<1> DEFINE r == [k \in DOMAIN s |-> IF s[k][2] = c THEN <<n, c>> ELSE s[k]]
<1>1. Len(s) \in Nat /\ DOMAIN s = 1 .. Len(s) /\ \A k \in DOMAIN s : s[k] \in Name \X Ino
  BY DEF EntrySeq
<1>2. r \in EntrySeq
  <2>1. \A k \in 1 .. Len(s) : r[k] \in Name \X Ino
    BY <1>1
  <2>2. r \in [1 .. Len(s) -> Name \X Ino]
    BY <1>1, <2>1
  <2> QED
    BY <1>1, <2>2 DEF EntrySeq
<1>3. DOMAIN r = DOMAIN s
  OBVIOUS
<1>4. \A k \in DOMAIN s : r[k][2] = s[k][2]
  OBVIOUS
<1>5. \A k \in DOMAIN s : r[k][1] = IF s[k][2] = c THEN n ELSE s[k][1]
  OBVIOUS
<1> HIDE DEF r
<1>6. Distinct(r)
  <2>1. SUFFICES ASSUME NEW k \in DOMAIN s, NEW l \in DOMAIN s,
                        r[k][1] = r[l][1] \/ r[k][2] = r[l][2]
                 PROVE  k = l
    BY <1>3 DEF Distinct
  <2>2. s[k][1] # n /\ s[l][1] # n
    BY DEF NamesIn
  <2> QED
    BY <1>4, <1>5, <2>1, <2>2 DEF Distinct
<1>7. KidsIn(r) = KidsIn(s)
  BY <1>3, <1>4 DEF KidsIn
<1> QED
  BY <1>2, <1>6, <1>7 DEF r

-----------------------------------------------------------------------------
(* Chains of parents.                                                       *)

Closed(par, S) == \A i \in S : par[i] # NoIno => par[i] \in S

\* i and what is above it.
Above(par, i) == {a \in Ino : \A S \in SUBSET Ino : i \in S /\ Closed(par, S) => a \in S}

Parents == [Ino -> Ino \union {NoIno}]

LEMMA InoFacts ==
  /\ Root \in Ino /\ Ino \subseteq Nat /\ NoIno \notin Ino
  /\ IsFiniteSet(Ino)
  /\ \A S \in SUBSET Ino : IsFiniteSet(S) /\ Cardinality(S) \in Nat
<1>1. Root \in Ino /\ Ino \subseteq Nat /\ NoIno \notin Ino
  BY MemFsAssumption DEF Ino, Root, NoIno
<1>2. IsFiniteSet(Ino)
  BY MemFsAssumption, FS_Interval DEF Ino
<1>3. \A S \in SUBSET Ino : IsFiniteSet(S) /\ Cardinality(S) \in Nat
  BY <1>2, FS_Subset, FS_CardinalityType
<1> QED
  BY <1>1, <1>2, <1>3

\* What is above i holds i, is closed, and is inside every closed set with i.
LEMMA AboveFacts ==
  ASSUME NEW par \in Parents, NEW i \in Ino
  PROVE  /\ i \in Above(par, i)
         /\ Closed(par, Above(par, i))
         /\ \A S \in SUBSET Ino : i \in S /\ Closed(par, S) => Above(par, i) \subseteq S
<1>1. i \in Above(par, i)
  BY DEF Above
<1>2. \A S \in SUBSET Ino : i \in S /\ Closed(par, S) => Above(par, i) \subseteq S
  BY DEF Above
<1>3. ASSUME NEW a \in Above(par, i), par[a] # NoIno
      PROVE  par[a] \in Above(par, i)
  <2>1. a \in Ino /\ par[a] \in Ino
    BY <1>3 DEF Above, Parents
  <2>2. ASSUME NEW S \in SUBSET Ino, i \in S, Closed(par, S)
        PROVE  par[a] \in S
    BY <1>2, <1>3, <2>2 DEF Closed
  <2> QED
    BY <2>1, <2>2 DEF Above
<1> QED
  BY <1>1, <1>2, <1>3 DEF Closed

\* Moving x below a directory that x is not above leaves everything that was
\* below the root there, and brings x below it.
LEMMA MoveKeepsRooted ==
  ASSUME NEW par \in Parents, NEW x \in Ino, NEW dest \in Ino,
         x \notin Above(par, dest), Root \in Above(par, dest)
  PROVE  LET p2 == [par EXCEPT ![x] = dest]
         IN  /\ Root \in Above(p2, x)
             /\ \A i \in Ino : Root \in Above(par, i) => Root \in Above(p2, i)
<1> DEFINE p2 == [par EXCEPT ![x] = dest]
<1>1. p2 \in Parents /\ p2[x] = dest /\ \A i \in Ino : i # x => p2[i] = par[i]
  BY DEF Parents
<1> HIDE DEF p2
<1>2. ASSUME NEW S \in SUBSET Ino, Closed(p2, S), dest \in S
      PROVE  Root \in S
  <2> DEFINE T == S \intersect Above(par, dest)
  <2>1. T \in SUBSET Ino /\ dest \in T /\ x \notin T
    BY <1>2, AboveFacts
  <2>2. Closed(par, T)
    <3>1. SUFFICES ASSUME NEW i \in T, par[i] # NoIno PROVE par[i] \in T
      BY Zenon DEF Closed
    <3>2. i \in Ino /\ p2[i] = par[i]
      BY <1>1, <2>1
    <3>3. par[i] \in S
      BY <1>2, <3>1, <3>2 DEF Closed
    <3>4. par[i] \in Above(par, dest)
      BY <3>1, AboveFacts DEF Closed
    <3> QED
      BY <3>3, <3>4
  <2> QED
    BY <2>1, <2>2 DEF Above
<1>3. \A S \in SUBSET Ino : Closed(p2, S) /\ x \in S => Root \in S
  <2> SUFFICES ASSUME NEW S \in SUBSET Ino, Closed(p2, S), x \in S PROVE Root \in S
    OBVIOUS
  <2>1. dest \in S
    BY <1>1, InoFacts DEF Closed
  <2> QED
    BY <1>2, <2>1
<1>4. ASSUME NEW i \in Ino, Root \in Above(par, i) PROVE Root \in Above(p2, i)
  <2> SUFFICES ASSUME NEW S \in SUBSET Ino, Closed(p2, S), i \in S PROVE Root \in S
    BY InoFacts DEF Above
  <2>1. CASE x \in S
    BY <1>3, <2>1
  <2>2. CASE x \notin S
    <3>1. Closed(par, S)
      BY <1>1, <2>2 DEF Closed
    <3> QED
      BY <1>4, <3>1 DEF Above
  <2> QED
    BY <2>1, <2>2
<1>5. Root \in Above(p2, x)
  BY <1>3, InoFacts DEF Above
<1> QED
  BY Zenon, <1>4, <1>5 DEF p2

\* Nobody below the root is its own parent.
LEMMA NotOwnParent ==
  ASSUME NEW par \in Parents, NEW i \in Ino \ {Root}, Root \in Above(par, i)
  PROVE  par[i] # i
<1> SUFFICES ASSUME par[i] = i PROVE FALSE
  OBVIOUS
<1>1. Closed(par, {i})
  BY DEF Closed
<1> QED
  BY <1>1 DEF Above

-----------------------------------------------------------------------------
(* The shape of the tree: file types, parents and link counts.              *)

Inside(ls)               == {i \in Ino \ {Root} : ls[i] > 0}
Below(par, ls, d)        == {c \in Inside(ls) : par[c] = d}
Subdirs(ft, par, ls, d)  == {c \in Below(par, ls, d) : ft[c] = "dir"}
Counted(ft, par, ls, i)  ==
  IF ft[i] = "dir" THEN 2 + Cardinality(Subdirs(ft, par, ls, i)) ELSE 1

\* A directory in the tree.
Holder(ft, ls, d) == d \in Ino /\ ls[d] > 0 /\ ft[d] = "dir"

ShapeTypes(ft, par, ls) == ft \in [Ino -> FileType] /\ par \in Parents /\ ls \in [Ino -> Nat]

Shape(ft, par, ls) ==
  /\ ShapeTypes(ft, par, ls)
  /\ Holder(ft, ls, Root) /\ par[Root] = NoIno
  /\ \A i \in Ino : ft[i] = "none" => ls[i] = 0
  /\ \A c \in Inside(ls) : Holder(ft, ls, par[c]) /\ Root \in Above(par, c)
  /\ \A i \in Ino : ls[i] > 0 => ls[i] = Counted(ft, par, ls, i)

\* What is above a directory of the tree are directories of the tree.
LEMMA AboveHolders ==
  ASSUME NEW ft, NEW par, NEW ls, Shape(ft, par, ls), NEW d, Holder(ft, ls, d)
  PROVE  \A a \in Above(par, d) : Holder(ft, ls, a)
<1> DEFINE S == {i \in Ino : Holder(ft, ls, i)}
<1>1. S \in SUBSET Ino /\ d \in S /\ d \in Ino /\ par \in Parents
  BY DEF Holder, Shape, ShapeTypes
<1>2. ASSUME NEW i \in S, par[i] # NoIno PROVE par[i] \in S
  <2>1. i \in Ino /\ i # Root /\ ls[i] > 0
    BY <1>2 DEF Holder, Shape
  <2>2. i \in Inside(ls)
    BY <2>1 DEF Inside
  <2>3. Holder(ft, ls, par[i])
    BY <2>2 DEF Shape
  <2> QED
    BY <2>3 DEF Holder
<1>3. Closed(par, S)
  BY <1>2 DEF Closed
<1>4. Above(par, d) \subseteq S
  BY <1>1, <1>3, AboveFacts
<1> QED
  BY <1>4

\* The root is above every inode of the tree, the root included.
LEMMA RootAbove ==
  ASSUME NEW ft, NEW par, NEW ls, Shape(ft, par, ls), NEW i \in Ino, ls[i] > 0
  PROVE  Root \in Above(par, i)
<1>1. CASE i = Root
  BY <1>1, AboveFacts DEF Shape, ShapeTypes
<1>2. CASE i # Root
  BY <1>2 DEF Shape, Inside
<1> QED
  BY <1>1, <1>2

LEMMA SubdirsFinite ==
  ASSUME NEW ft, NEW par, NEW ls, NEW d
  PROVE  /\ IsFiniteSet(Subdirs(ft, par, ls, d))
         /\ Cardinality(Subdirs(ft, par, ls, d)) \in Nat
  BY InoFacts DEF Subdirs, Below, Inside

-----------------------------------------------------------------------------
\* MemoryInode::detach of a leaf t.
CutLinks(ft, ls, d, t) ==
  [ls EXCEPT ![t] = 0, ![d] = IF ft[t] = "dir" THEN @ - 1 ELSE @]

LEMMA CutShape ==
  ASSUME NEW ft, NEW par, NEW ls, Shape(ft, par, ls),
         NEW t \in Inside(ls), Below(par, ls, t) = {}
  PROVE  LET l2 == CutLinks(ft, ls, par[t], t)
         IN  /\ Shape(ft, par, l2)
             /\ Inside(l2) = Inside(ls) \ {t}
             /\ \A d \in Ino : Below(par, l2, d) = Below(par, ls, d) \ {t}
<1> DEFINE d  == par[t]
           l2 == CutLinks(ft, ls, d, t)
<1>1. /\ ft \in [Ino -> FileType] /\ par \in Parents /\ ls \in [Ino -> Nat]
      /\ t \in Ino /\ t # Root /\ ls[t] > 0
  BY DEF Shape, ShapeTypes, Inside
<1>2. d \in Ino /\ ls[d] > 0 /\ ft[d] = "dir" /\ Root \in Above(par, t)
  BY DEF Shape, Holder
<1>3. d # t
  BY <1>1, <1>2, NotOwnParent
<1>4. ls[d] = 2 + Cardinality(Subdirs(ft, par, ls, d))
  BY <1>2 DEF Shape, Counted
<1>5. ft[t] = "dir" => ls[d] >= 3
  <2>1. SUFFICES ASSUME ft[t] = "dir" PROVE ls[d] >= 3
    OBVIOUS
  <2>2. t \in Subdirs(ft, par, ls, d)
    BY <2>1 DEF Subdirs, Below
  <2>3. Cardinality(Subdirs(ft, par, ls, d)) # 0
    BY <2>2, SubdirsFinite, FS_EmptySet
  <2> QED
    BY <1>4, <2>3, SubdirsFinite
<1>6. /\ l2 \in [Ino -> Nat] /\ l2[t] = 0
      /\ l2[d] = IF ft[t] = "dir" THEN ls[d] - 1 ELSE ls[d]
      /\ \A i \in Ino : i # t /\ i # d => l2[i] = ls[i]
  <2> HIDE DEF d
  <2>1. ls[d] \in Nat /\ (ft[t] = "dir" => ls[d] - 1 \in Nat)
    BY <1>1, <1>2, <1>5
  <2> QED
    BY <1>1, <1>2, <1>3, <2>1 DEF CutLinks
<1> HIDE DEF d, l2
<1>7. \A i \in Ino : i # t => (l2[i] > 0 <=> ls[i] > 0)
  <2>1. l2[d] > 0
    BY <1>1, <1>2, <1>5, <1>6
  <2> QED
    BY <1>2, <1>6, <2>1
<1>8. Inside(l2) = Inside(ls) \ {t}
  BY <1>6, <1>7 DEF Inside
<1>9. \A i : Below(par, l2, i) = Below(par, ls, i) \ {t}
  BY <1>8 DEF Below
<1>10. \A i : Subdirs(ft, par, l2, i) = Subdirs(ft, par, ls, i) \ {t}
  BY <1>9 DEF Subdirs
<1>11. ASSUME NEW i \in Ino, l2[i] > 0 PROVE l2[i] = Counted(ft, par, l2, i)
  <2>1. i # t /\ ls[i] > 0 /\ ls[i] = Counted(ft, par, ls, i)
    BY <1>6, <1>7, <1>11 DEF Shape
  <2>2. CASE t \in Subdirs(ft, par, ls, i)
    <3>1. i = d /\ ft[t] = "dir" /\ l2[d] = ls[d] - 1
      BY <1>6, <2>2 DEF Subdirs, Below, d
    <3>2. Cardinality(Subdirs(ft, par, l2, i)) = Cardinality(Subdirs(ft, par, ls, i)) - 1
      BY <1>10, <2>2, SubdirsFinite, FS_RemoveElement
    <3>3. l2[d] = 2 + Cardinality(Subdirs(ft, par, l2, d))
      BY <1>4, <3>1, <3>2, SubdirsFinite DEF d
    <3> QED
      BY <1>2, <3>1, <3>3 DEF Counted
  <2>3. CASE t \notin Subdirs(ft, par, ls, i)
    <3>1. Subdirs(ft, par, l2, i) = Subdirs(ft, par, ls, i)
      BY <1>10, <2>3
    <3>2. l2[i] = ls[i]
      <4>1. ~(i = d /\ ft[t] = "dir")
        BY <2>3 DEF Subdirs, Below, d
      <4> QED
        BY <1>6, <2>1, <4>1
    <3> QED
      BY <2>1, <3>1, <3>2 DEF Counted
  <2> QED
    BY <2>2, <2>3
<1>12. ASSUME NEW c \in Inside(l2) PROVE Holder(ft, l2, par[c]) /\ Root \in Above(par, c)
  <2>1. c \in Inside(ls) /\ Holder(ft, ls, par[c]) /\ Root \in Above(par, c)
    BY <1>8 DEF Shape
  <2>2. par[c] # t
    BY <2>1 DEF Below
  <2> QED
    BY <1>7, <2>1, <2>2 DEF Holder
<1>13. Holder(ft, l2, Root)
  BY <1>1, <1>7 DEF Shape, Holder
<1>14. \A i \in Ino : ft[i] = "none" => l2[i] = 0
  BY <1>1, <1>6, <1>7 DEF Shape
<1>15. Shape(ft, par, l2)
  BY <1>1, <1>6, <1>11, <1>12, <1>13, <1>14 DEF Shape, ShapeTypes
<1> QED
  BY <1>8, <1>9, <1>15 DEF d, l2

-----------------------------------------------------------------------------
\* A new inode x in directory d.
AddLinks(ls, d, x, type) ==
  [ls EXCEPT ![x] = NewLinks(type), ![d] = IF type = "dir" THEN @ + 1 ELSE @]

AddedOK(par, ls, d, x, f2, p2, l2) ==
  /\ Shape(f2, p2, l2)
  /\ Inside(l2) = Inside(ls) \union {x}
  /\ x \notin Inside(ls)
  /\ Below(p2, l2, d) = Below(par, ls, d) \union {x}
  /\ \A i \in Ino \ {d} : Below(p2, l2, i) = Below(par, ls, i)

LEMMA AddShape ==
  ASSUME NEW ft, NEW par, NEW ls, Shape(ft, par, ls),
         NEW x \in Ino, ls[x] = 0, NEW d, Holder(ft, ls, d),
         NEW type \in {"dir", "file"}
  PROVE  AddedOK(par, ls, d, x, [ft EXCEPT ![x] = type], [par EXCEPT ![x] = d],
                 AddLinks(ls, d, x, type))
<1> DEFINE f2 == [ft EXCEPT ![x] = type]
           p2 == [par EXCEPT ![x] = d]
           l2 == AddLinks(ls, d, x, type)
<1>1. /\ ft \in [Ino -> FileType] /\ par \in Parents /\ ls \in [Ino -> Nat]
      /\ d \in Ino /\ ls[d] > 0 /\ ft[d] = "dir" /\ x # d /\ x # Root
  BY DEF Shape, ShapeTypes, Holder
<1>2. /\ f2 \in [Ino -> FileType] /\ f2[x] = type
      /\ \A i \in Ino : i # x => f2[i] = ft[i]
  BY <1>1 DEF FileType
<1>3. p2 \in Parents /\ p2[x] = d /\ \A i \in Ino : i # x => p2[i] = par[i]
  BY <1>1 DEF Parents
<1>4. /\ l2 \in [Ino -> Nat] /\ l2[x] = NewLinks(type) /\ l2[x] > 0
      /\ l2[d] = IF type = "dir" THEN ls[d] + 1 ELSE ls[d]
      /\ \A i \in Ino : i # x /\ i # d => l2[i] = ls[i]
  <2>1. NewLinks(type) \in Nat /\ NewLinks(type) > 0
    BY DEF NewLinks
  <2> QED
    BY <1>1, <2>1 DEF AddLinks
<1>5. /\ \A i \in Ino : Root \in Above(par, i) => Root \in Above(p2, i)
      /\ Root \in Above(p2, x)
  <2>1. x \notin Above(par, d)
    BY AboveHolders DEF Holder
  <2>2. Root \in Above(par, d)
    BY <1>1, RootAbove
  <2> QED
    BY <1>1, <2>1, <2>2, MoveKeepsRooted
<1> HIDE DEF f2, p2, l2
<1>6. \A i \in Ino : i # x => (l2[i] > 0 <=> ls[i] > 0)
  BY <1>1, <1>4
<1>7. Inside(l2) = Inside(ls) \union {x} /\ x \notin Inside(ls)
  BY <1>1, <1>4, <1>6 DEF Inside
<1>8. \A c \in Inside(ls) : c \in Ino /\ c # x /\ Holder(ft, ls, par[c]) /\ par[c] # x
  BY <1>7 DEF Shape, Holder, Inside
<1>9. /\ Below(p2, l2, d) = Below(par, ls, d) \union {x}
      /\ \A i \in Ino \ {d} : Below(p2, l2, i) = Below(par, ls, i)
  BY <1>3, <1>7, <1>8 DEF Below
<1>10. /\ Subdirs(f2, p2, l2, d) = IF type = "dir" THEN Subdirs(ft, par, ls, d) \union {x}
                                   ELSE Subdirs(ft, par, ls, d)
       /\ \A i \in Ino \ {d} : Subdirs(f2, p2, l2, i) = Subdirs(ft, par, ls, i)
  <2>1. \A i, c : c \in Below(par, ls, i) => f2[c] = ft[c]
    BY <1>2, <1>8 DEF Below
  <2> QED
    BY <1>2, <1>9, <2>1 DEF Subdirs
<1>11. Subdirs(ft, par, ls, x) = {} /\ x \notin Subdirs(ft, par, ls, d)
  BY <1>7, <1>8 DEF Subdirs, Below
<1>12. ASSUME NEW i \in Ino, l2[i] > 0 PROVE l2[i] = Counted(f2, p2, l2, i)
  <2>1. CASE i = x
    <3>1. Subdirs(f2, p2, l2, x) = {}
      BY <1>1, <1>10, <1>11
    <3>2. Cardinality(Subdirs(f2, p2, l2, x)) = 0
      BY <3>1, FS_EmptySet
    <3> QED
      BY <1>2, <1>4, <2>1, <3>2 DEF Counted, NewLinks
  <2>2. CASE i = d
    <3>1. ls[d] = 2 + Cardinality(Subdirs(ft, par, ls, d)) /\ f2[d] = "dir"
      BY <1>1, <1>2 DEF Shape, Counted
    <3>2. Cardinality(Subdirs(f2, p2, l2, d)) =
            IF type = "dir" THEN Cardinality(Subdirs(ft, par, ls, d)) + 1
            ELSE Cardinality(Subdirs(ft, par, ls, d))
      BY ZenonT(40), <1>10, <1>11, SubdirsFinite, FS_AddElement
    <3> QED
      BY <1>1, <1>4, <2>2, <3>1, <3>2, SubdirsFinite DEF Counted
  <2>3. CASE i # x /\ i # d
    <3>1. ls[i] > 0 /\ ls[i] = Counted(ft, par, ls, i) /\ l2[i] = ls[i]
      BY <1>4, <1>6, <1>12, <2>3 DEF Shape
    <3> QED
      BY <1>2, <1>10, <2>3, <3>1 DEF Counted
  <2> QED
    BY <2>1, <2>2, <2>3
<1>13. ASSUME NEW i, Holder(ft, ls, i) PROVE Holder(f2, l2, i)
  BY <1>2, <1>6, <1>13 DEF Holder
<1>14. ASSUME NEW c \in Inside(l2) PROVE Holder(f2, l2, p2[c]) /\ Root \in Above(p2, c)
  <2>1. CASE c = x
    BY <1>3, <1>5, <1>13, <2>1
  <2>2. CASE c \in Inside(ls)
    <3>1. c \in Ino /\ c # x /\ Holder(ft, ls, par[c]) /\ Root \in Above(par, c)
      BY <1>8, <2>2 DEF Shape
    <3> QED
      BY <1>3, <1>5, <1>13, <3>1
  <2> QED
    BY <1>7, <2>1, <2>2
<1>15. Holder(f2, l2, Root) /\ p2[Root] = NoIno
  BY <1>1, <1>3, <1>13, InoFacts DEF Shape
<1>16. \A i \in Ino : f2[i] = "none" => l2[i] = 0
  BY <1>1, <1>2, <1>4, <1>6 DEF Shape
<1>17. Shape(f2, p2, l2)
  BY <1>2, <1>3, <1>4, <1>12, <1>14, <1>15, <1>16 DEF Shape, ShapeTypes
<1>18. AddedOK(par, ls, d, x, f2, p2, l2)
  BY <1>7, <1>9, <1>17 DEF AddedOK
<1> QED
  BY Zenon, <1>18 DEF f2, p2, l2

-----------------------------------------------------------------------------
\* x goes from directory d to directory dest.
MoveLinks(ft, ls, d, dest, x) ==
  IF ft[x] = "dir" THEN [ls EXCEPT ![d] = @ - 1, ![dest] = @ + 1] ELSE ls

MovedOK(ft, par, ls, d, dest, x, p2, l2) ==
  /\ Shape(ft, p2, l2)
  /\ Inside(l2) = Inside(ls)
  /\ Below(p2, l2, d) = Below(par, ls, d) \ {x}
  /\ Below(p2, l2, dest) = Below(par, ls, dest) \union {x}
  /\ \A i \in Ino \ {d, dest} : Below(p2, l2, i) = Below(par, ls, i)

LEMMA MoveShape ==
  ASSUME NEW ft, NEW par, NEW ls, Shape(ft, par, ls),
         NEW x \in Inside(ls), NEW dest, Holder(ft, ls, dest),
         dest # par[x], x \notin Above(par, dest)
  PROVE  MovedOK(ft, par, ls, par[x], dest, x, [par EXCEPT ![x] = dest],
                 MoveLinks(ft, ls, par[x], dest, x))
<1> DEFINE d  == par[x]
           p2 == [par EXCEPT ![x] = dest]
           l2 == MoveLinks(ft, ls, d, dest, x)
           dir == ft[x] = "dir"
<1>1. /\ ft \in [Ino -> FileType] /\ par \in Parents /\ ls \in [Ino -> Nat]
      /\ x \in Ino /\ x # Root /\ ls[x] > 0
      /\ dest \in Ino /\ ls[dest] > 0 /\ ft[dest] = "dir"
  BY DEF Shape, ShapeTypes, Holder, Inside
<1>2. d \in Ino /\ ls[d] > 0 /\ ft[d] = "dir" /\ d # dest
  BY DEF Shape, Holder
<1>3. /\ ls[d] = 2 + Cardinality(Subdirs(ft, par, ls, d))
      /\ ls[dest] = 2 + Cardinality(Subdirs(ft, par, ls, dest))
  BY <1>1, <1>2 DEF Shape, Counted
<1>4. dir => x \in Subdirs(ft, par, ls, d) /\ ls[d] >= 3
  <2>1. SUFFICES ASSUME dir PROVE x \in Subdirs(ft, par, ls, d) /\ ls[d] >= 3
    OBVIOUS
  <2>2. x \in Subdirs(ft, par, ls, d)
    BY <2>1 DEF Subdirs, Below
  <2>3. Cardinality(Subdirs(ft, par, ls, d)) # 0
    BY <2>2, SubdirsFinite, FS_EmptySet
  <2> QED
    BY <1>3, <2>2, <2>3, SubdirsFinite
<1>5. p2 \in Parents /\ p2[x] = dest /\ \A i \in Ino : i # x => p2[i] = par[i]
  BY <1>1 DEF Parents
<1>6. /\ l2 \in [Ino -> Nat]
      /\ l2[d] = IF dir THEN ls[d] - 1 ELSE ls[d]
      /\ l2[dest] = IF dir THEN ls[dest] + 1 ELSE ls[dest]
      /\ \A i \in Ino : i # d /\ i # dest => l2[i] = ls[i]
  <2> HIDE DEF d
  <2>1. ls[d] \in Nat /\ (dir => ls[d] - 1 \in Nat) /\ ls[dest] + 1 \in Nat
    BY <1>1, <1>2, <1>4
  <2> QED
    BY <1>1, <1>2, <2>1 DEF MoveLinks
<1>7. /\ \A i \in Ino : Root \in Above(par, i) => Root \in Above(p2, i)
      /\ Root \in Above(p2, x)
  <2>1. Root \in Above(par, dest)
    BY <1>1, RootAbove
  <2> QED
    BY <1>1, <2>1, MoveKeepsRooted
<1> HIDE DEF p2, l2
<1>8. \A i \in Ino : l2[i] > 0 <=> ls[i] > 0
  <2> HIDE DEF d
  <2>1. l2[d] > 0 /\ l2[dest] > 0
    BY <1>1, <1>2, <1>4, <1>6
  <2> QED
    BY <1>1, <1>2, <1>6, <2>1
<1>9. Inside(l2) = Inside(ls)
  BY <1>8 DEF Inside
<1>10. /\ Below(p2, l2, d) = Below(par, ls, d) \ {x}
       /\ Below(p2, l2, dest) = Below(par, ls, dest) \union {x}
       /\ x \notin Below(par, ls, dest)
       /\ \A i \in Ino \ {d, dest} : Below(p2, l2, i) = Below(par, ls, i)
  <2>1. \A c \in Inside(ls) : c # x => p2[c] = par[c]
    BY <1>5 DEF Inside
  <2>2. x \in Inside(ls) /\ p2[x] = dest /\ par[x] = d /\ d # dest
    BY <1>2, <1>5
  <2> HIDE DEF d
  <2> QED
    BY <1>9, <2>1, <2>2 DEF Below
<1>11. /\ dir => /\ Subdirs(ft, p2, l2, d) = Subdirs(ft, par, ls, d) \ {x}
                 /\ Subdirs(ft, p2, l2, dest) = Subdirs(ft, par, ls, dest) \union {x}
       /\ ~dir => /\ Subdirs(ft, p2, l2, d) = Subdirs(ft, par, ls, d)
                  /\ Subdirs(ft, p2, l2, dest) = Subdirs(ft, par, ls, dest)
       /\ x \notin Subdirs(ft, par, ls, dest)
       /\ \A i \in Ino \ {d, dest} : Subdirs(ft, p2, l2, i) = Subdirs(ft, par, ls, i)
  <2> HIDE DEF d
  <2> QED
    BY <1>10 DEF Subdirs
<1>12. ASSUME NEW i \in Ino, l2[i] > 0 PROVE l2[i] = Counted(ft, p2, l2, i)
  <2>1. CASE i = d
    <3>1. Cardinality(Subdirs(ft, p2, l2, d)) =
            IF dir THEN Cardinality(Subdirs(ft, par, ls, d)) - 1
            ELSE Cardinality(Subdirs(ft, par, ls, d))
      BY <1>4, <1>11, SubdirsFinite, FS_RemoveElement
    <3> QED
      BY <1>2, <1>3, <1>6, <2>1, <3>1, SubdirsFinite DEF Counted
  <2>2. CASE i = dest
    <3>1. Cardinality(Subdirs(ft, p2, l2, dest)) =
            IF dir THEN Cardinality(Subdirs(ft, par, ls, dest)) + 1
            ELSE Cardinality(Subdirs(ft, par, ls, dest))
      BY <1>11, SubdirsFinite, FS_AddElement
    <3> QED
      BY <1>1, <1>3, <1>6, <2>2, <3>1, SubdirsFinite DEF Counted
  <2>3. CASE i # d /\ i # dest
    <3>1. ls[i] > 0 /\ ls[i] = Counted(ft, par, ls, i) /\ l2[i] = ls[i]
      BY <1>6, <1>8, <1>12, <2>3 DEF Shape
    <3> QED
      BY <1>11, <2>3, <3>1 DEF Counted
  <2> QED
    BY Zenon, <2>1, <2>2, <2>3
<1>13. ASSUME NEW i, Holder(ft, ls, i) PROVE Holder(ft, l2, i)
  BY <1>8, <1>13 DEF Holder
<1>14. ASSUME NEW c \in Inside(l2) PROVE Holder(ft, l2, p2[c]) /\ Root \in Above(p2, c)
  <2>1. CASE c = x
    BY <1>5, <1>7, <1>13, <2>1
  <2>2. CASE c # x
    <3>1. c \in Ino /\ Holder(ft, ls, par[c]) /\ Root \in Above(par, c)
      BY Zenon, <1>9 DEF Shape, Inside
    <3> QED
      BY <1>5, <1>7, <1>13, <2>2, <3>1
  <2> QED
    BY <2>1, <2>2
<1>15. Holder(ft, l2, Root) /\ p2[Root] = NoIno
  BY <1>1, <1>5, <1>13, InoFacts DEF Shape
<1>16. \A i \in Ino : ft[i] = "none" => l2[i] = 0
  BY <1>1, <1>6, <1>8 DEF Shape
<1>17. Shape(ft, p2, l2)
  BY Zenon, <1>1, <1>5, <1>6, <1>12, <1>14, <1>15, <1>16 DEF Shape, ShapeTypes
<1>18. MovedOK(ft, par, ls, d, dest, x, p2, l2)
  BY <1>9, <1>10, <1>17 DEF MovedOK
<1> QED
  BY Zenon, <1>18 DEF d, p2, l2

-----------------------------------------------------------------------------
(* The invariant.                                                           *)

\* Every directory lists what is below it, each name and each inode once.
Listed(es, par, ls) ==
  /\ es \in [Ino -> EntrySeq]
  /\ \A d \in Ino : Distinct(es[d]) /\ KidsIn(es[d]) = Below(par, ls, d)

Charged ==
  /\ held \subseteq Alive /\ Root \in held
  /\ NEXT_INO \in Nat /\ \A i \in Ino : i >= NEXT_INO => file_type[i] = "none"
  /\ inodes = Cardinality(Alive) /\ inodes <= NrInodes
  /\ stuck \in BOOLEAN

IInv ==
  /\ Shape(file_type, parent, links)
  /\ Listed(entries, parent, links)
  /\ Charged

\* What LosesAtMostOne says of a step.
LossStep ==
  /\ Cardinality(Linked \ Linked') <= 1
  /\ \A i \in Linked \ Linked' : entries[i] = <<>>

LEMMA EmptyList == \A s \in EntrySeq : KidsIn(s) = {} <=> s = <<>>
<1> SUFFICES ASSUME NEW s \in EntrySeq PROVE KidsIn(s) = {} <=> s = <<>>
  OBVIOUS
<1>1. Len(s) \in Nat /\ DOMAIN s = 1 .. Len(s) /\ (s = <<>> <=> Len(s) = 0)
  BY DEF EntrySeq
<1>2. KidsIn(s) = {} <=> DOMAIN s = {}
  BY Zenon DEF KidsIn
<1> QED
  BY <1>1, <1>2

LEMMA InitIInv == Init => IInv
<1> SUFFICES ASSUME Init PROVE IInv
  OBVIOUS
<1>1. /\ file_type \in [Ino -> FileType] /\ links \in [Ino -> Nat] /\ parent \in Parents
      /\ file_type[Root] = "dir" /\ links[Root] = 2 /\ parent[Root] = NoIno
      /\ \A i \in Ino \ {Root} : file_type[i] = "none" /\ links[i] = 0
  BY InoFacts DEF Init, FileType, Parents
<1>2. Inside(links) = {}
  BY <1>1 DEF Inside
<1>3. \A i : Below(parent, links, i) = {} /\ Subdirs(file_type, parent, links, i) = {}
  BY <1>2 DEF Below, Subdirs
<1>4. \A i \in Ino : links[i] > 0 => links[i] = Counted(file_type, parent, links, i)
  <2>1. Cardinality(Subdirs(file_type, parent, links, Root)) = 0
    BY ONLY Zenon, <1>3, FS_EmptySet
  <2>2. links[Root] = Counted(file_type, parent, links, Root)
    BY <1>1, <2>1 DEF Counted
  <2> QED
    BY <1>1, <2>2
<1>5. Shape(file_type, parent, links)
  BY <1>1, <1>2, <1>4, InoFacts DEF Shape, ShapeTypes, Holder
<1>6. Listed(entries, parent, links)
  <2>1. <<>> \in EntrySeq
    BY DEF EntrySeq
  <2>2. Distinct(<<>>) /\ KidsIn(<<>>) = {}
    BY <2>1, EmptyList DEF Distinct
  <2> QED
    BY Zenon, <1>3, <2>1, <2>2 DEF Init, Listed
<1>7. Alive = {Root}
  BY Zenon, <1>1, InoFacts DEF Alive
<1>8. Charged
  <2>1. Cardinality(Alive) = 1
    BY <1>7, FS_Singleton
  <2>2. \A i \in Ino : i >= 2 => file_type[i] = "none"
    BY <1>1 DEF Root
  <2>3. held = {Root} /\ NEXT_INO = 2 /\ inodes = 1 /\ stuck = FALSE
    BY DEF Init
  <2>4. 1 <= NrInodes
    BY MemFsAssumption
  <2> QED
    BY ONLY Zenon, <1>7, <2>1, <2>2, <2>3, <2>4 DEF Charged
<1> QED
  BY <1>5, <1>6, <1>8 DEF IInv

\* The tree that an operation leaves keeps the invariant when the inodes that
\* nobody holds any more are freed: none of them is in the tree.
LEMMA DropIInv ==
  ASSUME IInv, NEW ents, NEW holders, holders \subseteq held, Root \in holders,
         Shape(file_type, parent', links'), Listed(ents, parent', links'),
         DropInodes(ents, holders), NEXT_INO' = NEXT_INO, stuck' = stuck
  PROVE  IInv'
<1> DEFINE gone == Freed(ents, holders)
<1>1. /\ entries' = [i \in Ino |-> IF i \in gone THEN <<>> ELSE ents[i]]
      /\ file_type' = [i \in Ino |-> IF i \in gone THEN "none" ELSE file_type[i]]
      /\ held' = holders
      /\ inodes' = inodes - Cardinality(gone)
  BY DEF DropInodes
<1>2. /\ gone \subseteq Alive \ {Root} /\ gone \intersect holders = {}
      /\ \A i \in gone, d \in Alive : i \notin KidsIn(ents[d])
  BY Zenon DEF Freed, KidsIn
<1> HIDE DEF gone
<1>3. /\ file_type \in [Ino -> FileType] /\ parent' \in Parents /\ links' \in [Ino -> Nat]
      /\ \A i \in Ino : file_type[i] = "none" => links'[i] = 0
      /\ Alive \subseteq Ino
  BY Zenon DEF Shape, ShapeTypes, Alive
<1>4. ASSUME NEW i \in gone PROVE links'[i] = 0
  <2>1. SUFFICES ASSUME links'[i] # 0 PROVE FALSE
    OBVIOUS
  <2>2. i \in Ino /\ i # Root /\ links'[i] \in Nat
    BY <1>2, <1>3
  <2>3. i \in Inside(links')
    BY <2>1, <2>2 DEF Inside
  <2>4. Holder(file_type, links', parent'[i])
    BY <2>3 DEF Shape
  <2>5. parent'[i] \in Alive
    BY <1>3, <2>4 DEF Holder, Alive
  <2>6. i \in KidsIn(ents[parent'[i]])
    BY <2>3, <2>4 DEF Holder, Listed, Below
  <2> QED
    BY <1>2, <2>5, <2>6
<1>5. /\ file_type' \in [Ino -> FileType]
      /\ \A i \in Ino : file_type'[i] = IF i \in gone THEN "none" ELSE file_type[i]
  BY <1>1, <1>3 DEF FileType
<1>6. \A i : Holder(file_type, links', i) => Holder(file_type', links', i)
  BY <1>4, <1>5 DEF Holder
<1>7. \A i : Subdirs(file_type', parent', links', i) = Subdirs(file_type, parent', links', i)
  <2>1. \A c \in Inside(links') : file_type'[c] = file_type[c]
    BY <1>4, <1>5 DEF Inside
  <2> QED
    BY <2>1 DEF Subdirs, Below
<1>8. ASSUME NEW i \in Ino, links'[i] > 0
      PROVE  links'[i] = Counted(file_type', parent', links', i)
  <2>1. i \notin gone /\ links'[i] = Counted(file_type, parent', links', i)
    BY <1>4, <1>8 DEF Shape
  <2> QED
    BY <1>5, <1>7, <2>1 DEF Counted
<1>9. Shape(file_type, parent, links)'
  <2>1. Shape(file_type', parent', links')
    BY Zenon, <1>3, <1>4, <1>5, <1>6, <1>8 DEF Shape, ShapeTypes
  <2> QED
    BY ONLY Zenon, <2>1
<1>10. Listed(entries', parent', links')
  <2>1. <<>> \in EntrySeq /\ Distinct(<<>>) /\ KidsIn(<<>>) = {}
    <3>1. <<>> \in EntrySeq
      BY DEF EntrySeq
    <3> QED
      BY <3>1, EmptyList DEF Distinct
  <2>2. ASSUME NEW d \in gone PROVE Below(parent', links', d) = {}
    <3>1. SUFFICES ASSUME NEW c \in Inside(links'), parent'[c] = d PROVE FALSE
      BY DEF Below
    <3>2. Holder(file_type, links', d)
      BY <3>1 DEF Shape
    <3> QED
      BY <1>4, <3>2 DEF Holder
  <2>3. \A d \in Ino : entries'[d] = IF d \in gone THEN <<>> ELSE ents[d]
    BY <1>1
  <2>4. entries' \in [Ino -> EntrySeq]
    BY <1>1, <2>1 DEF Listed
  <2> QED
    BY Zenon, <2>1, <2>2, <2>3, <2>4 DEF Listed
<1>11. Alive' = Alive \ gone
  BY <1>2, <1>3, <1>5 DEF Alive
<1>12. Charged'
  <2>1. held' \subseteq Alive' /\ Root \in held'
    BY <1>1, <1>2, <1>11 DEF IInv, Charged
  <2>2. Cardinality(Alive') = Cardinality(Alive) - Cardinality(gone)
    <3>1. Alive \intersect gone = gone /\ IsFiniteSet(Alive)
      BY Zenon, <1>2, <1>3, InoFacts
    <3> QED
      BY <1>11, <3>1, FS_Difference
  <2>3. Cardinality(gone) \in Nat /\ Cardinality(Alive) \in Nat
    BY <1>2, <1>3, InoFacts
  <2>4. inodes' = Cardinality(Alive') /\ inodes' <= NrInodes
    BY <1>1, <2>2, <2>3, MemFsAssumption DEF IInv, Charged
  <2>5. \A i \in Ino : i >= NEXT_INO => file_type'[i] = "none"
    BY <1>5 DEF IInv, Charged
  <2> QED
    BY <2>1, <2>4, <2>5 DEF IInv, Charged
<1> QED
  BY <1>9, <1>10, <1>12 DEF IInv

-----------------------------------------------------------------------------
(* The operations.                                                          *)

LEMMA StateFacts ==
  ASSUME IInv
  PROVE  /\ file_type \in [Ino -> FileType] /\ parent \in Parents /\ links \in [Ino -> Nat]
         /\ entries \in [Ino -> EntrySeq]
         /\ \A d \in Ino : Distinct(entries[d]) /\ KidsIn(entries[d]) = Below(parent, links, d)
         /\ held \subseteq Ino /\ Alive \subseteq Ino
  BY Zenon DEF IInv, Shape, ShapeTypes, Listed, Charged, Alive

\* What a name that is in a directory stands for.
LEMMA LookupFacts ==
  ASSUME IInv, NEW d \in Ino, NEW n \in Names(d)
  PROVE  /\ IndexOf(d, n) \in DOMAIN entries[d]
         /\ entries[d][IndexOf(d, n)][1] = n
         /\ entries[d][IndexOf(d, n)][2] = Lookup(d, n)
         /\ Lookup(d, n) \in Inside(links) /\ parent[Lookup(d, n)] = d
         /\ Lookup(d, n) \in Ino
         /\ Holder(file_type, links, d)
<1>1. \E k \in DOMAIN entries[d] : entries[d][k][1] = n
  BY DEF Names
<1>2. IndexOf(d, n) \in DOMAIN entries[d] /\ entries[d][IndexOf(d, n)][1] = n
  BY <1>1 DEF IndexOf
<1>3. Lookup(d, n) \in KidsIn(entries[d])
  BY <1>2 DEF Lookup, KidsIn
<1>4. Lookup(d, n) \in Below(parent, links, d)
  BY <1>3, StateFacts
<1>5. Lookup(d, n) \in Inside(links) /\ parent[Lookup(d, n)] = d /\ Lookup(d, n) \in Ino
  BY <1>4 DEF Below, Inside
<1>6. Holder(file_type, links, d)
  BY Zenon, <1>5 DEF IInv, Shape
<1> QED
  BY Zenon, <1>2, <1>5, <1>6 DEF Lookup

\* An inode that is no directory, or an empty one, is a leaf.
LEMMA LeafFacts ==
  ASSUME IInv, NEW t \in Ino, IsDir(t) => entries[t] = <<>>
  PROVE  entries[t] = <<>> /\ Below(parent, links, t) = {}
<1>1. entries[t] \in EntrySeq /\ KidsIn(entries[t]) = Below(parent, links, t)
  BY StateFacts
<1>2. CASE entries[t] = <<>>
  BY <1>1, <1>2, EmptyList
<1>3. CASE ~IsDir(t)
  <2>1. Below(parent, links, t) = {}
    BY <1>3 DEF IsDir, Below, IInv, Shape, Holder
  <2> QED
    BY <1>1, <2>1, EmptyList
<1> QED
  BY <1>2, <1>3

\* The entries and the link counts once an entry of that name is gone.
Kept(d, n) ==
  IF n \in Names(d) THEN RemoveAt(entries[d], IndexOf(d, n)) ELSE entries[d]
Cleared(d, n) ==
  IF n \in Names(d) THEN detach(links, d, Lookup(d, n)) ELSE links

\* The inode of that name, if there is one, can go.
Clearable(d, n) ==
  n \in Names(d) => (IsDir(Lookup(d, n)) => entries[Lookup(d, n)] = <<>>)

ClearedOK(d, n) ==
  /\ Shape(file_type, parent, Cleared(d, n))
  /\ Kept(d, n) \in EntrySeq /\ Distinct(Kept(d, n))
  /\ n \notin NamesIn(Kept(d, n))
  /\ KidsIn(Kept(d, n)) = Below(parent, Cleared(d, n), d)
  /\ \A i \in Ino \ {d} : Below(parent, Cleared(d, n), i) = Below(parent, links, i)
  /\ \A i \in Inside(links) : \/ i \in Inside(Cleared(d, n))
                              \/ n \in Names(d) /\ i = Lookup(d, n) /\ entries[i] = <<>>

LEMMA ClearName ==
  ASSUME IInv, NEW d \in Ino, NEW n \in Name, Clearable(d, n)
  PROVE  ClearedOK(d, n)
<1>1. /\ entries[d] \in EntrySeq /\ Distinct(entries[d])
      /\ KidsIn(entries[d]) = Below(parent, links, d) /\ Names(d) = NamesIn(entries[d])
  BY Zenon, StateFacts DEF Names, NamesIn
<1>2. CASE n \notin Names(d)
  <2>1. Kept(d, n) = entries[d] /\ Cleared(d, n) = links
    BY <1>2 DEF Kept, Cleared
  <2>2. Shape(file_type, parent, links)
    BY DEF IInv
  <2> QED
    BY ONLY Zenon, <1>1, <1>2, <2>1, <2>2 DEF ClearedOK
<1>3. CASE n \in Names(d)
  <2> DEFINE t  == Lookup(d, n)
             k  == IndexOf(d, n)
             l2 == CutLinks(file_type, links, parent[t], t)
  <2>1. /\ k \in DOMAIN entries[d] /\ entries[d][k][1] = n /\ entries[d][k][2] = t
        /\ t \in Inside(links) /\ parent[t] = d /\ t \in Ino
    BY Zenon, <1>3, LookupFacts
  <2>2. Kept(d, n) = RemoveAt(entries[d], k)
    BY <1>3 DEF Kept
  <2>3. Cleared(d, n) = l2
    BY <1>3, <2>1 DEF Cleared, detach, CutLinks, IsDir
  <2>4. entries[t] = <<>> /\ Below(parent, links, t) = {}
    BY <1>3, <2>1, LeafFacts DEF Clearable
  <2> HIDE DEF t, k
  <2>5. /\ Shape(file_type, parent, l2) /\ Inside(l2) = Inside(links) \ {t}
        /\ \A i \in Ino : Below(parent, l2, i) = Below(parent, links, i) \ {t}
    <3>1. Shape(file_type, parent, links)
      BY DEF IInv
    <3> QED
      BY ONLY <2>1, <2>4, <3>1, CutShape DEF l2
  <2> HIDE DEF l2
  <2>6. /\ Kept(d, n) \in EntrySeq /\ Distinct(Kept(d, n))
        /\ NamesIn(Kept(d, n)) = NamesIn(entries[d]) \ {n}
        /\ KidsIn(Kept(d, n)) = KidsIn(entries[d]) \ {t}
    <3>1. /\ RemoveAt(entries[d], k) \in EntrySeq /\ Distinct(RemoveAt(entries[d], k))
          /\ NamesIn(RemoveAt(entries[d], k)) = NamesIn(entries[d]) \ {entries[d][k][1]}
          /\ KidsIn(RemoveAt(entries[d], k)) = KidsIn(entries[d]) \ {entries[d][k][2]}
      BY ONLY Zenon, <1>1, <2>1, RemovedList
    <3> QED
      BY ONLY Zenon, <2>1, <2>2, <3>1
  <2>7. KidsIn(Kept(d, n)) = Below(parent, l2, d)
    BY <1>1, <2>5, <2>6
  <2>8. \A i \in Ino \ {d} : Below(parent, l2, i) = Below(parent, links, i)
    <3>1. \A i \in Ino \ {d} : t \notin Below(parent, links, i)
      BY <2>1 DEF Below
    <3> QED
      BY ONLY <2>5, <3>1
  <2>9. \A i \in Inside(links) : i \in Inside(l2) \/ (i = t /\ entries[i] = <<>>)
    BY <2>4, <2>5
  <2>10. n \notin NamesIn(Kept(d, n))
    BY <2>6
  <2> QED
    BY ONLY Zenon, <1>3, <2>3, <2>5, <2>6, <2>7, <2>8, <2>9, <2>10 DEF ClearedOK, t
<1> QED
  BY <1>2, <1>3

\* One directory gets another entry list.
LEMMA PutList ==
  ASSUME NEW es, NEW par, NEW ls, Listed(es, par, ls), NEW d \in Ino,
         NEW r \in EntrySeq, Distinct(r), NEW p2, NEW l2, KidsIn(r) = Below(p2, l2, d),
         \A i \in Ino \ {d} : Below(p2, l2, i) = Below(par, ls, i)
  PROVE  Listed([es EXCEPT ![d] = r], p2, l2)
<1> DEFINE e2 == [es EXCEPT ![d] = r]
<1>1. e2 \in [Ino -> EntrySeq] /\ e2[d] = r /\ \A i \in Ino \ {d} : e2[i] = es[i]
  BY DEF Listed
<1> HIDE DEF e2
<1>2. \A i \in Ino : Distinct(e2[i]) /\ KidsIn(e2[i]) = Below(p2, l2, i)
  BY <1>1 DEF Listed
<1>3. Listed(e2, p2, l2)
  BY <1>1, <1>2 DEF Listed
<1> QED
  BY <1>3 DEF e2

\* The linked inodes.
LEMMA LinkedFacts == IInv => Linked = Inside(links) \union {Root}
<1> SUFFICES ASSUME IInv PROVE Linked = Inside(links) \union {Root}
  OBVIOUS
<1>1. /\ \A i \in Ino : links[i] \in Nat /\ (file_type[i] = "none" => links[i] = 0)
      /\ Root \in Ino /\ links[Root] > 0
  BY InoFacts, StateFacts DEF IInv, Shape, Holder
<1>2. \A i \in Ino : i \in Linked <=> links[i] > 0
  BY ONLY <1>1 DEF Linked, Alive
<1>3. Linked \subseteq Ino
  BY DEF Linked, Alive
<1> QED
  BY <1>1, <1>2, <1>3 DEF Inside

\* A step that loses nothing, or one inode without entries.
LEMMA LossFrom ==
  ASSUME IInv, IInv',
         \A i, j \in Inside(links) \ Inside(links') : i = j /\ entries[i] = <<>>
  PROVE  LossStep
<1> DEFINE X == Linked \ Linked'
<1>1. Linked = Inside(links) \union {Root}
  BY LinkedFacts
<1>2. Linked' = Inside(links') \union {Root}
  <2>1. (Linked = Inside(links) \union {Root})'
    BY LinkedFacts, PTL
  <2> QED
    BY ONLY <2>1
<1>3. X \subseteq Inside(links) \ Inside(links')
  BY <1>1, <1>2
<1> HIDE DEF X
<1>4. X = {} \/ \E x : X = {x}
  BY <1>3
<1>5. Cardinality(X) <= 1
  <2>1. CASE X = {}
    BY <2>1, FS_EmptySet
  <2>2. CASE \E x : X = {x}
    <3>1. PICK x : X = {x}
      BY Zenon, <2>2
    <3>2. Cardinality(X) = 1
      BY ONLY Zenon, <3>1, FS_Singleton
    <3> QED
      BY ONLY <3>2
  <2> QED
    BY <1>4, <2>1, <2>2
<1> QED
  BY <1>3, <1>5 DEF LossStep, X

\* Nothing but the holders and the lock state changes.
LEMMA HoldersIInv ==
  ASSUME IInv, UNCHANGED <<file_type, entries, parent, links, inodes, NEXT_INO>>,
         held' \subseteq Alive, Root \in held', stuck' \in BOOLEAN
  PROVE  IInv' /\ LossStep
<1>1. Shape(file_type, parent, links)' /\ Listed(entries, parent, links)'
  BY Zenon DEF IInv
<1>2. Alive' = Alive
  BY DEF Alive
<1>3. Charged'
  BY <1>2 DEF IInv, Charged
<1>4. IInv'
  BY Zenon, <1>1, <1>3 DEF IInv
<1> QED
  BY <1>4, LossFrom

LEMMA LookupIInv ==
  ASSUME IInv, NEW d \in Ino, NEW n, lookup(d, n)
  PROVE  IInv' /\ LossStep
<1>1. Lookup(d, n) \in Inside(links) /\ Lookup(d, n) \in Ino
  BY Zenon, LookupFacts DEF lookup
<1>2. Lookup(d, n) \in Alive
  BY <1>1, LinkedFacts DEF Linked
<1>3. held' \subseteq Alive /\ Root \in held'
  BY <1>2 DEF lookup, IInv, Charged
<1>4. UNCHANGED <<file_type, entries, parent, links, inodes, NEXT_INO>> /\ stuck' \in BOOLEAN
  BY DEF lookup, IInv, Charged
<1> QED
  BY <1>3, <1>4, HoldersIInv

LEMMA ReleaseIInv ==
  ASSUME IInv, NEW i \in Ino, release(i)
  PROVE  IInv' /\ LossStep
<1>1. /\ i # Root /\ DropInodes(entries, held \ {i})
      /\ parent' = parent /\ links' = links /\ NEXT_INO' = NEXT_INO /\ stuck' = stuck
  BY DEF release
<1>2. Shape(file_type, parent', links') /\ Listed(entries, parent', links')
  BY <1>1 DEF IInv
<1>3. Root \in held \ {i}
  BY <1>1 DEF IInv, Charged
<1>4. IInv'
  BY <1>1, <1>2, <1>3, DropIInv
<1> QED
  BY <1>1, <1>4, LossFrom

LEMMA CreateIInv ==
  ASSUME IInv, NEW d \in Ino, NEW n \in Name, NEW type \in {"dir", "file"},
         create(d, n, type)
  PROVE  IInv' /\ LossStep
<1> DEFINE x == NEXT_INO
<1>1. /\ d \in held /\ links[d] # 0 /\ file_type[d] = "dir" /\ n \notin Names(d)
      /\ inodes < NrInodes /\ x <= MaxIno
      /\ file_type' = [file_type EXCEPT ![x] = type]
      /\ parent' = [parent EXCEPT ![x] = d]
      /\ links' = AddLinks(links, d, x, type)
      /\ entries' = [entries EXCEPT ![d] = Append(@, <<n, x>>)]
      /\ held' = held \union {x} /\ inodes' = inodes + 1
      /\ NEXT_INO' = x + 1 /\ stuck' = stuck
  BY DEF create, CreateAllowed, IsDir, Reserve, AddLinks
<1>2. /\ held \subseteq Alive /\ Root \in held /\ x \in Nat
      /\ \A i \in Ino : i >= x => file_type[i] = "none"
      /\ inodes = Cardinality(Alive) /\ stuck \in BOOLEAN
  BY DEF IInv, Charged
<1>3. x \in Ino /\ file_type[x] = "none"
  <2>1. ~(x < 1)
    <3>1. Root \in Alive /\ Root \in Ino /\ Root = 1
      BY <1>2, InoFacts DEF Root
    <3>2. file_type[Root] # "none"
      BY <3>1 DEF Alive
    <3> QED
      BY <1>2, <3>1, <3>2
  <2> QED
    BY <1>1, <1>2, <2>1, MemFsAssumption DEF Ino
<1> HIDE DEF x
<1>4. links[x] = 0 /\ Holder(file_type, links, d) /\ Shape(file_type, parent, links)
  BY SMTT(30), <1>1, <1>3, StateFacts DEF IInv, Shape, Holder
<1>5. /\ Shape(file_type', parent', links')
      /\ Inside(links') = Inside(links) \union {x} /\ x \notin Inside(links)
      /\ Below(parent', links', d) = Below(parent, links, d) \union {x}
      /\ \A i \in Ino \ {d} : Below(parent', links', i) = Below(parent, links, i)
  <2> DEFINE f2 == [file_type EXCEPT ![x] = type]
             p2 == [parent EXCEPT ![x] = d]
             l2 == AddLinks(links, d, x, type)
  <2>1. AddedOK(parent, links, d, x, f2, p2, l2)
    BY ONLY Zenon, type \in {"dir", "file"}, <1>3, <1>4, AddShape DEF f2, p2, l2
  <2>2. file_type' = f2 /\ parent' = p2 /\ links' = l2
    BY <1>1
  <2> HIDE DEF f2, p2, l2
  <2> QED
    BY ONLY Zenon, <2>1, <2>2 DEF AddedOK
<1>6. Listed(entries', parent', links')
  <2> DEFINE r == Append(entries[d], <<n, x>>)
  <2>1. /\ entries[d] \in EntrySeq /\ Distinct(entries[d])
        /\ KidsIn(entries[d]) = Below(parent, links, d)
        /\ NamesIn(entries[d]) = Names(d)
    BY StateFacts DEF Names, NamesIn
  <2>2. x \in Ino \ KidsIn(entries[d]) /\ n \in Name \ NamesIn(entries[d])
    BY <1>1, <1>3, <1>5, <2>1 DEF Below
  <2>3. r \in EntrySeq /\ Distinct(r) /\ KidsIn(r) = KidsIn(entries[d]) \union {x}
    BY ONLY Zenon, <2>1, <2>2, AppendedList DEF r
  <2> HIDE DEF r
  <2>4. entries' = [entries EXCEPT ![d] = r] /\ Listed(entries, parent, links)
    BY <1>1 DEF r, IInv
  <2>5. KidsIn(r) = Below(parent', links', d)
    BY <1>5, <2>1, <2>3
  <2>6. Listed([entries EXCEPT ![d] = r], parent', links')
    BY ONLY Zenon, d \in Ino, <1>5, <2>3, <2>4, <2>5, PutList
  <2> QED
    BY ONLY Zenon, <2>4, <2>6
<1>7. Alive' = Alive \union {x} /\ x \notin Alive /\ Alive \subseteq Ino
  BY <1>1, <1>3, StateFacts DEF Alive
<1>8. Charged'
  <2>1. Cardinality(Alive') = Cardinality(Alive) + 1 /\ Cardinality(Alive) \in Nat
    BY <1>7, InoFacts, FS_AddElement
  <2>2. inodes' = Cardinality(Alive') /\ inodes' <= NrInodes
    BY <1>1, <1>2, <2>1, MemFsAssumption
  <2>3. \A i \in Ino : i >= x + 1 => file_type'[i] = "none"
    BY <1>1, <1>2, <1>3, InoFacts, StateFacts
  <2>4. held' \subseteq Alive' /\ Root \in held' /\ NEXT_INO' \in Nat /\ stuck' \in BOOLEAN
    BY <1>1, <1>2, <1>7
  <2> QED
    BY <1>1, <2>2, <2>3, <2>4 DEF Charged
<1>9. IInv'
  BY ONLY Zenon, <1>5, <1>6, <1>8 DEF IInv
<1> QED
  BY <1>5, <1>9, LossFrom

LEMMA UnlinkIInv ==
  ASSUME IInv, NEW d \in Ino, NEW n \in Name, NEW directory, unlink(d, n, directory)
  PROVE  IInv' /\ LossStep
<1> DEFINE t == Lookup(d, n)
<1>1. n \in Names(d) /\ Clearable(d, n)
  BY DEF unlink, Clearable
<1>2. /\ links' = Cleared(d, n)
      /\ DropInodes([entries EXCEPT ![d] = Kept(d, n)], held)
      /\ parent' = parent /\ NEXT_INO' = NEXT_INO /\ stuck' = stuck
  BY Zenon, <1>1 DEF unlink, Cleared, Kept
<1>3. ClearedOK(d, n)
  BY <1>1, ClearName
<1>4. Shape(file_type, parent', links')
  BY <1>2, <1>3 DEF ClearedOK
<1>5. Listed([entries EXCEPT ![d] = Kept(d, n)], parent', links')
  <2>1. Listed(entries, parent, links)
    BY DEF IInv
  <2> QED
    BY Zenon, <1>2, <1>3, <2>1, PutList DEF ClearedOK
<1>6. IInv'
  <2>1. held \subseteq held /\ Root \in held
    BY DEF IInv, Charged
  <2> QED
    BY <1>2, <1>4, <1>5, <2>1, DropIInv
<1>7. \A i \in Inside(links) \ Inside(links') : i = t /\ entries[i] = <<>>
  BY <1>2, <1>3 DEF ClearedOK
<1> QED
  BY <1>6, <1>7, LossFrom

\* What rename has checked when it moves an entry.
Renames(d, n, dest, new) ==
  /\ d \in held /\ dest \in held /\ links[dest] # 0
  /\ IsDir(d) /\ n \in Names(d)
  /\ ~(d = dest /\ n = new)
  /\ ~BelowItself(Lookup(d, n), dest)

\* Replacing a target is allowed when the target can go.
LEMMA ReplaceClears ==
  ASSUME NEW d, NEW new, NEW source,
         new \in Names(d) => can_replace(source, Lookup(d, new))
  PROVE  Clearable(d, new)
  BY Zenon DEF can_replace, Clearable

LEMMA RenameWithinIInv ==
  ASSUME IInv, NEW d \in Ino, NEW n \in Name, NEW new \in Name,
         Renames(d, n, d, new), RenameWithin(d, n, new),
         NEXT_INO' = NEXT_INO, stuck' = stuck
  PROVE  IInv' /\ LossStep
<1> DEFINE source == Lookup(d, n)
           kept   == Kept(d, new)
           moved  == [k \in DOMAIN kept |-> IF kept[k][2] = source THEN <<new, source>>
                                            ELSE kept[k]]
<1>1. /\ new \in Names(d) => can_replace(source, Lookup(d, new))
      /\ links' = Cleared(d, new)
      /\ DropInodes([entries EXCEPT ![d] = moved], held)
      /\ parent' = parent
  BY DEF RenameWithin, Kept, Cleared
<1>2. ClearedOK(d, new)
  BY Zenon, <1>1, ReplaceClears, ClearName
<1>3. kept \in EntrySeq /\ Distinct(kept) /\ new \notin NamesIn(kept)
      /\ KidsIn(kept) = Below(parent', links', d)
  BY Zenon, <1>1, <1>2 DEF ClearedOK
<1>4. source \in Ino
  BY Zenon, LookupFacts DEF Renames
<1> HIDE DEF kept, source
<1>5. moved \in EntrySeq /\ Distinct(moved) /\ KidsIn(moved) = KidsIn(kept)
  BY ONLY new \in Name, <1>3, <1>4, RenamedList DEF moved
<1> HIDE DEF moved
<1>6. Shape(file_type, parent', links')
  BY <1>1, <1>2 DEF ClearedOK
<1>7. Listed([entries EXCEPT ![d] = moved], parent', links')
  <2>1. Listed(entries, parent, links)
    BY DEF IInv
  <2>2. \A i \in Ino \ {d} : Below(parent', links', i) = Below(parent, links, i)
    BY <1>1, <1>2 DEF ClearedOK
  <2>3. KidsIn(moved) = Below(parent', links', d)
    BY <1>3, <1>5
  <2> QED
    BY ONLY Zenon, d \in Ino, <1>5, <2>1, <2>2, <2>3, PutList
<1>8. IInv'
  <2>1. held \subseteq held /\ Root \in held
    BY DEF IInv, Charged
  <2> QED
    BY <1>1, <1>6, <1>7, <2>1, DropIInv
<1>9. \A i \in Inside(links) \ Inside(links') : i = Lookup(d, new) /\ entries[i] = <<>>
  BY <1>1, <1>2 DEF ClearedOK
<1> QED
  BY Zenon, <1>8, <1>9, LossFrom

LEMMA RenameAcrossIInv ==
  ASSUME IInv, NEW d \in Ino, NEW n \in Name, NEW dest \in Ino, NEW new \in Name,
         d # dest, Renames(d, n, dest, new), RenameAcross(d, n, dest, new),
         NEXT_INO' = NEXT_INO, stuck' = stuck
  PROVE  IInv' /\ LossStep
<1> DEFINE source == Lookup(d, n)
           kept   == Kept(dest, new)
           l1     == Cleared(dest, new)
           short  == RemoveAt(entries[d], IndexOf(d, n))
           long   == Append(kept, <<new, source>>)
           ents   == [entries EXCEPT ![d] = short, ![dest] = long]
<1>1. /\ IsDir(dest)
      /\ new \in Names(dest) => can_replace(source, Lookup(dest, new))
      /\ links' = MoveLinks(file_type, l1, d, dest, source)
      /\ parent' = [parent EXCEPT ![source] = dest]
      /\ DropInodes(ents, held)
  BY Zenon DEF RenameAcross, Kept, Cleared, MoveLinks, Reparented, IsDir
<1>2. ClearedOK(dest, new)
  BY Zenon, <1>1, ReplaceClears, ClearName
<1>3. /\ source \in Inside(links) /\ parent[source] = d /\ source \in Ino
      /\ IndexOf(d, n) \in DOMAIN entries[d]
      /\ entries[d][IndexOf(d, n)][2] = source
      /\ Holder(file_type, links, d)
  BY Zenon, LookupFacts DEF Renames
<1>4. Holder(file_type, links, dest)
  BY <1>1, StateFacts DEF Renames, Holder, IsDir
<1>5. source \notin Above(parent, dest)
  <2>1. CASE IsDir(source)
    <3>1. source \notin Ancestors(dest)
      BY <2>1 DEF Renames, BelowItself
    <3>2. Ancestors(dest) = Above(parent, dest)
      BY DEF Ancestors, Above, UpClosed, Closed
    <3> QED
      BY <3>1, <3>2
  <2>2. CASE ~IsDir(source)
    <3>1. Shape(file_type, parent, links)
      BY DEF IInv
    <3> QED
      BY Zenon, <1>4, <2>2, <3>1, AboveHolders DEF Holder, IsDir
  <2> QED
    BY <2>1, <2>2
<1>6. \A i \in Inside(links) : new \in Names(dest) /\ i = Lookup(dest, new) => parent[i] = dest
  BY Zenon, LookupFacts
<1>7. source \in Inside(l1)
  BY Zenon, <1>2, <1>3, <1>6 DEF ClearedOK
<1>8. Holder(file_type, l1, dest)
  <2>1. CASE dest = Root
    BY Zenon, <1>2, <2>1 DEF ClearedOK, Shape
  <2>2. CASE dest # Root
    <3>1. dest \in Inside(links) /\ Root \in Above(parent, dest) /\ parent \in Parents
      BY Zenon, <1>4, <2>2, StateFacts DEF Inside, Holder, IInv, Shape
    <3>2. parent[dest] # dest
      BY Zenon, <2>2, <3>1, NotOwnParent
    <3>3. dest \in Inside(l1)
      BY Zenon, <1>2, <1>6, <3>1, <3>2 DEF ClearedOK
    <3> QED
      BY Zenon, <1>4, <3>3 DEF Holder, Inside
  <2> QED
    BY <2>1, <2>2
<1>9. MovedOK(file_type, parent, l1, d, dest, source, parent', links')
  <2>1. Shape(file_type, parent, l1)
    BY Zenon, <1>2 DEF ClearedOK
  <2> HIDE DEF l1, source
  <2>2. MovedOK(file_type, parent, l1, parent[source], dest, source,
                [parent EXCEPT ![source] = dest],
                MoveLinks(file_type, l1, parent[source], dest, source))
    BY ONLY Zenon, d # dest, <1>3, <1>5, <1>7, <1>8, <2>1, MoveShape
  <2> QED
    BY ONLY Zenon, <1>1, <1>3, <2>2
<1>10. short \in EntrySeq /\ Distinct(short) /\ KidsIn(short) = Below(parent', links', d)
  <2>1. /\ entries[d] \in EntrySeq /\ Distinct(entries[d])
        /\ KidsIn(entries[d]) = Below(parent, links, d)
    BY StateFacts
  <2>2. short \in EntrySeq /\ Distinct(short) /\ KidsIn(short) = KidsIn(entries[d]) \ {source}
    BY Zenon, <1>3, <2>1, RemovedList
  <2>3. Below(parent, l1, d) = Below(parent, links, d)
    BY Zenon, <1>2 DEF ClearedOK
  <2>4. Below(parent', links', d) = Below(parent, l1, d) \ {source}
    BY <1>9 DEF MovedOK
  <2> HIDE DEF short, l1, source
  <2> QED
    BY ONLY <2>1, <2>2, <2>3, <2>4
<1>11. long \in EntrySeq /\ Distinct(long) /\ KidsIn(long) = Below(parent', links', dest)
  <2>1. /\ kept \in EntrySeq /\ Distinct(kept) /\ new \in Name \ NamesIn(kept)
        /\ KidsIn(kept) = Below(parent, l1, dest)
    BY Zenon, <1>2 DEF ClearedOK
  <2>2. source \in Ino \ KidsIn(kept)
    BY Zenon, <1>3, <2>1 DEF Below
  <2>3. Below(parent', links', dest) = Below(parent, l1, dest) \union {source}
    BY <1>9 DEF MovedOK
  <2> HIDE DEF kept, l1, source
  <2>4. long \in EntrySeq /\ Distinct(long) /\ KidsIn(long) = KidsIn(kept) \union {source}
    BY ONLY <2>1, <2>2, AppendedList DEF long
  <2> HIDE DEF long
  <2> QED
    BY ONLY <2>1, <2>3, <2>4
<1>12. \A i \in Ino \ {d, dest} : Below(parent', links', i) = Below(parent, links, i)
  BY Zenon, <1>2, <1>9 DEF ClearedOK, MovedOK
<1>13. Shape(file_type, parent', links') /\ Inside(links') = Inside(l1)
  BY <1>9 DEF MovedOK
<1>14. \A i, j \in Inside(links) \ Inside(links') : i = j /\ entries[i] = <<>>
  BY Zenon, <1>2, <1>13 DEF ClearedOK
<1> HIDE DEF short, long, source, kept, l1
<1>15. Listed(ents, parent', links')
  <2>1. /\ ents \in [Ino -> EntrySeq] /\ ents[d] = short /\ ents[dest] = long
        /\ \A i \in Ino \ {d, dest} : ents[i] = entries[i]
    BY <1>10, <1>11, StateFacts
  <2> HIDE DEF ents
  <2>2. \A i \in Ino : Distinct(ents[i]) /\ KidsIn(ents[i]) = Below(parent', links', i)
    BY <1>10, <1>11, <1>12, <2>1, StateFacts
  <2> QED
    BY <2>1, <2>2 DEF Listed
<1> HIDE DEF ents
<1>16. IInv'
  <2>1. held \subseteq held /\ Root \in held
    BY DEF IInv, Charged
  <2> QED
    BY Zenon, <1>1, <1>13, <1>15, <2>1, DropIInv
<1> QED
  BY <1>14, <1>16, LossFrom

LEMMA RenameIInv ==
  ASSUME IInv, NEW d \in Ino, NEW n \in Name, NEW dest \in Ino, NEW new \in Name,
         rename(d, n, dest, new)
  PROVE  IInv' /\ LossStep
<1>1. Renames(d, n, dest, new) /\ NEXT_INO' = NEXT_INO
  BY DEF rename, Renames
<1>2. CASE LocksTwice(d, n, dest, new)
  <2>1. /\ UNCHANGED <<file_type, entries, parent, links, inodes, NEXT_INO>>
        /\ held' = held /\ stuck' = TRUE
    BY <1>2 DEF rename
  <2>2. held' \subseteq Alive /\ Root \in held'
    BY <2>1 DEF IInv, Charged
  <2> QED
    BY <2>1, <2>2, HoldersIInv
<1>3. CASE ~LocksTwice(d, n, dest, new) /\ d = dest
  <2>1. RenameWithin(d, n, new) /\ stuck' = stuck
    BY <1>3 DEF rename
  <2> QED
    BY <1>1, <1>3, <2>1, RenameWithinIInv
<1>4. CASE ~LocksTwice(d, n, dest, new) /\ d # dest
  <2>1. RenameAcross(d, n, dest, new) /\ stuck' = stuck
    BY <1>4 DEF rename
  <2> QED
    BY <1>1, <1>4, <2>1, RenameAcrossIInv
<1> QED
  BY <1>2, <1>3, <1>4

\* Every step keeps the invariant, and loses at most one inode.
LEMMA NextIInv ==
  ASSUME IInv, [Next]_vars
  PROVE  IInv' /\ LossStep
<1>1. CASE UNCHANGED vars
  <2>1. /\ UNCHANGED <<file_type, entries, parent, links, inodes, NEXT_INO>>
        /\ held' = held /\ stuck' = stuck
    BY <1>1 DEF vars
  <2>2. held' \subseteq Alive /\ Root \in held' /\ stuck' \in BOOLEAN
    BY <2>1 DEF IInv, Charged
  <2> QED
    BY <2>1, <2>2, HoldersIInv
<1>2. CASE Next
  <2>1. CASE \E i \in Ino : release(i)
    BY <2>1, ReleaseIInv
  <2>2. ASSUME NEW d \in Ino, NEW n \in Name,
               \/ lookup(d, n)
               \/ \E type \in {"dir", "file"} : create(d, n, type)
               \/ \E directory \in BOOLEAN : unlink(d, n, directory)
               \/ \E dest \in Ino, new \in Name : rename(d, n, dest, new)
        PROVE  IInv' /\ LossStep
    BY Zenon, <2>2, LookupIInv, CreateIInv, UnlinkIInv, RenameIInv
  <2> QED
    BY Zenon, <1>2, <2>1, <2>2 DEF Next
<1> QED
  BY <1>1, <1>2

LEMMA SpecIInv == Spec => []IInv
  BY InitIInv, NextIInv, PTL DEF Spec

-----------------------------------------------------------------------------
(* What the invariant says.                                                 *)

LEMMA IInvCharged ==
  ASSUME IInv
  PROVE  ChargedExactly
<1>1. /\ held \subseteq Alive /\ Root \in held /\ NEXT_INO \in Nat
      /\ inodes = Cardinality(Alive) /\ inodes <= NrInodes /\ stuck \in BOOLEAN
  BY DEF IInv, Charged
<1>2. inodes \in Nat
  BY <1>1, StateFacts, InoFacts
<1>3. TypeOK
  BY <1>1, <1>2, StateFacts DEF TypeOK, EntrySeq, Parents
<1> QED
  BY <1>1, <1>3 DEF ChargedExactly

LEMMA IInvTree ==
  ASSUME IInv
  PROVE  TreeConsistent
<1>1. /\ Linked = Inside(links) \union {Root} /\ Linked \ {Root} = Inside(links)
      /\ Shape(file_type, parent, links)
  BY LinkedFacts DEF IInv, Inside
<1>2. \A d \in Ino : /\ entries[d] \in EntrySeq /\ Distinct(entries[d])
                     /\ Children(d) = KidsIn(entries[d])
                     /\ Children(d) = Below(parent, links, d)
  BY StateFacts DEF Children, KidsIn
<1>3. NamedOnce
  <2>1. \A d \in Ino : Children(d) = {i \in Linked \ {Root} : parent[i] = d}
    BY Zenon, <1>1, <1>2 DEF Below
  <2>2. \A i \in Linked \ {Root} : parent[i] \in Ino
    BY Zenon, <1>1 DEF Shape, Holder
  <2>3. \A d \in Ino : \A k, l \in DOMAIN entries[d] :
          entries[d][k][1] = entries[d][l][1] \/ entries[d][k][2] = entries[d][l][2] => k = l
    BY Zenon, <1>2 DEF Distinct
  <2> QED
    BY Zenon, <2>1, <2>2, <2>3 DEF NamedOnce
<1>4. Rooted
  <2>1. SUFFICES ASSUME NEW i \in Linked PROVE Root \in Ancestors(i)
    BY DEF Rooted
  <2>2. i \in Ino /\ links[i] > 0
    BY DEF Linked, Alive
  <2>3. Root \in Above(parent, i)
    BY <1>1, <2>2, RootAbove
  <2> QED
    BY <2>3 DEF Above, Ancestors, Closed, UpClosed
<1>5. LinkCounts
  <2>1. SUFFICES ASSUME NEW i \in Ino
                 PROVE  IF links[i] = 0 THEN entries[i] = <<>>
                        ELSE links[i] = IF IsDir(i)
                                        THEN 2 + Cardinality({c \in Children(i) : IsDir(c)})
                                        ELSE 1
    BY Zenon DEF LinkCounts, Alive
  <2>2. CASE links[i] = 0
    <3>1. Below(parent, links, i) = {}
      BY <1>1, <2>2 DEF Below, Shape, Holder
    <3> QED
      BY Zenon, <1>2, <2>2, <3>1, EmptyList
  <2>3. CASE links[i] # 0
    <3>1. links[i] = Counted(file_type, parent, links, i)
      BY <1>1, <2>3, StateFacts DEF Shape
    <3>2. {c \in Children(i) : IsDir(c)} = Subdirs(file_type, parent, links, i)
      BY <1>2 DEF IsDir, Subdirs
    <3> QED
      BY <2>3, <3>1, <3>2 DEF Counted, IsDir
  <2> QED
    BY Zenon, <2>2, <2>3
<1> QED
  BY <1>3, <1>4, <1>5 DEF TreeConsistent

\* However links, removals and renames interleave, also in directories that
\* were removed while a caller held them, the linked inodes are one tree under
\* the root and every link count is that of the tree.
THEOREM TreeStaysConsistent == Spec => []TreeConsistent
  BY SpecIInv, IInvTree, PTL

\* The mount is charged for exactly the inodes that exist, at most its limit.
THEOREM InodesChargedExactly == Spec => []ChargedExactly
  BY SpecIInv, IInvCharged, PTL

\* A step takes at most one inode out of the tree, and one without entries.
THEOREM NothingElseLost == Spec => LosesAtMostOne
<1>1. ASSUME IInv, [Next]_vars
      PROVE  [/\ Cardinality(Linked \ Linked') <= 1
              /\ \A i \in Linked \ Linked' : entries[i] = <<>>]_vars
  BY <1>1, NextIInv DEF LossStep
<1> QED
  BY <1>1, SpecIInv, PTL DEF Spec, LosesAtMostOne
=============================================================================
