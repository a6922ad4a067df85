--------------------------- MODULE UserMemoryProofs ---------------------------
(***************************************************************************)
(* Proofs about UserMemory: the arithmetic of mmap, and who holds which    *)
(* frame (FInv).  SpaceProofs goes on with what the address spaces hold    *)
(* (CInv, AInv), and MemoryTheorems draws the conclusions.                 *)
(***************************************************************************)
EXTENDS UserMemory, TLAPS

-----------------------------------------------------------------------------
(* Addresses and pages.                                                     *)

LEMMA Sizes ==
  /\ Word \in Nat \ {0} /\ page_size \in Nat \ {0} /\ user_end \in Nat \ {0}
  /\ page_size <= user_end /\ user_end < Word
  /\ Word % page_size = 0 /\ user_end % page_size = 0
  BY MmapRangeAssumption

\* Division with remainder.
LEMMA Divide ==
  ASSUME NEW a \in Nat, NEW k \in Nat \ {0}
  PROVE  /\ a \div k \in Nat /\ a % k \in 0 .. (k - 1)
         /\ a = (a \div k) * k + (a % k)
  OBVIOUS

LEMMA Multiples ==
  ASSUME NEW x \in Nat, NEW y \in Nat, NEW k \in Nat \ {0}
  PROVE  /\ x * k \in Nat
         /\ x < y => x * k + k <= y * k
         /\ x * k < y * k => x < y
<1>1. x * k \in Nat /\ y * k \in Nat
  OBVIOUS
<1>2. ASSUME NEW a \in Nat, NEW b \in Nat, a < b PROVE a * k + k <= b * k
  <2>1. b - a - 1 \in Nat
    BY <1>2
  <2>2. (b - a - 1) * k \in Nat
    BY <2>1
  <2>3. (b - a - 1) * k = b * k - a * k - k
    BY <1>2
  <2>4. a * k \in Nat /\ b * k \in Nat
    BY <1>2
  <2> QED
    BY <2>2, <2>3, <2>4
<1>3. x < y => x * k + k <= y * k
  BY <1>2
<1>4. y < x => y * k + k <= x * k
  BY <1>2
<1> QED
  BY <1>1, <1>3, <1>4

\* The fewest pages for n bytes.
LEMMA PagesEnough ==
  ASSUME NEW n \in Nat
  PROVE  /\ PagesFor(n) \in Nat /\ PagesFor(n) * page_size \in Nat
         /\ n <= PagesFor(n) * page_size /\ PagesFor(n) * page_size < n + page_size
         /\ n > 0 => PagesFor(n) > 0 /\ PagesFor(n) * page_size >= page_size
<1> DEFINE q == (n + page_size - 1) \div page_size
           r == (n + page_size - 1) % page_size
<1>1. page_size \in Nat \ {0} /\ n + page_size - 1 \in Nat
  BY Sizes
<1>2. /\ q \in Nat /\ r \in 0 .. (page_size - 1) /\ n + page_size - 1 = q * page_size + r
  BY Zenon, <1>1, Divide
<1>3. PagesFor(n) = q
  BY DEF PagesFor
<1> HIDE DEF q, r
<1>4. q * page_size \in Nat /\ (0 < q => 0 * page_size + page_size <= q * page_size)
  BY <1>1, <1>2, Multiples
<1>5. q = 0 => q * page_size = 0
  BY <1>1
<1>6. 0 * page_size = 0
  BY <1>1
<1> QED
  BY ONLY <1>1, <1>2, <1>3, <1>4, <1>5, <1>6

\* `align` is exact, or the aligned value is no machine word.
LEMMA AlignIsExact ==
  ASSUME NEW n \in 0 .. (Word - 1)
  PROVE  /\ align(n) # Overflow => align(n) = PagesFor(n) * page_size
         /\ align(n) = Overflow => PagesFor(n) * page_size >= Word
<1> DEFINE v == n + page_size - 1
<1>1. /\ page_size \in Nat \ {0} /\ Word \in Nat \ {0} /\ v \in Nat
      /\ checked_add(n, page_size - 1) = IF v < Word THEN v ELSE Word
  BY Sizes DEF checked_add, Overflow
<1>2. v = PagesFor(n) * page_size + (v % page_size) /\ PagesFor(n) \in Nat
      /\ PagesFor(n) * page_size \in Nat /\ v % page_size \in 0 .. (page_size - 1)
  <2>1. /\ v = (v \div page_size) * page_size + (v % page_size)
        /\ v % page_size \in 0 .. (page_size - 1)
    BY ONLY Zenon, <1>1, Divide
  <2>2. PagesFor(n) = v \div page_size
    BY DEF PagesFor
  <2>3. PagesFor(n) \in Nat /\ PagesFor(n) * page_size \in Nat
    BY PagesEnough, <1>1
  <2> QED
    BY ONLY Zenon, <2>1, <2>2, <2>3
<1> HIDE DEF v
<1>3. CASE v < Word
  <2>1. align(n) = v - (v % page_size)
    BY ONLY <1>1, <1>3 DEF align, Overflow
  <2>2. v - (v % page_size) = PagesFor(n) * page_size /\ v - (v % page_size) < Word
    BY ONLY <1>1, <1>2, <1>3
  <2> QED
    BY ONLY <1>1, <1>2, <2>1, <2>2 DEF Overflow
<1>4. CASE v >= Word
  <2>1. align(n) = Overflow
    BY ONLY <1>1, <1>4 DEF align, Overflow
  <2>2. Word = (Word \div page_size) * page_size /\ Word \div page_size \in Nat
    <3>1. /\ Word \div page_size \in Nat
          /\ Word = (Word \div page_size) * page_size + (Word % page_size)
      BY Zenon, <1>1, Divide
    <3>2. (Word \div page_size) * page_size \in Nat /\ Word % page_size = 0
      BY <1>1, <3>1, Multiples, Sizes
    <3> QED
      BY ONLY <1>1, <3>1, <3>2
  <2>3. PagesFor(n) * page_size >= Word
    <3> DEFINE W == Word \div page_size
               q == PagesFor(n)
    <3>1. W \in Nat /\ Word = W * page_size /\ q \in Nat /\ W * page_size \in Nat
      BY <1>1, <1>2, <2>2
    <3> HIDE DEF W, q
    <3>2. q < W => q * page_size + page_size <= W * page_size
      BY <1>1, <3>1, Multiples
    <3>3. ~(q < W)
      BY ONLY <1>1, <1>2, <1>4, <3>1, <3>2 DEF q
    <3>4. W < q => W * page_size + page_size <= q * page_size
      BY <1>1, <3>1, Multiples
    <3>5. q = W => q * page_size = W * page_size
      OBVIOUS
    <3>6. q * page_size >= Word
      BY ONLY <1>1, <1>2, <3>1, <3>3, <3>4, <3>5 DEF q
    <3> QED
      BY <3>6 DEF q
  <2> QED
    BY <1>1, <2>1, <2>3 DEF Overflow
<1> QED
  BY <1>1, <1>3, <1>4

\* checked_mmap_range answers what it should for every pair of machine words:
\* a sum that overflows is one that does not fit.
THEOREM RangeIsExact ==
  ASSUME NEW b \in 0 .. (Word - 1), NEW l \in 0 .. (Word - 1)
  PROVE  checked_mmap_range(b, l) = LeastFit(b, l)
<1> DEFINE first  == PagesFor(b) * page_size
           size   == PagesFor(l) * page_size
           baseUp == align(b)
           lenUp  == align(l)
           end    == checked_add(baseUp, lenUp)
<1>1. /\ page_size \in Nat \ {0} /\ Word \in Nat \ {0} /\ user_end \in Nat \ {0}
      /\ user_end < Word
  BY Sizes
<1>2. /\ first \in Nat /\ size \in Nat /\ (l # 0 => size > 0)
      /\ baseUp # Overflow => baseUp = first
      /\ baseUp = Overflow => first >= Word
      /\ lenUp # Overflow => lenUp = size
      /\ lenUp = Overflow => size >= Word
  <2>1. b \in Nat /\ l \in Nat
    BY <1>1
  <2> QED
    BY <1>1, <2>1, PagesEnough, AlignIsExact
<1>3. LeastFit(b, l) = CASE l = 0 -> Error(EINVAL)
                         [] l # 0 /\ first + size > user_end -> Error(ENOMEM)
                         [] OTHER -> Accept(first, size)
  BY DEF LeastFit
<1>4. checked_mmap_range(b, l) =
        CASE l = 0 -> Error(EINVAL)
          [] l # 0 /\ (lenUp = Overflow \/ baseUp = Overflow) -> Error(ENOMEM)
          [] OTHER -> IF end = Overflow \/ baseUp >= user_end \/ end > user_end
                      THEN Error(ENOMEM) ELSE Accept(baseUp, lenUp)
  BY DEF checked_mmap_range
<1> HIDE DEF first, size, baseUp, lenUp
<1>5. CASE l = 0
  BY ONLY <1>3, <1>4, <1>5
<1>6. CASE l # 0 /\ (lenUp = Overflow \/ baseUp = Overflow)
  <2>1. first + size > user_end
    BY ONLY <1>1, <1>2, <1>6
  <2> QED
    BY ONLY <1>3, <1>4, <1>6, <2>1
<1>7. CASE l # 0 /\ lenUp # Overflow /\ baseUp # Overflow
  <2>1. baseUp = first /\ lenUp = size
    BY ONLY <1>2, <1>7
  <2>2. checked_mmap_range(b, l) =
          IF end = Overflow \/ first >= user_end \/ end > user_end
          THEN Error(ENOMEM) ELSE Accept(first, size)
    BY ONLY <1>4, <1>7, <2>1
  <2>3. (end = Overflow \/ first >= user_end \/ end > user_end) <=> first + size > user_end
    BY ONLY <1>1, <1>2, <1>7, <2>1 DEF checked_add, Overflow
  <2>4. CASE first + size > user_end
    BY ONLY <1>3, <1>7, <2>2, <2>3, <2>4
  <2>5. CASE ~(first + size > user_end)
    BY ONLY <1>3, <1>7, <2>2, <2>3, <2>5
  <2> QED
    BY <2>4, <2>5
<1> QED
  BY <1>5, <1>6, <1>7

\* Whatever hint and length a task gives to mmap, the range is the least fit.
THEOREM RangesAreLeastFits == Spec => []RangeIsLeastFit
<1>1. Misfits = {}
  <2> SUFFICES ASSUME NEW c \in (0 .. (Word - 1)) \X (0 .. (Word - 1))
               PROVE  checked_mmap_range(c[1], c[2]) = LeastFit(c[1], c[2])
    BY Zenon DEF Misfits
  <2>1. c[1] \in 0 .. (Word - 1) /\ c[2] \in 0 .. (Word - 1)
    OBVIOUS
  <2> QED
    BY <2>1, RangeIsExact
<1>2. RangeIsLeastFit
  BY Zenon, <1>1 DEF RangeIsLeastFit
<1> QED
  BY <1>2, PTL

-----------------------------------------------------------------------------
(* The frames of one address space.                                         *)

Entry     == [page : Page, frame : Frame, prot : Prot]
SpaceType == [root : Frame \union {None}, tables : [Table -> Frame \union {None}],
              leaf : [Page -> MappingType], mappings : Seq(Entry)]

\* The frames a space holds, wherever it holds them.
FramesOf(s) ==
  ({s.root} \union {s.tables[t] : t \in Table}
            \union {s.mappings[i].frame : i \in DOMAIN s.mappings}) \ {None}

\* It holds each in one place.
OwnsOnce(s) ==
  /\ \A t \in Table : s.tables[t] # None => s.tables[t] # s.root
  /\ \A t, u \in Table : s.tables[t] # None /\ s.tables[t] = s.tables[u] => t = u
  /\ \A i \in DOMAIN s.mappings : s.mappings[i].frame # s.root
  /\ \A i \in DOMAIN s.mappings, t \in Table : s.mappings[i].frame # s.tables[t]
  /\ \A i, j \in DOMAIN s.mappings : s.mappings[i].frame = s.mappings[j].frame => i = j

LEMMA Constants ==
  /\ ROOT_PID \in Pid /\ None \notin Pid /\ None = 0 /\ Draft = 0
  /\ NrFrames \in Nat \ {0} /\ BrkMax \in Nat \ {0} /\ MmapBase \in Nat \ {0}
  /\ BrkMax <= user_end /\ MmapBase <= user_end
  /\ PathOf \in [Page -> SUBSET Nat]
  /\ Segments \in Seq(Page) \ {<<>>} /\ StackPages \in Seq(Page)
  /\ Supervisor \subseteq Page
  /\ Hints \subseteq 0 .. (Word - 1) /\ MaxLen \in 0 .. (Word - 1)
  BY UserMemoryAssumption DEF None, Draft

LEMMA FrameFacts == Frame \subseteq Nat \ {0} /\ None \notin Frame
  BY Constants DEF Frame, None

\* A space that does not exist holds nothing.
LEMMA NoSpaceHoldsNothing ==
  /\ NoSpace \in SpaceType /\ FramesOf(NoSpace) = {} /\ OwnsOnce(NoSpace)
  /\ NoSpace.root = None /\ NoSpace.mappings = <<>>
  /\ NoSpace.tables = [t \in Table |-> None]
  /\ NoSpace.leaf = [pg \in Page |-> NoMapping]
<1>1. /\ NoSpace.root = None /\ NoSpace.mappings = <<>>
      /\ NoSpace.tables = [t \in Table |-> None]
      /\ NoSpace.leaf = [pg \in Page |-> NoMapping]
  BY DEF NoSpace
<1>2. NoSpace.leaf \in [Page -> MappingType] /\ NoSpace.mappings \in Seq(Entry)
      /\ NoSpace.tables \in [Table -> Frame \union {None}]
  BY <1>1 DEF NoMapping, MappingType, Prot
<1>3. NoSpace \in SpaceType
  BY <1>1, <1>2 DEF SpaceType, NoSpace
<1>4. DOMAIN NoSpace.mappings = {} /\ \A t \in Table : NoSpace.tables[t] = None
  BY <1>1
<1>5. FramesOf(NoSpace) = {}
  BY <1>1, <1>4 DEF FramesOf
<1>6. OwnsOnce(NoSpace)
  BY <1>4 DEF OwnsOnce
<1> QED
  BY <1>1, <1>3, <1>5, <1>6

\* What a list of frames holds.
ListOf(S, q) ==
  /\ q \in Seq(S) /\ {q[i] : i \in DOMAIN q} = S
  /\ \A i, j \in DOMAIN q : q[i] = q[j] => i = j

SetToSeq(S) == CHOOSE q \in [1 .. Cardinality(S) -> S] : IsInjective(q)

\* What the lemmas need to know of numbers and finite sets: a set of numbers has
\* a least one, and the table frames of a space can be listed.  MemoryTheorems
\* proves it.
Basics ==
  /\ \A S \in SUBSET Nat : S # {} => \E x \in S : \A y \in S : x <= y
  /\ \A S \in SUBSET Frame : ListOf(S, SetToSeq(S))

LEMMA ConcatLists ==
  ASSUME NEW S, NEW T, NEW a, NEW b, ListOf(S, a), ListOf(T, b), S \intersect T = {}
  PROVE  ListOf(S \union T, a \o b)
<1> DEFINE U == S \union T
           c == a \o b
           m == Len(a)
           n == Len(b)
<1>1. /\ a \in Seq(U) /\ b \in Seq(U) /\ m \in Nat /\ n \in Nat
      /\ DOMAIN a = 1 .. m /\ DOMAIN b = 1 .. n
      /\ \A i \in 1 .. m : a[i] \in S
      /\ \A i \in 1 .. n : b[i] \in T
  BY DEF ListOf
<1>2. /\ c \in Seq(U) /\ Len(c) = m + n
      /\ \A i \in 1 .. (m + n) : c[i] = IF i <= m THEN a[i] ELSE b[i - m]
  BY ONLY <1>1
<1>3. DOMAIN c = 1 .. (m + n)
  BY ONLY <1>1, <1>2
<1> HIDE DEF U, c, m, n
<1>4. \A i \in 1 .. m : i \in 1 .. (m + n) /\ c[i] = a[i]
  BY ONLY <1>1, <1>2
<1>5. \A i \in 1 .. (m + n) : i > m => i - m \in 1 .. n /\ c[i] = b[i - m]
  BY ONLY <1>1, <1>2
<1>6. \A i \in 1 .. n : i + m \in 1 .. (m + n) /\ c[i + m] = b[i]
  <2> SUFFICES ASSUME NEW i \in 1 .. n
               PROVE  i + m \in 1 .. (m + n) /\ c[i + m] = b[i]
    OBVIOUS
  <2>1. i + m \in 1 .. (m + n) /\ i + m > m /\ (i + m) - m = i
    BY ONLY <1>1, i \in 1 .. n
  <2> QED
    BY ONLY <1>5, <2>1
<1>7. {c[i] : i \in DOMAIN c} = U
  <2>1. ASSUME NEW i \in DOMAIN c PROVE c[i] \in U
    BY ONLY <1>2, <1>3, <2>1
  <2>2. ASSUME NEW x \in U PROVE \E i \in DOMAIN c : c[i] = x
    <3>1. CASE x \in S
      <4>1. PICK i \in 1 .. m : a[i] = x
        BY <1>1, <3>1 DEF ListOf
      <4> QED
        BY <1>3, <1>4, <4>1
    <3>2. CASE x \in T
      <4>1. PICK i \in 1 .. n : b[i] = x
        BY <1>1, <3>2 DEF ListOf
      <4> QED
        BY <1>3, <1>6, <4>1
    <3> QED
      BY <3>1, <3>2 DEF U
  <2> QED
    BY <2>1, <2>2
<1>8. ASSUME NEW i \in DOMAIN c, NEW j \in DOMAIN c, c[i] = c[j] PROVE i = j
  <2>1. i \in 1 .. (m + n) /\ j \in 1 .. (m + n) /\ i \in Nat /\ j \in Nat /\ m \in Nat
    BY <1>1, <1>3
  <2>2. CASE i <= m /\ j <= m
    <3>1. i \in 1 .. m /\ j \in 1 .. m
      BY ONLY <2>1, <2>2
    <3> QED
      BY <1>1, <1>4, <1>8, <3>1 DEF ListOf
  <2>3. CASE i > m /\ j > m
    <3>1. i - m \in 1 .. n /\ j - m \in 1 .. n /\ b[i - m] = b[j - m]
      BY <1>5, <1>8, <2>1, <2>3
    <3>2. i - m = j - m
      BY <1>1, <3>1 DEF ListOf
    <3> QED
      BY ONLY <2>1, <3>2
  <2>4. CASE i <= m /\ j > m
    <3>1. c[i] \in S /\ c[j] \in T
      <4>1. i \in 1 .. m
        BY ONLY <2>1, <2>4
      <4> QED
        BY <1>1, <1>4, <1>5, <2>1, <2>4, <4>1
    <3> QED
      BY <1>8, <3>1
  <2>5. CASE i > m /\ j <= m
    <3>1. c[i] \in T /\ c[j] \in S
      <4>1. j \in 1 .. m
        BY ONLY <2>1, <2>5
      <4> QED
        BY <1>1, <1>4, <1>5, <2>1, <2>5, <4>1
    <3> QED
      BY <1>8, <3>1
  <2> QED
    BY <2>1, <2>2, <2>3, <2>4, <2>5
<1> QED
  BY Zenon, <1>2, <1>7, <1>8 DEF ListOf, U, c

\* Dropping a space gives back each of its frames once.
LEMMA OwnedFramesList ==
  ASSUME Basics, NEW s \in SpaceType, OwnsOnce(s), s.root # None
  PROVE  ListOf(FramesOf(s), OwnedFrames(s))
<1> DEFINE M  == {s.mappings[i].frame : i \in DOMAIN s.mappings}
           T  == {s.tables[t] : t \in Table} \ {None}
           ms == [i \in DOMAIN s.mappings |-> s.mappings[i].frame]
<1>1. /\ s.root \in Frame /\ s.tables \in [Table -> Frame \union {None}]
      /\ s.mappings \in Seq(Entry)
  BY DEF SpaceType
<1>2. /\ DOMAIN s.mappings = 1 .. Len(s.mappings) /\ Len(s.mappings) \in Nat
      /\ \A i \in DOMAIN s.mappings : s.mappings[i].frame \in Frame
  <2>1. DOMAIN s.mappings = 1 .. Len(s.mappings) /\ Len(s.mappings) \in Nat
    BY <1>1
  <2>2. \A i \in DOMAIN s.mappings : s.mappings[i] \in Entry
    BY <1>1, <2>1
  <2> QED
    BY <2>1, <2>2 DEF Entry
<1>3. ListOf(M, ms)
  <2>1. ms \in [1 .. Len(s.mappings) -> M]
    BY <1>2
  <2>2. ms \in Seq(M)
    BY ONLY <1>2, <2>1
  <2>3. \A i, j \in DOMAIN ms : ms[i] = ms[j] => i = j
    BY DEF OwnsOnce
  <2> QED
    BY Zenon, <2>2, <2>3 DEF ListOf
<1>4. ListOf(T, SetToSeq(T))
  <2>1. T \in SUBSET Frame
    BY <1>1
  <2> QED
    BY ONLY Zenon, Basics, <2>1 DEF Basics
<1>5. ListOf({s.root}, <<s.root>>)
  BY DEF ListOf
<1>6. M \intersect T = {} /\ s.root \notin M /\ s.root \notin T
  BY DEF OwnsOnce
<1>7. FramesOf(s) = (M \union T) \union {s.root}
  BY <1>1, <1>2, FrameFacts DEF FramesOf
<1>8. OwnedFrames(s) = (ms \o SetToSeq(T)) \o <<s.root>>
  BY DEF OwnedFrames, SetToSeq
<1> HIDE DEF M, T, ms
<1>9. ListOf(M \union T, ms \o SetToSeq(T))
  BY <1>3, <1>4, <1>6, ConcatLists
<1>10. ListOf((M \union T) \union {s.root}, (ms \o SetToSeq(T)) \o <<s.root>>)
  <2>1. (M \union T) \intersect {s.root} = {}
    BY <1>6
  <2> QED
    BY <1>5, <1>9, <2>1, ConcatLists
<1> QED
  BY ONLY Zenon, <1>7, <1>8, <1>10

-----------------------------------------------------------------------------
(* The frames of the machine.                                               *)

Free(rec) == {rec[i] : i \in DOMAIN rec}

\* Every issued frame is free or held by one space, once.
FrameInv(rec, nx, sp) ==
  /\ ListOf(Free(rec), rec)
  /\ \A s \in SpaceId : OwnsOnce(sp[s]) /\ FramesOf(sp[s]) \intersect Free(rec) = {}
  /\ \A s, u \in SpaceId : s # u => FramesOf(sp[s]) \intersect FramesOf(sp[u]) = {}
  /\ \A f : f \in Free(rec) \/ (\E s \in SpaceId : f \in FramesOf(sp[s])) <=> f \in 1 .. nx

\* Frame f was taken from the free list `rec`, or is the new one after `nx`.
Taken(rec, nx, f, rec2, nx2) ==
  /\ ListOf(Free(rec2), rec2) /\ Free(rec2) = Free(rec) \ {f}
  /\ 1 .. nx2 = (1 .. nx) \union {f}
  /\ f \in Free(rec) \/ f \notin 1 .. nx

Last(q)  == q[Len(q)]
Front(q) == SubSeq(q, 1, Len(q) - 1)

LEMMA ShortenedList ==
  ASSUME NEW S, NEW q, ListOf(S, q), q # <<>>
  PROVE  Last(q) \in S /\ ListOf(S \ {Last(q)}, Front(q))
<1> DEFINE n == Len(q)
           x == Last(q)
           r == Front(q)
<1>1. q \in Seq(S) /\ n \in Nat \ {0} /\ DOMAIN q = 1 .. n
  BY DEF ListOf
<1>2. x = q[n] /\ n \in 1 .. n /\ x \in S
  BY <1>1 DEF Last
<1>3. /\ r \in Seq(S) /\ Len(r) = n - 1 /\ DOMAIN r = 1 .. (n - 1)
      /\ \A i \in 1 .. (n - 1) : r[i] = q[i]
  <2>1. r = SubSeq(q, 1, n - 1)
    BY DEF Front
  <2>2. \A i \in 1 .. (n - 1) : q[i] \in S
    BY <1>1
  <2>3. /\ SubSeq(q, 1, n - 1) \in Seq(S)
        /\ Len(SubSeq(q, 1, n - 1)) = IF 1 <= n - 1 THEN (n - 1) - 1 + 1 ELSE 0
        /\ \A i \in 1 .. ((n - 1) - 1 + 1) : SubSeq(q, 1, n - 1)[i] = q[1 + i - 1]
    <3>1. 1 \in Int /\ n - 1 \in Int
      BY <1>1
    <3> QED
      BY ONLY <2>2, <3>1
  <2> HIDE DEF n, r
  <2>4. r \in Seq(S) /\ Len(r) = n - 1
    BY ONLY <1>1, <2>1, <2>3
  <2>5. \A i \in 1 .. (n - 1) : r[i] = q[i]
    BY ONLY <1>1, <2>1, <2>3
  <2>6. DOMAIN r = 1 .. Len(r)
    BY ONLY <2>4
  <2> QED
    BY ONLY <2>4, <2>5, <2>6
<1> HIDE DEF n, x, r
<1>4. \A i \in 1 .. (n - 1) : i \in 1 .. n /\ i # n
  BY ONLY <1>1
<1>5. \A i \in 1 .. (n - 1) : r[i] \in S \ {x}
  BY Zenon, <1>1, <1>2, <1>3, <1>4 DEF ListOf
<1>6. \A i, j \in DOMAIN r : r[i] = r[j] => i = j
  BY <1>1, <1>3, <1>4 DEF ListOf
<1>7. r \in Seq(S \ {x})
  <2>1. r \in [1 .. (n - 1) -> S \ {x}]
    BY <1>3, <1>5
  <2>2. n - 1 \in Nat
    BY <1>1
  <2> QED
    BY ONLY <2>1, <2>2
<1>8. {r[i] : i \in DOMAIN r} = S \ {x}
  <2>1. ASSUME NEW y \in S \ {x} PROVE \E i \in DOMAIN r : r[i] = y
    <3>1. PICK i \in 1 .. n : q[i] = y
      BY <1>1 DEF ListOf
    <3>2. i # n
      BY <1>2, <3>1
    <3>3. i \in 1 .. (n - 1)
      BY <1>1, <3>2
    <3> QED
      BY <1>3, <3>1, <3>3
  <2> QED
    BY <1>3, <1>5, <2>1
<1> QED
  BY <1>2, <1>6, <1>7, <1>8 DEF ListOf, x, r

\* allocate_frame.
LEMMA TakesFrame ==
  ASSUME ListOf(Free(recycled), recycled), Free(recycled) \subseteq 1 .. next,
         next \in 1 .. NrFrames, TakeFrame
  PROVE  /\ Taken(recycled, next, NextFrame, recycled', next')
         /\ next' \in 1 .. NrFrames /\ NextFrame \in Frame
<1>0. NrFrames \in Nat
  BY Constants
<1>1. CASE recycled # <<>>
  <2>1. NextFrame = Last(recycled) /\ recycled' = Front(recycled) /\ next' = next
    BY <1>1 DEF TakeFrame, NextFrame, Last, Front
  <2>2. /\ Last(recycled) \in Free(recycled)
        /\ ListOf(Free(recycled) \ {Last(recycled)}, Front(recycled))
    BY Zenon, <1>1, ShortenedList
  <2>3. Free(Front(recycled)) = Free(recycled) \ {Last(recycled)}
    BY Zenon, <2>2 DEF ListOf, Free
  <2>4. Last(recycled) \in 1 .. next
    BY <2>2
  <2>5. Last(recycled) \in Frame
    BY <1>0, <2>4 DEF Frame
  <2> QED
    BY Zenon, <2>1, <2>2, <2>3, <2>4, <2>5 DEF Taken
<1>2. CASE recycled = <<>>
  <2>1. /\ NextFrame = next + 1 /\ recycled' = recycled /\ next' = next + 1
        /\ next < NrFrames
    BY <1>2 DEF TakeFrame, NextFrame, FrameLeft
  <2>2. Free(recycled) = {}
    BY <1>2 DEF Free
  <2>3. 1 .. (next + 1) = (1 .. next) \union {next + 1} /\ next + 1 \notin 1 .. next
    BY <1>0
  <2>4. next + 1 \in Frame /\ next + 1 \in 1 .. NrFrames
    BY <1>0, <2>1 DEF Frame
  <2> QED
    BY Zenon, <2>1, <2>2, <2>3, <2>4 DEF Taken
<1> QED
  BY <1>1, <1>2

\* A taken frame goes to a space.
LEMMA GivesFrame ==
  ASSUME NEW rec, NEW nx, NEW sp, FrameInv(rec, nx, sp), DOMAIN sp = SpaceId,
         NEW f, NEW rec2, NEW nx2, Taken(rec, nx, f, rec2, nx2),
         NEW d \in SpaceId, NEW n, OwnsOnce(n), FramesOf(n) = FramesOf(sp[d]) \union {f}
  PROVE  FrameInv(rec2, nx2, [sp EXCEPT ![d] = n])
<1> DEFINE sp2 == [sp EXCEPT ![d] = n]
<1>1. sp2[d] = n /\ \A s \in SpaceId \ {d} : sp2[s] = sp[s]
  BY Zenon
<1> HIDE DEF sp2
<1>2. \A s \in SpaceId : f \notin FramesOf(sp[s])
  <2>1. CASE f \in Free(rec)
    BY Zenon, <2>1 DEF FrameInv
  <2>2. CASE f \notin 1 .. nx
    BY Zenon, <2>2 DEF FrameInv
  <2> QED
    BY Zenon, <2>1, <2>2 DEF Taken
<1>3. ASSUME NEW s \in SpaceId
      PROVE  OwnsOnce(sp2[s]) /\ FramesOf(sp2[s]) \intersect Free(rec2) = {}
  <2>1. FramesOf(sp[s]) \intersect Free(rec) = {} /\ OwnsOnce(sp[s])
    BY Zenon DEF FrameInv
  <2>2. Free(rec2) = Free(rec) \ {f}
    BY Zenon DEF Taken
  <2>3. CASE s = d
    BY Zenon, <1>1, <2>1, <2>2, <2>3
  <2>4. CASE s # d
    BY Zenon, <1>1, <2>1, <2>2, <2>4
  <2> QED
    BY <2>3, <2>4
<1>4. ASSUME NEW s \in SpaceId, NEW u \in SpaceId, s # u
      PROVE  FramesOf(sp2[s]) \intersect FramesOf(sp2[u]) = {}
  <2>1. FramesOf(sp[s]) \intersect FramesOf(sp[u]) = {}
    BY Zenon, <1>4 DEF FrameInv
  <2>2. f \notin FramesOf(sp[s]) /\ f \notin FramesOf(sp[u])
    BY Zenon, <1>2
  <2>3. CASE s = d
    BY Zenon, <1>1, <1>4, <2>1, <2>2, <2>3
  <2>4. CASE u = d
    BY Zenon, <1>1, <1>4, <2>1, <2>2, <2>4
  <2>5. CASE s # d /\ u # d
    BY Zenon, <1>1, <2>1, <2>5
  <2> QED
    BY <2>3, <2>4, <2>5
<1>5. ASSUME NEW g
      PROVE  g \in Free(rec2) \/ (\E s \in SpaceId : g \in FramesOf(sp2[s])) <=> g \in 1 .. nx2
  <2>1. Free(rec2) = Free(rec) \ {f} /\ 1 .. nx2 = (1 .. nx) \union {f}
    BY Zenon DEF Taken
  <2>2. g \in Free(rec) \/ (\E s \in SpaceId : g \in FramesOf(sp[s])) <=> g \in 1 .. nx
    BY Zenon DEF FrameInv
  <2>3. (\E s \in SpaceId : g \in FramesOf(sp2[s]))
          <=> g = f \/ (\E s \in SpaceId : g \in FramesOf(sp[s]))
    BY Zenon, <1>1
  <2> QED
    BY Zenon, <2>1, <2>2, <2>3
<1>6. FrameInv(rec2, nx2, sp2)
  BY Zenon, <1>3, <1>4, <1>5 DEF FrameInv, Taken
<1> QED
  BY ONLY Zenon, <1>6 DEF sp2

\* A taken frame goes back.
LEMMA ReturnsFrame ==
  ASSUME FrameInv(recycled, next, space), next \in 1 .. NrFrames, FrameLeft
  PROVE  LET fr == IF recycled # <<>> THEN recycled ELSE <<next + 1>>
             nx == IF recycled # <<>> THEN next ELSE next + 1
         IN  FrameInv(fr, nx, space) /\ nx \in 1 .. NrFrames
<1>1. CASE recycled # <<>>
  BY Zenon, <1>1
<1>2. CASE recycled = <<>>
  <2>1. next < NrFrames /\ NrFrames \in Nat /\ Free(recycled) = {}
    BY <1>2, Constants DEF FrameLeft, Free
  <2> DEFINE x == next + 1
  <2>2. x \in 1 .. NrFrames /\ 1 .. x = (1 .. next) \union {x} /\ x \notin 1 .. next
    BY <2>1
  <2> HIDE DEF x
  <2>3. Free(<<x>>) = {x} /\ ListOf({x}, <<x>>)
    BY DEF Free, ListOf
  <2>4. \A s \in SpaceId : x \notin FramesOf(space[s])
    BY Zenon, <2>2 DEF FrameInv
  <2>5. FrameInv(<<x>>, x, space)
    <3>1. \A s \in SpaceId : OwnsOnce(space[s]) /\ FramesOf(space[s]) \intersect Free(<<x>>) = {}
      BY ZenonT(40), <2>3, <2>4 DEF FrameInv
    <3>2. \A s, u \in SpaceId : s # u => FramesOf(space[s]) \intersect FramesOf(space[u]) = {}
      BY Zenon DEF FrameInv
    <3>3. ASSUME NEW g
          PROVE  g \in Free(<<x>>) \/ (\E s \in SpaceId : g \in FramesOf(space[s]))
                   <=> g \in 1 .. x
      <4>1. (\E s \in SpaceId : g \in FramesOf(space[s])) <=> g \in 1 .. next
        BY Zenon, <2>1 DEF FrameInv
      <4> QED
        BY Zenon, <2>2, <2>3, <4>1
    <3> QED
      BY Zenon, <2>3, <3>1, <3>2, <3>3 DEF FrameInv
  <2> QED
    BY Zenon, <1>2, <2>2, <2>5 DEF x
<1> QED
  BY <1>1, <1>2

\* A space is dropped.
LEMMA DropsSpace ==
  ASSUME Basics, NEW rec, NEW nx, NEW sp, FrameInv(rec, nx, sp), sp \in [SpaceId -> SpaceType],
         NEW d \in SpaceId, sp[d].root # None
  PROVE  FrameInv(rec \o OwnedFrames(sp[d]), nx, [sp EXCEPT ![d] = NoSpace])
<1> DEFINE sp2 == [sp EXCEPT ![d] = NoSpace]
           own == OwnedFrames(sp[d])
           r2  == rec \o own
<1>1. sp2[d] = NoSpace /\ \A s \in SpaceId \ {d} : sp2[s] = sp[s]
  BY Zenon
<1>2. ListOf(FramesOf(sp[d]), own)
  <2>1. sp[d] \in SpaceType /\ OwnsOnce(sp[d])
    BY Zenon DEF FrameInv
  <2> QED
    BY Zenon, <2>1, OwnedFramesList
<1> HIDE DEF sp2, own
<1>3. ListOf(Free(rec) \union FramesOf(sp[d]), r2)
  <2>1. Free(rec) \intersect FramesOf(sp[d]) = {} /\ ListOf(Free(rec), rec)
    BY Zenon DEF FrameInv
  <2> QED
    BY Zenon, <1>2, <2>1, ConcatLists
<1>4. Free(r2) = Free(rec) \union FramesOf(sp[d])
  BY Zenon, <1>3 DEF ListOf, Free
<1> HIDE DEF r2
<1>5. FramesOf(NoSpace) = {} /\ OwnsOnce(NoSpace)
  BY Zenon, NoSpaceHoldsNothing
<1>6. ASSUME NEW s \in SpaceId
      PROVE  OwnsOnce(sp2[s]) /\ FramesOf(sp2[s]) \intersect Free(r2) = {}
  <2>1. CASE s = d
    BY Zenon, <1>1, <1>5, <2>1
  <2>2. CASE s # d
    <3>1. /\ FramesOf(sp[s]) \intersect Free(rec) = {} /\ OwnsOnce(sp[s])
          /\ FramesOf(sp[s]) \intersect FramesOf(sp[d]) = {}
      BY Zenon, <2>2 DEF FrameInv
    <3> QED
      BY Zenon, <1>1, <1>4, <2>2, <3>1
  <2> QED
    BY <2>1, <2>2
<1>7. ASSUME NEW s \in SpaceId, NEW u \in SpaceId, s # u
      PROVE  FramesOf(sp2[s]) \intersect FramesOf(sp2[u]) = {}
  <2>1. CASE s = d \/ u = d
    BY Zenon, <1>1, <1>5, <2>1
  <2>2. CASE s # d /\ u # d
    BY Zenon, <1>1, <1>7, <2>2 DEF FrameInv
  <2> QED
    BY <2>1, <2>2
<1>8. ASSUME NEW g
      PROVE  g \in Free(r2) \/ (\E s \in SpaceId : g \in FramesOf(sp2[s])) <=> g \in 1 .. nx
  <2>1. g \in Free(rec) \/ (\E s \in SpaceId : g \in FramesOf(sp[s])) <=> g \in 1 .. nx
    BY Zenon DEF FrameInv
  <2>2. (\E s \in SpaceId : g \in FramesOf(sp[s]))
          <=> g \in FramesOf(sp[d]) \/ (\E s \in SpaceId : g \in FramesOf(sp2[s]))
    BY Zenon, <1>1, <1>5
  <2> QED
    BY Zenon, <1>4, <2>1, <2>2
<1>9. FrameInv(r2, nx, sp2)
  <2>1. ListOf(Free(r2), r2)
    BY ONLY Zenon, <1>3, <1>4
  <2> QED
    BY Zenon, <1>6, <1>7, <1>8, <2>1 DEF FrameInv
<1> QED
  BY ONLY Zenon, <1>9 DEF sp2, r2, own

\* A space moves: the draft becomes the space of a task.
LEMMA MovesSpace ==
  ASSUME NEW rec, NEW nx, NEW sp, FrameInv(rec, nx, sp), sp \in [SpaceId -> SpaceType],
         NEW d \in SpaceId, NEW c \in SpaceId, c # d, sp[c] = NoSpace
  PROVE  FrameInv(rec, nx, [sp EXCEPT ![c] = sp[d], ![d] = NoSpace])
<1> DEFINE sp2 == [sp EXCEPT ![c] = sp[d], ![d] = NoSpace]
<1>1. /\ sp2[d] = NoSpace /\ sp2[c] = sp[d]
      /\ \A s \in SpaceId \ {c, d} : sp2[s] = sp[s]
  BY Zenon
<1> HIDE DEF sp2
<1>2. FramesOf(NoSpace) = {} /\ OwnsOnce(NoSpace)
  BY Zenon, NoSpaceHoldsNothing
<1>3. ASSUME NEW s \in SpaceId
      PROVE  OwnsOnce(sp2[s]) /\ FramesOf(sp2[s]) \intersect Free(rec) = {}
  <2>1. CASE s = d
    BY Zenon, <1>1, <1>2, <2>1
  <2>2. CASE s = c
    BY Zenon, <1>1, <2>2 DEF FrameInv
  <2>3. CASE s # c /\ s # d
    BY Zenon, <1>1, <2>3 DEF FrameInv
  <2> QED
    BY <2>1, <2>2, <2>3
<1>4. ASSUME NEW s \in SpaceId, NEW u \in SpaceId, s # u
      PROVE  FramesOf(sp2[s]) \intersect FramesOf(sp2[u]) = {}
  <2>1. CASE s = d \/ u = d
    BY Zenon, <1>1, <1>2, <2>1
  <2>2. CASE s # d /\ u # d /\ s = c
    <3>1. sp2[s] = sp[d] /\ sp2[u] = sp[u]
      BY Zenon, <1>1, <1>4, <2>2
    <3> QED
      BY Zenon, <2>2, <3>1 DEF FrameInv
  <2>3. CASE s # d /\ u # d /\ u = c
    <3>1. sp2[u] = sp[d] /\ sp2[s] = sp[s]
      BY Zenon, <1>1, <1>4, <2>3
    <3> QED
      BY Zenon, <2>3, <3>1 DEF FrameInv
  <2>4. CASE s # d /\ u # d /\ s # c /\ u # c
    BY Zenon, <1>1, <1>4, <2>4 DEF FrameInv
  <2> QED
    BY <2>1, <2>2, <2>3, <2>4
<1>5. ASSUME NEW g
      PROVE  g \in Free(rec) \/ (\E s \in SpaceId : g \in FramesOf(sp2[s])) <=> g \in 1 .. nx
  <2>1. g \in Free(rec) \/ (\E s \in SpaceId : g \in FramesOf(sp[s])) <=> g \in 1 .. nx
    BY Zenon DEF FrameInv
  <2>2. ASSUME NEW s \in SpaceId, g \in FramesOf(sp[s])
        PROVE  \E u \in SpaceId : g \in FramesOf(sp2[u])
    BY Zenon, <1>1, <1>2, <2>2
  <2>3. ASSUME NEW s \in SpaceId, g \in FramesOf(sp2[s])
        PROVE  \E u \in SpaceId : g \in FramesOf(sp[u])
    BY Zenon, <1>1, <1>2, <2>3
  <2> QED
    BY Zenon, <2>1, <2>2, <2>3
<1>6. FrameInv(rec, nx, sp2)
  <2>1. ListOf(Free(rec), rec)
    BY Zenon DEF FrameInv
  <2> QED
    BY Zenon, <1>3, <1>4, <1>5, <2>1 DEF FrameInv
<1> QED
  BY ONLY Zenon, <1>6 DEF sp2

\* The four kinds of places.
LEMMA PlaceKinds ==
  ASSUME NEW pl
  PROVE  pl \in Places <=>
           \/ \E i \in DOMAIN recycled : pl = <<"free", 0, i>>
           \/ \E s \in SpaceId : space[s].root # None /\ pl = <<"root", s, 0>>
           \/ \E s \in SpaceId : \E t \in Table :
                space[s].tables[t] # None /\ pl = <<"table", s, t>>
           \/ \E s \in SpaceId : \E i \in DOMAIN space[s].mappings : pl = <<"map", s, i>>
<1>1. pl \in Places <=> \/ pl \in FreePlaces \/ pl \in RootPlaces
                         \/ pl \in TablePlaces \/ pl \in MapPlaces
  BY Zenon DEF Places
<1>2. pl \in FreePlaces <=> \E i \in DOMAIN recycled : pl = <<"free", 0, i>>
  BY Zenon DEF FreePlaces
<1>3. pl \in RootPlaces <=> \E s \in SpaceId : space[s].root # None /\ pl = <<"root", s, 0>>
  BY Zenon DEF RootPlaces
<1>4. pl \in TablePlaces <=> \E s \in SpaceId : \E t \in Table :
                               space[s].tables[t] # None /\ pl = <<"table", s, t>>
  BY DEF TablePlaces
<1>5. pl \in MapPlaces <=> \E s \in SpaceId : \E i \in DOMAIN space[s].mappings :
                             pl = <<"map", s, i>>
  BY DEF MapPlaces
<1> QED
  BY Zenon, <1>1, <1>2, <1>3, <1>4, <1>5

LEMMA FrameAtKinds ==
  ASSUME NEW s, NEW i
  PROVE  /\ FrameAt(<<"free", 0, i>>) = recycled[i]
         /\ FrameAt(<<"root", s, 0>>) = space[s].root
         /\ FrameAt(<<"table", s, i>>) = space[s].tables[i]
         /\ FrameAt(<<"map", s, i>>) = space[s].mappings[i].frame
<1>1. FrameAt(<<"free", 0, i>>) = recycled[i]
  BY DEF FrameAt
<1>2. FrameAt(<<"root", s, 0>>) = space[s].root
  BY DEF FrameAt
<1>3. FrameAt(<<"table", s, i>>) = space[s].tables[i]
  BY DEF FrameAt
<1>4. FrameAt(<<"map", s, i>>) = space[s].mappings[i].frame
  BY DEF FrameAt
<1> QED
  BY <1>1, <1>2, <1>3, <1>4

\* A place of a space holds a frame of that space.
LEMMA PlaceInSpace ==
  ASSUME NEW s \in SpaceId, space[s] \in SpaceType
  PROVE  /\ space[s].root # None => space[s].root \in FramesOf(space[s])
         /\ \A t \in Table : space[s].tables[t] # None =>
              space[s].tables[t] \in FramesOf(space[s])
         /\ \A i \in DOMAIN space[s].mappings :
              /\ space[s].mappings[i].frame \in FramesOf(space[s])
              /\ space[s].mappings[i].frame # None
<1>1. \A i \in DOMAIN space[s].mappings : space[s].mappings[i].frame # None
  <2>1. space[s].mappings \in Seq(Entry)
    BY DEF SpaceType
  <2>2. \A i \in DOMAIN space[s].mappings : space[s].mappings[i] \in Entry
    BY <2>1
  <2>3. \A i \in DOMAIN space[s].mappings : space[s].mappings[i].frame \in Frame
    BY <2>2 DEF Entry
  <2> QED
    BY Zenon, <2>3, FrameFacts
<1> QED
  BY Zenon, <1>1 DEF FramesOf

\* Two places in spaces with the same frame are the same place.
LEMMA SamePlace ==
  ASSUME FrameInv(recycled, next, space), space \in [SpaceId -> SpaceType],
         NEW a \in Places, NEW b \in Places, FrameAt(a) = FrameAt(b)
  PROVE  a = b
<1> DEFINE InFree(pl, i)     == i \in DOMAIN recycled /\ pl = <<"free", 0, i>>
           InRoot(pl, s)     == s \in SpaceId /\ space[s].root # None /\ pl = <<"root", s, 0>>
           InTable(pl, s, t) == /\ s \in SpaceId /\ t \in Table /\ space[s].tables[t] # None
                                /\ pl = <<"table", s, t>>
           InMap(pl, s, i)   == /\ s \in SpaceId /\ i \in DOMAIN space[s].mappings
                                /\ pl = <<"map", s, i>>
           InSpace(pl, s)    == \/ InRoot(pl, s) \/ \E t : InTable(pl, s, t)
                                \/ \E i : InMap(pl, s, i)
<1>1. ASSUME NEW pl \in Places
      PROVE  (\E i : InFree(pl, i)) \/ (\E s \in SpaceId : InSpace(pl, s))
  BY Zenon, PlaceKinds
<1>2. ASSUME NEW pl, NEW i, InFree(pl, i) PROVE FrameAt(pl) \in Free(recycled)
  BY Zenon, <1>2, FrameAtKinds DEF Free
<1>3. ASSUME NEW pl, NEW s \in SpaceId, InSpace(pl, s)
      PROVE  FrameAt(pl) \in FramesOf(space[s])
  <2>1. space[s] \in SpaceType
    OBVIOUS
  <2>2. CASE InRoot(pl, s)
    BY Zenon, <2>1, <2>2, PlaceInSpace, FrameAtKinds
  <2>3. ASSUME NEW t, InTable(pl, s, t) PROVE FrameAt(pl) \in FramesOf(space[s])
    BY Zenon, <2>1, <2>3, PlaceInSpace, FrameAtKinds
  <2>4. ASSUME NEW i, InMap(pl, s, i) PROVE FrameAt(pl) \in FramesOf(space[s])
    BY ZenonT(40), <2>1, <2>4, PlaceInSpace, FrameAtKinds
  <2> QED
    BY Zenon, <1>3, <2>2, <2>3, <2>4
<1>4. ASSUME NEW i, InFree(a, i), NEW j, InFree(b, j) PROVE a = b
  <2>1. recycled[i] = recycled[j]
    BY Zenon, <1>4, FrameAtKinds
  <2>2. i = j
    BY Zenon, <1>4, <2>1 DEF FrameInv, ListOf
  <2> QED
    BY Zenon, <1>4, <2>2
<1>5. ASSUME NEW s \in SpaceId, InSpace(a, s), NEW u \in SpaceId, InSpace(b, u) PROVE a = b
  <2>1. s = u
    <3>1. FrameAt(a) \in FramesOf(space[s]) /\ FrameAt(a) \in FramesOf(space[u])
      BY Zenon, <1>3, <1>5
    <3> QED
      BY Zenon, <3>1 DEF FrameInv
  <2>2. OwnsOnce(space[s]) /\ space[s] \in SpaceType
    BY Zenon DEF FrameInv
  <2>3. CASE InRoot(a, s)
    <3>1. FrameAt(b) = space[s].root
      BY Zenon, <2>3, FrameAtKinds
    <3>2. ASSUME NEW t, InTable(b, s, t) PROVE FALSE
      BY ZenonT(40), <2>2, <3>1, <3>2, FrameAtKinds DEF OwnsOnce
    <3>3. ASSUME NEW i, InMap(b, s, i) PROVE FALSE
      BY ZenonT(40), <2>2, <3>1, <3>3, FrameAtKinds DEF OwnsOnce
    <3> QED
      BY Zenon, <1>5, <2>1, <2>3, <3>2, <3>3
  <2>4. ASSUME NEW t, InTable(a, s, t) PROVE a = b
    <3>1. FrameAt(b) = space[s].tables[t] /\ space[s].tables[t] # None /\ t \in Table
      BY Zenon, <2>4, FrameAtKinds
    <3>2. ~InRoot(b, s)
      BY Zenon, <2>2, <3>1, FrameAtKinds DEF OwnsOnce
    <3>3. ASSUME NEW i, InMap(b, s, i) PROVE FALSE
      <4>1. i \in DOMAIN space[s].mappings /\ space[s].tables[t] = space[s].mappings[i].frame
        BY Zenon, <3>1, <3>3, FrameAtKinds
      <4> QED
        BY Zenon, <2>2, <3>1, <4>1 DEF OwnsOnce
    <3>4. ASSUME NEW v, InTable(b, s, v) PROVE a = b
      <4>1. space[s].tables[v] = space[s].tables[t] /\ v \in Table
        BY Zenon, <3>1, <3>4, FrameAtKinds
      <4>2. v = t
        BY Zenon, <2>2, <3>1, <4>1 DEF OwnsOnce
      <4> QED
        BY Zenon, <2>4, <3>4, <4>2
    <3> QED
      BY Zenon, <1>5, <2>1, <3>2, <3>3, <3>4
  <2>5. ASSUME NEW i, InMap(a, s, i) PROVE a = b
    <3>1. FrameAt(b) = space[s].mappings[i].frame /\ i \in DOMAIN space[s].mappings
      BY Zenon, <2>5, FrameAtKinds
    <3>2. ~InRoot(b, s)
      BY Zenon, <2>2, <3>1, FrameAtKinds DEF OwnsOnce
    <3>3. ASSUME NEW v, InTable(b, s, v) PROVE FALSE
      BY Zenon, <2>2, <3>1, <3>3, FrameAtKinds DEF OwnsOnce
    <3>4. ASSUME NEW j, InMap(b, s, j) PROVE a = b
      <4>1. /\ space[s].mappings[j].frame = space[s].mappings[i].frame
            /\ j \in DOMAIN space[s].mappings
        BY Zenon, <3>1, <3>4, FrameAtKinds
      <4>2. i = j
        BY Zenon, <2>2, <3>1, <4>1 DEF OwnsOnce
      <4> QED
        BY Zenon, <2>5, <3>4, <4>2
    <3> QED
      BY Zenon, <1>5, <2>1, <3>2, <3>3, <3>4
  <2> QED
    BY Zenon, <1>5, <2>3, <2>4, <2>5
<1>6. ASSUME NEW s \in SpaceId, NEW f, f \in FramesOf(space[s]), f \in Free(recycled)
      PROVE  FALSE
  BY Zenon, <1>6 DEF FrameInv
<1> HIDE DEF InFree, InSpace
<1> QED
  BY Zenon, <1>1, <1>2, <1>3, <1>4, <1>5, <1>6

\* Every issued frame is in exactly one place.
LEMMA PlacesOnce ==
  ASSUME FrameInv(recycled, next, space), space \in [SpaceId -> SpaceType], next \in Nat
  PROVE  {FrameAt(pl) : pl \in Places} = 1 .. next
<1>1. ASSUME NEW pl \in Places PROVE FrameAt(pl) \in 1 .. next
  <2>1. CASE \E i \in DOMAIN recycled : pl = <<"free", 0, i>>
    <3>0. PICK i \in DOMAIN recycled : pl = <<"free", 0, i>>
      BY <2>1
    <3>1. FrameAt(pl) \in Free(recycled)
      BY Zenon, <3>0, FrameAtKinds DEF Free
    <3> QED
      BY Zenon, <3>1 DEF FrameInv
  <2>2. CASE \E s \in SpaceId : space[s].root # None /\ pl = <<"root", s, 0>>
    <3>0. PICK s \in SpaceId : space[s].root # None /\ pl = <<"root", s, 0>>
      BY Zenon, <2>2
    <3>1. space[s] \in SpaceType
      OBVIOUS
    <3>2. FrameAt(pl) \in FramesOf(space[s])
      BY Zenon, <3>0, <3>1, PlaceInSpace, FrameAtKinds
    <3> QED
      BY Zenon, <3>2 DEF FrameInv
  <2>3. CASE \E s \in SpaceId : \E t \in Table :
               space[s].tables[t] # None /\ pl = <<"table", s, t>>
    <3>0. PICK s \in SpaceId, t \in Table : space[s].tables[t] # None /\ pl = <<"table", s, t>>
      BY Zenon, <2>3
    <3>1. space[s] \in SpaceType
      OBVIOUS
    <3>2. FrameAt(pl) \in FramesOf(space[s])
      BY Zenon, <3>0, <3>1, PlaceInSpace, FrameAtKinds
    <3> QED
      BY Zenon, <3>2 DEF FrameInv
  <2>4. CASE \E s \in SpaceId : \E i \in DOMAIN space[s].mappings : pl = <<"map", s, i>>
    <3>0. PICK s \in SpaceId : \E i \in DOMAIN space[s].mappings : pl = <<"map", s, i>>
      BY Zenon, <2>4
    <3>1. space[s] \in SpaceType
      OBVIOUS
    <3>2. FrameAt(pl) \in FramesOf(space[s])
      <4>1. PICK i \in DOMAIN space[s].mappings : pl = <<"map", s, i>>
        BY Zenon, <3>0
      <4>2. FrameAt(pl) = space[s].mappings[i].frame
        BY Zenon, <4>1, FrameAtKinds
      <4>3. space[s].mappings[i].frame \in FramesOf(space[s])
        BY Zenon, <3>1, <4>1, PlaceInSpace
      <4> QED
        BY Zenon, <4>2, <4>3
    <3> QED
      BY Zenon, <3>2 DEF FrameInv
  <2> QED
    BY Zenon, <2>1, <2>2, <2>3, <2>4, PlaceKinds
<1>2. ASSUME NEW f \in 1 .. next PROVE \E pl \in Places : FrameAt(pl) = f
  <2>1. CASE f \in Free(recycled)
    <3>1. PICK i \in DOMAIN recycled : recycled[i] = f
      BY Zenon, <2>1 DEF Free
    <3>2. <<"free", 0, i>> \in Places /\ FrameAt(<<"free", 0, i>>) = f
      BY Zenon, <3>1, PlaceKinds, FrameAtKinds
    <3> QED
      BY Zenon, <3>2
  <2>2. ASSUME NEW s \in SpaceId, f \in FramesOf(space[s])
        PROVE  \E pl \in Places : FrameAt(pl) = f
    <3>1. CASE f = space[s].root
      <4>1. <<"root", s, 0>> \in Places /\ FrameAt(<<"root", s, 0>>) = f
        BY Zenon, <2>2, <3>1, PlaceKinds, FrameAtKinds DEF FramesOf
      <4> QED
        BY Zenon, <4>1
    <3>2. ASSUME NEW t \in Table, f = space[s].tables[t]
          PROVE  \E pl \in Places : FrameAt(pl) = f
      <4>1. <<"table", s, t>> \in Places /\ FrameAt(<<"table", s, t>>) = f
        BY Zenon, <2>2, <3>2, PlaceKinds, FrameAtKinds DEF FramesOf
      <4> QED
        BY Zenon, <4>1
    <3>3. ASSUME NEW i \in DOMAIN space[s].mappings, f = space[s].mappings[i].frame
          PROVE  \E pl \in Places : FrameAt(pl) = f
      <4>1. <<"map", s, i>> \in Places /\ FrameAt(<<"map", s, i>>) = f
        BY Zenon, <3>3, PlaceKinds, FrameAtKinds
      <4> QED
        BY Zenon, <4>1
    <3> QED
      BY Zenon, <2>2, <3>1, <3>2, <3>3 DEF FramesOf
  <2> QED
    BY Zenon, <2>1, <2>2 DEF FrameInv
<1> QED
  BY Zenon, <1>1, <1>2

-----------------------------------------------------------------------------
(* The inductive invariant, in three layers: frames and calls, what the     *)
(* tables and the draft hold, and the areas behind the break and the cursor. *)

BrkType == [start : 0 .. user_end, end : 0 .. user_end, mapped_end : 0 .. user_end]
OpType  == [kind : {"none", "fork", "exec", "brk", "mmap", "hint"}, pid : SpaceId,
            dst : SpaceId, todo : Seq(ItemType), end : 0 .. user_end]

Types ==
  /\ next \in 1 .. NrFrames /\ data \in [Frame -> Value]
  /\ space \in [SpaceId -> SpaceType]
  /\ brk \in [Pid -> BrkType] /\ mmap_end \in [Pid -> 0 .. user_end]
  /\ op \in OpType /\ panicked \in BOOLEAN

Drafts(k) == k \in {"fork", "exec"}
Grows(k)  == k \in {"brk", "mmap", "hint"}

\* Calls that build a draft have one, calls that grow a task have a task, and
\* there is no draft between calls.
CallInv(o, sp, b, pan) ==
  /\ o.kind = "none" => o = NoOp
  /\ pan => o = NoOp
  /\ Drafts(o.kind) => /\ o.dst = Draft /\ o.pid \in Pid
                       /\ sp[o.pid].root # None /\ sp[Draft].root # None
  /\ Grows(o.kind) => /\ o.dst = o.pid /\ o.pid \in Pid
                      /\ sp[o.pid].root # None /\ b[o.pid].start # 0
                      /\ \A i \in DOMAIN o.todo : o.todo[i].value = Zero
                      /\ o.kind = "brk" => o.end > b[o.pid].mapped_end
                      /\ o.kind = "mmap" => o.end >= MmapBase
  /\ ~Drafts(o.kind) /\ ~pan => sp[Draft] = NoSpace

Absent(sp) == \A s \in SpaceId : sp[s].root = None => sp[s] = NoSpace

Aligned(a) == a = (a \div page_size) * page_size

\* A break and a cursor.
CursorsOK(b, m) ==
  b.start # 0 => /\ b.start >= page_size /\ b.start <= b.end /\ b.end <= b.mapped_end
                 /\ Aligned(b.mapped_end) /\ m >= MmapBase

FInv == /\ Types /\ FrameInv(recycled, next, space) /\ Absent(space)
        /\ CallInv(op, space, brk, panicked)
        /\ \A p \in Pid : CursorsOK(brk[p], mmap_end[p])

\* The last mapping of a page in the list.
IsLast(s, pg, i) ==
  /\ i \in DOMAIN s.mappings /\ s.mappings[i].page = pg
  /\ \A j \in DOMAIN s.mappings : s.mappings[j].page = pg => j <= i

Mapped(s, pg) == \E i \in DOMAIN s.mappings : s.mappings[i].page = pg

\* A leaf points to the frame of the last mapping of its page.
LeafIsLast(s) ==
  \A pg \in Page :
    /\ Mapped(s, pg) => \E i \in DOMAIN s.mappings :
                          IsLast(s, pg, i) /\ s.leaf[pg].frame = s.mappings[i].frame
    /\ ~Mapped(s, pg) => s.leaf[pg].frame = None

\* What the draft must show when it is complete: what the parent has, or the image.
Want(o, sp, dat) ==
  IF o.kind = "fork"
  THEN LET ms == sp[o.pid].mappings
       IN  [i \in DOMAIN ms |-> [page |-> ms[i].page, value |-> dat[ms[i].frame]]]
  ELSE [i \in DOMAIN Image |-> [page |-> Image[i], value |-> Loaded]]

\* The draft has the first entries of `want`, and the rest is still to do.
Follows(want, ms, todo, dat) ==
  /\ Len(ms) + Len(todo) = Len(want)
  /\ \A i \in 1 .. Len(ms) : ms[i].page = want[i].page /\ dat[ms[i].frame] = want[i].value
  /\ \A i \in 1 .. Len(todo) : /\ todo[i].page = want[Len(ms) + i].page
                               /\ todo[i].value = want[Len(ms) + i].value

CInv == /\ \A s \in SpaceId : LeafIsLast(space[s])
        /\ Drafts(op.kind) =>
             Follows(Want(op, space, data), space[Draft].mappings, op.todo, data)

\* The pages between two addresses are there, or still to do.
Backed(s, todo, from, to) ==
  \A pg \in Page : pg * page_size >= from /\ pg * page_size < to =>
    s.leaf[pg].frame # None \/ \E i \in DOMAIN todo : todo[i].page = pg

AInv ==
  /\ \A p \in Pid : space[p].root # None /\ brk[p].start # 0 =>
       /\ Backed(space[p], <<>>, brk[p].start, brk[p].mapped_end)
       /\ Backed(space[p], <<>>, MmapBase, mmap_end[p])
  /\ op.kind = "brk" =>
       Backed(space[op.pid], op.todo, brk[op.pid].mapped_end, RoundUp(op.end))
  /\ op.kind = "mmap" => Backed(space[op.pid], op.todo, mmap_end[op.pid], op.end)

-----------------------------------------------------------------------------
(* Page numbers.                                                            *)

LEMMA MinFacts ==
  ASSUME Basics, NEW S, S \subseteq Nat, S # {}
  PROVE  Min(S) \in S /\ \A y \in S : Min(S) <= y
<1>1. \E x \in S : \A y \in S : x <= y
  BY Zenon DEF Basics
<1> QED
  BY Zenon, <1>1 DEF Min

LEMMA MaxFacts ==
  ASSUME Basics, NEW k \in Nat, NEW S, S \subseteq 0 .. k, S # {}
  PROVE  Max(S) \in S /\ \A y \in S : Max(S) >= y
<1> DEFINE T == {k - x : x \in S}
<1>1. T \subseteq Nat /\ T # {}
  <2>1. \A x \in S : k - x \in Nat
    OBVIOUS
  <2> QED
    BY ONLY Zenon, <2>1, S # {}
<1>2. Min(T) \in T /\ \A y \in T : Min(T) <= y
  BY Zenon, <1>1, MinFacts
<1>3. PICK x \in S : Min(T) = k - x
  BY Zenon, <1>2
<1>4. \A y \in S : x >= y
  <2> TAKE y \in S
  <2>1. k - y \in T
    OBVIOUS
  <2>2. k - x <= k - y
    BY Zenon, <1>2, <1>3, <2>1
  <2> QED
    BY <2>2
<1> QED
  BY Zenon, <1>4 DEF Max

LEMMA WholePages ==
  ASSUME NEW k \in Nat
  PROVE  (k * page_size) \div page_size = k /\ k * page_size \in Nat /\ Aligned(k * page_size)
<1> DEFINE a == k * page_size
           q == a \div page_size
           r == a % page_size
<1>1. page_size \in Nat \ {0} /\ a \in Nat
  BY Sizes
<1>2. q \in Nat /\ r \in 0 .. (page_size - 1) /\ a = q * page_size + r
  BY Zenon, <1>1, Divide
<1>3. (k < q => k * page_size + page_size <= q * page_size)
      /\ (q < k => q * page_size + page_size <= k * page_size)
      /\ q * page_size \in Nat
  BY <1>1, <1>2, Multiples
<1> HIDE DEF q, r
<1>4. q = k
  BY ONLY <1>1, <1>2, <1>3, k \in Nat
<1> QED
  BY Zenon, <1>1, <1>4 DEF q, Aligned

\* The pages of user space.
LEMMA UserPages ==
  /\ user_end = (user_end \div page_size) * page_size /\ user_end \div page_size \in Nat
  /\ \A pg \in Page : pg \in Nat /\ pg * page_size \in Nat /\ pg * page_size >= page_size
                      /\ pg * page_size + page_size <= user_end
  /\ \A pg \in Nat : pg >= 1 /\ pg < user_end \div page_size => pg \in Page
  /\ \A k \in Nat : k * page_size <= user_end => k <= user_end \div page_size
<1> DEFINE U == user_end \div page_size
<1>1. page_size \in Nat \ {0} /\ user_end \in Nat /\ user_end % page_size = 0
  BY Sizes
<1>2. U \in Nat /\ user_end = U * page_size
  <2>1. U \in Nat /\ user_end = U * page_size + (user_end % page_size)
    BY Zenon, <1>1, Divide
  <2> QED
    BY <1>1, <2>1
<1>3. Page = 1 .. (U - 1)
  BY Zenon DEF Page
<1> HIDE DEF U
<1>4. ASSUME NEW pg \in Page
      PROVE  /\ pg \in Nat /\ pg * page_size \in Nat /\ pg * page_size >= page_size
             /\ pg * page_size + page_size <= user_end
  <2>1. pg \in Nat /\ 0 < pg /\ pg < U
    BY <1>2, <1>3
  <2>2. /\ pg * page_size \in Nat /\ 0 * page_size + page_size <= pg * page_size
        /\ pg * page_size + page_size <= U * page_size
    BY <1>1, <1>2, <2>1, Multiples
  <2> QED
    BY <1>1, <1>2, <2>1, <2>2
<1>5. ASSUME NEW k \in Nat, k * page_size <= user_end PROVE k <= U
  <2>1. U < k => U * page_size + page_size <= k * page_size
    BY <1>1, <1>2, Multiples
  <2>2. k * page_size \in Nat
    BY <1>1
  <2> QED
    BY <1>1, <1>2, <1>5, <2>1, <2>2
<1> QED
  BY <1>2, <1>3, <1>4, <1>5 DEF U

LEMMA RoundUpFacts ==
  ASSUME NEW n \in Nat
  PROVE  /\ RoundUp(n) = PagesFor(n) * page_size /\ RoundUp(n) \in Nat /\ PagesFor(n) \in Nat
         /\ n <= RoundUp(n) /\ Aligned(RoundUp(n))
         /\ RoundUp(n) \div page_size = PagesFor(n)
         /\ n <= user_end => RoundUp(n) <= user_end
<1> DEFINE P == PagesFor(n)
           U == user_end \div page_size
<1>1. RoundUp(n) = P * page_size
  BY DEF RoundUp, PagesFor
<1>2. P \in Nat /\ P * page_size \in Nat /\ n <= P * page_size /\ P * page_size < n + page_size
  BY PagesEnough
<1>3. Aligned(P * page_size) /\ (P * page_size) \div page_size = P
  BY Zenon, <1>2, WholePages
<1>4. U \in Nat /\ user_end = U * page_size
  BY UserPages
<1>5. page_size \in Nat \ {0} /\ user_end \in Nat
  BY Sizes
<1>6. (U < P => U * page_size + page_size <= P * page_size)
      /\ (P < U => P * page_size + page_size <= U * page_size)
  BY <1>2, <1>4, <1>5, Multiples
<1> HIDE DEF P, U
<1>7. n <= user_end => P * page_size <= user_end
  BY <1>2, <1>4, <1>5, <1>6
<1> QED
  BY <1>1, <1>2, <1>3, <1>7 DEF P

LEMMA ListIsSeq ==
  ASSUME NEW n \in Nat, NEW S, NEW f \in [1 .. n -> S]
  PROVE  f \in Seq(S)
  OBVIOUS

LEMMA ZeroPagesFacts ==
  ASSUME NEW a \in Nat, NEW b \in Nat, a >= 1, a <= b, b * page_size <= user_end,
         NEW prot \in Prot
  PROVE  /\ ZeroPages(a, b, prot) \in Seq(ItemType)
         /\ \A i \in DOMAIN ZeroPages(a, b, prot) : ZeroPages(a, b, prot)[i].value = Zero
         /\ \A pg \in Nat : a <= pg /\ pg < b =>
              \E i \in DOMAIN ZeroPages(a, b, prot) : ZeroPages(a, b, prot)[i].page = pg
<1> DEFINE z == ZeroPages(a, b, prot)
           n == b - a
<1>1. n \in Nat /\ z = [i \in 1 .. n |-> [page |-> a + i - 1, prot |-> prot, value |-> Zero]]
  BY DEF ZeroPages
<1>2. b <= user_end \div page_size /\ user_end \div page_size \in Nat
  BY UserPages
<1>3. \A i \in 1 .. n : a + i - 1 \in Page
  BY <1>1, <1>2, UserPages
<1>4. \A i \in 1 .. n : [page |-> a + i - 1, prot |-> prot, value |-> Zero] \in ItemType
  BY <1>3 DEF ItemType, Value, Zero
<1>5. z \in [1 .. n -> ItemType] /\ DOMAIN z = 1 .. n
  BY ONLY Zenon, <1>1, <1>4
<1>6. z \in Seq(ItemType)
  BY Zenon, <1>1, <1>5, ListIsSeq
<1>7. \A i \in 1 .. n : z[i].value = Zero /\ z[i].page = a + i - 1
  BY <1>1
<1>8. ASSUME NEW pg \in Nat, a <= pg, pg < b PROVE \E i \in 1 .. n : z[i].page = pg
  <2>1. pg - a + 1 \in 1 .. n /\ a + (pg - a + 1) - 1 = pg
    BY <1>1, <1>8
  <2> QED
    BY ONLY Zenon, <1>7, <2>1
<1> QED
  BY Zenon, <1>5, <1>6, <1>7, <1>8

\* What checked_mmap_range accepts.
LEMMA Accepted ==
  ASSUME NEW b \in 0 .. (Word - 1), NEW l \in 0 .. (Word - 1),
         checked_mmap_range(b, l).error = 0
  PROVE  LET r == checked_mmap_range(b, l)
         IN  /\ r.base \div page_size \in Nat /\ r.base = (r.base \div page_size) * page_size
             /\ r.end \div page_size \in Nat /\ r.end = (r.end \div page_size) * page_size
             /\ r.base >= b /\ r.base < b + page_size /\ r.base <= r.end /\ r.end <= user_end
<1> DEFINE first == PagesFor(b) * page_size
           size  == PagesFor(l) * page_size
           r     == checked_mmap_range(b, l)
<1>1. r = LeastFit(b, l)
  BY RangeIsExact
<1>2. b \in Nat /\ l \in Nat /\ page_size \in Nat \ {0} /\ user_end \in Nat
  BY Sizes
<1>3. /\ PagesFor(b) \in Nat /\ PagesFor(l) \in Nat /\ first \in Nat /\ size \in Nat
      /\ b <= first /\ first < b + page_size
  BY <1>2, PagesEnough
<1>4. /\ Error(EINVAL).error # 0 /\ Error(ENOMEM).error # 0
      /\ Accept(first, size).base = first /\ Accept(first, size).end = first + size
  BY DEF Error, Accept, EINVAL, ENOMEM
<1>5. r.base = first /\ r.end = first + size /\ first + size <= user_end
  BY <1>1, <1>2, <1>3, <1>4 DEF LeastFit
<1>6. first + size = (PagesFor(b) + PagesFor(l)) * page_size
  BY <1>2, <1>3
<1>7. /\ PagesFor(b) + PagesFor(l) \in Nat
      /\ first \div page_size = PagesFor(b)
      /\ ((PagesFor(b) + PagesFor(l)) * page_size) \div page_size = PagesFor(b) + PagesFor(l)
  BY <1>3, WholePages
<1> HIDE DEF r
<1>8. r.base \div page_size = PagesFor(b) /\ r.end \div page_size = PagesFor(b) + PagesFor(l)
  BY Zenon, <1>5, <1>6, <1>7
<1>9. r.base <= r.end
  BY <1>3, <1>5
<1> QED
  BY Zenon, <1>3, <1>5, <1>6, <1>7, <1>8, <1>9 DEF r

LEMMA BrkStartFacts ==
  ASSUME Basics
  PROVE  BrkStart \in 0 .. user_end /\ BrkStart >= page_size /\ Aligned(BrkStart)
<1> DEFINE S == {Segments[i] : i \in DOMAIN Segments}
           U == user_end \div page_size
           m == Max(S)
<1>1. Segments \in Seq(Page) /\ Segments # <<>>
  BY Constants
<1>2. S \subseteq Page /\ S # {}
  <2>1. 1 \in DOMAIN Segments /\ \A i \in DOMAIN Segments : Segments[i] \in Page
    BY <1>1
  <2> QED
    BY <2>1
<1>3. U \in Nat /\ user_end = U * page_size /\ page_size \in Nat \ {0} /\ user_end \in Nat
  BY UserPages, Sizes
<1>4. Page \subseteq 0 .. U
  BY <1>3 DEF Page
<1>5. m \in S
  <2>1. S \subseteq 0 .. U
    BY Zenon, <1>2, <1>4
  <2> HIDE DEF S, U
  <2> QED
    BY Zenon, <1>2, <1>3, <2>1, MaxFacts DEF U
<1> HIDE DEF S
<1>6. m \in Page
  BY Zenon, <1>2, <1>5
<1>7. m \in Nat /\ m * page_size \in Nat /\ m * page_size >= page_size
      /\ m * page_size + page_size <= user_end
  BY Zenon, <1>6, UserPages
<1> HIDE DEF m
<1>8. (m + 1) * page_size = m * page_size + page_size /\ m + 1 \in Nat
  BY <1>3, <1>7
<1>9. Aligned((m + 1) * page_size)
  BY <1>8, WholePages
<1>10. BrkStart = (m + 1) * page_size
  BY Zenon DEF BrkStart, m, S
<1> QED
  BY <1>3, <1>7, <1>8, <1>9, <1>10


-----------------------------------------------------------------------------
(* A space takes one more frame.                                            *)

Gains(s, n, f) == n \in SpaceType /\ OwnsOnce(n) /\ FramesOf(n) = FramesOf(s) \union {f}

LEMMA FreshFrame ==
  ASSUME NEW rec, NEW nx, NEW sp, FrameInv(rec, nx, sp),
         NEW f, NEW rec2, NEW nx2, Taken(rec, nx, f, rec2, nx2), NEW s \in SpaceId
  PROVE  f \notin FramesOf(sp[s])
  BY Zenon DEF FrameInv, Taken

LEMMA HeldFacts ==
  ASSUME NEW s, NEW f, f \notin FramesOf(s), f # None
  PROVE  /\ f # s.root /\ \A t \in Table : f # s.tables[t]
         /\ \A i \in DOMAIN s.mappings : f # s.mappings[i].frame
  BY Zenon DEF FramesOf

LEMMA AddsRoot ==
  ASSUME NEW f \in Frame
  PROVE  LET n == [NoSpace EXCEPT !.root = f]
         IN  /\ Gains(NoSpace, n, f) /\ n.root = f
             /\ n.leaf = NoSpace.leaf /\ n.mappings = <<>>
<1> DEFINE n == [NoSpace EXCEPT !.root = f]
<1>1. /\ n.root = f /\ n.tables = [t \in Table |-> None] /\ n.leaf = NoSpace.leaf
      /\ n.mappings = <<>> /\ n \in SpaceType
  BY Zenon, NoSpaceHoldsNothing DEF NoSpace, SpaceType
<1> HIDE DEF n
<1>2. DOMAIN n.mappings = {} /\ \A t \in Table : n.tables[t] = None
  BY <1>1
<1>3. f # None
  BY FrameFacts
<1>4. OwnsOnce(n)
  BY Zenon, <1>2 DEF OwnsOnce
<1>5. FramesOf(n) = {f}
  BY <1>1, <1>2, <1>3 DEF FramesOf
<1> QED
  BY <1>1, <1>4, <1>5, NoSpaceHoldsNothing DEF Gains, n

LEMMA AddsTable ==
  ASSUME NEW s \in SpaceType, OwnsOnce(s), NEW f \in Frame, f \notin FramesOf(s),
         NEW t \in Table, s.tables[t] = None
  PROVE  LET n == [s EXCEPT !.tables[t] = f]
         IN  /\ Gains(s, n, f) /\ n.root = s.root
             /\ n.leaf = s.leaf /\ n.mappings = s.mappings
<1> DEFINE n == [s EXCEPT !.tables[t] = f]
<1>1. /\ n.root = s.root /\ n.tables = [s.tables EXCEPT ![t] = f] /\ n.leaf = s.leaf
      /\ n.mappings = s.mappings
  BY DEF SpaceType
<1>2. n \in SpaceType
  BY Zenon DEF SpaceType
<1> HIDE DEF n
<1>3. s.tables \in [Table -> Frame \union {None}]
  BY DEF SpaceType
<1>4. n.tables[t] = f /\ \A u \in Table : u # t => n.tables[u] = s.tables[u]
  BY <1>1, <1>3
<1>5. f # None
  BY FrameFacts
<1>6. /\ f # s.root /\ \A u \in Table : f # s.tables[u]
      /\ \A i \in DOMAIN s.mappings : f # s.mappings[i].frame
  BY Zenon, <1>5, HeldFacts
<1>7. OwnsOnce(n)
  <2>1. \A u \in Table : n.tables[u] # None => n.tables[u] # n.root
    BY ZenonT(40), <1>1, <1>4, <1>6 DEF OwnsOnce
  <2>2. \A u, v \in Table : n.tables[u] # None /\ n.tables[u] = n.tables[v] => u = v
    <3>1. ASSUME NEW u \in Table, NEW v \in Table, n.tables[u] # None, n.tables[u] = n.tables[v]
          PROVE  u = v
      <4>1. CASE u = t
        BY Zenon, <1>4, <1>6, <3>1, <4>1
      <4>2. CASE v = t
        BY Zenon, <1>4, <1>6, <3>1, <4>2
      <4>3. CASE u # t /\ v # t
        <5>1. s.tables[u] # None /\ s.tables[u] = s.tables[v]
          BY Zenon, <1>4, <3>1, <4>3
        <5> QED
          BY Zenon, <5>1 DEF OwnsOnce
      <4> QED
        BY <4>1, <4>2, <4>3
    <3> QED
      BY <3>1
  <2>3. \A i \in DOMAIN n.mappings : n.mappings[i].frame # n.root
    BY Zenon, <1>1 DEF OwnsOnce
  <2>4. \A i \in DOMAIN n.mappings, u \in Table : n.mappings[i].frame # n.tables[u]
    <3>1. ASSUME NEW i \in DOMAIN s.mappings, NEW u \in Table PROVE s.mappings[i].frame # n.tables[u]
      <4>1. CASE u = t
        BY Zenon, <1>4, <1>6, <4>1
      <4>2. CASE u # t
        BY Zenon, <1>4, <4>2 DEF OwnsOnce
      <4> QED
        BY <4>1, <4>2
    <3> QED
      BY Zenon, <1>1, <3>1
  <2>5. \A i, j \in DOMAIN n.mappings : n.mappings[i].frame = n.mappings[j].frame => i = j
    BY Zenon, <1>1 DEF OwnsOnce
  <2> QED
    BY Zenon, <2>1, <2>2, <2>3, <2>4, <2>5 DEF OwnsOnce
<1>8. FramesOf(n) = FramesOf(s) \union {f}
  <2>1. ASSUME NEW g PROVE g \in FramesOf(n) <=> g \in FramesOf(s) \/ g = f
    <3>1. g \in FramesOf(n) <=>
            /\ g # None
            /\ \/ g = s.root \/ (\E u \in Table : g = n.tables[u])
               \/ \E i \in DOMAIN s.mappings : g = s.mappings[i].frame
      BY Zenon, <1>1 DEF FramesOf
    <3>2. g \in FramesOf(s) <=>
            /\ g # None
            /\ \/ g = s.root \/ (\E u \in Table : g = s.tables[u])
               \/ \E i \in DOMAIN s.mappings : g = s.mappings[i].frame
      BY Zenon DEF FramesOf
    <3>3. g # None => ((\E u \in Table : g = n.tables[u]) <=>
                        (g = f \/ \E u \in Table : g = s.tables[u]))
      BY Zenon, <1>4
    <3> QED
      BY Zenon, <1>5, <3>1, <3>2, <3>3
  <2> QED
    BY <2>1
<1> QED
  BY <1>1, <1>2, <1>7, <1>8 DEF Gains, n

GainsMapping(s, n, f, pg, pr) ==
  /\ Gains(s, n, f) /\ n.root = s.root
  /\ n.leaf = [s.leaf EXCEPT ![pg] = [frame |-> f, prot |-> pr]]
  /\ n.mappings = Append(s.mappings, [page |-> pg, frame |-> f, prot |-> pr])

LEMMA AddsMapping ==
  ASSUME NEW s \in SpaceType, OwnsOnce(s), NEW f \in Frame, f \notin FramesOf(s),
         NEW pg \in Page, NEW pr \in Prot
  PROVE  GainsMapping(s, SetLeaf(s, pg, [frame |-> f, prot |-> pr]), f, pg, pr)
<1> DEFINE m == [frame |-> f, prot |-> pr]
           e == [page |-> pg, frame |-> f, prot |-> pr]
           n == SetLeaf(s, pg, m)
           k == Len(s.mappings)
<1>1. s.mappings \in Seq(Entry) /\ s.leaf \in [Page -> MappingType]
      /\ s.tables \in [Table -> Frame \union {None}]
  BY DEF SpaceType
<1>2. e \in Entry /\ m \in MappingType /\ m.frame = f /\ m.prot = pr /\ e.frame = f
  BY DEF Entry, MappingType
<1>3. /\ n.root = s.root /\ n.tables = s.tables /\ n.leaf = [s.leaf EXCEPT ![pg] = m]
      /\ n.mappings = Append(s.mappings, e)
  BY <1>2 DEF SetLeaf, SpaceType
<1>4. n \in SpaceType
  <2>1. Append(s.mappings, e) \in Seq(Entry)
    BY <1>1, <1>2
  <2>2. [s.leaf EXCEPT ![pg] = m] \in [Page -> MappingType]
    BY <1>1, <1>2
  <2> QED
    BY Zenon, <1>2, <2>1, <2>2 DEF SetLeaf, SpaceType
<1> HIDE DEF n, m, e
<1>5. /\ k \in Nat /\ DOMAIN s.mappings = 1 .. k /\ DOMAIN n.mappings = 1 .. (k + 1)
      /\ n.mappings[k + 1] = e /\ \A i \in 1 .. k : n.mappings[i] = s.mappings[i]
  BY <1>1, <1>2, <1>3
<1>6. /\ \A i \in DOMAIN n.mappings : i \in DOMAIN s.mappings \/ i = k + 1
      /\ \A i \in DOMAIN s.mappings : i \in DOMAIN n.mappings /\ i # k + 1
      /\ k + 1 \in DOMAIN n.mappings
      /\ n.mappings[k + 1].frame = f
      /\ \A i \in DOMAIN s.mappings : n.mappings[i].frame = s.mappings[i].frame
  BY <1>2, <1>5
<1>7. f # None
  BY FrameFacts
<1>8. /\ f # s.root /\ \A u \in Table : f # s.tables[u]
      /\ \A i \in DOMAIN s.mappings : f # s.mappings[i].frame
  BY Zenon, <1>7, HeldFacts
<1>9. OwnsOnce(n)
  <2>1. \A u \in Table : n.tables[u] # None => n.tables[u] # n.root
    BY Zenon, <1>3 DEF OwnsOnce
  <2>2. \A u, v \in Table : n.tables[u] # None /\ n.tables[u] = n.tables[v] => u = v
    BY ZenonT(40), <1>3 DEF OwnsOnce
  <2>3. \A i \in DOMAIN n.mappings : n.mappings[i].frame # n.root
    BY Zenon, <1>3, <1>6, <1>8 DEF OwnsOnce
  <2>4. \A i \in DOMAIN n.mappings, u \in Table : n.mappings[i].frame # n.tables[u]
    <3>1. ASSUME NEW i \in DOMAIN n.mappings, NEW u \in Table
          PROVE  n.mappings[i].frame # s.tables[u]
      <4>1. CASE i \in DOMAIN s.mappings
        <5>1. n.mappings[i].frame = s.mappings[i].frame
          BY ONLY Zenon, <1>6, <4>1
        <5>2. s.mappings[i].frame # s.tables[u]
          BY ONLY Zenon, OwnsOnce(s), <4>1, u \in Table DEF OwnsOnce
        <5> QED
          BY ONLY Zenon, <5>1, <5>2
      <4>2. CASE i = k + 1
        BY Zenon, <1>6, <1>8, <4>2
      <4> QED
        BY Zenon, <1>6, <4>1, <4>2
    <3> QED
      BY Zenon, <1>3, <3>1
  <2>5. \A i, j \in DOMAIN n.mappings : n.mappings[i].frame = n.mappings[j].frame => i = j
    <3>1. ASSUME NEW i \in DOMAIN n.mappings, NEW j \in DOMAIN n.mappings,
                 n.mappings[i].frame = n.mappings[j].frame
          PROVE  i = j
      <4>1. CASE i \in DOMAIN s.mappings /\ j \in DOMAIN s.mappings
        <5>1. s.mappings[i].frame = s.mappings[j].frame
          BY Zenon, <1>6, <3>1, <4>1
        <5> QED
          BY Zenon, <4>1, <5>1 DEF OwnsOnce
      <4>2. CASE i \notin DOMAIN s.mappings
        BY Zenon, <1>6, <1>8, <3>1, <4>2
      <4>3. CASE j \notin DOMAIN s.mappings
        BY Zenon, <1>6, <1>8, <3>1, <4>3
      <4> QED
        BY <4>1, <4>2, <4>3
    <3> QED
      BY <3>1
  <2> QED
    BY Zenon, <2>1, <2>2, <2>3, <2>4, <2>5 DEF OwnsOnce
<1>10. FramesOf(n) = FramesOf(s) \union {f}
  <2>1. ASSUME NEW g PROVE g \in FramesOf(n) <=> g \in FramesOf(s) \/ g = f
    <3>1. g \in FramesOf(n) <=>
            /\ g # None
            /\ \/ g = s.root \/ (\E u \in Table : g = s.tables[u])
               \/ \E i \in DOMAIN n.mappings : g = n.mappings[i].frame
      BY Zenon, <1>3 DEF FramesOf
    <3>2. g \in FramesOf(s) <=>
            /\ g # None
            /\ \/ g = s.root \/ (\E u \in Table : g = s.tables[u])
               \/ \E i \in DOMAIN s.mappings : g = s.mappings[i].frame
      BY Zenon DEF FramesOf
    <3>3. (\E i \in DOMAIN n.mappings : g = n.mappings[i].frame) <=>
          (g = f \/ \E i \in DOMAIN s.mappings : g = s.mappings[i].frame)
      BY Zenon, <1>6
    <3> QED
      BY Zenon, <1>7, <3>1, <3>2, <3>3
  <2> QED
    BY <2>1
<1> QED
  BY <1>3, <1>4, <1>9, <1>10 DEF GainsMapping, Gains, n, m, e


-----------------------------------------------------------------------------
(* Frames and calls: every action keeps FInv.                               *)

LEMMA Pids ==
  /\ Pid \subseteq SpaceId /\ Draft \in SpaceId /\ Draft \notin Pid /\ None \in SpaceId
  /\ \A p \in Pid : p # Draft /\ p # None
  /\ \A s \in SpaceId : s \in Pid \/ s = Draft
  BY Constants DEF SpaceId, Draft, None

\* The frame allocator gives a frame that no space holds.
LEMMA AllocatorGives ==
  ASSUME FInv, TakeFrame
  PROVE  /\ Taken(recycled, next, NextFrame, recycled', next')
         /\ next' \in 1 .. NrFrames /\ NextFrame \in Frame
         /\ \A s \in SpaceId : NextFrame \notin FramesOf(space[s])
<1>1. next \in 1 .. NrFrames /\ FrameInv(recycled, next, space)
  BY DEF FInv, Types
<1>2. ListOf(Free(recycled), recycled) /\ Free(recycled) \subseteq 1 .. next
  BY Zenon, <1>1 DEF FrameInv
<1>3. Taken(recycled, next, NextFrame, recycled', next')
      /\ next' \in 1 .. NrFrames /\ NextFrame \in Frame
  BY Zenon, <1>1, <1>2, TakesFrame
<1>4. \A s \in SpaceId : NextFrame \notin FramesOf(space[s])
  BY Zenon, <1>1, <1>3, FreshFrame
<1> QED
  BY <1>3, <1>4

LEMMA HeldFrames ==
  ASSUME FInv, NEW s \in SpaceId
  PROVE  FramesOf(space[s]) \subseteq Frame
<1>1. FrameInv(recycled, next, space) /\ next \in 1 .. NrFrames
  BY DEF FInv, Types
<1>2. FramesOf(space[s]) \subseteq 1 .. next
  BY Zenon, <1>1 DEF FrameInv
<1>3. 1 .. next \subseteq Frame
  BY <1>1, Constants DEF Frame
<1> QED
  BY Zenon, <1>2, <1>3

\* What FInv says of frames and spaces.
Memory(nx, dat, sp, rec) ==
  /\ nx \in 1 .. NrFrames /\ dat \in [Frame -> Value] /\ sp \in [SpaceId -> SpaceType]
  /\ FrameInv(rec, nx, sp) /\ Absent(sp)

LEMMA SpaceGains ==
  ASSUME FInv, TakeFrame, NEW d \in SpaceId, NEW n, Gains(space[d], n, NextFrame),
         n.root # None, space' = [space EXCEPT ![d] = n],
         NEW v \in Value, data' = [data EXCEPT ![NextFrame] = v]
  PROVE  /\ Memory(next', data', space', recycled')
         /\ space'[d] = n /\ \A s \in SpaceId : s # d => space'[s] = space[s]
<1>1. /\ space \in [SpaceId -> SpaceType] /\ FrameInv(recycled, next, space)
      /\ data \in [Frame -> Value] /\ Absent(space)
  BY Zenon DEF FInv, Types
<1>2. /\ Taken(recycled, next, NextFrame, recycled', next')
      /\ next' \in 1 .. NrFrames /\ NextFrame \in Frame
  BY Zenon, AllocatorGives
<1>3. n \in SpaceType /\ OwnsOnce(n) /\ FramesOf(n) = FramesOf(space[d]) \union {NextFrame}
  BY Zenon DEF Gains
<1>4. DOMAIN space = SpaceId
  BY <1>1
<1>5. FrameInv(recycled', next', [space EXCEPT ![d] = n])
  BY ONLY Zenon, <1>1, <1>2, <1>3, <1>4, d \in SpaceId, GivesFrame
<1>6. /\ space' \in [SpaceId -> SpaceType] /\ space'[d] = n
      /\ \A s \in SpaceId : s # d => space'[s] = space[s]
  BY <1>1, <1>3
<1>7. data' \in [Frame -> Value]
  BY <1>1, <1>2
<1>8. Absent(space')
  BY Zenon, <1>1, <1>6 DEF Absent
<1>9. FrameInv(recycled', next', space')
  BY ONLY Zenon, <1>5, space' = [space EXCEPT ![d] = n]
<1> QED
  BY Zenon, <1>2, <1>6, <1>7, <1>8, <1>9 DEF Memory

\* A call with pages to map.
LEMMA Working ==
  ASSUME FInv, op.todo # <<>>
  PROVE  /\ ~panicked /\ op.kind # "none" /\ op.dst \in SpaceId
         /\ space[op.dst].root # None
         /\ Head(op.todo) \in ItemType /\ Tail(op.todo) \in Seq(ItemType)
         /\ op \in OpType
         /\ Drafts(op.kind) \/ Grows(op.kind)
<1>1. op \in OpType /\ CallInv(op, space, brk, panicked)
  BY DEF FInv, Types
<1>2. op.todo \in Seq(ItemType) /\ op.dst \in SpaceId
      /\ op.kind \in {"none", "fork", "exec", "brk", "mmap", "hint"}
  BY <1>1 DEF OpType
<1>3. op # NoOp
  BY DEF NoOp
<1>4. ~panicked /\ op.kind # "none"
  BY <1>1, <1>3 DEF CallInv
<1>5. Drafts(op.kind) \/ Grows(op.kind)
  BY <1>2, <1>4 DEF Drafts, Grows
<1>6. space[op.dst].root # None
  BY Zenon, <1>1, <1>5 DEF CallInv
<1>7. Head(op.todo) \in ItemType /\ Tail(op.todo) \in Seq(ItemType)
  BY <1>2
<1> QED
  BY <1>1, <1>2, <1>4, <1>5, <1>6, <1>7

\* The call goes on with a frame more in its space.
LEMMA CallGoesOn ==
  ASSUME FInv, op.todo # <<>>, NEW o, o.kind = op.kind, o.pid = op.pid, o.dst = op.dst,
         o.end = op.end,
         Grows(o.kind) => \A i \in DOMAIN o.todo : o.todo[i].value = Zero,
         NEW sp, sp[op.dst].root # None, \A s \in SpaceId : s # op.dst => sp[s] = space[s]
  PROVE  CallInv(o, sp, brk, panicked)
<1>1. /\ ~panicked /\ op.kind # "none" /\ op.dst \in SpaceId
      /\ Drafts(op.kind) \/ Grows(op.kind)
  BY Zenon, Working
<1>2. CallInv(op, space, brk, panicked)
  BY Zenon DEF FInv
<1>3. CASE Drafts(op.kind)
  <2>1. /\ op.dst = Draft /\ op.pid \in Pid /\ space[op.pid].root # None
        /\ ~Grows(op.kind)
    BY <1>2, <1>3 DEF CallInv, Drafts, Grows
  <2>2. sp[op.pid].root # None /\ sp[Draft].root # None
    BY Zenon, <2>1, Pids
  <2> QED
    BY ONLY Zenon, <1>1, <1>3, <2>1, <2>2, o.kind = op.kind, o.pid = op.pid, o.dst = op.dst
       DEF CallInv
<1>4. CASE Grows(op.kind)
  <2>1. /\ op.dst = op.pid /\ op.pid \in Pid /\ brk[op.pid].start # 0
        /\ op.kind = "brk" => op.end > brk[op.pid].mapped_end
        /\ op.kind = "mmap" => op.end >= MmapBase
        /\ ~Drafts(op.kind) /\ space[Draft] = NoSpace
    BY <1>1, <1>2, <1>4 DEF CallInv, Drafts, Grows
  <2>2. sp[op.pid].root # None /\ sp[Draft] = NoSpace
    BY Zenon, <2>1, Pids
  <2> QED
    BY Zenon, <1>1, <1>4, <2>1, <2>2 DEF CallInv
<1> QED
  BY <1>1, <1>3, <1>4

LEMMA PathFacts ==
  ASSUME Basics, FInv, make_user_path_private
  PROVE  /\ Memory(next', data', space', recycled')
         /\ NextFrame \in Frame /\ \A s \in SpaceId : NextFrame \notin FramesOf(space[s])
         /\ space'[op.dst].root = space[op.dst].root
         /\ space'[op.dst].leaf = space[op.dst].leaf
         /\ space'[op.dst].mappings = space[op.dst].mappings
         /\ \A s \in SpaceId : s # op.dst => space'[s] = space[s]
<1> DEFINE pg == Head(op.todo).page
           S == Missing(pg)
           t == Min(S)
           d == op.dst
           n == [space[d] EXCEPT !.tables[t] = NextFrame]
<1>1. /\ op.todo # <<>> /\ S # {} /\ TakeFrame
      /\ space' = [space EXCEPT ![d] = n] /\ data' = [data EXCEPT ![NextFrame] = Entries]
  BY DEF make_user_path_private
<1>2. d \in SpaceId /\ space[d].root # None /\ pg \in Page
  BY <1>1, Working DEF ItemType
<1>3. t \in Table /\ space[d].tables[t] = None
  <2>1. S \subseteq PathOf[pg] /\ PathOf[pg] \subseteq Nat /\ PathOf[pg] \subseteq Table
    BY <1>2, Constants DEF Missing, Table
  <2>2. S \subseteq Nat
    BY <2>1
  <2>3. t \in S
    BY Zenon, <1>1, <2>2, MinFacts
  <2> HIDE DEF t, pg
  <2> QED
    BY <2>1, <2>3 DEF Missing
<1>4. NextFrame \in Frame /\ \A s \in SpaceId : NextFrame \notin FramesOf(space[s])
  BY Zenon, <1>1, AllocatorGives
<1>5. space[d] \in SpaceType /\ OwnsOnce(space[d])
  <2>1. space \in [SpaceId -> SpaceType] /\ FrameInv(recycled, next, space)
    BY Zenon DEF FInv, Types
  <2>2. OwnsOnce(space[d])
    BY Zenon, <1>2, <2>1 DEF FrameInv
  <2> QED
    BY <1>2, <2>1, <2>2
<1> HIDE DEF t, d
<1>6. /\ Gains(space[d], n, NextFrame) /\ n.root = space[d].root
      /\ n.leaf = space[d].leaf /\ n.mappings = space[d].mappings
  BY Zenon, <1>2, <1>3, <1>4, <1>5, AddsTable
<1>7. Entries \in Value
  BY DEF Entries, Value
<1>8. n.root # None
  BY Zenon, <1>2, <1>6
<1> HIDE DEF n
<1>9. /\ Memory(next', data', space', recycled')
      /\ space'[d] = n /\ \A s \in SpaceId : s # d => space'[s] = space[s]
  BY Zenon, <1>1, <1>2, <1>6, <1>7, <1>8, SpaceGains
<1> QED
  BY Zenon, <1>4, <1>6, <1>9 DEF d

LEMMA PathKeeps ==
  ASSUME Basics, FInv, make_user_path_private
  PROVE  FInv'
<1>1. op.todo # <<>> /\ UNCHANGED <<brk, mmap_end, op, panicked>>
  BY DEF make_user_path_private
<1>2. /\ Memory(next', data', space', recycled')
      /\ space'[op.dst].root = space[op.dst].root
      /\ \A s \in SpaceId : s # op.dst => space'[s] = space[s]
  BY Zenon, PathFacts
<1>3. space[op.dst].root # None
  BY Zenon, <1>1, Working
<1>4. Grows(op.kind) => \A i \in DOMAIN op.todo : op.todo[i].value = Zero
  BY Zenon DEF FInv, CallInv
<1>5. CallInv(op, space', brk, panicked)
  <2>1. space'[op.dst].root # None
    BY Zenon, <1>2, <1>3
  <2> QED
    BY Zenon, <1>1, <1>2, <1>4, <2>1, CallGoesOn
<1> QED
  BY Zenon, <1>1, <1>2, <1>5 DEF FInv, Types, Memory

LEMMA MapFacts ==
  ASSUME FInv, map_page
  PROVE  LET item == Head(op.todo)
             e    == [page |-> item.page, frame |-> NextFrame, prot |-> item.prot]
         IN  /\ Memory(next', data', space', recycled')
             /\ NextFrame \in Frame /\ \A s \in SpaceId : NextFrame \notin FramesOf(space[s])
             /\ space'[op.dst].root = space[op.dst].root
             /\ space'[op.dst].leaf = [space[op.dst].leaf EXCEPT ![item.page] =
                                         [frame |-> NextFrame, prot |-> item.prot]]
             /\ space'[op.dst].mappings = Append(space[op.dst].mappings, e)
             /\ \A s \in SpaceId : s # op.dst => space'[s] = space[s]
             /\ data' = [data EXCEPT ![NextFrame] = item.value]
<1> DEFINE item == Head(op.todo)
           d == op.dst
           pg == item.page
           pr == item.prot
           n == SetLeaf(space[d], pg, [frame |-> NextFrame, prot |-> pr])
<1>1. /\ op.todo # <<>> /\ TakeFrame
      /\ space' = [space EXCEPT ![d] = n] /\ data' = [data EXCEPT ![NextFrame] = item.value]
  BY Zenon DEF map_page, Contents
<1>2. d \in SpaceId /\ space[d].root # None /\ item \in ItemType
  BY Zenon, <1>1, Working
<1>3. pg \in Page /\ pr \in Prot /\ item.value \in Value
  BY <1>2 DEF ItemType
<1>4. NextFrame \in Frame /\ \A s \in SpaceId : NextFrame \notin FramesOf(space[s])
  BY Zenon, <1>1, AllocatorGives
<1>5. space[d] \in SpaceType /\ OwnsOnce(space[d])
  <2>1. space \in [SpaceId -> SpaceType] /\ FrameInv(recycled, next, space)
    BY Zenon DEF FInv, Types
  <2>2. OwnsOnce(space[d])
    BY Zenon, <1>2, <2>1 DEF FrameInv
  <2> QED
    BY <1>2, <2>1, <2>2
<1> HIDE DEF d, pg, pr
<1>6. /\ Gains(space[d], n, NextFrame) /\ n.root = space[d].root
      /\ n.leaf = [space[d].leaf EXCEPT ![pg] = [frame |-> NextFrame, prot |-> pr]]
      /\ n.mappings = Append(space[d].mappings, [page |-> pg, frame |-> NextFrame, prot |-> pr])
  <2>1. GainsMapping(space[d], n, NextFrame, pg, pr)
    BY Zenon, <1>2, <1>3, <1>4, <1>5, AddsMapping
  <2> HIDE DEF n
  <2> QED
    BY Zenon, <2>1 DEF GainsMapping
<1>7. n.root # None
  BY Zenon, <1>2, <1>6
<1> HIDE DEF n
<1>8. /\ Memory(next', data', space', recycled')
      /\ space'[d] = n /\ \A s \in SpaceId : s # d => space'[s] = space[s]
  BY Zenon, <1>1, <1>2, <1>3, <1>6, <1>7, SpaceGains
<1>9. /\ space'[d].root = space[d].root
      /\ space'[d].leaf = [space[d].leaf EXCEPT ![pg] = [frame |-> NextFrame, prot |-> pr]]
      /\ space'[d].mappings =
           Append(space[d].mappings, [page |-> pg, frame |-> NextFrame, prot |-> pr])
  BY ONLY Zenon, <1>6, <1>8
<1> QED
  BY ONLY Zenon, <1>1, <1>4, <1>8, <1>9 DEF d, pg, pr

LEMMA MapKeeps ==
  ASSUME FInv, map_page
  PROVE  FInv'
<1> DEFINE rest == Tail(op.todo)
<1>1. op.todo # <<>> /\ op' = [op EXCEPT !.todo = rest] /\ UNCHANGED <<brk, mmap_end, panicked>>
  BY Zenon DEF map_page
<1>2. /\ Memory(next', data', space', recycled')
      /\ space'[op.dst].root = space[op.dst].root
      /\ \A s \in SpaceId : s # op.dst => space'[s] = space[s]
  BY Zenon, MapFacts
<1>3. space[op.dst].root # None /\ rest \in Seq(ItemType) /\ op \in OpType
  BY Zenon, <1>1, Working
<1>4. /\ op'.kind = op.kind /\ op'.pid = op.pid /\ op'.dst = op.dst /\ op'.todo = rest
      /\ op'.end = op.end /\ op' \in OpType
  BY Zenon, <1>1, <1>3 DEF OpType
<1>5. Grows(op.kind) => \A i \in DOMAIN rest : rest[i].value = Zero
  <2>1. Grows(op.kind) => \A i \in DOMAIN op.todo : op.todo[i].value = Zero
    BY Zenon DEF FInv, CallInv
  <2>2. op.todo \in Seq(ItemType)
    BY <1>3 DEF OpType
  <2>3. \A i \in DOMAIN rest : i + 1 \in DOMAIN op.todo /\ rest[i] = op.todo[i + 1]
    BY <1>1, <2>2
  <2> HIDE DEF rest
  <2> QED
    BY Zenon, <2>1, <2>3
<1>6. CallInv(op', space', brk, panicked)
  <2>1. space'[op.dst].root # None
    BY Zenon, <1>2, <1>3
  <2>2. Grows(op'.kind) => \A i \in DOMAIN op'.todo : op'.todo[i].value = Zero
    BY Zenon, <1>4, <1>5
  <2> QED
    BY Zenon, <1>1, <1>2, <1>4, <2>1, <2>2, CallGoesOn
<1> QED
  BY Zenon, <1>1, <1>2, <1>4, <1>6 DEF FInv, Types, Memory

\* A call fails.
LEMMA FailKeeps ==
  ASSUME Basics, FInv, op.kind # "none", NEW fr, FrameInv(fr, next', space),
         next' \in 1 .. NrFrames, data' \in [Frame -> Value], Fail(fr)
  PROVE  FInv' /\ op' = NoOp /\ UNCHANGED <<brk, mmap_end>>
         /\ \A s \in SpaceId : space'[s] = space[s] \/ (s = Draft /\ space'[s] = NoSpace)
<1>1. /\ op' = NoOp /\ brk' = brk /\ mmap_end' = mmap_end /\ panicked' = (op.kind = "fork")
  BY DEF Fail
<1>2. /\ space \in [SpaceId -> SpaceType] /\ Absent(space) /\ op \in OpType
      /\ CallInv(op, space, brk, panicked)
      /\ brk \in [Pid -> BrkType] /\ mmap_end \in [Pid -> 0 .. user_end]
      /\ \A p \in Pid : CursorsOK(brk[p], mmap_end[p])
  BY Zenon DEF FInv, Types
<1>3. NoOp \in OpType /\ NoOp.kind = "none" /\ ~Drafts("none") /\ ~Grows("none")
  BY Pids, Sizes DEF NoOp, OpType, Drafts, Grows
<1>4. ~panicked
  <2>1. NoOp.kind = "none"
    BY <1>3
  <2> QED
    BY Zenon, <1>2, <2>1 DEF CallInv
<1>5. CASE op.kind = "exec"
  <2>1. recycled' = fr \o OwnedFrames(space[Draft]) /\ space' = [space EXCEPT ![Draft] = NoSpace]
        /\ panicked' = FALSE
    BY Zenon, <1>1, <1>5 DEF Fail
  <2>2. space[Draft].root # None /\ Draft \in SpaceId
    BY Zenon, <1>2, <1>5, Pids DEF CallInv, Drafts
  <2>3. FrameInv(fr \o OwnedFrames(space[Draft]), next', [space EXCEPT ![Draft] = NoSpace])
    BY Zenon, <1>2, <2>2, DropsSpace
  <2>4. FrameInv(recycled', next', space')
    BY ONLY Zenon, <2>1, <2>3
  <2>5. /\ space' \in [SpaceId -> SpaceType] /\ space'[Draft] = NoSpace
        /\ \A s \in SpaceId : s # Draft => space'[s] = space[s]
    BY Zenon, <1>2, <2>1, <2>2, NoSpaceHoldsNothing
  <2>6. Absent(space')
    BY Zenon, <1>2, <2>5 DEF Absent
  <2>7. CallInv(NoOp, space', brk, FALSE)
    BY Zenon, <1>3, <2>5 DEF CallInv
  <2>8. FInv'
    BY Zenon, <1>1, <1>2, <1>3, <2>1, <2>4, <2>5, <2>6, <2>7 DEF FInv, Types
  <2> QED
    BY Zenon, <1>1, <2>5, <2>8
<1>6. CASE op.kind # "exec"
  <2>1. recycled' = fr /\ space' = space
    BY <1>6 DEF Fail
  <2>2. FrameInv(recycled', next', space')
    BY ONLY Zenon, <2>1, FrameInv(fr, next', space)
  <2>3. CallInv(NoOp, space, brk, panicked')
    <3>1. CASE op.kind = "fork"
      BY Zenon, <1>1, <1>3, <3>1 DEF CallInv
    <3>2. CASE op.kind # "fork"
      <4>1. ~Drafts(op.kind)
        BY <1>6, <3>2 DEF Drafts
      <4>2. space[Draft] = NoSpace
        BY Zenon, <1>2, <1>4, <4>1 DEF CallInv
      <4> QED
        BY Zenon, <1>3, <4>2 DEF CallInv
    <3> QED
      BY <3>1, <3>2
  <2>4. panicked' \in BOOLEAN
    BY <1>1
  <2>5. FInv'
    BY Zenon, <1>1, <1>2, <1>3, <2>1, <2>2, <2>3, <2>4 DEF FInv, Types
  <2> QED
    BY Zenon, <1>1, <2>1, <2>5
<1> QED
  BY <1>5, <1>6

\* The frame that map_failed returns.
LEMMA FailFacts ==
  ASSUME Basics, FInv, out_of_frames \/ map_failed \/ exec_read_fails
  PROVE  /\ FInv' /\ op' = NoOp /\ UNCHANGED <<brk, mmap_end>>
         /\ \A s \in SpaceId : space'[s] = space[s] \/ (s = Draft /\ space'[s] = NoSpace)
         /\ \A s \in SpaceId : \A f \in FramesOf(space[s]) : data'[f] = data[f]
<1>1. /\ next \in 1 .. NrFrames /\ FrameInv(recycled, next, space) /\ data \in [Frame -> Value]
  BY Zenon DEF FInv, Types
<1>2. CASE out_of_frames
  <2>1. Fail(recycled) /\ op.todo # <<>> /\ next' = next /\ data' = data
    BY <1>2 DEF out_of_frames
  <2>2. op.kind # "none"
    BY Zenon, <2>1, Working
  <2> QED
    BY Zenon, <1>1, <2>1, <2>2, FailKeeps
<1>3. CASE exec_read_fails
  <2>1. Fail(recycled) /\ op.kind # "none" /\ next' = next /\ data' = data
    BY <1>3 DEF exec_read_fails
  <2> QED
    BY Zenon, <1>1, <2>1, FailKeeps
<1>4. CASE map_failed
  <2> DEFINE fr == IF recycled # <<>> THEN recycled ELSE <<next + 1>>
             nx == IF recycled # <<>> THEN next ELSE next + 1
  <2>1. /\ Fail(fr) /\ op.todo # <<>> /\ next' = nx /\ FrameLeft
        /\ data' = [data EXCEPT ![NextFrame] = Zero]
    BY Zenon, <1>4 DEF map_failed
  <2>2. op.kind # "none"
    BY Zenon, <2>1, Working
  <2>3. FrameInv(fr, nx, space) /\ nx \in 1 .. NrFrames
    BY Zenon, <1>1, <2>1, ReturnsFrame
  <2>4. NextFrame \in Free(fr)
    <3>1. CASE recycled # <<>>
      <4>1. Last(recycled) \in Free(recycled)
        BY Zenon, <1>1, <3>1, ShortenedList DEF FrameInv
      <4> QED
        BY Zenon, <3>1, <4>1 DEF NextFrame, Last
    <3>2. CASE recycled = <<>>
      <4>1. fr = <<next + 1>> /\ NextFrame = next + 1
        BY <3>2 DEF NextFrame
      <4> HIDE DEF fr
      <4> QED
        BY <4>1 DEF Free
    <3> QED
      BY <3>1, <3>2
  <2> HIDE DEF fr, nx
  <2>5. data' \in [Frame -> Value]
    <3>1. Zero \in Value
      BY DEF Value, Zero
    <3> QED
      BY Zenon, <1>1, <2>1, <3>1
  <2>6. \A s \in SpaceId : \A f \in FramesOf(space[s]) : f # NextFrame
    BY Zenon, <2>3, <2>4 DEF FrameInv
  <2>7. \A f \in Frame : f # NextFrame => data'[f] = data[f]
    BY <1>1, <2>1
  <2>8. \A s \in SpaceId : \A f \in FramesOf(space[s]) : data'[f] = data[f]
    BY Zenon, <2>6, <2>7, HeldFrames
  <2>9. FrameInv(fr, next', space) /\ next' \in 1 .. NrFrames
    BY Zenon, <2>1, <2>3
  <2>10. /\ FInv' /\ op' = NoOp /\ UNCHANGED <<brk, mmap_end>>
         /\ \A s \in SpaceId : space'[s] = space[s] \/ (s = Draft /\ space'[s] = NoSpace)
    BY Zenon, <2>1, <2>2, <2>5, <2>9, FailKeeps
  <2> QED
    BY Zenon, <2>8, <2>10
<1> QED
  BY <1>2, <1>3, <1>4

\* fork or exec takes a root for its draft.
LEMMA DraftStarts ==
  ASSUME FInv, Idle, NEW k, Drafts(k), NEW p \in Pid, space[p].root # None,
         NEW todo \in Seq(ItemType), NewDraft(k, p, todo)
  PROVE  /\ FInv'
         /\ NextFrame \in Frame /\ \A s \in SpaceId : NextFrame \notin FramesOf(space[s])
         /\ space'[Draft].leaf = NoSpace.leaf /\ space'[Draft].mappings = <<>>
         /\ \A s \in SpaceId : s # Draft => space'[s] = space[s]
         /\ data' = [data EXCEPT ![NextFrame] = Entries]
         /\ op'.kind = k /\ op'.pid = p /\ op'.todo = todo
         /\ UNCHANGED <<brk, mmap_end>>
<1> DEFINE n == [NoSpace EXCEPT !.root = NextFrame]
<1>1. /\ TakeFrame /\ space' = [space EXCEPT ![Draft].root = NextFrame]
      /\ op' = [NoOp EXCEPT !.kind = k, !.pid = p, !.todo = todo]
      /\ data' = [data EXCEPT ![NextFrame] = Entries]
      /\ brk' = brk /\ mmap_end' = mmap_end /\ panicked' = panicked
  BY DEF NewDraft
<1>2. /\ op = NoOp /\ ~panicked /\ CallInv(op, space, brk, panicked)
      /\ NoOp.kind = "none" /\ ~Drafts("none")
  BY Zenon DEF FInv, Idle, NoOp, Drafts
<1>3. space[Draft] = NoSpace /\ Draft \in SpaceId
  <2>1. space[Draft] = NoSpace
    BY Zenon, <1>2 DEF CallInv
  <2> QED
    BY Zenon, <2>1, Pids
<1>4. /\ NextFrame \in Frame /\ \A s \in SpaceId : NextFrame \notin FramesOf(space[s])
  BY Zenon, <1>1, AllocatorGives
<1>5. /\ Gains(NoSpace, n, NextFrame) /\ n.root = NextFrame
      /\ n.leaf = NoSpace.leaf /\ n.mappings = <<>>
  BY Zenon, <1>4, AddsRoot
<1>6. space' = [space EXCEPT ![Draft] = n]
  BY Zenon, <1>1, <1>3
<1> HIDE DEF n
<1>7. Gains(space[Draft], n, NextFrame)
  BY ONLY Zenon, <1>3, <1>5
<1>8. n.root # None /\ Entries \in Value
  BY <1>4, <1>5, FrameFacts DEF Entries, Value
<1>9. /\ Memory(next', data', space', recycled')
      /\ space'[Draft] = n /\ \A s \in SpaceId : s # Draft => space'[s] = space[s]
  BY ONLY Zenon, FInv, <1>1, <1>3, <1>6, <1>7, <1>8, SpaceGains
<1>10. /\ op'.kind = k /\ op'.pid = p /\ op'.todo = todo /\ op'.dst = Draft /\ op' \in OpType
       /\ k # "none" /\ ~Grows(k)
  <2>1. k \in {"none", "fork", "exec", "brk", "mmap", "hint"} /\ k # "none" /\ ~Grows(k)
    BY DEF Drafts, Grows
  <2>2. op' = [kind |-> k, pid |-> p, dst |-> None, todo |-> todo, end |-> 0]
    BY Zenon, <1>1 DEF NoOp
  <2>3. p \in SpaceId /\ None \in SpaceId /\ 0 \in 0 .. user_end
    BY Pids, Sizes
  <2>4. op' \in OpType
    BY <2>1, <2>2, <2>3 DEF OpType
  <2> QED
    BY <2>1, <2>2, <2>4 DEF Draft
<1>11. CallInv(op', space', brk, panicked)
  <2>1. space'[p] = space[p]
    BY Zenon, <1>9, Pids
  <2> QED
    BY Zenon, <1>2, <1>5, <1>8, <1>9, <1>10, <2>1 DEF CallInv
<1>12. FInv'
  BY Zenon, <1>1, <1>9, <1>10, <1>11 DEF FInv, Types, Memory
<1> QED
  BY Zenon, <1>1, <1>4, <1>5, <1>9, <1>10, <1>12

\* The pages of the parent, or of the image, for a draft.
LEMMA ForkList ==
  ASSUME FInv, NEW p \in Pid
  PROVE  [i \in DOMAIN space[p].mappings |->
            [page |-> space[p].mappings[i].page, prot |-> space[p].mappings[i].prot,
             value |-> data[space[p].mappings[i].frame]]] \in Seq(ItemType)
<1> DEFINE ms == space[p].mappings
           n == Len(ms)
           item(i) == [page |-> ms[i].page, prot |-> ms[i].prot, value |-> data[ms[i].frame]]
<1>1. ms \in Seq(Entry) /\ data \in [Frame -> Value]
  BY Pids DEF FInv, Types, SpaceType
<1> HIDE DEF ms
<1>2. n \in Nat /\ DOMAIN ms = 1 .. n /\ \A i \in 1 .. n : ms[i] \in Entry
  BY <1>1
<1>3. ASSUME NEW i \in 1 .. n PROVE item(i) \in ItemType
  <2>1. ms[i] \in Entry
    BY <1>2
  <2>2. ms[i].page \in Page /\ ms[i].prot \in Prot /\ ms[i].frame \in Frame
    BY <2>1 DEF Entry
  <2>3. data[ms[i].frame] \in Value
    BY <1>1, <2>2
  <2> QED
    BY <2>2, <2>3 DEF ItemType
<1> HIDE DEF item
<1>4. [i \in 1 .. n |-> item(i)] \in Seq(ItemType)
  <2>1. [i \in 1 .. n |-> item(i)] \in [1 .. n -> ItemType]
    BY Zenon, <1>3
  <2> QED
    BY Zenon, <1>2, <2>1, ListIsSeq
<1> QED
  BY Zenon, <1>2, <1>4 DEF item, ms

LEMMA ImageFacts ==
  /\ Image \in Seq(Page) /\ Len(Image) \in Nat /\ DOMAIN Image = 1 .. Len(Image)
  /\ [i \in DOMAIN Image |-> [page |-> Image[i], prot |-> "rw", value |-> Loaded]]
       \in Seq(ItemType)
<1> DEFINE n == Len(Image)
           item(i) == [page |-> Image[i], prot |-> "rw", value |-> Loaded]
<1>1. Image \in Seq(Page)
  BY Constants DEF Image
<1>2. n \in Nat /\ DOMAIN Image = 1 .. n /\ \A i \in 1 .. n : Image[i] \in Page
  BY <1>1
<1>3. ASSUME NEW i \in 1 .. n PROVE item(i) \in ItemType
  BY <1>2 DEF ItemType, Prot, Value, Loaded
<1> HIDE DEF item
<1>4. [i \in 1 .. n |-> item(i)] \in Seq(ItemType)
  <2>1. [i \in 1 .. n |-> item(i)] \in [1 .. n -> ItemType]
    BY Zenon, <1>3
  <2> QED
    BY Zenon, <1>2, <2>1, ListIsSeq
<1> QED
  BY Zenon, <1>1, <1>2, <1>4 DEF item

\* Between calls.
LEMMA NoOpFacts ==
  /\ NoOp \in OpType /\ NoOp.kind = "none" /\ ~Drafts("none") /\ ~Grows("none")
  /\ NoOp.todo = <<>>
  BY Pids, Sizes DEF NoOp, OpType, Drafts, Grows

LEMMA NoCall ==
  ASSUME NEW sp, sp[Draft] = NoSpace, NEW b, NEW pan
  PROVE  CallInv(NoOp, sp, b, pan)
  BY Zenon, NoOpFacts DEF CallInv

LEMMA ForkEndFacts ==
  ASSUME FInv, NEW c \in Pid, fork_ends(c)
  PROVE  /\ FInv' /\ op.pid \in Pid /\ op.pid # c /\ space[op.pid].root # None
         /\ Drafts(op.kind) /\ space[c] = NoSpace
         /\ space'[c] = space[Draft] /\ space'[Draft] = NoSpace
         /\ \A s \in SpaceId : s # c /\ s # Draft => space'[s] = space[s]
         /\ brk'[c] = brk[op.pid] /\ mmap_end'[c] = mmap_end[op.pid]
         /\ \A p \in Pid : p # c => brk'[p] = brk[p] /\ mmap_end'[p] = mmap_end[p]
<1>1. /\ op.kind = "fork" /\ c \notin Tasks
      /\ space' = [space EXCEPT ![c] = space[Draft], ![Draft] = NoSpace]
      /\ brk' = [brk EXCEPT ![c] = brk[op.pid]]
      /\ mmap_end' = [mmap_end EXCEPT ![c] = mmap_end[op.pid]]
      /\ op' = NoOp /\ recycled' = recycled /\ next' = next /\ data' = data
      /\ panicked' = panicked
  BY DEF fork_ends
<1>2. Types /\ FrameInv(recycled, next, space) /\ Absent(space)
      /\ CallInv(op, space, brk, panicked) /\ \A p \in Pid : CursorsOK(brk[p], mmap_end[p])
  BY Zenon DEF FInv
<1>3. Drafts(op.kind)
  BY <1>1 DEF Drafts
<1>4. op.pid \in Pid /\ space[op.pid].root # None
  BY Zenon, <1>2, <1>3 DEF CallInv
<1>5. space[c].root = None /\ space[c] = NoSpace
  <2>1. space[c].root = None
    BY Zenon, <1>1 DEF Tasks
  <2> QED
    BY Zenon, <1>2, <2>1, Pids DEF Absent
<1>6. c # Draft /\ c \in SpaceId /\ Draft \in SpaceId /\ op.pid # c
  BY Zenon, <1>4, <1>5, Pids
<1>7. /\ space \in [SpaceId -> SpaceType] /\ brk \in [Pid -> BrkType]
      /\ mmap_end \in [Pid -> 0 .. user_end]
  BY Zenon, <1>2 DEF Types
<1>8. /\ space'[c] = space[Draft] /\ space'[Draft] = NoSpace
      /\ \A s \in SpaceId : s # c /\ s # Draft => space'[s] = space[s]
      /\ space' \in [SpaceId -> SpaceType]
  BY <1>1, <1>6, <1>7, NoSpaceHoldsNothing
<1>9. /\ brk'[c] = brk[op.pid] /\ \A p \in Pid : p # c => brk'[p] = brk[p]
      /\ brk' \in [Pid -> BrkType]
  BY <1>1, <1>4, <1>7
<1>10. /\ mmap_end'[c] = mmap_end[op.pid] /\ \A p \in Pid : p # c => mmap_end'[p] = mmap_end[p]
       /\ mmap_end' \in [Pid -> 0 .. user_end]
  BY <1>1, <1>4, <1>7
<1>11. FrameInv(recycled', next', space')
  <2>1. FrameInv(recycled, next, [space EXCEPT ![c] = space[Draft], ![Draft] = NoSpace])
    BY ONLY Zenon, <1>2, <1>5, <1>6, <1>7, MovesSpace
  <2> QED
    BY ONLY Zenon, <1>1, <2>1
<1>12. Absent(space')
  BY Zenon, <1>2, <1>6, <1>8 DEF Absent
<1>13. CallInv(NoOp, space', brk', panicked')
  BY Zenon, <1>8, NoCall
<1>14. \A p \in Pid : CursorsOK(brk'[p], mmap_end'[p])
  BY Zenon, <1>2, <1>4, <1>9, <1>10
<1>15. FInv'
  BY Zenon, <1>1, <1>2, <1>8, <1>9, <1>10, <1>11, <1>12, <1>13, <1>14, NoOpFacts DEF FInv, Types
<1> QED
  BY Zenon, <1>3, <1>4, <1>5, <1>6, <1>8, <1>9, <1>10, <1>15

LEMMA ExecEndFacts ==
  ASSUME Basics, FInv, exec_ends
  PROVE  /\ FInv' /\ op.pid \in Pid /\ Drafts(op.kind)
         /\ space'[op.pid] = space[Draft] /\ space'[Draft] = NoSpace
         /\ \A s \in SpaceId : s # op.pid /\ s # Draft => space'[s] = space[s]
         /\ brk'[op.pid] = [start |-> BrkStart, end |-> BrkStart, mapped_end |-> BrkStart]
         /\ mmap_end'[op.pid] = MmapBase
         /\ \A p \in Pid : p # op.pid => brk'[p] = brk[p] /\ mmap_end'[p] = mmap_end[p]
<1> DEFINE p == op.pid
           b == [start |-> BrkStart, end |-> BrkStart, mapped_end |-> BrkStart]
           sp == [space EXCEPT ![p] = NoSpace]
<1>1. /\ op.kind = "exec"
      /\ space' = [space EXCEPT ![p] = space[Draft], ![Draft] = NoSpace]
      /\ recycled' = recycled \o OwnedFrames(space[p])
      /\ brk' = [brk EXCEPT ![p] = b]
      /\ mmap_end' = [mmap_end EXCEPT ![p] = MmapBase]
      /\ op' = NoOp /\ next' = next /\ data' = data /\ panicked' = panicked
  BY DEF exec_ends
<1>2. Types /\ FrameInv(recycled, next, space) /\ Absent(space)
      /\ CallInv(op, space, brk, panicked) /\ \A q \in Pid : CursorsOK(brk[q], mmap_end[q])
  BY Zenon DEF FInv
<1>3. Drafts(op.kind)
  BY <1>1 DEF Drafts
<1>4. p \in Pid /\ space[p].root # None
  BY Zenon, <1>2, <1>3 DEF CallInv
<1> HIDE DEF p
<1>5. p # Draft /\ p \in SpaceId /\ Draft \in SpaceId
  BY Zenon, <1>4, Pids
<1>6. /\ space \in [SpaceId -> SpaceType] /\ brk \in [Pid -> BrkType]
      /\ mmap_end \in [Pid -> 0 .. user_end]
  BY Zenon, <1>2 DEF Types
<1>7. FrameInv(recycled', next', space')
  <2>1. FrameInv(recycled \o OwnedFrames(space[p]), next, sp)
    BY ONLY Zenon, Basics, <1>2, <1>4, <1>5, <1>6, DropsSpace
  <2>2. sp \in [SpaceId -> SpaceType] /\ sp[p] = NoSpace /\ sp[Draft] = space[Draft]
    BY <1>5, <1>6, NoSpaceHoldsNothing
  <2>3. [sp EXCEPT ![p] = sp[Draft], ![Draft] = NoSpace] =
          [space EXCEPT ![p] = space[Draft], ![Draft] = NoSpace]
    BY Zenon, <1>5, <1>6, <2>2
  <2> HIDE DEF sp
  <2>4. FrameInv(recycled \o OwnedFrames(space[p]), next,
                 [sp EXCEPT ![p] = sp[Draft], ![Draft] = NoSpace])
    BY ONLY Zenon, <1>5, <2>1, <2>2, MovesSpace
  <2> QED
    BY ONLY Zenon, <1>1, <2>3, <2>4
<1>8. /\ space'[p] = space[Draft] /\ space'[Draft] = NoSpace
      /\ \A s \in SpaceId : s # p /\ s # Draft => space'[s] = space[s]
      /\ space' \in [SpaceId -> SpaceType]
  BY <1>1, <1>5, <1>6, NoSpaceHoldsNothing
<1>9. BrkStart \in 0 .. user_end /\ BrkStart >= page_size /\ Aligned(BrkStart)
  BY BrkStartFacts
<1>10. b \in BrkType /\ b.start = BrkStart /\ b.end = BrkStart /\ b.mapped_end = BrkStart
  BY <1>9 DEF BrkType
<1> HIDE DEF b
<1>11. /\ brk'[p] = b /\ \A q \in Pid : q # p => brk'[q] = brk[q]
       /\ brk' \in [Pid -> BrkType]
  BY <1>1, <1>4, <1>6, <1>10
<1>12. /\ mmap_end'[p] = MmapBase /\ \A q \in Pid : q # p => mmap_end'[q] = mmap_end[q]
       /\ mmap_end' \in [Pid -> 0 .. user_end]
  BY <1>1, <1>4, <1>6, Constants, Sizes
<1>13. CursorsOK(b, MmapBase)
  BY <1>9, <1>10, Constants DEF CursorsOK
<1>14. \A q \in Pid : CursorsOK(brk'[q], mmap_end'[q])
  BY Zenon, <1>2, <1>11, <1>12, <1>13
<1>15. Absent(space')
  BY Zenon, <1>2, <1>5, <1>8 DEF Absent
<1>16. CallInv(NoOp, space', brk', panicked')
  BY Zenon, <1>8, NoCall
<1>17. FInv'
  BY Zenon, <1>1, <1>2, <1>7, <1>8, <1>11, <1>12, <1>14, <1>15, <1>16, NoOpFacts DEF FInv, Types
<1> QED
  BY Zenon, <1>3, <1>4, <1>8, <1>11, <1>12, <1>17 DEF p, b

LEMMA ReapFacts ==
  ASSUME Basics, FInv, NEW c \in Pid, reap_zombie_child(c)
  PROVE  /\ FInv' /\ space'[c] = NoSpace
         /\ \A s \in SpaceId : s # c => space'[s] = space[s]
         /\ \A p \in Pid : p # c => brk'[p] = brk[p] /\ mmap_end'[p] = mmap_end[p]
<1> DEFINE b == [start |-> 0, end |-> 0, mapped_end |-> 0]
<1>1. /\ op = NoOp /\ ~panicked /\ space[c].root # None
      /\ space' = [space EXCEPT ![c] = NoSpace]
      /\ recycled' = recycled \o OwnedFrames(space[c])
      /\ brk' = [brk EXCEPT ![c] = b]
      /\ mmap_end' = [mmap_end EXCEPT ![c] = 0]
      /\ op' = op /\ next' = next /\ data' = data /\ panicked' = panicked
  BY DEF reap_zombie_child, Tasks, Idle
<1>2. Types /\ FrameInv(recycled, next, space) /\ Absent(space)
      /\ CallInv(op, space, brk, panicked) /\ \A q \in Pid : CursorsOK(brk[q], mmap_end[q])
  BY Zenon DEF FInv
<1>3. /\ space \in [SpaceId -> SpaceType] /\ brk \in [Pid -> BrkType]
      /\ mmap_end \in [Pid -> 0 .. user_end]
  BY Zenon, <1>2 DEF Types
<1>4. c # Draft /\ c \in SpaceId /\ Draft \in SpaceId
  BY Zenon, Pids
<1>5. FrameInv(recycled', next', space')
  <2>1. FrameInv(recycled \o OwnedFrames(space[c]), next, [space EXCEPT ![c] = NoSpace])
    BY ONLY Zenon, Basics, <1>1, <1>2, <1>3, <1>4, DropsSpace
  <2> QED
    BY ONLY Zenon, <1>1, <2>1
<1>6. /\ space'[c] = NoSpace /\ \A s \in SpaceId : s # c => space'[s] = space[s]
      /\ space' \in [SpaceId -> SpaceType]
  BY Zenon, <1>1, <1>3, <1>4, NoSpaceHoldsNothing
<1>7. b \in BrkType /\ b.start = 0 /\ 0 \in 0 .. user_end
  BY Sizes DEF BrkType
<1> HIDE DEF b
<1>8. /\ brk'[c] = b /\ \A q \in Pid : q # c => brk'[q] = brk[q]
      /\ brk' \in [Pid -> BrkType]
  BY <1>1, <1>3, <1>7
<1>9. /\ \A q \in Pid : q # c => mmap_end'[q] = mmap_end[q]
      /\ mmap_end' \in [Pid -> 0 .. user_end]
  BY <1>1, <1>3, <1>7
<1>10. CursorsOK(brk'[c], mmap_end'[c])
  BY Zenon, <1>7, <1>8 DEF CursorsOK
<1>11. \A q \in Pid : CursorsOK(brk'[q], mmap_end'[q])
  BY Zenon, <1>2, <1>8, <1>9, <1>10
<1>12. Absent(space')
  BY Zenon, <1>2, <1>6 DEF Absent
<1>13. CallInv(NoOp, space', brk', panicked')
  <2>1. space[Draft] = NoSpace
    BY Zenon, <1>1, <1>2, NoOpFacts DEF CallInv
  <2>2. space'[Draft] = NoSpace
    BY Zenon, <1>4, <1>6, <2>1
  <2> QED
    BY Zenon, <2>2, NoCall
<1>14. FInv'
  BY Zenon, <1>1, <1>2, <1>5, <1>6, <1>8, <1>9, <1>11, <1>12, <1>13, NoOpFacts DEF FInv, Types
<1> QED
  BY Zenon, <1>6, <1>8, <1>9, <1>14

\* A task that runs a program.
LEMMA RunsFacts ==
  ASSUME FInv, NEW p \in Pid, Runs(p)
  PROVE  /\ op = NoOp /\ ~panicked /\ space[p].root # None /\ brk[p].start # 0
         /\ space[Draft] = NoSpace
         /\ brk[p] \in BrkType /\ mmap_end[p] \in 0 .. user_end
         /\ CursorsOK(brk[p], mmap_end[p])
<1>1. op = NoOp /\ ~panicked /\ space[p].root # None /\ brk[p].start # 0
  BY DEF Runs, Idle, Tasks
<1>2. space[Draft] = NoSpace
  BY Zenon, <1>1, NoOpFacts DEF FInv, CallInv
<1>3. brk[p] \in BrkType /\ mmap_end[p] \in 0 .. user_end /\ CursorsOK(brk[p], mmap_end[p])
  BY DEF FInv, Types
<1> QED
  BY <1>1, <1>2, <1>3

LEMMA BrkMovesFacts ==
  ASSUME FInv, NEW p \in Pid, NEW addr \in 0 .. BrkMax, brk_moves(p, addr)
  PROVE  /\ FInv' /\ brk'[p].start = brk[p].start /\ brk'[p].mapped_end = brk[p].mapped_end
         /\ \A q \in Pid : q # p => brk'[q] = brk[q]
<1> DEFINE b == [brk[p] EXCEPT !.end = addr]
<1>1. /\ Runs(p) /\ addr >= brk[p].start /\ addr <= brk[p].mapped_end
      /\ brk' = [brk EXCEPT ![p] = b]
      /\ recycled' = recycled /\ next' = next /\ data' = data /\ space' = space
      /\ mmap_end' = mmap_end /\ op' = op /\ panicked' = panicked
  BY DEF brk_moves
<1>2. brk[p] \in BrkType /\ CursorsOK(brk[p], mmap_end[p]) /\ op = NoOp
      /\ space[Draft] = NoSpace /\ brk[p].start # 0
  BY Zenon, <1>1, RunsFacts
<1>3. addr \in 0 .. user_end
  BY Constants, Sizes
<1>4. b \in BrkType /\ b.start = brk[p].start /\ b.mapped_end = brk[p].mapped_end /\ b.end = addr
  BY <1>2, <1>3 DEF BrkType
<1>5. CursorsOK(b, mmap_end[p])
  BY ONLY <1>1, <1>2, <1>4 DEF CursorsOK
<1>6. brk \in [Pid -> BrkType]
  BY Zenon DEF FInv, Types
<1> HIDE DEF b
<1>7. brk' \in [Pid -> BrkType] /\ brk'[p] = b /\ \A q \in Pid : q # p => brk'[q] = brk[q]
  BY <1>1, <1>4, <1>6
<1>8. \A q \in Pid : CursorsOK(brk'[q], mmap_end'[q])
  BY Zenon, <1>1, <1>5, <1>7 DEF FInv
<1>9. CallInv(op', space', brk', panicked')
  BY Zenon, <1>1, <1>2, NoCall
<1>10. FInv'
  BY Zenon, <1>1, <1>7, <1>8, <1>9 DEF FInv, Types
<1> QED
  BY Zenon, <1>4, <1>7, <1>10

\* A call that maps zeroed pages starts.
LEMMA GrowStarts ==
  ASSUME FInv, NEW p \in Pid, Runs(p), NEW k, Grows(k), NEW todo \in Seq(ItemType),
         \A i \in DOMAIN todo : todo[i].value = Zero, NEW end \in 0 .. user_end,
         k = "brk" => end > brk[p].mapped_end, k = "mmap" => end >= MmapBase,
         op' = [kind |-> k, pid |-> p, dst |-> p, end |-> end, todo |-> todo],
         UNCHANGED <<recycled, next, data, space, brk, mmap_end, panicked>>
  PROVE  FInv' /\ op'.kind = k /\ op'.pid = p /\ op'.todo = todo /\ op'.end = end
<1>1. /\ op = NoOp /\ ~panicked /\ space[p].root # None /\ brk[p].start # 0
      /\ space[Draft] = NoSpace
  BY Zenon, RunsFacts
<1>2. k \in {"brk", "mmap", "hint"} /\ k # "none" /\ ~Drafts(k)
  BY DEF Grows, Drafts
<1>3. /\ op'.kind = k /\ op'.pid = p /\ op'.dst = p /\ op'.todo = todo /\ op'.end = end
  OBVIOUS
<1>4. op' \in OpType
  BY <1>2, Pids DEF OpType
<1>5. CallInv(op', space, brk, panicked)
  BY Zenon, <1>1, <1>2, <1>3 DEF CallInv
<1>6. FInv'
  BY Zenon, <1>4, <1>5 DEF FInv, Types
<1> QED
  BY <1>3, <1>6

LEMMA BrkPages ==
  ASSUME FInv, NEW p \in Pid, NEW addr \in 0 .. BrkMax, brk_grows(p, addr)
  PROVE  LET a == brk[p].mapped_end \div page_size
             b == RoundUp(addr) \div page_size
         IN  /\ a \in Nat /\ b \in Nat /\ a >= 1 /\ a <= b /\ b * page_size <= user_end
             /\ a * page_size = brk[p].mapped_end /\ b * page_size = RoundUp(addr)
             /\ addr \in 0 .. user_end /\ addr > brk[p].mapped_end
<1> DEFINE m == brk[p].mapped_end
           a == m \div page_size
           b == PagesFor(addr)
<1>1. Runs(p) /\ addr > m
  BY DEF brk_grows
<1>2. brk[p] \in BrkType /\ CursorsOK(brk[p], mmap_end[p]) /\ brk[p].start # 0
  BY Zenon, <1>1, RunsFacts
<1>3. m \in Nat /\ m = a * page_size /\ m >= page_size
  BY <1>2, Sizes DEF BrkType, CursorsOK, Aligned
<1> HIDE DEF m
<1>4. addr \in Nat /\ addr <= user_end /\ page_size \in Nat \ {0} /\ user_end \in Nat
  BY Constants, Sizes
<1>5. a \in Nat
  BY Zenon, <1>3, <1>4, Divide
<1>6. /\ RoundUp(addr) = b * page_size /\ b \in Nat /\ addr <= RoundUp(addr)
      /\ RoundUp(addr) \div page_size = b /\ RoundUp(addr) <= user_end
      /\ RoundUp(addr) \in Nat
  BY <1>4, RoundUpFacts
<1> HIDE DEF a, b
<1>7. a >= 1
  <2>1. a = 0 => a * page_size = 0
    BY <1>4
  <2> QED
    BY <1>3, <1>4, <1>5, <2>1
<1>8. a <= b
  <2>1. a * page_size < b * page_size
    BY <1>1, <1>3, <1>4, <1>6
  <2>2. a < b
    BY <1>4, <1>5, <1>6, <2>1, Multiples
  <2> QED
    BY <1>5, <1>6, <2>2
<1>9. addr \in 0 .. user_end /\ b * page_size <= user_end
  BY <1>4, <1>6
<1> QED
  BY Zenon, <1>1, <1>3, <1>5, <1>6, <1>7, <1>8, <1>9 DEF a, m

LEMMA BrkGrowsFacts ==
  ASSUME FInv, NEW p \in Pid, NEW addr \in 0 .. BrkMax, brk_grows(p, addr)
  PROVE  /\ FInv' /\ op'.kind = "brk" /\ op'.pid = p /\ op'.end = addr
         /\ op'.todo = ZeroPages(brk[p].mapped_end \div page_size,
                                 RoundUp(addr) \div page_size, "rw")
<1> DEFINE a == brk[p].mapped_end \div page_size
           b == RoundUp(addr) \div page_size
           todo == ZeroPages(a, b, "rw")
<1>1. /\ Runs(p) /\ UNCHANGED <<recycled, next, data, space, brk, mmap_end, panicked>>
      /\ op' = [kind |-> "brk", pid |-> p, dst |-> p, end |-> addr, todo |-> todo]
  BY DEF brk_grows
<1>2. /\ a \in Nat /\ b \in Nat /\ a >= 1 /\ a <= b /\ b * page_size <= user_end
      /\ addr \in 0 .. user_end /\ addr > brk[p].mapped_end
  BY Zenon, BrkPages
<1> HIDE DEF a, b
<1>3. todo \in Seq(ItemType) /\ \A i \in DOMAIN todo : todo[i].value = Zero
  <2>1. "rw" \in Prot
    BY DEF Prot
  <2> QED
    BY Zenon, <1>2, <2>1, ZeroPagesFacts
<1> HIDE DEF todo
<1>4. Grows("brk") /\ "brk" # "mmap"
  BY DEF Grows
<1>5. FInv' /\ op'.kind = "brk" /\ op'.pid = p /\ op'.todo = todo /\ op'.end = addr
  BY Zenon, <1>1, <1>2, <1>3, <1>4, GrowStarts
<1> QED
  BY Zenon, <1>5 DEF todo, a, b

LEMMA BrkEndsFacts ==
  ASSUME FInv, brk_ends
  PROVE  /\ FInv' /\ op.pid \in Pid /\ op.end \in Nat /\ op.end <= RoundUp(op.end)
         /\ brk[op.pid].start # 0 /\ space[op.pid].root # None
         /\ brk'[op.pid].start = brk[op.pid].start
         /\ brk'[op.pid].mapped_end = RoundUp(op.end)
         /\ \A q \in Pid : q # op.pid => brk'[q] = brk[q]
<1> DEFINE p == op.pid
           r == RoundUp(op.end)
           b == [brk[p] EXCEPT !.end = op.end, !.mapped_end = r]
<1>1. /\ op.kind = "brk" /\ op' = NoOp
      /\ brk' = [brk EXCEPT ![p].end = op.end, ![p].mapped_end = r]
      /\ recycled' = recycled /\ next' = next /\ data' = data /\ space' = space
      /\ mmap_end' = mmap_end /\ panicked' = panicked
  BY DEF brk_ends
<1>2. CallInv(op, space, brk, panicked) /\ brk \in [Pid -> BrkType] /\ op \in OpType
      /\ \A q \in Pid : CursorsOK(brk[q], mmap_end[q])
  BY Zenon DEF FInv, Types
<1>3. Grows(op.kind) /\ ~Drafts(op.kind) /\ op.kind # "none"
  BY <1>1 DEF Grows, Drafts
<1>4. ~panicked
  BY Zenon, <1>2, <1>3, NoOpFacts DEF CallInv
<1>5. /\ p \in Pid /\ space[p].root # None /\ brk[p].start # 0 /\ space[Draft] = NoSpace
      /\ op.end > brk[p].mapped_end
  BY Zenon, <1>1, <1>2, <1>3, <1>4 DEF CallInv
<1>6. op.end \in 0 .. user_end /\ user_end \in Nat
  BY <1>2, Sizes DEF OpType
<1>7. op.end \in Nat /\ op.end <= user_end
  BY <1>6
<1>8. r \in Nat /\ op.end <= r /\ Aligned(r) /\ r <= user_end
  BY Zenon, <1>7, RoundUpFacts
<1>9. r \in 0 .. user_end
  BY <1>6, <1>8
<1> HIDE DEF p, r
<1>10. brk' = [brk EXCEPT ![p] = b]
  BY Zenon, <1>1, <1>2, <1>5
<1>11. brk[p] \in BrkType
  BY <1>2, <1>5
<1>12. b.start = brk[p].start /\ b.mapped_end = r /\ b.end = op.end
  BY Zenon, <1>11 DEF BrkType
<1>13. b \in BrkType
  BY Zenon, <1>6, <1>9, <1>11 DEF BrkType
<1> HIDE DEF b
<1>14. CursorsOK(b, mmap_end[p])
  <2>1. brk[p].start \in Nat /\ brk[p].mapped_end \in Nat /\ brk[p].end \in Nat
    BY <1>6, <1>11 DEF BrkType
  <2>2. /\ brk[p].start >= page_size /\ brk[p].start <= brk[p].end
        /\ brk[p].end <= brk[p].mapped_end /\ mmap_end[p] >= MmapBase
    BY Zenon, <1>2, <1>5 DEF CursorsOK
  <2>3. brk[p].start <= op.end
    BY <1>5, <1>7, <2>1, <2>2
  <2> QED
    BY Zenon, <1>8, <1>12, <2>2, <2>3 DEF CursorsOK
<1>15. brk' \in [Pid -> BrkType] /\ brk'[p] = b /\ \A q \in Pid : q # p => brk'[q] = brk[q]
  BY <1>2, <1>5, <1>10, <1>13
<1>16. \A q \in Pid : CursorsOK(brk'[q], mmap_end'[q])
  BY Zenon, <1>1, <1>2, <1>14, <1>15
<1>17. CallInv(NoOp, space', brk', panicked')
  BY Zenon, <1>1, <1>5, NoCall
<1>18. FInv'
  BY Zenon, <1>1, <1>15, <1>16, <1>17, NoOpFacts DEF FInv, Types
<1> QED
  BY Zenon, <1>5, <1>7, <1>8, <1>12, <1>15, <1>18 DEF p, r

\* The range of mmap.
LEMMA MmapPages ==
  ASSUME FInv, NEW p \in Pid, NEW hint \in Hints \union {None}, NEW length \in 0 .. MaxLen,
         NEW prot \in Prot, mmap_starts(p, hint, length, prot)
  PROVE  LET range == checked_mmap_range(BaseFor(p, hint), length)
             a == range.base \div page_size
             b == range.end \div page_size
         IN  /\ a \in Nat /\ b \in Nat /\ a >= 1 /\ a <= b /\ b * page_size <= user_end
             /\ range.base = a * page_size /\ range.end = b * page_size
             /\ range.end \in 0 .. user_end
             /\ hint = None => /\ range.base >= mmap_end[p] /\ range.end >= MmapBase
                               /\ range.base < mmap_end[p] + page_size
<1> DEFINE base == BaseFor(p, hint)
           range == checked_mmap_range(base, length)
           a == range.base \div page_size
           b == range.end \div page_size
<1>1. Runs(p) /\ range.error = 0
  BY Zenon DEF mmap_starts
<1>2. mmap_end[p] \in 0 .. user_end /\ CursorsOK(brk[p], mmap_end[p]) /\ brk[p].start # 0
  BY Zenon, <1>1, RunsFacts
<1>3. /\ mmap_end[p] >= MmapBase /\ MmapBase \in Nat \ {0} /\ page_size \in Nat \ {0}
      /\ user_end \in Nat /\ user_end < Word /\ Word \in Nat /\ None = 0
      /\ Hints \subseteq 0 .. (Word - 1) /\ MaxLen \in 0 .. (Word - 1)
  BY <1>2, Constants, Sizes DEF CursorsOK
<1>4. base \in 0 .. (Word - 1) /\ base > 0 /\ length \in 0 .. (Word - 1)
      /\ (hint = None => base = mmap_end[p])
  BY <1>2, <1>3 DEF BaseFor
<1> HIDE DEF base
<1>5. /\ a \in Nat /\ range.base = a * page_size /\ b \in Nat /\ range.end = b * page_size
      /\ range.base >= base /\ range.base < base + page_size
      /\ range.base <= range.end /\ range.end <= user_end
  BY Zenon, <1>1, <1>4, Accepted
<1> HIDE DEF range, a, b
<1>6. a * page_size \in Nat /\ b * page_size \in Nat
  BY <1>3, <1>5
<1>7. a >= 1
  <2>1. a = 0 => a * page_size = 0
    BY <1>3
  <2> QED
    BY <1>3, <1>4, <1>5, <1>6, <2>1
<1>8. a <= b
  <2>1. b < a => b * page_size + page_size <= a * page_size
    BY <1>3, <1>5, Multiples
  <2> QED
    BY <1>3, <1>5, <1>6, <2>1
<1>9. /\ range.end \in 0 .. user_end /\ b * page_size <= user_end
      /\ hint = None => /\ range.base >= mmap_end[p] /\ range.end >= MmapBase
                        /\ range.base < mmap_end[p] + page_size
  BY <1>2, <1>3, <1>4, <1>5, <1>6
<1> QED
  BY Zenon, <1>5, <1>7, <1>8, <1>9 DEF range, base, a, b

LEMMA MmapStartsFacts ==
  ASSUME FInv, NEW p \in Pid, NEW hint \in Hints \union {None}, NEW length \in 0 .. MaxLen,
         NEW prot \in Prot, mmap_starts(p, hint, length, prot)
  PROVE  LET range == checked_mmap_range(BaseFor(p, hint), length)
         IN  /\ FInv' /\ op'.kind = (IF hint = None THEN "mmap" ELSE "hint") /\ op'.pid = p
             /\ op'.end = range.end
             /\ op'.todo = ZeroPages(range.base \div page_size, range.end \div page_size, prot)
<1> DEFINE range == checked_mmap_range(BaseFor(p, hint), length)
           a == range.base \div page_size
           b == range.end \div page_size
           todo == ZeroPages(a, b, prot)
           k == IF hint = None THEN "mmap" ELSE "hint"
           end == range.end
<1>1. /\ Runs(p) /\ UNCHANGED <<recycled, next, data, space, brk, mmap_end, panicked>>
      /\ op' = [kind |-> k, pid |-> p, dst |-> p, end |-> end, todo |-> todo]
  BY Zenon DEF mmap_starts
<1>2. /\ a \in Nat /\ b \in Nat /\ a >= 1 /\ a <= b /\ b * page_size <= user_end
      /\ end \in 0 .. user_end /\ (hint = None => end >= MmapBase)
  BY Zenon, MmapPages
<1>3. k \in {"mmap", "hint"} /\ (k = "mmap" => hint = None)
  OBVIOUS
<1> HIDE DEF a, b, end, k
<1>4. todo \in Seq(ItemType) /\ \A i \in DOMAIN todo : todo[i].value = Zero
  BY Zenon, <1>2, ZeroPagesFacts
<1> HIDE DEF todo
<1>5. Grows(k) /\ k # "brk"
  BY <1>3 DEF Grows
<1>6. FInv' /\ op'.kind = k /\ op'.pid = p /\ op'.todo = todo /\ op'.end = end
  BY Zenon, <1>1, <1>2, <1>3, <1>4, <1>5, GrowStarts
<1> QED
  BY Zenon, <1>6 DEF todo, a, b, k, end

LEMMA MmapEndsFacts ==
  ASSUME FInv, mmap_ends
  PROVE  /\ FInv' /\ op.pid \in Pid /\ op.kind \in {"mmap", "hint"}
         /\ space[op.pid].root # None /\ brk[op.pid].start # 0
         /\ op.kind = "mmap" => mmap_end'[op.pid] = op.end
         /\ op.kind = "hint" => mmap_end' = mmap_end
         /\ \A q \in Pid : q # op.pid => mmap_end'[q] = mmap_end[q]
<1> DEFINE p == op.pid
<1>1. /\ op.kind \in {"mmap", "hint"} /\ op' = NoOp /\ mmap_end' = MovedCursor
      /\ recycled' = recycled /\ next' = next /\ data' = data /\ space' = space
      /\ brk' = brk /\ panicked' = panicked
  BY DEF mmap_ends
<1>2. CallInv(op, space, brk, panicked) /\ mmap_end \in [Pid -> 0 .. user_end] /\ op \in OpType
      /\ \A q \in Pid : CursorsOK(brk[q], mmap_end[q])
  BY Zenon DEF FInv, Types
<1>3. Grows(op.kind) /\ ~Drafts(op.kind) /\ op.kind # "none"
  BY <1>1 DEF Grows, Drafts
<1>4. ~panicked
  BY Zenon, <1>2, <1>3, NoOpFacts DEF CallInv
<1>5. /\ p \in Pid /\ space[p].root # None /\ brk[p].start # 0 /\ space[Draft] = NoSpace
      /\ op.kind = "mmap" => op.end >= MmapBase
  BY Zenon, <1>2, <1>3, <1>4 DEF CallInv
<1>6. op.end \in 0 .. user_end
  BY <1>2 DEF OpType
<1> HIDE DEF p
<1>7. /\ mmap_end' \in [Pid -> 0 .. user_end]
      /\ op.kind = "mmap" => mmap_end'[p] = op.end
      /\ op.kind = "hint" => mmap_end' = mmap_end
      /\ \A q \in Pid : q # p => mmap_end'[q] = mmap_end[q]
  <2>1. CASE op.kind = "mmap"
    <3>1. mmap_end' = [mmap_end EXCEPT ![p] = op.end]
      BY Zenon, <1>1, <2>1 DEF MovedCursor, p
    <3> QED
      BY <1>2, <1>5, <1>6, <2>1, <3>1
  <2>2. CASE op.kind # "mmap"
    <3>1. mmap_end' = mmap_end
      BY Zenon, <1>1, <2>2 DEF MovedCursor
    <3> QED
      BY Zenon, <1>2, <2>2, <3>1
  <2> QED
    BY <2>1, <2>2
<1>8. CursorsOK(brk[p], mmap_end'[p])
  <2>1. CursorsOK(brk[p], mmap_end[p])
    BY Zenon, <1>2, <1>5
  <2>2. CASE op.kind = "mmap"
    BY Zenon, <1>5, <1>7, <2>1, <2>2 DEF CursorsOK
  <2>3. CASE op.kind = "hint"
    BY Zenon, <1>7, <2>1, <2>3
  <2> QED
    BY <1>1, <2>2, <2>3
<1>9. \A q \in Pid : CursorsOK(brk'[q], mmap_end'[q])
  BY Zenon, <1>1, <1>2, <1>7, <1>8
<1>10. CallInv(NoOp, space', brk', panicked')
  BY Zenon, <1>1, <1>5, NoCall
<1>11. FInv'
  BY Zenon, <1>1, <1>7, <1>9, <1>10, NoOpFacts DEF FInv, Types
<1> QED
  BY Zenon, <1>1, <1>5, <1>7, <1>11 DEF p

\* A program or a system call writes into a page.
LEMMA DataChanges ==
  ASSUME FInv, NEW f \in Frame, NEW v \in Value, data' = [data EXCEPT ![f] = v],
         UNCHANGED <<recycled, next, space, brk, mmap_end, op, panicked>>
  PROVE  FInv'
<1>1. data \in [Frame -> Value]
  BY Zenon DEF FInv, Types
<1>2. data' \in [Frame -> Value]
  BY <1>1
<1> QED
  BY Zenon, <1>2 DEF FInv, Types

LEMMA StoreFacts ==
  ASSUME FInv, NEW p \in Pid, NEW pg \in Page, NEW v \in Value, store(p, pg, v)
  PROVE  /\ FInv' /\ space[p].leaf[pg].frame \in Frame
         /\ data' = [data EXCEPT ![space[p].leaf[pg].frame] = v]
<1>1. space[p] \in SpaceType
  BY Pids DEF FInv, Types
<1>2. space[p].leaf[pg] \in MappingType /\ space[p].leaf[pg].frame # None
  BY <1>1 DEF SpaceType, store
<1>3. space[p].leaf[pg].frame \in Frame
  BY <1>2 DEF MappingType
<1>4. /\ data' = [data EXCEPT ![space[p].leaf[pg].frame] = v]
      /\ UNCHANGED <<recycled, next, space, brk, mmap_end, op, panicked>>
  BY Zenon DEF store
<1>5. FInv'
  BY Zenon, <1>3, <1>4, DataChanges
<1> QED
  BY <1>3, <1>4, <1>5

LEMMA CopyFacts ==
  ASSUME Basics, FInv, NEW p \in Pid, NEW pg \in Page, NEW v \in Value, copy_to_task(p, pg, v)
  PROVE  /\ FInv' /\ space' = space
         /\ \E i \in DOMAIN space[p].mappings :
              /\ space[p].mappings[i].page = pg /\ space[p].mappings[i].frame \in Frame
              /\ data' = [data EXCEPT ![space[p].mappings[i].frame] = v]
<1> DEFINE ms == space[p].mappings
           S == MappingsOf(p, pg)
           i == Min(S)
<1>1. space[p] \in SpaceType
  BY Pids DEF FInv, Types
<1>2. ms \in Seq(Entry)
  BY <1>1 DEF SpaceType
<1>3. S # {} /\ data' = [data EXCEPT ![ms[i].frame] = v]
      /\ UNCHANGED <<recycled, next, space, brk, mmap_end, op, panicked>>
  BY Zenon DEF copy_to_task, FirstMapping
<1>4. S \subseteq DOMAIN ms /\ \A j \in S : ms[j].page = pg
  BY Zenon DEF MappingsOf
<1> HIDE DEF ms, S
<1>5. S \subseteq Nat
  BY <1>2, <1>4
<1>6. i \in S
  BY Zenon, <1>3, <1>5, MinFacts
<1>7. i \in DOMAIN ms /\ ms[i].page = pg
  BY Zenon, <1>4, <1>6
<1> HIDE DEF i
<1>8. ms[i].frame \in Frame
  <2>1. ms[i] \in Entry
    BY ONLY <1>2, <1>7
  <2> QED
    BY ONLY <2>1 DEF Entry
<1>9. FInv'
  BY Zenon, <1>3, <1>8, DataChanges
<1> QED
  BY Zenon, <1>3, <1>7, <1>8, <1>9 DEF ms

LEMMA ForkStartFacts ==
  ASSUME FInv, NEW p \in Pid, fork_starts(p)
  PROVE  /\ FInv'
         /\ NextFrame \in Frame /\ \A s \in SpaceId : NextFrame \notin FramesOf(space[s])
         /\ space'[Draft].leaf = NoSpace.leaf /\ space'[Draft].mappings = <<>>
         /\ \A s \in SpaceId : s # Draft => space'[s] = space[s]
         /\ data' = [data EXCEPT ![NextFrame] = Entries]
         /\ op'.kind = "fork" /\ op'.pid = p
         /\ op'.todo = [i \in DOMAIN space[p].mappings |->
              [page |-> space[p].mappings[i].page, prot |-> space[p].mappings[i].prot,
               value |-> data[space[p].mappings[i].frame]]]
         /\ UNCHANGED <<brk, mmap_end>>
<1> DEFINE todo == [i \in DOMAIN space[p].mappings |->
              [page |-> space[p].mappings[i].page, prot |-> space[p].mappings[i].prot,
               value |-> data[space[p].mappings[i].frame]]]
<1>1. Idle /\ space[p].root # None /\ NewDraft("fork", p, todo)
  BY Zenon DEF fork_starts, Tasks
<1>2. todo \in Seq(ItemType)
  BY Zenon, ForkList
<1>3. Drafts("fork")
  BY DEF Drafts
<1> HIDE DEF todo
<1>4. /\ FInv'
      /\ NextFrame \in Frame /\ \A s \in SpaceId : NextFrame \notin FramesOf(space[s])
      /\ space'[Draft].leaf = NoSpace.leaf /\ space'[Draft].mappings = <<>>
      /\ \A s \in SpaceId : s # Draft => space'[s] = space[s]
      /\ data' = [data EXCEPT ![NextFrame] = Entries]
      /\ op'.kind = "fork" /\ op'.pid = p /\ op'.todo = todo
      /\ UNCHANGED <<brk, mmap_end>>
  BY Zenon, <1>1, <1>2, <1>3, DraftStarts
<1> QED
  BY Zenon, <1>4 DEF todo

LEMMA ExecStartFacts ==
  ASSUME FInv, NEW p \in Pid, exec_starts(p)
  PROVE  /\ FInv'
         /\ NextFrame \in Frame /\ \A s \in SpaceId : NextFrame \notin FramesOf(space[s])
         /\ space'[Draft].leaf = NoSpace.leaf /\ space'[Draft].mappings = <<>>
         /\ \A s \in SpaceId : s # Draft => space'[s] = space[s]
         /\ data' = [data EXCEPT ![NextFrame] = Entries]
         /\ op'.kind = "exec" /\ op'.pid = p
         /\ op'.todo = [i \in DOMAIN Image |-> [page |-> Image[i], prot |-> "rw",
                                                value |-> Loaded]]
         /\ UNCHANGED <<brk, mmap_end>>
<1> DEFINE todo == [i \in DOMAIN Image |-> [page |-> Image[i], prot |-> "rw", value |-> Loaded]]
<1>1. Idle /\ space[p].root # None /\ NewDraft("exec", p, todo)
  BY Zenon DEF exec_starts, Tasks
<1>2. todo \in Seq(ItemType)
  BY Zenon, ImageFacts
<1>3. Drafts("exec")
  BY DEF Drafts
<1> HIDE DEF todo
<1>4. /\ FInv'
      /\ NextFrame \in Frame /\ \A s \in SpaceId : NextFrame \notin FramesOf(space[s])
      /\ space'[Draft].leaf = NoSpace.leaf /\ space'[Draft].mappings = <<>>
      /\ \A s \in SpaceId : s # Draft => space'[s] = space[s]
      /\ data' = [data EXCEPT ![NextFrame] = Entries]
      /\ op'.kind = "exec" /\ op'.pid = p /\ op'.todo = todo
      /\ UNCHANGED <<brk, mmap_end>>
  BY Zenon, <1>1, <1>2, <1>3, DraftStarts
<1> QED
  BY Zenon, <1>4 DEF todo

LEMMA ForkPanics ==
  ASSUME FInv, NEW p \in Pid, fork_out_of_frames(p)
  PROVE  FInv'
<1>1. /\ op = NoOp /\ ~panicked /\ panicked' = TRUE
      /\ UNCHANGED <<recycled, next, data, space, brk, mmap_end, op>>
  BY DEF fork_out_of_frames, Idle
<1>2. space[Draft] = NoSpace
  BY Zenon, <1>1, NoOpFacts DEF FInv, CallInv
<1>3. CallInv(op', space', brk', panicked')
  BY Zenon, <1>1, <1>2, NoCall
<1>4. panicked' \in BOOLEAN
  BY <1>1
<1> QED
  BY Zenon, <1>1, <1>3, <1>4 DEF FInv, Types

LEMMA FInvStarts ==
  ASSUME Init
  PROVE  FInv
<1> DEFINE n == [NoSpace EXCEPT !.root = 1]
           b0 == [start |-> 0, end |-> 0, mapped_end |-> 0]
<1>1. /\ recycled = <<>> /\ next = 1 /\ data = [f \in Frame |-> Loaded]
      /\ space = [s \in SpaceId |-> IF s = ROOT_PID THEN n ELSE NoSpace]
      /\ brk = [p \in Pid |-> b0] /\ mmap_end = [p \in Pid |-> 0]
      /\ op = NoOp /\ panicked = FALSE
  BY Zenon DEF Init
<1>2. 1 \in Frame /\ 1 \in 1 .. NrFrames /\ 1 # None /\ 1 .. 1 = {1}
  BY Constants DEF Frame
<1>3. /\ n \in SpaceType /\ OwnsOnce(n) /\ n.root = 1 /\ FramesOf(n) = {1}
  <2>1. Gains(NoSpace, n, 1) /\ n.root = 1
    BY Zenon, <1>2, AddsRoot
  <2> HIDE DEF n
  <2>2. n \in SpaceType /\ OwnsOnce(n) /\ FramesOf(n) = FramesOf(NoSpace) \union {1}
    BY Zenon, <2>1 DEF Gains
  <2> QED
    BY <2>1, <2>2, NoSpaceHoldsNothing
<1> HIDE DEF n
<1>4. /\ ROOT_PID \in SpaceId /\ Draft \in SpaceId /\ ROOT_PID # Draft
  BY Zenon, Constants, Pids
<1>5. /\ space[ROOT_PID] = n /\ \A s \in SpaceId : s # ROOT_PID => space[s] = NoSpace
      /\ space[Draft] = NoSpace
  BY Zenon, <1>1, <1>4
<1>6. space \in [SpaceId -> SpaceType]
  BY <1>1, <1>3, NoSpaceHoldsNothing
<1>7. data \in [Frame -> Value]
  BY <1>1 DEF Value, Loaded
<1>8. brk \in [Pid -> BrkType] /\ mmap_end \in [Pid -> 0 .. user_end]
      /\ \A p \in Pid : brk[p].start = 0
  <2>1. 0 \in 0 .. user_end
    BY Sizes
  <2>2. b0 \in BrkType /\ b0.start = 0
    BY <2>1 DEF BrkType
  <2> HIDE DEF b0
  <2> QED
    BY <1>1, <2>1, <2>2
<1>9. Types
  BY Zenon, <1>1, <1>2, <1>6, <1>7, <1>8, NoOpFacts DEF Types
<1>10. Free(recycled) = {} /\ ListOf(Free(recycled), recycled)
  <2>1. Free(recycled) = {}
    BY <1>1 DEF Free
  <2>2. recycled \in Seq({}) /\ DOMAIN recycled = {}
    BY <1>1
  <2> QED
    BY <1>1, <2>1, <2>2 DEF ListOf
<1>11. \A s \in SpaceId : OwnsOnce(space[s])
  BY Zenon, <1>3, <1>5, NoSpaceHoldsNothing
<1>12. \A s \in SpaceId : FramesOf(space[s]) = IF s = ROOT_PID THEN {1} ELSE {}
  BY Zenon, <1>3, <1>5, NoSpaceHoldsNothing
<1>13. FrameInv(recycled, next, space)
  <2>1. \A s \in SpaceId : FramesOf(space[s]) \intersect Free(recycled) = {}
    BY Zenon, <1>10
  <2>2. \A s, u \in SpaceId : s # u => FramesOf(space[s]) \intersect FramesOf(space[u]) = {}
    BY Zenon, <1>12
  <2>3. \A f : (\E s \in SpaceId : f \in FramesOf(space[s])) <=> f \in {1}
    BY Zenon, <1>4, <1>12
  <2>4. 1 .. next = {1}
    BY Zenon, <1>1, <1>2
  <2>5. \A f : f \in Free(recycled) \/ (\E s \in SpaceId : f \in FramesOf(space[s]))
               <=> f \in 1 .. next
    BY Zenon, <1>10, <2>3, <2>4
  <2> QED
    BY Zenon, <1>10, <1>11, <2>1, <2>2, <2>5 DEF FrameInv
<1>14. Absent(space)
  BY Zenon, <1>2, <1>3, <1>5 DEF Absent
<1>15. CallInv(op, space, brk, panicked)
  BY Zenon, <1>1, <1>5, NoCall
<1> QED
  BY Zenon, <1>8, <1>9, <1>13, <1>14, <1>15 DEF FInv, CursorsOK

\* One step per action of UserMemory.
LEMMA FInvKept ==
  ASSUME Basics, FInv, [Next]_vars
  PROVE  FInv'
<1>1. CASE UNCHANGED vars
  BY Zenon, <1>1 DEF FInv, Types, vars
<1>2. CASE make_user_path_private
  BY Zenon, <1>2, PathKeeps
<1>3. CASE map_page
  BY Zenon, <1>3, MapKeeps
<1>4. CASE out_of_frames \/ map_failed \/ exec_read_fails
  BY Zenon, <1>4, FailFacts
<1>5. CASE exec_ends
  BY Zenon, <1>5, ExecEndFacts
<1>6. CASE brk_ends
  BY Zenon, <1>6, BrkEndsFacts
<1>7. CASE mmap_ends
  BY Zenon, <1>7, MmapEndsFacts
<1>8. ASSUME NEW p \in Pid, fork_starts(p) PROVE FInv'
  BY Zenon, <1>8, ForkStartFacts
<1>9. ASSUME NEW p \in Pid, fork_out_of_frames(p) PROVE FInv'
  BY Zenon, <1>9, ForkPanics
<1>10. ASSUME NEW p \in Pid, fork_ends(p) PROVE FInv'
  BY Zenon, <1>10, ForkEndFacts
<1>11. ASSUME NEW p \in Pid, exec_starts(p) PROVE FInv'
  BY Zenon, <1>11, ExecStartFacts
<1>12. ASSUME NEW p \in Pid, reap_zombie_child(p) PROVE FInv'
  BY Zenon, <1>12, ReapFacts
<1>13. ASSUME NEW p \in Pid, NEW addr \in 0 .. BrkMax, brk_moves(p, addr) \/ brk_grows(p, addr)
       PROVE  FInv'
  BY Zenon, <1>13, BrkMovesFacts, BrkGrowsFacts
<1>14. ASSUME NEW p \in Pid, NEW hint \in Hints \union {None}, NEW length \in 0 .. MaxLen,
              NEW prot \in Prot, mmap_starts(p, hint, length, prot)
       PROVE  FInv'
  BY Zenon, <1>14, MmapStartsFacts
<1>15. ASSUME NEW p \in Pid, NEW pg \in Page, NEW v \in Value,
              store(p, pg, v) \/ copy_to_task(p, pg, v)
       PROVE  FInv'
  BY Zenon, <1>15, StoreFacts, CopyFacts
<1> QED
  BY Zenon, <1>1, <1>2, <1>3, <1>4, <1>5, <1>6, <1>7, <1>8, <1>9, <1>10, <1>11, <1>12, <1>13,
     <1>14, <1>15 DEF Next
=============================================================================
