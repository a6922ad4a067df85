---------------------------- MODULE MemFileProofs ----------------------------
(***************************************************************************)
(* Proofs about MemFile, for any files, descriptions, buffers, page size   *)
(* and limits: the charge is exact, and tmpfs files are byte sequences.    *)
(***************************************************************************)
EXTENDS MemFile, FiniteSetTheorems, SequenceTheorems, TLAPS

\* The pages of the files are functions.
Shape ==
  /\ pages = [f \in File |-> pages[f]]
  /\ \A f \in File : pages[f] = [i \in DOMAIN pages[f] |-> pages[f][i]]

\* A page holds zeros behind the end of its file.
TailZero ==
  \A f \in File : \A i \in DOMAIN pages[f] : \A j \in InPage :
    i * PAGE_SIZE + j >= size[f] => pages[f][i][j] = 0

IInv == PagesCharged /\ Shape /\ TailZero /\ IsFiniteSet(Held)

-----------------------------------------------------------------------------
(* Arithmetic of pages.                                                      *)

LEMMA DivMod ==
  ASSUME NEW a \in Nat
  PROVE  /\ a \div PAGE_SIZE \in Nat /\ a % PAGE_SIZE \in InPage
         /\ a = PAGE_SIZE * (a \div PAGE_SIZE) + (a % PAGE_SIZE)
BY MemFileAssumption DEF InPage

\* A position as a page and a place in it.
LEMMA Position ==
  ASSUME NEW x \in Nat
  PROVE  LET i == x \div PAGE_SIZE
             j == x % PAGE_SIZE
         IN  /\ i \in Nat /\ j \in InPage /\ j \in Nat
             /\ i * PAGE_SIZE \in Nat /\ i * PAGE_SIZE + j = x
<1> DEFINE i == x \div PAGE_SIZE
           j == x % PAGE_SIZE
<1>1. i \in Nat /\ j \in InPage /\ x = PAGE_SIZE * i + j
  BY DivMod
<1>2. PAGE_SIZE \in Nat /\ j \in Nat
  BY <1>1, MemFileAssumption DEF InPage
<1> HIDE DEF i, j
<1>3. i * PAGE_SIZE \in Nat /\ i * PAGE_SIZE + j = x
  BY <1>1, <1>2
<1>4. QED
  BY <1>1, <1>2, <1>3 DEF i, j

\* Up to which page positions reach.
LEMMA Reach ==
  ASSUME NEW a \in Nat, NEW i \in Int
  PROVE  i <= a \div PAGE_SIZE <=> i * PAGE_SIZE <= a
BY DivMod, MemFileAssumption DEF InPage

LEMMA MaxOfTwo ==
  ASSUME NEW a \in Nat, NEW b \in Nat
  PROVE  Max({a, b}) = IF a < b THEN b ELSE a
BY DEF Max

LEMMA MinOfTwo ==
  ASSUME NEW a \in Nat, NEW b \in Nat
  PROVE  Min({a, b}) = IF a < b THEN a ELSE b
BY DEF Min

\* The pages that a write touches.
LEMMA TouchedPages ==
  ASSUME NEW offset \in Nat, NEW n \in Nat \ {0}, offset + n <= MaxSize
  PROVE  /\ Touched(offset, n) \subseteq PageIndex
         /\ IsFiniteSet(Touched(offset, n))
         /\ \A i \in Touched(offset, n) : i \in Nat /\ i * PAGE_SIZE < offset + n
         /\ \A x \in Nat : offset <= x /\ x < offset + n
                             => x \div PAGE_SIZE \in Touched(offset, n)
<1> DEFINE low == offset \div PAGE_SIZE
           high == (offset + n - 1) \div PAGE_SIZE
<1>1. /\ offset + n - 1 \in Nat /\ low \in Nat /\ high \in Nat /\ MaxSize \in Nat
      /\ PAGE_SIZE \in Nat \ {0}
  BY DivMod, MemFileAssumption
<1>2. Touched(offset, n) = low .. high
  BY DEF Touched
<1>3. ASSUME NEW i \in low .. high
      PROVE  i \in PageIndex /\ i \in Nat /\ i * PAGE_SIZE < offset + n
  <2>1. i \in Nat /\ i <= high
    BY <1>1
  <2>2. i * PAGE_SIZE <= offset + n - 1
    BY <2>1, <1>1, Reach
  <2>3. i * PAGE_SIZE \in Nat /\ i * PAGE_SIZE <= MaxSize
    BY <2>1, <2>2, <1>1
  <2>4. i <= MaxSize \div PAGE_SIZE
    BY <2>1, <2>3, <1>1, Reach
  <2>5. QED
    BY <2>1, <2>2, <2>3, <2>4, <1>1, DivMod DEF PageIndex
<1>4. IsFiniteSet(low .. high)
  BY <1>1, FS_Interval
<1>5. ASSUME NEW x \in Nat, offset <= x, x < offset + n
      PROVE  x \div PAGE_SIZE \in low .. high
  <2>1. x \div PAGE_SIZE \in Nat
    BY DivMod
  <2>2. low * PAGE_SIZE <= offset /\ low * PAGE_SIZE <= x
    BY <1>1, <1>5, Reach
  <2>3. low <= x \div PAGE_SIZE
    BY <2>2, <1>1, Reach
  <2>4. (x \div PAGE_SIZE) * PAGE_SIZE <= x
    BY <2>1, Reach
  <2>5. (x \div PAGE_SIZE) * PAGE_SIZE <= offset + n - 1
    BY <2>1, <2>4, <1>1, <1>5
  <2>6. x \div PAGE_SIZE <= high
    BY <2>1, <2>5, <1>1, Reach
  <2>7. QED
    BY <2>1, <2>3, <2>6, <1>1
<1>6. QED
  BY <1>2, <1>3, <1>4, <1>5

-----------------------------------------------------------------------------
(* Writes.                                                                   *)

LEMMA BufferFacts ==
  ASSUME NEW buf \in Buf, NEW n \in 1 .. Len(buf)
  PROVE  /\ buf \in Seq(Nat) /\ Len(buf) \in Nat /\ n \in Nat \ {0}
         /\ Len(SubSeq(buf, 1, n)) = n
         /\ \A i \in 1 .. n : SubSeq(buf, 1, n)[i] = buf[i] /\ buf[i] \in Bytes
<1>1. buf \in Seq(Nat) /\ Len(buf) \in Nat
  BY MemFileAssumption
<1>2. n \in Nat \ {0} /\ n <= Len(buf)
  BY <1>1
<1>3. /\ Len(SubSeq(buf, 1, n)) = n
      /\ \A i \in 1 .. n : SubSeq(buf, 1, n)[i] = buf[i]
  BY <1>1, <1>2
<1>4. ASSUME NEW i \in 1 .. n
      PROVE  buf[i] \in Bytes
  <2>1. i \in DOMAIN buf
    BY <1>1, <1>2
  <2>2. QED
    BY <2>1 DEF Bytes
<1>5. QED
  BY <1>1, <1>2, <1>3, <1>4

\* A write stays within the limit on sizes, and the charge for its new pages
\* within the quota.
LEMMA WriteIsCharged ==
  ASSUME IInv, NEW f \in File, NEW offset \in Nat, NEW buf \in Buf,
         NEW written \in 1 .. Len(buf), write_data(f, offset, buf, written)
  PROVE  /\ offset + written <= MaxSize
         /\ used + Cardinality(Missing(f, offset, written)) <= PageLimit
<1> DEFINE n == Len(buf)
           fresh == Missing(f, offset, written)
<1>1. n \in Nat /\ written \in Nat \ {0} /\ written <= n /\ offset + n <= MaxSize
  BY BufferFacts DEF write_data, EndFits
<1>2. MaxSize \in Nat /\ PAGE_SIZE \in Nat \ {0}
  BY MemFileAssumption
<1>3. offset + written <= MaxSize
  BY <1>1, <1>2
<1>4. CASE written = n /\ Allowance(f, offset, n, MaxSize + 1)
  <2>1. \A i \in fresh : i < MaxSize + 1
    <3> SUFFICES ASSUME NEW i \in Touched(offset, written) PROVE i < MaxSize + 1
      BY DEF Missing
    <3>1. i \in Nat /\ i * PAGE_SIZE < offset + written
      BY <1>1, <1>3, TouchedPages
    <3>2. i <= i * PAGE_SIZE
      BY <3>1, <1>2
    <3>3. QED
      BY <3>1, <3>2, <1>1, <1>2, <1>3
  <2>2. {i \in Missing(f, offset, n) : i < MaxSize + 1} = fresh
    BY <1>4, <2>1
  <2>3. QED
    BY Zenon, <1>3, <1>4, <2>2 DEF Allowance
<1>5. ASSUME NEW stop \in Missing(f, offset, n),
             stop * PAGE_SIZE > offset, written = stop * PAGE_SIZE - offset,
             Allowance(f, offset, n, stop)
      PROVE  used + Cardinality(fresh) <= PageLimit
  <2> DEFINE low == offset \div PAGE_SIZE
             high == (offset + n - 1) \div PAGE_SIZE
  <2>0. /\ low \in Nat /\ high \in Nat /\ Touched(offset, n) = low .. high
        /\ Touched(offset, written) = low .. ((offset + written - 1) \div PAGE_SIZE)
    <3>1. offset + n - 1 \in Nat
      BY <1>1
    <3>2. QED
      BY Zenon, <3>1, DivMod DEF Touched
  <2>1. stop \in Nat /\ low <= stop /\ stop <= high
    <3>1. stop \in low .. high
      BY <2>0 DEF Missing
    <3>2. QED
      BY ONLY <2>0, <3>1
  <2>2. offset + written - 1 = stop * PAGE_SIZE - 1
    BY <1>5, <2>1, <1>1, <1>2
  <2>3. (offset + written - 1) \div PAGE_SIZE = stop - 1
    <3>1. stop * PAGE_SIZE - 1 \in Nat
      BY <1>1, <2>2
    <3>2. (stop - 1) * PAGE_SIZE <= stop * PAGE_SIZE - 1
      BY <2>1, <1>2
    <3>3. stop - 1 <= (stop * PAGE_SIZE - 1) \div PAGE_SIZE
      BY <3>1, <3>2, <2>1, Reach
    <3>4. ~(stop <= (stop * PAGE_SIZE - 1) \div PAGE_SIZE)
      BY <3>1, <2>1, <1>2, Reach
    <3>5. (stop * PAGE_SIZE - 1) \div PAGE_SIZE \in Nat
      BY <3>1, DivMod
    <3>6. QED
      BY <2>2, <3>3, <3>4, <3>5, <2>1
  <2>4. Touched(offset, written) = {i \in Touched(offset, n) : i < stop}
    <3>1. low .. (stop - 1) = {i \in low .. high : i < stop}
      BY ONLY <2>0, <2>1
    <3>2. QED
      BY <2>0, <2>3, <3>1
  <2>5. {i \in Missing(f, offset, n) : i < stop} = fresh
    BY <2>4 DEF Missing
  <2>6. QED
    BY Zenon, <1>5, <2>5 DEF Allowance
<1>6. QED
  BY <1>3, <1>4, <1>5 DEF write_data

\* What a write does to the pages: it fills those it touches and keeps the rest.
Wrote(f, offset, buf, written) ==
  /\ pages' = [g \in File |-> pages'[g]]
  /\ \A g \in File \ {f} : pages'[g] = pages[g]
  /\ pages'[f] = [i \in DOMAIN pages'[f] |-> pages'[f][i]]
  /\ DOMAIN pages'[f] = DOMAIN pages[f] \union Touched(offset, written)
  /\ \A i \in Touched(offset, written) :
       pages'[f][i] = Filled(f, i, offset, SubSeq(buf, 1, written))
  /\ \A i \in DOMAIN pages[f] \ Touched(offset, written) : pages'[f][i] = pages[f][i]

LEMMA WrittenPages ==
  ASSUME IInv, NEW f \in File, NEW offset \in Nat, NEW buf \in Buf,
         NEW written \in 1 .. Len(buf), write_data(f, offset, buf, written)
  PROVE  Wrote(f, offset, buf, written)
<1> DEFINE data == SubSeq(buf, 1, written)
           page(i) == IF i \in Touched(offset, written) THEN Filled(f, i, offset, data)
                      ELSE pages[f][i]
           new(dom) == [i \in dom |-> page(i)]
<1>1. DOMAIN pages = File
  BY DEF IInv, Shape
<1>2. pages' = [pages EXCEPT ![f] = new(DOMAIN pages[f] \union Missing(f, offset, written))]
  BY DEF write_data
<1>3. DOMAIN pages[f] \union Missing(f, offset, written)
        = DOMAIN pages[f] \union Touched(offset, written)
  BY DEF Missing
<1>4. pages' = [pages EXCEPT ![f] = new(DOMAIN pages[f] \union Touched(offset, written))]
  BY Zenon, <1>2, <1>3
<1> HIDE DEF page, new
<1>5. /\ pages' = [g \in File |-> pages'[g]]
      /\ \A g \in File \ {f} : pages'[g] = pages[g]
      /\ pages'[f] = new(DOMAIN pages[f] \union Touched(offset, written))
  BY Zenon, <1>1, <1>4
<1> DEFINE dom == DOMAIN pages[f] \union Touched(offset, written)
           touched == Touched(offset, written)
<1>6. dom = DOMAIN pages[f] \union touched /\ pages'[f] = new(dom)
  BY <1>5
<1> HIDE DEF dom, touched
<1>7. /\ pages'[f] = [i \in DOMAIN pages'[f] |-> pages'[f][i]] /\ DOMAIN pages'[f] = dom
      /\ \A i \in dom : pages'[f][i] = page(i)
  BY <1>6 DEF new
<1>8. /\ \A i \in touched : pages'[f][i] = Filled(f, i, offset, data)
      /\ \A i \in DOMAIN pages[f] \ touched : pages'[f][i] = pages[f][i]
  BY Zenon, <1>6, <1>7 DEF page, touched
<1>9. QED
  BY Zenon, <1>5, <1>6, <1>7, <1>8 DEF touched, Wrote

\* The byte of a page after a write, in terms of positions in the file.
LEMMA FilledBytes ==
  ASSUME NEW f \in File, NEW i \in Nat, NEW offset \in Nat, NEW buf \in Buf,
         NEW n \in 1 .. Len(buf), NEW j \in InPage
  PROVE  LET x == i * PAGE_SIZE + j
         IN  Filled(f, i, offset, SubSeq(buf, 1, n))[j] =
               IF offset <= x /\ x < offset + n THEN buf[x - offset + 1]
               ELSE IF i \in DOMAIN pages[f] THEN pages[f][i][j] ELSE 0
<1> DEFINE x == i * PAGE_SIZE + j
           data == SubSeq(buf, 1, n)
           old == IF i \in DOMAIN pages[f] THEN pages[f][i] ELSE Zeroed
<1>1. PAGE_SIZE \in Nat /\ j \in Nat /\ x \in Nat
  BY MemFileAssumption DEF InPage
<1>2. n \in Nat /\ Len(data) = n /\ \A k \in 1 .. n : data[k] = buf[k]
  BY BufferFacts
<1>3. Filled(f, i, offset, data)[j] =
        IF x >= offset /\ x < offset + Len(data) THEN data[x - offset + 1] ELSE old[j]
  <2> DEFINE byte(k) == IF i * PAGE_SIZE + k >= offset /\ i * PAGE_SIZE + k < offset + Len(data)
                        THEN data[i * PAGE_SIZE + k - offset + 1] ELSE old[k]
  <2>1. Filled(f, i, offset, data) = [k \in InPage |-> byte(k)]
    BY DEF Filled
  <2> HIDE DEF byte
  <2>2. Filled(f, i, offset, data)[j] = byte(j)
    BY <2>1
  <2>3. i * PAGE_SIZE + j - offset + 1 = x - offset + 1
    BY <1>1
  <2>4. QED
    BY Zenon, <2>2, <2>3 DEF byte
<1>4. old[j] = IF i \in DOMAIN pages[f] THEN pages[f][i][j] ELSE 0
  BY DEF Zeroed
<1>5. offset <= x /\ x < offset + n => x - offset + 1 \in 1 .. n
  BY <1>1, <1>2
<1> HIDE DEF x, data, old
<1>6. Filled(f, i, offset, data)[j] =
        IF offset <= x /\ x < offset + n THEN buf[x - offset + 1]
        ELSE IF i \in DOMAIN pages[f] THEN pages[f][i][j] ELSE 0
  BY <1>1, <1>2, <1>3, <1>4, <1>5
<1>7. QED
  BY <1>6 DEF x, data

LEMMA FilledPage ==
  ASSUME IInv, NEW f \in File, NEW i \in Nat, NEW offset \in Nat, NEW buf \in Buf,
         NEW n \in 1 .. Len(buf)
  PROVE  Filled(f, i, offset, SubSeq(buf, 1, n)) \in [InPage -> Bytes]
<1> DEFINE page == Filled(f, i, offset, SubSeq(buf, 1, n))
<1>1. page = [j \in InPage |-> page[j]]
  BY Zenon DEF Filled
<1>2. ASSUME NEW j \in InPage
      PROVE  page[j] \in Bytes
  <2> DEFINE x == i * PAGE_SIZE + j
  <2>1. page[j] = IF offset <= x /\ x < offset + n THEN buf[x - offset + 1]
                  ELSE IF i \in DOMAIN pages[f] THEN pages[f][i][j] ELSE 0
    BY FilledBytes
  <2>2. x \in Nat /\ n \in Nat /\ \A k \in 1 .. n : buf[k] \in Bytes
    BY BufferFacts, MemFileAssumption DEF InPage
  <2>3. i \in DOMAIN pages[f] => pages[f][i][j] \in Bytes
    BY DEF IInv, PagesCharged, TypeOK
  <2>4. 0 \in Bytes
    BY DEF Bytes
  <2> HIDE DEF x, page
  <2>5. offset <= x /\ x < offset + n => x - offset + 1 \in 1 .. n
    BY <2>2
  <2>6. QED
    BY <2>1, <2>2, <2>3, <2>4, <2>5
<1> HIDE DEF page
<1>3. page \in [InPage -> Bytes]
  BY <1>1, <1>2
<1>4. QED
  BY <1>3 DEF page

\* A set of pages of one file, as a part of the pages of all files.
LEMMA PagesOfOne ==
  ASSUME NEW f, NEW S, IsFiniteSet(S)
  PROVE  IsFiniteSet({f} \X S) /\ Cardinality({f} \X S) = Cardinality(S)
<1>1. IsFiniteSet({f}) /\ Cardinality({f}) = 1
  BY FS_Singleton
<1>2. Cardinality(S) \in Nat
  BY FS_CardinalityType
<1>3. /\ IsFiniteSet({f} \X S)
      /\ Cardinality({f} \X S) = Cardinality({f}) * Cardinality(S)
  BY <1>1, FS_Product
<1>4. QED
  BY <1>1, <1>2, <1>3

LEMMA WrittenSize ==
  ASSUME IInv, NEW f \in File, NEW offset \in Nat, NEW buf \in Buf,
         NEW written \in 1 .. Len(buf), write_data(f, offset, buf, written)
  PROVE  /\ size' \in [File -> 0 .. MaxSize]
         /\ \A g \in File \ {f} : size'[g] = size[g]
         /\ size'[f] = IF size[f] < offset + written THEN offset + written ELSE size[f]
<1> DEFINE end == offset + written
<1>1. size \in [File -> 0 .. MaxSize] /\ MaxSize \in Nat
  BY MemFileAssumption DEF IInv, PagesCharged, TypeOK
<1>2. end \in Nat /\ end <= MaxSize
  BY BufferFacts, WriteIsCharged
<1>3. size' = [size EXCEPT ![f] = Max({size[f], end})]
  BY DEF write_data
<1>4. Max({size[f], end}) = IF size[f] < end THEN end ELSE size[f]
  BY <1>1, <1>2, MaxOfTwo
<1> HIDE DEF end
<1>5. QED
  BY <1>1, <1>2, <1>3, <1>4 DEF end

LEMMA WriteKeepsPages ==
  ASSUME IInv, NEW f \in File, NEW offset \in Nat, NEW buf \in Buf,
         NEW written \in 1 .. Len(buf), write_data(f, offset, buf, written)
  PROVE  /\ Shape'
         /\ \A g \in File : /\ DOMAIN pages'[g] \subseteq PageIndex
                            /\ \A i \in DOMAIN pages'[g] :
                                 /\ pages'[g][i] \in [InPage -> Bytes]
                                 /\ i * PAGE_SIZE < size'[g]
<1> DEFINE touched == Touched(offset, written)
           data == SubSeq(buf, 1, written)
<1>1. /\ pages' = [g \in File |-> pages'[g]]
      /\ \A g \in File \ {f} : pages'[g] = pages[g]
      /\ pages'[f] = [i \in DOMAIN pages'[f] |-> pages'[f][i]]
      /\ DOMAIN pages'[f] = DOMAIN pages[f] \union touched
      /\ \A i \in touched : pages'[f][i] = Filled(f, i, offset, data)
      /\ \A i \in DOMAIN pages[f] \ touched : pages'[f][i] = pages[f][i]
  BY WrittenPages DEF Wrote
<1>2. /\ \A g \in File \ {f} : size'[g] = size[g]
      /\ size'[f] = IF size[f] < offset + written THEN offset + written ELSE size[f]
  BY WrittenSize
<1>3. /\ \A g \in File : /\ size[g] \in Nat /\ DOMAIN pages[g] \subseteq PageIndex
                         /\ \A i \in DOMAIN pages[g] : /\ pages[g][i] \in [InPage -> Bytes]
                                                       /\ i * PAGE_SIZE < size[g]
      /\ \A g \in File : pages[g] = [i \in DOMAIN pages[g] |-> pages[g][i]]
  BY MemFileAssumption DEF IInv, PagesCharged, TypeOK, Shape
<1>4. /\ touched \subseteq PageIndex
      /\ \A i \in touched : i \in Nat /\ i * PAGE_SIZE < offset + written
  BY Zenon, BufferFacts, WriteIsCharged, TouchedPages
<1>5. \A i \in touched : Filled(f, i, offset, data) \in [InPage -> Bytes]
  BY <1>4, FilledPage
<1>6. offset + written \in Nat /\ PAGE_SIZE \in Nat /\ \A i \in PageIndex : i \in Nat
  BY BufferFacts, MemFileAssumption DEF PageIndex
<1> HIDE DEF touched, data
<1>7. Shape'
  <2>1. ASSUME NEW g \in File
        PROVE  pages'[g] = [i \in DOMAIN pages'[g] |-> pages'[g][i]]
    BY Zenon, <1>1, <1>3
  <2>2. QED
    BY <1>1, <2>1 DEF Shape
<1>8. ASSUME NEW i \in DOMAIN pages'[f]
       PROVE  i \in PageIndex /\ pages'[f][i] \in [InPage -> Bytes] /\ i * PAGE_SIZE < size'[f]
  <2>1. CASE i \in touched
    <3>1. i \in PageIndex /\ pages'[f][i] \in [InPage -> Bytes]
      BY <2>1, <1>1, <1>4, <1>5
    <3>2. i * PAGE_SIZE < offset + written /\ i * PAGE_SIZE \in Nat
      BY <2>1, <1>4, <1>6
    <3>3. i * PAGE_SIZE < size'[f]
      BY <3>2, <1>2, <1>3, <1>6
    <3>4. QED
      BY <3>1, <3>3
  <2>2. CASE i \notin touched
    <3>1. i \in DOMAIN pages[f] /\ pages'[f][i] = pages[f][i]
      BY <2>2, <1>1
    <3>2. i \in PageIndex /\ pages'[f][i] \in [InPage -> Bytes] /\ i * PAGE_SIZE < size[f]
      BY <3>1, <1>3
    <3>3. i * PAGE_SIZE \in Nat
      BY <3>2, <1>6
    <3>4. i * PAGE_SIZE < size'[f]
      BY <3>2, <3>3, <1>2, <1>3, <1>6
    <3>5. QED
      BY <3>2, <3>4
  <2>3. QED
    BY <2>1, <2>2
<1>9. ASSUME NEW g \in File
       PROVE  /\ DOMAIN pages'[g] \subseteq PageIndex
              /\ \A i \in DOMAIN pages'[g] : /\ pages'[g][i] \in [InPage -> Bytes]
                                             /\ i * PAGE_SIZE < size'[g]
  <2>1. CASE g = f
    BY <2>1, <1>8
  <2>2. CASE g # f
    BY <2>2, <1>1, <1>2, <1>3
  <2>3. QED
    BY <2>1, <2>2
<1>10. QED
  BY <1>7, <1>9

\* The new pages are exactly those charged for.
LEMMA WriteKeepsCharge ==
  ASSUME IInv, NEW f \in File, NEW offset \in Nat, NEW buf \in Buf,
         NEW written \in 1 .. Len(buf), write_data(f, offset, buf, written)
  PROVE  /\ IsFiniteSet(Held') /\ used' = Cardinality(Held')
         /\ used' \in Nat /\ used' <= PageLimit
<1> DEFINE fresh == Missing(f, offset, written)
           more == {f} \X fresh
<1>1. IsFiniteSet(fresh) /\ fresh \subseteq PageIndex
  <2>1. IsFiniteSet(Touched(offset, written)) /\ Touched(offset, written) \subseteq PageIndex
    BY Zenon, BufferFacts, WriteIsCharged, TouchedPages
  <2>2. fresh \subseteq Touched(offset, written)
    BY DEF Missing
  <2>3. QED
    BY <2>1, <2>2, FS_Subset
<1>2. IsFiniteSet(more) /\ Cardinality(more) = Cardinality(fresh)
  BY Zenon, <1>1, PagesOfOne
<1>3. Held' = Held \union more
  <2>1. /\ \A g \in File \ {f} : pages'[g] = pages[g]
        /\ DOMAIN pages'[f] = DOMAIN pages[f] \union Touched(offset, written)
    BY Zenon, WrittenPages DEF Wrote
  <2>2. DOMAIN pages'[f] = DOMAIN pages[f] \union fresh
    BY <2>1 DEF Missing
  <2> HIDE DEF fresh
  <2>3. QED
    BY <2>1, <2>2, <1>1 DEF Held
<1>4. Held \intersect more = {}
  BY DEF Held, Missing
<1>5. IsFiniteSet(Held) /\ used = Cardinality(Held) /\ used \in Nat
  BY DEF IInv, PagesCharged, TypeOK
<1>6. /\ IsFiniteSet(Held \union more)
      /\ Cardinality(Held \union more) =
           Cardinality(Held) + Cardinality(more) - Cardinality(Held \intersect more)
  BY <1>2, <1>5, FS_Union
<1>7. Cardinality(more) \in Nat /\ Cardinality(Held \intersect more) = 0
  BY Zenon, <1>2, <1>4, FS_CardinalityType, FS_EmptySet
<1>8. used' = used + Cardinality(fresh)
  BY DEF write_data
<1>9. used + Cardinality(fresh) <= PageLimit
  BY WriteIsCharged
<1> HIDE DEF fresh, more
<1>10. QED
  BY <1>2, <1>3, <1>5, <1>6, <1>7, <1>8, <1>9

LEMMA WriteKeepsTail ==
  ASSUME IInv, NEW f \in File, NEW offset \in Nat, NEW buf \in Buf,
         NEW written \in 1 .. Len(buf), write_data(f, offset, buf, written)
  PROVE  TailZero'
<1>1. Wrote(f, offset, buf, written)
  BY WrittenPages
<1>2. /\ \A h \in File \ {f} : size'[h] = size[h]
      /\ size'[f] = IF size[f] < offset + written THEN offset + written ELSE size[f]
  BY WrittenSize
<1> SUFFICES ASSUME NEW g \in File, NEW i \in DOMAIN pages'[g], NEW j \in InPage,
                    i * PAGE_SIZE + j >= size'[g]
             PROVE  pages'[g][i][j] = 0
  BY DEF TailZero
<1>3. /\ size[g] \in Nat /\ size'[g] \in Nat /\ offset + written \in Nat /\ PAGE_SIZE \in Nat
      /\ written \in Nat
  BY BufferFacts, WrittenSize, MemFileAssumption DEF IInv, PagesCharged, TypeOK
<1>4. i \in PageIndex /\ i \in Nat /\ j \in Nat /\ i * PAGE_SIZE + j \in Nat
  <2>1. i \in PageIndex
    BY WriteKeepsPages
  <2>2. i \in Nat /\ j \in Nat
    BY <2>1, MemFileAssumption DEF PageIndex, InPage
  <2>3. QED
    BY <2>1, <2>2, <1>3
<1>5. size[g] <= size'[g]
  BY <1>2, <1>3
<1>6. i \in DOMAIN pages[g] => pages[g][i][j] = 0
  <2>1. i * PAGE_SIZE + j >= size[g]
    BY <1>2, <1>3, <1>4, <1>5
  <2>2. QED
    BY <2>1 DEF IInv, TailZero
<1>7. CASE g # f
  BY <1>1, <1>6, <1>7 DEF Wrote
<1>8. CASE g = f /\ i \in Touched(offset, written)
  <2>1. i * PAGE_SIZE + j >= offset + written
    BY <1>2, <1>3, <1>4, <1>8
  <2>2. ~(i * PAGE_SIZE + j < offset + written)
    BY <2>1, <1>3, <1>4
  <2>3. Filled(f, i, offset, SubSeq(buf, 1, written))[j] =
          IF i \in DOMAIN pages[f] THEN pages[f][i][j] ELSE 0
    BY <2>2, <1>4, FilledBytes
  <2>4. QED
    BY <2>3, <1>1, <1>6, <1>8 DEF Wrote
<1>9. CASE g = f /\ i \notin Touched(offset, written)
  BY <1>1, <1>6, <1>9 DEF Wrote
<1>10. QED
  BY <1>7, <1>8, <1>9

LEMMA WriteKeeps ==
  ASSUME IInv, NEW d \in Fd, NEW buf \in Buf, write(d, buf)
  PROVE  IInv'
<1> DEFINE f == FileOf[d]
           offset == WriteOffset(d)
<1>1. PICK written \in 1 .. Len(buf) :
        /\ write_data(f, offset, buf, written)
        /\ cursor' = [cursor EXCEPT ![d] = offset + written]
  BY Zenon DEF write
<1>2. append' = append
  BY DEF write
<1>3. f \in File /\ offset \in Nat
  BY MemFileAssumption DEF WriteOffset, IInv, PagesCharged, TypeOK
<1> HIDE DEF f, offset
<1>4. /\ Shape'
      /\ \A g \in File : /\ DOMAIN pages'[g] \subseteq PageIndex
                         /\ \A i \in DOMAIN pages'[g] : /\ pages'[g][i] \in [InPage -> Bytes]
                                                        /\ i * PAGE_SIZE < size'[g]
  BY <1>1, <1>3, WriteKeepsPages
<1>5. size' \in [File -> 0 .. MaxSize]
  BY <1>1, <1>3, WrittenSize
<1>6. /\ IsFiniteSet(Held') /\ used' = Cardinality(Held')
      /\ used' \in Nat /\ used' <= PageLimit
  BY <1>1, <1>3, WriteKeepsCharge
<1>7. TailZero'
  BY <1>1, <1>3, WriteKeepsTail
<1>8. cursor' \in [Fd -> 0 .. MaxSize] /\ append' \in [Fd -> BOOLEAN]
  <2>1. offset + written \in 0 .. MaxSize
    BY <1>1, <1>3, WriteIsCharged, BufferFacts, MemFileAssumption
  <2>2. QED
    BY <1>1, <1>2, <2>1 DEF IInv, PagesCharged, TypeOK
<1>9. TypeOK'
  BY <1>4, <1>5, <1>6, <1>8 DEF TypeOK
<1>10. QED
  BY <1>4, <1>6, <1>7, <1>9 DEF IInv, PagesCharged

-----------------------------------------------------------------------------
(* Truncations.                                                              *)

\* What a truncation that makes a file shorter does to its pages.
Cut(f, new_size) ==
  LET kept == DOMAIN pages[f] \intersect KeptPages(new_size)
  IN  /\ pages' = [g \in File |-> pages'[g]]
      /\ \A g \in File \ {f} : pages'[g] = pages[g]
      /\ pages'[f] = [i \in kept |-> pages'[f][i]] /\ DOMAIN pages'[f] = kept
      /\ \A i \in kept :
           pages'[f][i] = IF i = new_size \div PAGE_SIZE /\ new_size % PAGE_SIZE # 0
                          THEN CutTail(pages[f][i], new_size % PAGE_SIZE) ELSE pages[f][i]

LEMMA CutPages ==
  ASSUME IInv, NEW f \in File, NEW n \in 0 .. MaxSize, truncate(f, n), n < size[f]
  PROVE  Cut(f, n)
<1> DEFINE kept == DOMAIN pages[f] \intersect KeptPages(n)
           page(i) == IF i = n \div PAGE_SIZE /\ n % PAGE_SIZE # 0
                      THEN CutTail(pages[f][i], n % PAGE_SIZE) ELSE pages[f][i]
           new == [i \in kept |-> page(i)]
<1>1. DOMAIN pages = File
  BY DEF IInv, Shape
<1>2. pages' = [pages EXCEPT ![f] = new]
  BY DEF truncate
<1> HIDE DEF new
<1>3. /\ pages' = [g \in File |-> pages'[g]]
      /\ \A g \in File \ {f} : pages'[g] = pages[g]
      /\ pages'[f] = new
  BY Zenon, <1>1, <1>2
<1> HIDE DEF page, kept
<1>4. /\ pages'[f] = [i \in kept |-> pages'[f][i]] /\ DOMAIN pages'[f] = kept
      /\ \A i \in kept : pages'[f][i] = page(i)
  BY <1>3 DEF new
<1>5. QED
  BY Zenon, <1>3, <1>4 DEF Cut, page, kept

LEMMA CutKeepsPages ==
  ASSUME IInv, NEW f \in File, NEW n \in 0 .. MaxSize, truncate(f, n), n < size[f]
  PROVE  /\ Shape'
         /\ \A g \in File : /\ DOMAIN pages'[g] \subseteq PageIndex
                            /\ \A i \in DOMAIN pages'[g] :
                                 /\ pages'[g][i] \in [InPage -> Bytes]
                                 /\ i * PAGE_SIZE < size'[g]
<1> DEFINE kept == DOMAIN pages[f] \intersect KeptPages(n)
<1>1. Cut(f, n)
  BY CutPages
<1>2. \A g \in File : size'[g] = IF g = f THEN n ELSE size[g]
  BY DEF truncate, IInv, PagesCharged, TypeOK
<1>3. /\ \A g \in File : /\ DOMAIN pages[g] \subseteq PageIndex
                         /\ \A i \in DOMAIN pages[g] : /\ pages[g][i] \in [InPage -> Bytes]
                                                       /\ i * PAGE_SIZE < size[g]
      /\ \A g \in File : pages[g] = [i \in DOMAIN pages[g] |-> pages[g][i]]
  BY DEF IInv, PagesCharged, TypeOK, Shape
<1>4. \A page \in [InPage -> Bytes], from \in InPage : CutTail(page, from) \in [InPage -> Bytes]
  BY DEF CutTail, Bytes
<1>5. n % PAGE_SIZE \in InPage
  BY DivMod, MemFileAssumption
<1>6. \A i \in kept : i * PAGE_SIZE < n
  BY DEF KeptPages
<1>7. \A i \in kept : pages'[f][i] \in [InPage -> Bytes]
  <2> SUFFICES ASSUME NEW i \in kept PROVE pages'[f][i] \in [InPage -> Bytes]
    OBVIOUS
  <2>1. pages[f][i] \in [InPage -> Bytes]
    BY <1>3
  <2>2. CutTail(pages[f][i], n % PAGE_SIZE) \in [InPage -> Bytes]
    BY <2>1, <1>4, <1>5
  <2>3. pages'[f][i] \in {CutTail(pages[f][i], n % PAGE_SIZE), pages[f][i]}
    BY Zenon, <1>1 DEF Cut
  <2>4. QED
    BY ONLY <2>1, <2>2, <2>3
<1>8. Shape'
  <2>1. ASSUME NEW g \in File
        PROVE  pages'[g] = [i \in DOMAIN pages'[g] |-> pages'[g][i]]
    BY Zenon, <1>1, <1>3 DEF Cut
  <2>2. QED
    BY <1>1, <2>1 DEF Shape, Cut
<1>9. ASSUME NEW g \in File
      PROVE  /\ DOMAIN pages'[g] \subseteq PageIndex
             /\ \A i \in DOMAIN pages'[g] : /\ pages'[g][i] \in [InPage -> Bytes]
                                            /\ i * PAGE_SIZE < size'[g]
  <2>1. CASE g = f
    BY Zenon, <2>1, <1>1, <1>2, <1>3, <1>6, <1>7 DEF Cut
  <2>2. CASE g # f
    BY <2>2, <1>1, <1>2, <1>3 DEF Cut
  <2>3. QED
    BY <2>1, <2>2
<1>10. QED
  BY <1>8, <1>9

LEMMA CutKeepsCharge ==
  ASSUME IInv, NEW f \in File, NEW n \in 0 .. MaxSize, truncate(f, n), n < size[f]
  PROVE  /\ IsFiniteSet(Held') /\ used' = Cardinality(Held')
         /\ used' \in Nat /\ used' <= PageLimit
<1> DEFINE kept == DOMAIN pages[f] \intersect KeptPages(n)
           gone == DOMAIN pages[f] \ kept
           less == {f} \X gone
<1>1. IsFiniteSet(Held) /\ used = Cardinality(Held) /\ used \in Nat /\ used <= PageLimit
  BY DEF IInv, PagesCharged, TypeOK
<1>2. DOMAIN pages[f] \subseteq PageIndex
  BY DEF IInv, PagesCharged, TypeOK
<1>3. IsFiniteSet(gone)
  <2>1. gone \subseteq 0 .. (MaxSize \div PAGE_SIZE)
    BY <1>2 DEF PageIndex
  <2>2. IsFiniteSet(0 .. (MaxSize \div PAGE_SIZE))
    BY FS_Interval, DivMod, MemFileAssumption
  <2>3. QED
    BY Zenon, <2>1, <2>2, FS_Subset
<1>4. IsFiniteSet(less) /\ Cardinality(less) = Cardinality(gone)
  BY Zenon, <1>3, PagesOfOne
<1>5. Held' = Held \ less
  <2>1. Cut(f, n)
    BY CutPages
  <2>2. DOMAIN pages'[f] = DOMAIN pages[f] \ gone /\ \A g \in File \ {f} : pages'[g] = pages[g]
    BY <2>1 DEF Cut
  <2> HIDE DEF gone
  <2>3. QED
    BY <2>2 DEF Held
<1>6. Held \intersect less = less
  BY <1>2 DEF Held
<1>7. used' = used - Cardinality(gone)
  BY DEF truncate
<1> HIDE DEF gone, less
<1>8. IsFiniteSet(Held \ less)
  BY Zenon, <1>1, FS_Difference
<1>9. Cardinality(Held \ less) = Cardinality(Held) - Cardinality(Held \intersect less)
  BY Zenon, <1>1, FS_Difference
<1>10. used' = Cardinality(Held')
  BY <1>1, <1>4, <1>5, <1>6, <1>7, <1>9
<1>11. Cardinality(Held') \in Nat /\ Cardinality(less) \in Nat
  BY <1>4, <1>5, <1>8, FS_CardinalityType
<1>12. used' <= PageLimit
  BY <1>1, <1>4, <1>7, <1>10, <1>11, MemFileAssumption
<1>13. QED
  BY <1>5, <1>8, <1>10, <1>11, <1>12

LEMMA CutKeepsTail ==
  ASSUME IInv, NEW f \in File, NEW n \in 0 .. MaxSize, truncate(f, n), n < size[f]
  PROVE  TailZero'
<1>1. Cut(f, n)
  BY CutPages
<1>2. \A g \in File : size'[g] = IF g = f THEN n ELSE size[g]
  BY DEF truncate, IInv, PagesCharged, TypeOK
<1>3. n \in Nat /\ PAGE_SIZE \in Nat \ {0}
  BY MemFileAssumption
<1> SUFFICES ASSUME NEW g \in File, NEW i \in DOMAIN pages'[g], NEW j \in InPage,
                    i * PAGE_SIZE + j >= size'[g]
             PROVE  pages'[g][i][j] = 0
  BY DEF TailZero
<1>4. CASE g # f
  <2>1. pages'[g] = pages[g] /\ size'[g] = size[g]
    BY <1>1, <1>2, <1>4 DEF Cut
  <2>2. QED
    BY <2>1 DEF IInv, TailZero
<1>5. CASE g = f
  <2>1. i \in DOMAIN pages[f] \intersect KeptPages(n)
    BY <1>1, <1>5 DEF Cut
  <2>2. i \in Nat /\ i * PAGE_SIZE < n
    BY <2>1, <1>3, MemFileAssumption DEF KeptPages, PageIndex
  <2>3. j \in Nat /\ j < PAGE_SIZE /\ i * PAGE_SIZE + j >= n
    BY <1>2, <1>3, <1>5 DEF InPage
  <2>4. i = n \div PAGE_SIZE
    <3>1. i <= n \div PAGE_SIZE
      BY <2>2, <1>3, Reach
    <3>2. (i + 1) * PAGE_SIZE > n
      BY <2>2, <2>3, <1>3
    <3>3. ~(i + 1 <= n \div PAGE_SIZE)
      BY <3>2, <2>2, <1>3, Reach
    <3>4. n \div PAGE_SIZE \in Nat
      BY <1>3, DivMod
    <3>5. QED
      BY ONLY <3>1, <3>3, <3>4, <2>2
  <2>5. n % PAGE_SIZE # 0 /\ j >= n % PAGE_SIZE
    <3>1. n % PAGE_SIZE \in Nat /\ n = i * PAGE_SIZE + (n % PAGE_SIZE)
      BY <2>2, <2>4, <1>3, DivMod DEF InPage
    <3>2. i * PAGE_SIZE \in Nat
      BY <2>2, <1>3
    <3>3. QED
      BY ONLY <3>1, <3>2, <2>2, <2>3, <1>3
  <2>6. pages'[f][i] = CutTail(pages[f][i], n % PAGE_SIZE)
    BY Zenon, <1>1, <2>1, <2>4, <2>5 DEF Cut
  <2>7. CutTail(pages[f][i], n % PAGE_SIZE)[j] = 0
    BY <2>5 DEF CutTail
  <2>8. QED
    BY <1>5, <2>6, <2>7
<1>6. QED
  BY <1>4, <1>5

LEMMA TruncateKeeps ==
  ASSUME IInv, NEW f \in File, NEW n \in 0 .. MaxSize, truncate(f, n)
  PROVE  IInv'
<1>1. cursor' = cursor /\ append' = append /\ size' = [size EXCEPT ![f] = n]
  BY DEF truncate
<1>2. /\ size \in [File -> 0 .. MaxSize] /\ MaxSize \in Nat
      /\ cursor \in [Fd -> 0 .. MaxSize] /\ append \in [Fd -> BOOLEAN]
  BY MemFileAssumption DEF IInv, PagesCharged, TypeOK
<1>3. size' \in [File -> 0 .. MaxSize]
  BY <1>1, <1>2
<1>4. CASE n < size[f]
  <2>1. /\ Shape'
        /\ \A g \in File : /\ DOMAIN pages'[g] \subseteq PageIndex
                           /\ \A i \in DOMAIN pages'[g] :
                                /\ pages'[g][i] \in [InPage -> Bytes]
                                /\ i * PAGE_SIZE < size'[g]
    BY <1>4, CutKeepsPages
  <2>2. /\ IsFiniteSet(Held') /\ used' = Cardinality(Held')
        /\ used' \in Nat /\ used' <= PageLimit
    BY <1>4, CutKeepsCharge
  <2>3. TailZero'
    BY <1>4, CutKeepsTail
  <2>4. TypeOK'
    BY <1>1, <1>2, <1>3, <2>1, <2>2 DEF TypeOK
  <2>5. QED
    BY <2>1, <2>2, <2>3, <2>4 DEF IInv, PagesCharged
<1>5. CASE ~(n < size[f])
  <2>1. pages' = pages /\ used' = used
    BY <1>5 DEF truncate
  <2>2. \A g \in File : size[g] \in Nat /\ size'[g] \in Nat /\ size[g] <= size'[g]
    BY <1>1, <1>2, <1>5
  <2>3. /\ \A i \in PageIndex : i * PAGE_SIZE \in Nat
        /\ \A i \in PageIndex, j \in InPage : i * PAGE_SIZE + j \in Nat
    BY MemFileAssumption DEF PageIndex, InPage
  <2>4. \A g \in File : \A i \in DOMAIN pages[g] : i \in PageIndex /\ i * PAGE_SIZE < size[g]
    BY DEF IInv, PagesCharged, TypeOK
  <2>5. TypeOK'
    BY <1>1, <1>2, <1>3, <2>1 DEF IInv, PagesCharged, TypeOK
  <2>6. \A g \in File : \A i \in DOMAIN pages'[g] : i * PAGE_SIZE < size'[g]
    BY <2>1, <2>2, <2>3, <2>4
  <2>7. Shape' /\ Held' = Held
    BY <2>1 DEF IInv, Shape, Held
  <2>8. TailZero'
    <3> SUFFICES ASSUME NEW g \in File, NEW i \in DOMAIN pages[g], NEW j \in InPage,
                        i * PAGE_SIZE + j >= size'[g]
                 PROVE  pages[g][i][j] = 0
      BY <2>1 DEF TailZero
    <3>1. i * PAGE_SIZE + j >= size[g]
      BY <2>2, <2>3, <2>4
    <3>2. QED
      BY <3>1 DEF IInv, TailZero
  <2>9. QED
    BY <2>1, <2>5, <2>6, <2>7, <2>8 DEF IInv, PagesCharged
<1>6. QED
  BY <1>4, <1>5

-----------------------------------------------------------------------------
LEMMA CursorKeeps ==
  ASSUME IInv, UNCHANGED <<size, pages, used>>,
         cursor' \in [Fd -> 0 .. MaxSize], append' \in [Fd -> BOOLEAN]
  PROVE  IInv'
<1>1. TypeOK'
  BY DEF IInv, PagesCharged, TypeOK
<1>2. Shape' /\ TailZero' /\ Held' = Held
  BY DEF IInv, Shape, TailZero, Held
<1>3. QED
  BY <1>1, <1>2 DEF IInv, PagesCharged

LEMMA ReadKeeps ==
  ASSUME IInv, NEW d \in Fd, NEW n \in 0 .. MaxSize, read(d, n)
  PROVE  IInv'
<1> DEFINE f == FileOf[d]
           left == IF cursor[d] <= size[f] THEN size[f] - cursor[d] ELSE 0
<1>1. /\ f \in File /\ MaxSize \in Nat /\ n \in Nat
      /\ size[f] \in 0 .. MaxSize /\ cursor \in [Fd -> 0 .. MaxSize]
      /\ append \in [Fd -> BOOLEAN]
  BY MemFileAssumption DEF IInv, PagesCharged, TypeOK
<1>2. left \in Nat /\ cursor[d] \in Nat
  BY <1>1
<1>3. Count(f, cursor[d], n) = IF n < left THEN n ELSE left
  BY <1>1, <1>2, MinOfTwo DEF Count
<1>4. cursor[d] + Count(f, cursor[d], n) \in 0 .. MaxSize
  BY <1>1, <1>2, <1>3
<1>5. /\ cursor' = [cursor EXCEPT ![d] = cursor[d] + Count(f, cursor[d], n)]
      /\ UNCHANGED <<size, pages, used, append>>
  BY DEF read
<1>6. cursor' \in [Fd -> 0 .. MaxSize] /\ append' \in [Fd -> BOOLEAN]
  BY <1>1, <1>4, <1>5
<1>7. QED
  BY <1>5, <1>6, CursorKeeps

LEMMA SeekKeeps ==
  ASSUME IInv, NEW d \in Fd, NEW base \in {"start", "current", "end"},
         NEW delta \in 0 .. MaxSize, NEW back \in BOOLEAN, seek(d, base, delta, back)
  PROVE  IInv'
<1> DEFINE from == CASE base = "start" -> 0
                     [] base = "current" -> cursor[d]
                     [] base = "end" -> size[FileOf[d]]
           to == IF back THEN from - delta ELSE from + delta
<1>1. /\ FileOf[d] \in File /\ MaxSize \in Nat
      /\ size[FileOf[d]] \in 0 .. MaxSize /\ cursor \in [Fd -> 0 .. MaxSize]
      /\ append \in [Fd -> BOOLEAN]
  BY MemFileAssumption DEF IInv, PagesCharged, TypeOK
<1>2. from \in 0 .. MaxSize
  BY <1>1
<1>3. /\ IF back THEN delta <= from ELSE from + delta <= MaxSize
      /\ cursor' = [cursor EXCEPT ![d] = to]
      /\ UNCHANGED <<size, pages, used, append>>
  BY DEF seek
<1> HIDE DEF from
<1>4. to \in 0 .. MaxSize
  BY <1>1, <1>2, <1>3
<1>5. cursor' \in [Fd -> 0 .. MaxSize] /\ append' \in [Fd -> BOOLEAN]
  BY <1>1, <1>3, <1>4
<1>6. QED
  BY <1>3, <1>5, CursorKeeps

LEMMA InitHolds == Init => IInv
<1> SUFFICES ASSUME Init PROVE IInv
  OBVIOUS
<1>1. \A f \in File : size[f] = 0 /\ DOMAIN pages[f] = {}
  BY DEF Init
<1>2. Held = {}
  BY <1>1 DEF Held
<1>3. IsFiniteSet(Held) /\ Cardinality(Held) = 0
  BY <1>2, FS_EmptySet
<1>4. TypeOK
  BY <1>1, MemFileAssumption DEF Init, TypeOK
<1>5. Shape
  <2>1. ASSUME NEW f \in File
        PROVE  pages[f] = [i \in DOMAIN pages[f] |-> pages[f][i]]
    BY DEF Init
  <2>2. pages = [f \in File |-> pages[f]]
    BY DEF Init
  <2>3. QED
    BY <2>1, <2>2 DEF Shape
<1>6. used = 0 /\ PageLimit \in Nat
  BY MemFileAssumption DEF Init
<1>7. QED
  BY <1>1, <1>3, <1>4, <1>5, <1>6 DEF IInv, PagesCharged, TailZero

LEMMA NextKeeps == IInv /\ [Next]_vars => IInv'
<1> SUFFICES ASSUME IInv, [Next]_vars PROVE IInv'
  OBVIOUS
<1>1. CASE \E d \in Fd, buf \in Buf : write(d, buf)
  BY <1>1, WriteKeeps
<1>2. CASE \E d \in Fd : \E n \in 0 .. MaxSize : read(d, n)
  BY <1>2, ReadKeeps
<1>3. CASE \E d \in Fd : \E base \in {"start", "current", "end"}, delta \in 0 .. MaxSize,
                           back \in BOOLEAN : seek(d, base, delta, back)
  BY <1>3, SeekKeeps
<1>4. CASE \E d \in Fd : \E flag \in BOOLEAN : set_append(d, flag)
  BY <1>4, CursorKeeps DEF set_append, IInv, PagesCharged, TypeOK
<1>5. CASE \E f \in File, n \in 0 .. MaxSize : truncate(f, n)
  BY <1>5, TruncateKeeps
<1>6. CASE UNCHANGED vars
  BY <1>6, CursorKeeps DEF vars, IInv, PagesCharged, TypeOK
<1>7. QED
  BY <1>1, <1>2, <1>3, <1>4, <1>5, <1>6 DEF Next

\* For any files, page size, quota and sequence of writes, appends, seeks and
\* truncations: the mount is charged for exactly the pages that exist, within its
\* limit, and no file keeps a page behind its end (Shared::reserve, write and
\* truncate of MemoryInode).
THEOREM QuotaExact == Spec => []PagesCharged
<1>1. IInv => PagesCharged
  BY DEF IInv
<1>2. QED
  BY <1>1, InitHolds, NextKeeps, PTL DEF Spec

-----------------------------------------------------------------------------
(* What readers see.                                                         *)

LEMMA ContentFacts ==
  ASSUME IInv, NEW f \in File
  PROVE  /\ size[f] \in Nat /\ size[f] <= MaxSize
         /\ content[f] = [i \in 1 .. size[f] |-> ByteAt(f, i - 1)]
         /\ Len(content[f]) = size[f]
<1>1. size[f] \in Nat /\ size[f] <= MaxSize
  BY MemFileAssumption DEF IInv, PagesCharged, TypeOK
<1>2. content[f] = [i \in 1 .. size[f] |-> ByteAt(f, i - 1)]
  BY DEF content
<1>3. Len(content[f]) = size[f]
  BY <1>1, <1>2
<1>4. QED
  BY <1>1, <1>2, <1>3

LEMMA ZeroBehindEnd ==
  ASSUME IInv, NEW f \in File, NEW x \in Nat, x >= size[f]
  PROVE  ByteAt(f, x) = 0
<1> DEFINE i == x \div PAGE_SIZE
           j == x % PAGE_SIZE
<1>1. i \in Nat /\ j \in InPage /\ i * PAGE_SIZE + j = x
  BY Position
<1>2. i \in DOMAIN pages[f] => pages[f][i][j] = 0
  <2> HIDE DEF i, j
  <2>1. QED
    BY <1>1 DEF IInv, TailZero
<1>3. QED
  BY <1>2 DEF ByteAt

\* A write changes the bytes it writes, and no other byte of any file.
LEMMA BytesAfterWrite ==
  ASSUME IInv, NEW f \in File, NEW offset \in Nat, NEW buf \in Buf,
         NEW written \in 1 .. Len(buf), write_data(f, offset, buf, written), NEW x \in Nat
  PROVE  /\ ByteAt(f, x)' = IF offset <= x /\ x < offset + written
                            THEN buf[x - offset + 1] ELSE ByteAt(f, x)
         /\ \A g \in File \ {f} : ByteAt(g, x)' = ByteAt(g, x)
<1> DEFINE i == x \div PAGE_SIZE
           j == x % PAGE_SIZE
           touched == Touched(offset, written)
<1>1. Wrote(f, offset, buf, written)
  BY WrittenPages
<1>2. i \in Nat /\ j \in InPage /\ i * PAGE_SIZE + j = x
  BY Zenon, Position
<1>3. offset <= x /\ x < offset + written => i \in touched
  BY Zenon, BufferFacts, WriteIsCharged, TouchedPages
<1>4. ByteAt(f, x)' = IF i \in DOMAIN pages'[f] THEN pages'[f][i][j] ELSE 0
  BY DEF ByteAt
<1>5. ByteAt(f, x) = IF i \in DOMAIN pages[f] THEN pages[f][i][j] ELSE 0
  BY DEF ByteAt
<1>6. \A g \in File \ {f} : ByteAt(g, x)' = ByteAt(g, x)
  BY <1>1 DEF Wrote, ByteAt
<1> HIDE DEF i, j
<1>7. CASE i \in touched
  <2>1. i \in DOMAIN pages'[f]
        /\ pages'[f][i] = Filled(f, i, offset, SubSeq(buf, 1, written))
    BY <1>1, <1>7 DEF Wrote
  <2>2. Filled(f, i, offset, SubSeq(buf, 1, written))[j] =
          IF offset <= x /\ x < offset + written THEN buf[x - offset + 1]
          ELSE IF i \in DOMAIN pages[f] THEN pages[f][i][j] ELSE 0
    BY <1>2, FilledBytes
  <2>3. QED
    BY <1>4, <1>5, <1>6, <2>1, <2>2
<1>8. CASE i \notin touched
  <2>1. /\ i \in DOMAIN pages'[f] <=> i \in DOMAIN pages[f]
        /\ i \in DOMAIN pages[f] => pages'[f][i] = pages[f][i]
    BY <1>1, <1>8 DEF Wrote
  <2>2. QED
    BY <1>3, <1>4, <1>5, <1>6, <1>8, <2>1
<1>9. QED
  BY <1>7, <1>8

\* A truncation keeps the bytes before the new end.
LEMMA BytesAfterCut ==
  ASSUME IInv, NEW f \in File, NEW n \in 0 .. MaxSize, truncate(f, n), n < size[f],
         NEW x \in Nat
  PROVE  /\ x < n => ByteAt(f, x)' = ByteAt(f, x)
         /\ \A g \in File \ {f} : ByteAt(g, x)' = ByteAt(g, x)
<1> DEFINE i == x \div PAGE_SIZE
           j == x % PAGE_SIZE
           kept == DOMAIN pages[f] \intersect KeptPages(n)
<1>1. Cut(f, n)
  BY CutPages
<1>2. i \in Nat /\ j \in InPage /\ i * PAGE_SIZE + j = x /\ i * PAGE_SIZE \in Nat /\ j \in Nat
  BY Zenon, Position
<1>3. n \in Nat /\ n % PAGE_SIZE \in Nat /\ n = PAGE_SIZE * (n \div PAGE_SIZE) + (n % PAGE_SIZE)
  BY DivMod, MemFileAssumption DEF InPage
<1>4. ByteAt(f, x)' = IF i \in DOMAIN pages'[f] THEN pages'[f][i][j] ELSE 0
  BY DEF ByteAt
<1>5. ByteAt(f, x) = IF i \in DOMAIN pages[f] THEN pages[f][i][j] ELSE 0
  BY DEF ByteAt
<1>6. \A g \in File \ {f} : ByteAt(g, x)' = ByteAt(g, x)
  BY <1>1 DEF Cut, ByteAt
<1>7. DOMAIN pages[f] \subseteq PageIndex /\ PAGE_SIZE \in Nat
  BY MemFileAssumption DEF IInv, PagesCharged, TypeOK
<1> HIDE DEF i, j
<1>8. ASSUME x < n PROVE ByteAt(f, x)' = ByteAt(f, x)
  <2>1. i * PAGE_SIZE < n
    BY <1>2, <1>3, <1>8
  <2>2. i \in DOMAIN pages'[f] <=> i \in DOMAIN pages[f]
    BY <1>1, <1>7, <2>1 DEF Cut, KeptPages
  <2>3. ASSUME i \in DOMAIN pages[f] PROVE pages'[f][i][j] = pages[f][i][j]
    <3>1. i \in kept
      BY <1>7, <2>1, <2>3 DEF KeptPages
    <3>2. pages'[f][i] = IF i = n \div PAGE_SIZE /\ n % PAGE_SIZE # 0
                         THEN CutTail(pages[f][i], n % PAGE_SIZE) ELSE pages[f][i]
      BY <1>1, <3>1 DEF Cut
    <3>3. ASSUME i = n \div PAGE_SIZE PROVE ~(j >= n % PAGE_SIZE)
      BY <1>2, <1>3, <1>7, <1>8, <3>3
    <3>4. i = n \div PAGE_SIZE => CutTail(pages[f][i], n % PAGE_SIZE)[j] = pages[f][i][j]
      BY <3>3, <1>2 DEF CutTail
    <3>5. QED
      BY <3>2, <3>4
  <2>4. QED
    BY <1>4, <1>5, <2>2, <2>3
<1>9. QED
  BY <1>6, <1>8

-----------------------------------------------------------------------------
(* The refinement.                                                           *)

\* Contents that differ in one file, compared byte by byte.
LEMMA NewContent ==
  ASSUME IInv, NEW f \in File, NEW new, NEW n \in Nat,
         new = [i \in 1 .. n |-> new[i]], size'[f] = n,
         \A i \in 1 .. n : ByteAt(f, i - 1)' = new[i],
         \A g \in File \ {f} : /\ size'[g] = size[g]
                               /\ \A x \in Nat : ByteAt(g, x)' = ByteAt(g, x)
  PROVE  content' = [content EXCEPT ![f] = new]
<1>1. content' = [g \in File |-> [i \in 1 .. size'[g] |-> ByteAt(g, i - 1)']]
  BY DEF content
<1>2. content = [g \in File |-> content[g]]
  BY DEF content
<1>3. [i \in 1 .. size'[f] |-> ByteAt(f, i - 1)'] = new
  BY Zenon
<1>4. ASSUME NEW g \in File \ {f}
      PROVE  [i \in 1 .. size'[g] |-> ByteAt(g, i - 1)'] = content[g]
  <2>1. content[g] = [i \in 1 .. size[g] |-> ByteAt(g, i - 1)]
    BY ContentFacts
  <2>2. ASSUME NEW i \in 1 .. size[g]
        PROVE  ByteAt(g, i - 1)' = ByteAt(g, i - 1)
    <3>1. size[g] \in Nat
      BY Zenon, ContentFacts
    <3>2. i - 1 \in Nat
      BY <3>1
    <3>3. QED
      BY <3>2
  <2>3. QED
    BY <2>1, <2>2
<1>5. QED
  BY Zenon, <1>1, <1>2, <1>3, <1>4

LEMMA WriteRefines ==
  ASSUME IInv, NEW f \in File, NEW offset \in Nat, NEW buf \in Buf,
         NEW n \in 1 .. Len(buf), write_data(f, offset, buf, n)
  PROVE  content' = [content EXCEPT ![f] =
                       BF!Overwrite(content[f], offset, SubSeq(buf, 1, n))]
<1> DEFINE data == SubSeq(buf, 1, n)
           old == content[f]
           new == BF!Overwrite(old, offset, data)
           top == IF size[f] < offset + n THEN offset + n ELSE size[f]
<1>1. /\ size[f] \in Nat /\ old = [i \in 1 .. size[f] |-> ByteAt(f, i - 1)]
      /\ Len(old) = size[f]
  BY ContentFacts
<1>2. n \in Nat \ {0} /\ Len(data) = n /\ \A i \in 1 .. n : data[i] = buf[i]
  BY BufferFacts
<1>3. /\ size'[f] = top /\ \A g \in File \ {f} : size'[g] = size[g]
  BY WrittenSize
<1>4. \A x \in Nat : /\ ByteAt(f, x)' = IF offset <= x /\ x < offset + n
                                        THEN buf[x - offset + 1] ELSE ByteAt(f, x)
                     /\ \A g \in File \ {f} : ByteAt(g, x)' = ByteAt(g, x)
  BY BytesAfterWrite
<1>5. top \in Nat /\ size[f] <= top /\ offset + n <= top
  BY <1>1, <1>2
<1>6. new = [i \in 1 .. top |-> IF i \in (offset + 1) .. (offset + Len(data))
                                THEN data[i - offset]
                                ELSE IF i <= Len(old) THEN old[i] ELSE 0]
  BY <1>1, <1>2 DEF BF!Overwrite, BF!Longer
<1>7. \A x \in Nat : x >= size[f] => ByteAt(f, x) = 0
  BY ZeroBehindEnd
<1> HIDE DEF data, old, new, top
<1>8. ASSUME NEW i \in 1 .. top
      PROVE  ByteAt(f, i - 1)' = new[i]
  <2>1. i \in Nat /\ i - 1 \in Nat /\ i <= top
    BY <1>5
  <2>2. new[i] = IF i \in (offset + 1) .. (offset + n) THEN data[i - offset]
                 ELSE IF i <= size[f] THEN old[i] ELSE 0
    BY <1>1, <1>2, <1>6
  <2>3. CASE i \in (offset + 1) .. (offset + n)
    <3>1. offset <= i - 1 /\ i - 1 < offset + n /\ i - offset \in 1 .. n
          /\ (i - 1) - offset + 1 = i - offset
      BY <2>1, <2>3, <1>2
    <3>2. ByteAt(f, i - 1)' = buf[i - offset]
      BY <2>1, <3>1, <1>4
    <3>3. QED
      BY <2>2, <2>3, <3>1, <3>2, <1>2
  <2>4. CASE i \notin (offset + 1) .. (offset + n)
    <3>1. ~(offset <= i - 1 /\ i - 1 < offset + n)
      BY <2>1, <2>4, <1>2
    <3>2. ByteAt(f, i - 1)' = ByteAt(f, i - 1)
      BY <2>1, <3>1, <1>4
    <3>3. CASE i <= size[f]
      BY <2>1, <2>2, <2>4, <3>2, <3>3, <1>1
    <3>4. CASE ~(i <= size[f])
      <4>1. i - 1 >= size[f]
        BY <2>1, <3>4, <1>1
      <4>2. QED
        BY <2>1, <2>2, <2>4, <3>2, <3>4, <4>1, <1>7
    <3>5. QED
      BY <3>3, <3>4
  <2>5. QED
    BY <2>3, <2>4
<1>9. new = [i \in 1 .. top |-> new[i]]
  BY <1>6
<1>10. content' = [content EXCEPT ![f] = new]
  BY <1>3, <1>4, <1>5, <1>8, <1>9, NewContent
<1>11. QED
  BY <1>10 DEF new, old, data

LEMMA TruncateRefines ==
  ASSUME IInv, NEW f \in File, NEW n \in 0 .. MaxSize, truncate(f, n)
  PROVE  content' = [content EXCEPT ![f] = BF!Resize(content[f], n)]
<1> DEFINE old == content[f]
           new == BF!Resize(old, n)
<1>1. /\ size[f] \in Nat /\ old = [i \in 1 .. size[f] |-> ByteAt(f, i - 1)]
      /\ Len(old) = size[f]
  BY ContentFacts
<1>2. n \in Nat
  BY MemFileAssumption
<1>3. size'[f] = n /\ \A g \in File \ {f} : size'[g] = size[g]
  BY DEF truncate, IInv, PagesCharged, TypeOK
<1>4. \A x \in Nat : /\ x < n => ByteAt(f, x)' = ByteAt(f, x)
                     /\ \A g \in File \ {f} : ByteAt(g, x)' = ByteAt(g, x)
  <2>1. CASE n < size[f]
    BY <2>1, BytesAfterCut
  <2>2. CASE ~(n < size[f])
    <3>1. pages' = pages
      BY <2>2 DEF truncate
    <3>2. QED
      BY <3>1 DEF ByteAt
  <2>3. QED
    BY <2>1, <2>2
<1>5. new = [i \in 1 .. n |-> IF i <= Len(old) THEN old[i] ELSE 0]
  BY DEF BF!Resize
<1>6. \A x \in Nat : x >= size[f] => ByteAt(f, x) = 0
  BY ZeroBehindEnd
<1> HIDE DEF old, new
<1>7. ASSUME NEW i \in 1 .. n
      PROVE  ByteAt(f, i - 1)' = new[i]
  <2>1. i \in Nat /\ i - 1 \in Nat /\ i - 1 < n
    BY <1>2
  <2>2. ByteAt(f, i - 1)' = ByteAt(f, i - 1)
    BY <2>1, <1>4
  <2>3. new[i] = IF i <= size[f] THEN old[i] ELSE 0
    BY <1>1, <1>5
  <2>4. CASE i <= size[f]
    BY <2>1, <2>2, <2>3, <2>4, <1>1
  <2>5. CASE ~(i <= size[f])
    <3>1. i - 1 >= size[f]
      BY <2>1, <2>5, <1>1
    <3>2. QED
      BY <2>1, <2>2, <2>3, <2>5, <3>1, <1>6
  <2>6. QED
    BY <2>4, <2>5
<1>8. new = [i \in 1 .. n |-> new[i]]
  BY <1>5
<1>9. content' = [content EXCEPT ![f] = new]
  BY <1>2, <1>3, <1>4, <1>7, <1>8, NewContent
<1>10. QED
  BY <1>9 DEF new, old

\* An overwrite at the end keeps everything before it.
LEMMA AppendKeeps ==
  ASSUME IInv, NEW d \in Fd, NEW buf \in Buf, append[d], write(d, buf)
  PROVE  SubSeq(content'[FileOf[d]], 1, size[FileOf[d]]) = content[FileOf[d]]
<1> DEFINE f == FileOf[d]
           old == content[f]
<1>1. f \in File /\ size[f] \in Nat
  BY MemFileAssumption, ContentFacts DEF IInv, PagesCharged, TypeOK
<1>2. PICK n \in 1 .. Len(buf) : write_data(f, size[f], buf, n)
  BY DEF write, WriteOffset
<1>3. /\ old = [i \in 1 .. size[f] |-> ByteAt(f, i - 1)]
      /\ content'[f] = [i \in 1 .. size'[f] |-> ByteAt(f, i - 1)']
  BY <1>1 DEF content
<1>4. size'[f] = size[f] + n /\ n \in Nat
  <2>1. n \in Nat \ {0}
    BY BufferFacts
  <2>2. size'[f] = IF size[f] < size[f] + n THEN size[f] + n ELSE size[f]
    BY <1>1, <1>2, WrittenSize
  <2>3. QED
    BY <1>1, <2>1, <2>2
<1>5. ASSUME NEW i \in 1 .. size[f]
      PROVE  content'[f][i] = old[i]
  <2>1. i - 1 \in Nat /\ ~(size[f] <= i - 1) /\ i \in 1 .. size'[f]
    BY <1>1, <1>4
  <2>2. ByteAt(f, i - 1)' = ByteAt(f, i - 1)
    BY <1>1, <1>2, <2>1, BytesAfterWrite
  <2>3. QED
    BY <1>3, <2>1, <2>2
<1>6. SubSeq(content'[f], 1, size[f]) = [i \in 1 .. size[f] |-> content'[f][i]]
  BY <1>1
<1>7. QED
  BY Zenon, <1>3, <1>5, <1>6

LEMMA StepRefines == IInv /\ [Next]_vars => [BF!Next]_content
<1> SUFFICES ASSUME IInv, [Next]_vars PROVE BF!Next \/ content' = content
  OBVIOUS
<1>1. ASSUME NEW d \in Fd, NEW buf \in Buf, write(d, buf)
      PROVE  BF!Next
  <2> DEFINE f == FileOf[d]
             offset == WriteOffset(d)
  <2>1. PICK n \in 1 .. Len(buf) : write_data(f, offset, buf, n)
    BY <1>1 DEF write
  <2>2. f \in File /\ offset \in Nat
    BY MemFileAssumption DEF WriteOffset, IInv, PagesCharged, TypeOK
  <2> HIDE DEF f, offset
  <2>3. offset \in 0 .. MaxSize
    BY <2>1, <2>2, WriteIsCharged, BufferFacts, MemFileAssumption
  <2>4. content' = [content EXCEPT ![f] = BF!Overwrite(content[f], offset, SubSeq(buf, 1, n))]
    BY <2>1, <2>2, WriteRefines
  <2>5. BF!Write(f)
    BY Zenon, <2>3, <2>4 DEF BF!Write
  <2>6. QED
    BY <2>2, <2>5 DEF BF!Next
<1>2. ASSUME NEW f \in File, NEW n \in 0 .. MaxSize, truncate(f, n)
      PROVE  BF!Next
  <2>1. content' = [content EXCEPT ![f] = BF!Resize(content[f], n)]
    BY <1>2, TruncateRefines
  <2>2. BF!Truncate(f)
    BY Zenon, <2>1 DEF BF!Truncate
  <2>3. QED
    BY <2>2 DEF BF!Next
<1>3. ASSUME UNCHANGED <<size, pages>>
      PROVE  content' = content
  BY <1>3 DEF content, ByteAt
<1>4. CASE \E d \in Fd, n \in 0 .. MaxSize : read(d, n)
  BY <1>3, <1>4 DEF read
<1>5. CASE \E d \in Fd, base \in {"start", "current", "end"}, delta \in 0 .. MaxSize,
             back \in BOOLEAN : seek(d, base, delta, back)
  BY <1>3, <1>5 DEF seek
<1>6. CASE \E d \in Fd, flag \in BOOLEAN : set_append(d, flag)
  BY <1>3, <1>6 DEF set_append
<1>7. CASE UNCHANGED vars
  BY <1>3, <1>7 DEF vars
<1>8. QED
  BY <1>1, <1>2, <1>4, <1>5, <1>6, <1>7 DEF Next

LEMMA InitRefines == Init => BF!Init
<1> SUFFICES ASSUME Init PROVE content = [f \in File |-> <<>>]
  BY DEF BF!Init
<1>1. ASSUME NEW f \in File
      PROVE  [i \in 1 .. size[f] |-> ByteAt(f, i - 1)] = <<>>
  <2>1. size[f] = 0
    BY DEF Init
  <2>2. 1 .. size[f] = {}
    BY <2>1
  <2>3. QED
    BY <2>2
<1>2. QED
  BY <1>1 DEF content

\* For any files, page size, quota and sequence of calls through any number of
\* open descriptions: what readers of tmpfs see is a byte sequence that changes
\* only as ByteFile allows, and a write in append mode keeps all that was there
\* (read, write and truncate of MemoryInode under OpenFile::write).
THEOREM BytesImplemented == Spec => ContentImplemented
<1> DEFINE Appends == \A d \in Fd, buf \in Buf :
                        append[d] /\ write(d, buf)
                          => LET f == FileOf[d]
                             IN  SubSeq(content'[f], 1, size[f]) = content[f]
<1>1. IInv /\ [Next]_vars => [Appends]_vars
  BY AppendKeeps
<1>2. Spec => []IInv
  BY InitHolds, NextKeeps, PTL DEF Spec
<1>3. Spec => BF!Spec
  BY <1>2, InitRefines, StepRefines, PTL DEF Spec, BF!Spec
<1>4. Spec => [][Appends]_vars
  BY <1>1, <1>2, PTL DEF Spec
<1>5. QED
  BY <1>3, <1>4 DEF ContentImplemented
=============================================================================
