---------------------------- MODULE MemoryTheorems ----------------------------
(***************************************************************************)
(* The theorems about UserMemory: frames are owned once, the areas of the  *)
(* tasks are backed by pages, and address spaces implement PrivateMemory.  *)
(***************************************************************************)
EXTENDS SpaceProofs, FiniteSetTheorems

-----------------------------------------------------------------------------
(* What the lemmas took for granted about numbers and finite sets.          *)

LEMMA SetToSeqLists ==
  ASSUME NEW S, IsFiniteSet(S)
  PROVE  ListOf(S, SetToSeq(S))
<1> DEFINE n == Cardinality(S)
           q == SetToSeq(S)
<1>1. n \in Nat /\ ExistsBijection(1 .. n, S)
  BY FS_CardinalityType
<1>2. PICK b : b \in Bijection(1 .. n, S)
  BY <1>1 DEF ExistsBijection
<1>3. b \in [1 .. n -> S] /\ IsInjective(b)
  BY <1>2 DEF Bijection, Injection, Surjection, IsInjective
<1>4. q \in [1 .. n -> S] /\ IsInjective(q)
  BY <1>3 DEF SetToSeq
<1>5. q \in Injection(1 .. n, S)
  BY <1>4 DEF Injection
<1>6. IsFiniteSet(1 .. n) /\ Cardinality(1 .. n) = n
  BY <1>1, FS_Interval
<1>7. q \in Surjection(1 .. n, S)
  BY <1>5, <1>6, FS_Injection
<1> HIDE DEF n, q
<1>8. q \in Seq(S) /\ DOMAIN q = 1 .. n
  BY <1>1, <1>4, ListIsSeq
<1>9. {q[i] : i \in DOMAIN q} = S
  BY <1>4, <1>7, <1>8 DEF Surjection
<1> QED
  BY <1>4, <1>8, <1>9 DEF ListOf, IsInjective, q

LEMMA LeastNumber ==
  ASSUME NEW S, S \subseteq Nat, S # {}
  PROVE  \E x \in S : \A y \in S : x <= y
<1>1. \E x \in S : \A y \in S : ~(<<y, x>> \in OpToRel(<, Nat))
  BY Zenon, NatLessThanWellFounded, WFMin
<1>2. PICK x \in S : \A y \in S : ~(<<y, x>> \in OpToRel(<, Nat))
  BY Zenon, <1>1
<1>3. ASSUME NEW y \in S PROVE x <= y
  <2>1. y < x => <<y, x>> \in OpToRel(<, Nat)
    BY DEF OpToRel
  <2>2. ~(y < x)
    BY Zenon, <1>2, <2>1
  <2> QED
    BY <2>2
<1> QED
  BY Zenon, <1>3

LEMMA BasicsHold == Basics
<1>1. IsFiniteSet(Frame)
  BY Constants, FS_Interval DEF Frame
<1>2. ASSUME NEW S \in SUBSET Frame PROVE ListOf(S, SetToSeq(S))
  <2>1. IsFiniteSet(S)
    BY ONLY <1>1, S \in SUBSET Frame, FS_Subset
  <2> QED
    BY ONLY <2>1, SetToSeqLists
<1>3. \A S \in SUBSET Nat : S # {} => \E x \in S : \A y \in S : x <= y
  BY Zenon, LeastNumber
<1> QED
  BY Zenon, <1>2, <1>3 DEF Basics

\* As many places hold a frame as frames were issued.
LEMMA PlacesCounted ==
  ASSUME FrameInv(recycled, next, space), space \in [SpaceId -> SpaceType], next \in Nat
  PROVE  Cardinality(Places) = next
<1> DEFINE h == [pl \in Places |-> FrameAt(pl)]
<1>1. {FrameAt(pl) : pl \in Places} = 1 .. next
  BY Zenon, PlacesOnce
<1>2. h \in [Places -> 1 .. next] /\ \A a, b \in Places : h[a] = h[b] => a = b
  BY Zenon, <1>1, SamePlace
<1>3. \A f \in 1 .. next : \E pl \in Places : h[pl] = f
  BY Zenon, <1>1
<1> HIDE DEF h
<1>4. h \in Injection(Places, 1 .. next)
  BY <1>2 DEF Injection, IsInjective
<1>5. h \in Surjection(Places, 1 .. next)
  BY <1>2, <1>3 DEF Surjection
<1>6. IsFiniteSet(1 .. next) /\ Cardinality(1 .. next) = next
  BY FS_Interval
<1>7. Cardinality(Places) = Cardinality(1 .. next)
  BY <1>4, <1>5, <1>6, FS_Injection
<1> QED
  BY <1>6, <1>7

-----------------------------------------------------------------------------
(* The invariant, and what it gives.                                        *)

LEMMA Invariants == Spec => [](FInv /\ CInv /\ AInv)
<1>1. Init => FInv /\ CInv /\ AInv
  <2> SUFFICES ASSUME Init PROVE FInv /\ CInv /\ AInv
    OBVIOUS
  <2>1. FInv /\ CInv
    BY Zenon, FInvStarts, CInvStarts
  <2>2. op = NoOp /\ \A p \in Pid : brk[p].start = 0
    BY DEF Init
  <2>3. op.kind # "brk" /\ op.kind # "mmap"
    BY <2>2, NoOpFacts
  <2> QED
    BY Zenon, <2>1, <2>2, <2>3 DEF AInv
<1>2. (FInv /\ CInv /\ AInv) /\ [Next]_vars => (FInv /\ CInv /\ AInv)'
  BY Zenon, BasicsHold, FInvKept, CInvKept, AInvKept
<1> QED
  BY <1>1, <1>2, PTL DEF Spec

\* The frame allocator and the Drop of AddressSpace keep every issued frame in
\* exactly one place: none is lost, freed twice or given to two address spaces,
\* whatever calls failed half-way.
THEOREM FramesStayOwnedOnce == Spec => []FrameOwnedOnce
<1>1. FInv => FrameOwnedOnce
  <2> SUFFICES ASSUME FInv PROVE FrameOwnedOnce
    OBVIOUS
  <2>1. Types /\ FrameInv(recycled, next, space) /\ CallInv(op, space, brk, panicked)
    BY Zenon DEF FInv
  <2>2. next \in Nat /\ next \in 0 .. NrFrames /\ space \in [SpaceId -> SpaceType]
    BY <2>1, Constants DEF Types
  <2>3. {FrameAt(pl) : pl \in Places} = 1 .. next /\ Cardinality(Places) = next
    BY Zenon, <2>1, <2>2, PlacesOnce, PlacesCounted
  <2>4. Idle => space[Draft] = NoSpace
    BY Zenon, <2>1, NoOpFacts DEF Idle, CallInv
  <2>5. recycled \in Seq(Frame)
    <3>1. recycled \in Seq(Free(recycled))
      BY Zenon, <2>1 DEF FrameInv, ListOf
    <3>2. Free(recycled) \subseteq 1 .. next
      BY Zenon, <2>1 DEF FrameInv
    <3>3. 1 .. next \subseteq Frame
      BY <2>1, Constants DEF Frame, Types
    <3>4. Free(recycled) \subseteq Frame
      BY Zenon, <3>2, <3>3
    <3> QED
      BY ONLY <3>1, <3>4
  <2>6. ASSUME NEW s \in SpaceId
        PROVE  /\ space[s].root \in Frame \union {None}
               /\ space[s].tables \in [Table -> Frame \union {None}]
               /\ space[s].leaf \in [Page -> MappingType]
               /\ space[s].mappings \in Seq([page : Page, frame : Frame, prot : Prot])
    BY Zenon, <2>2 DEF SpaceType, Entry
  <2>7. brk \in [Pid -> [start : Nat, end : Nat, mapped_end : Nat]]
    <3>1. 0 .. user_end \subseteq Nat
      OBVIOUS
    <3> HIDE DEF Types
    <3>2. BrkType \subseteq [start : Nat, end : Nat, mapped_end : Nat]
      BY <3>1 DEF BrkType
    <3>3. brk \in [Pid -> BrkType]
      BY Zenon, <2>1 DEF Types
    <3> QED
      BY <3>2, <3>3
  <2>8. op.todo \in Seq(ItemType) /\ op.dst \in SpaceId
    BY <2>1 DEF Types, OpType
  <2>9. TypeOK
    BY Zenon, <2>1, <2>2, <2>5, <2>6, <2>7, <2>8 DEF TypeOK, Types
  <2> QED
    BY Zenon, <2>3, <2>4, <2>9 DEF FrameOwnedOnce
<1> QED
  BY <1>1, Invariants, PTL

\* The break and the mmap cursor of a task never run ahead of the pages behind
\* them, whatever brk and mmap calls failed, and fork hands them down with the
\* pages.
THEOREM AreasStayBacked == Spec => []AreasBacked
<1>1. FInv /\ AInv => AreasBacked
  <2> SUFFICES ASSUME FInv, AInv, NEW p \in Tasks, brk[p].start # 0
               PROVE  /\ brk[p].start <= brk[p].end /\ brk[p].end <= brk[p].mapped_end
                      /\ \A pg \in Page :
                           LET a == pg * page_size
                           IN  (a >= brk[p].start /\ a < brk[p].end)
                                 \/ (a >= MmapBase /\ a < mmap_end[p])
                                 => space[p].leaf[pg].frame # None
    BY Zenon DEF AreasBacked
  <2>1. p \in Pid /\ space[p].root # None
    BY Zenon DEF Tasks
  <2>2. brk[p].start <= brk[p].end /\ brk[p].end <= brk[p].mapped_end
    BY Zenon, <2>1 DEF FInv, CursorsOK
  <2>3. brk[p].end \in Nat /\ brk[p].mapped_end \in Nat
    <3>1. brk[p] \in BrkType
      BY <2>1 DEF FInv, Types
    <3> QED
      BY <3>1 DEF BrkType
  <2>4. Backed(space[p], <<>>, brk[p].start, brk[p].mapped_end)
        /\ Backed(space[p], <<>>, MmapBase, mmap_end[p])
    BY Zenon, <2>1, AInvTasks DEF TaskBacked
  <2>5. ASSUME NEW pg \in Page,
               (pg * page_size >= brk[p].start /\ pg * page_size < brk[p].end)
                 \/ (pg * page_size >= MmapBase /\ pg * page_size < mmap_end[p])
        PROVE  space[p].leaf[pg].frame # None
    <3>1. pg \in Nat /\ page_size \in Nat
      BY Sizes DEF Page
    <3>2. pg * page_size \in Nat
      BY <3>1
    <3>3. pg * page_size < brk[p].end => pg * page_size < brk[p].mapped_end
      BY <2>2, <2>3, <3>2
    <3>4. DOMAIN <<>> = {}
      OBVIOUS
    <3> QED
      BY Zenon, <2>4, <2>5, <3>3, <3>4 DEF Backed
  <2> QED
    BY Zenon, <2>2, <2>5
<1> QED
  BY <1>1, Invariants, PTL

-----------------------------------------------------------------------------
(* Refinement: what the tasks see.                                          *)

View == [p \in Pid |-> Seen(p)]

LEMMA SeenAt ==
  ASSUME NEW p, NEW pg \in Page
  PROVE  /\ space[p].leaf[pg].frame = None => Seen(p)[pg] = NotThere
         /\ space[p].leaf[pg].frame # None => Seen(p)[pg] = data[space[p].leaf[pg].frame]
  BY DEF Seen

LEMMA SeenAtNext ==
  ASSUME NEW p, NEW pg \in Page
  PROVE  /\ space'[p].leaf[pg].frame = None => Seen(p)'[pg] = NotThere
         /\ space'[p].leaf[pg].frame # None => Seen(p)'[pg] = data'[space'[p].leaf[pg].frame]
  BY DEF Seen

\* Two views of a task that agree on every page are the same.
LEMMA SeenSame ==
  ASSUME NEW p, NEW q, \A pg \in Page : Seen(p)'[pg] = Seen(q)[pg]
  PROVE  Seen(p)' = Seen(q)
<1> DEFINE f == Seen(p)'
           g == Seen(q)
<1>1. f = [pg \in Page |-> f[pg]] /\ g = [pg \in Page |-> g[pg]]
  BY DEF Seen
<1> HIDE DEF f, g
<1>2. \A pg \in Page : f[pg] = g[pg]
  BY Zenon DEF f, g
<1>3. f = g
  BY ONLY Zenon, <1>1, <1>2
<1> QED
  BY ONLY <1>3 DEF f, g

\* The frame behind a page belongs to the space.
LEMMA LeafHeld ==
  ASSUME FInv, CInv, NEW s \in SpaceId, NEW pg \in Page, space[s].leaf[pg].frame # None
  PROVE  /\ space[s].leaf[pg].frame \in Frame
         /\ space[s].leaf[pg].frame \in FramesOf(space[s])
         /\ \E i \in DOMAIN space[s].mappings :
              /\ space[s].mappings[i].page = pg
              /\ space[s].leaf[pg].frame = space[s].mappings[i].frame
<1>1. Mapped(space[s], pg)
  BY Zenon, LeafCases
<1>2. PICK i \in DOMAIN space[s].mappings :
        IsLast(space[s], pg, i) /\ space[s].leaf[pg].frame = space[s].mappings[i].frame
  BY Zenon, <1>1, LeafCases
<1>3. space[s].mappings[i].page = pg
  BY Zenon, <1>2 DEF IsLast
<1>4. space[s].mappings[i].frame \in Frame /\ space[s].mappings[i].frame \in FramesOf(space[s])
  BY Zenon, SpaceTypes
<1> QED
  BY Zenon, <1>2, <1>3, <1>4

\* No two pages of any tasks share a frame, nor does a page share one with an
\* older mapping of another page.
LEMMA LeafApart ==
  ASSUME FInv, CInv, NEW s \in SpaceId, NEW u \in SpaceId, NEW pg \in Page,
         NEW i \in DOMAIN space[u].mappings, space[s].leaf[pg].frame # None,
         space[s].leaf[pg].frame = space[u].mappings[i].frame
  PROVE  s = u /\ space[u].mappings[i].page = pg
<1>1. PICK j \in DOMAIN space[s].mappings :
        space[s].mappings[j].page = pg /\ space[s].leaf[pg].frame = space[s].mappings[j].frame
  BY Zenon, LeafHeld
<1>2. space[s].leaf[pg].frame \in FramesOf(space[s])
  BY Zenon, LeafHeld
<1>3. space[u].mappings[i].frame \in FramesOf(space[u])
  BY Zenon, SpaceTypes
<1>4. FrameInv(recycled, next, space)
  BY DEF FInv
<1>5. s = u
  BY Zenon, <1>2, <1>3, <1>4 DEF FrameInv
<1>6. OwnsOnce(space[u])
  BY Zenon, <1>4 DEF FrameInv
<1>7. i = j
  BY Zenon, <1>1, <1>5, <1>6 DEF OwnsOnce
<1> QED
  BY Zenon, <1>1, <1>5, <1>7

\* A task that keeps its leaves and whose frames keep their contents sees the same.
LEMMA SeesTheSame ==
  ASSUME FInv, CInv, NEW p \in Pid, space'[p].leaf = space[p].leaf,
         \A f \in FramesOf(space[p]) : data'[f] = data[f]
  PROVE  Seen(p)' = Seen(p)
<1>1. ASSUME NEW pg \in Page PROVE Seen(p)'[pg] = Seen(p)[pg]
  <2> DEFINE f == space[p].leaf[pg].frame
  <2>3. space'[p].leaf[pg].frame = f
    OBVIOUS
  <2>4. /\ f = None => Seen(p)[pg] = NotThere /\ Seen(p)'[pg] = NotThere
        /\ f # None => Seen(p)[pg] = data[f] /\ Seen(p)'[pg] = data'[f]
    BY <2>3, SeenAt, SeenAtNext
  <2> HIDE DEF f
  <2>1. CASE f = None
    BY ONLY <2>1, <2>4
  <2>2. CASE f # None
    <3>1. f \in FramesOf(space[p])
      BY Zenon, <2>2, Pids, LeafHeld DEF f
    <3> QED
      BY Zenon, <2>2, <2>4, <3>1
  <2> QED
    BY <2>1, <2>2
<1> QED
  BY Zenon, <1>1, SeenSame

\* Contents change in one frame only.
LEMMA OneFrame ==
  ASSUME FInv, NEW f \in Frame, NEW v, data' = [data EXCEPT ![f] = v]
  PROVE  data'[f] = v /\ \A g : g # f => data'[g] = data[g]
<1>1. data \in [Frame -> Value]
  BY DEF FInv, Types
<1> QED
  BY <1>1

LEMMA ViewStays ==
  ASSUME \A p \in Pid : Seen(p)' = Seen(p)
  PROVE  View' = View
  BY Zenon DEF View

LEMMA ViewOfOne ==
  ASSUME NEW p \in Pid, NEW n, Seen(p)' = n, \A q \in Pid : q # p => Seen(q)' = Seen(q)
  PROVE  View' = [View EXCEPT ![p] = n]
  BY Zenon DEF View

\* Task p comes to see v in one page.
PageShows(p, pg, v) == View' = [View EXCEPT ![p][pg] = v]

LEMMA ViewOfPage ==
  ASSUME NEW p \in Pid, NEW pg \in Page, NEW v, Seen(p)'[pg] = v,
         \A x \in Page : x # pg => Seen(p)'[x] = Seen(p)[x],
         \A q \in Pid : q # p => Seen(q)' = Seen(q)
  PROVE  PageShows(p, pg, v)
<1> DEFINE f == Seen(p)'
           g == Seen(p)
<1>1. f = [x \in Page |-> f[x]] /\ g = [x \in Page |-> g[x]]
  BY Zenon DEF Seen
<1>2. f[pg] = v /\ \A x \in Page : x # pg => f[x] = g[x]
  BY Zenon
<1> HIDE DEF f, g
<1>3. f = [g EXCEPT ![pg] = v]
  BY ONLY <1>1, <1>2
<1>4. View[p] = g
  BY Zenon DEF View, g
<1>5. View' = [View EXCEPT ![p] = [g EXCEPT ![pg] = v]]
  BY Zenon, <1>3, ViewOfOne DEF f
<1> QED
  BY Zenon, <1>4, <1>5 DEF PageShows

\* Filling a frame nobody holds shows nowhere.
LEMMA FreshUnseen ==
  ASSUME FInv, CInv, NEW f \in Frame, \A s \in SpaceId : f \notin FramesOf(space[s]), NEW v,
         data' = [data EXCEPT ![f] = v], NEW p \in Pid, space'[p].leaf = space[p].leaf
  PROVE  Seen(p)' = Seen(p)
<1>1. \A g : g # f => data'[g] = data[g]
  BY Zenon, OneFrame
<1>2. f \notin FramesOf(space[p])
  BY Zenon, Pids
<1>3. \A g \in FramesOf(space[p]) : data'[g] = data[g]
  BY Zenon, <1>1, <1>2
<1> QED
  BY Zenon, <1>3, SeesTheSame

\* make_user_path_private: a table shows nowhere.
LEMMA PathUnseen ==
  ASSUME Basics, FInv, CInv, make_user_path_private
  PROVE  View' = View
<1>1. /\ NextFrame \in Frame /\ \A s \in SpaceId : NextFrame \notin FramesOf(space[s])
      /\ space'[op.dst].leaf = space[op.dst].leaf
      /\ \A s \in SpaceId : s # op.dst => space'[s] = space[s]
  BY Zenon, PathFacts
<1>2. data' = [data EXCEPT ![NextFrame] = Entries]
  BY DEF make_user_path_private
<1>3. \A p \in Pid : space'[p].leaf = space[p].leaf
  BY Zenon, <1>1, Pids
<1>4. \A p \in Pid : Seen(p)' = Seen(p)
  BY Zenon, <1>1, <1>2, <1>3, FreshUnseen
<1> QED
  BY Zenon, <1>4, ViewStays

\* map_page: a page of a draft shows nowhere, one of a task appears, zeroed.
LEMMA MapSeen ==
  ASSUME FInv, CInv, map_page
  PROVE  View' = View \/ \E p \in Pid, pg \in Page : PageShows(p, pg, Zero)
<1> DEFINE item == Head(op.todo)
           m    == [frame |-> NextFrame, prot |-> item.prot]
<1>0. PICK d : d = op.dst
  OBVIOUS
<1>1. /\ NextFrame \in Frame /\ \A s \in SpaceId : NextFrame \notin FramesOf(space[s])
      /\ space'[d].leaf = [space[d].leaf EXCEPT ![item.page] = m]
      /\ \A s \in SpaceId : s # d => space'[s] = space[s]
      /\ data' = [data EXCEPT ![NextFrame] = item.value]
  BY Zenon, <1>0, MapFacts
<1>2. op.todo # <<>>
  BY DEF map_page
<1>3. /\ d \in SpaceId /\ item \in ItemType /\ (Drafts(op.kind) \/ Grows(op.kind))
  BY Zenon, <1>0, <1>2, Working
<1>4. \A q \in Pid : q # d => Seen(q)' = Seen(q)
  BY Zenon, <1>1, Pids, FreshUnseen
<1>5. CASE d \notin Pid
  BY Zenon, <1>4, <1>5, ViewStays
<1>6. CASE d \in Pid
  <2>1. item.page \in Page
    BY <1>3 DEF ItemType
  <2>2. item.value = Zero
    <3>1. Grows(op.kind)
      BY <1>0, <1>3, <1>6, Pids DEF FInv, CallInv
    <3>2. \A i \in DOMAIN op.todo : op.todo[i].value = Zero
      BY Zenon, <3>1 DEF FInv, CallInv
    <3>3. op.todo \in Seq(ItemType)
      BY DEF FInv, Types, OpType
    <3>4. item = op.todo[1] /\ 1 \in DOMAIN op.todo
      BY <1>2, <3>3
    <3> QED
      BY Zenon, <3>2, <3>4
  <2>3. space[d].leaf \in [Page -> MappingType]
    BY Zenon, <1>3, SpaceTypes
  <2> HIDE DEF item
  <2>4. m.frame = NextFrame /\ NextFrame # None
    BY <1>1, FrameFacts
  <2> HIDE DEF m
  <2>5. /\ space'[d].leaf[item.page] = m
        /\ \A x \in Page : x # item.page => space'[d].leaf[x] = space[d].leaf[x]
    BY ONLY <1>1, <2>1, <2>3
  <2>6. /\ data'[NextFrame] = Zero /\ \A g : g # NextFrame => data'[g] = data[g]
    BY Zenon, <1>1, <2>2, OneFrame
  <2>7. Seen(d)'[item.page] = Zero
    <3>1. space'[d].leaf[item.page].frame = NextFrame
      BY ONLY Zenon, <2>4, <2>5
    <3>2. space'[d].leaf[item.page].frame # None
      BY ONLY Zenon, <2>4, <3>1
    <3>3. Seen(d)'[item.page] = data'[space'[d].leaf[item.page].frame]
      BY Zenon, <2>1, <3>2, SeenAtNext
    <3> QED
      BY ONLY Zenon, <2>6, <3>1, <3>3
  <2>8. ASSUME NEW x \in Page, x # item.page PROVE Seen(d)'[x] = Seen(d)[x]
    <3> DEFINE f == space[d].leaf[x].frame
    <3>1. space'[d].leaf[x].frame = f
      BY ONLY <2>5, <2>8
    <3>2. /\ f = None => Seen(d)[x] = NotThere /\ Seen(d)'[x] = NotThere
          /\ f # None => Seen(d)[x] = data[f] /\ Seen(d)'[x] = data'[f]
      BY <3>1, SeenAt, SeenAtNext
    <3>3. f # None => f # NextFrame
      <4>1. f # None => f \in FramesOf(space[d])
        BY Zenon, <1>3, LeafHeld
      <4> QED
        BY Zenon, <1>1, <1>3, <4>1
    <3> HIDE DEF f
    <3> QED
      BY ONLY <2>6, <3>2, <3>3
  <2>9. PageShows(d, item.page, Zero)
    BY Zenon, <1>4, <1>6, <2>1, <2>7, <2>8, ViewOfPage
  <2> QED
    BY Zenon, <1>6, <2>1, <2>9
<1> QED
  BY <1>5, <1>6

\* One frame of a task is written: a page of that task shows it, and only that
\* page; when the mapping is an older one of the page, no page does.
LEMMA WriteSeen ==
  ASSUME FInv, CInv, NEW p \in Pid, NEW pg \in Page, NEW v, space' = space,
         NEW i \in DOMAIN space[p].mappings, space[p].mappings[i].page = pg,
         data' = [data EXCEPT ![space[p].mappings[i].frame] = v]
  PROVE  \/ View' = View
         \/ space[p].leaf[pg].frame # None /\ PageShows(p, pg, v)
<1> DEFINE f == space[p].mappings[i].frame
           l(x) == space[p].leaf[x].frame
<1>1. p \in SpaceId
  BY Zenon, Pids
<1>2. f \in Frame /\ f \in FramesOf(space[p])
  BY Zenon, <1>1, SpaceTypes
<1>3. data'[f] = v /\ \A g : g # f => data'[g] = data[g]
  BY Zenon, <1>2, OneFrame
<1>4. ASSUME NEW q \in Pid, q # p PROVE Seen(q)' = Seen(q)
  <2>1. f \notin FramesOf(space[q])
    <3>1. q \in SpaceId /\ FrameInv(recycled, next, space)
      BY Pids DEF FInv
    <3> QED
      BY Zenon, <1>1, <1>2, <1>4, <3>1 DEF FrameInv
  <2>2. \A g \in FramesOf(space[q]) : data'[g] = data[g]
    BY Zenon, <1>3, <2>1
  <2>3. space'[q].leaf = space[q].leaf
    OBVIOUS
  <2> QED
    BY Zenon, <2>2, <2>3, SeesTheSame
<1>5. \A x \in Page : /\ l(x) = None => Seen(p)[x] = NotThere /\ Seen(p)'[x] = NotThere
                      /\ l(x) # None => Seen(p)[x] = data[l(x)] /\ Seen(p)'[x] = data'[l(x)]
  <2> SUFFICES ASSUME NEW x \in Page
               PROVE  /\ l(x) = None => Seen(p)[x] = NotThere /\ Seen(p)'[x] = NotThere
                      /\ l(x) # None => Seen(p)[x] = data[l(x)] /\ Seen(p)'[x] = data'[l(x)]
    BY Zenon
  <2>1. /\ l(x) = None => Seen(p)[x] = NotThere
        /\ l(x) # None => Seen(p)[x] = data[l(x)]
    BY Zenon, SeenAt
  <2>2. /\ space'[p].leaf[x].frame = None => Seen(p)'[x] = NotThere
        /\ space'[p].leaf[x].frame # None => Seen(p)'[x] = data'[space'[p].leaf[x].frame]
    BY Zenon, SeenAtNext
  <2>3. space'[p].leaf[x].frame = l(x)
    OBVIOUS
  <2> QED
    BY ONLY Zenon, <2>1, <2>2, <2>3
<1>6. \A x \in Page : l(x) # None /\ l(x) = f => x = pg
  BY Zenon, <1>1, LeafApart
<1>7. f # None
  BY <1>2, FrameFacts
<1> HIDE DEF f, l
<1>8. \A x \in Page : x # pg => Seen(p)'[x] = Seen(p)[x]
  BY ONLY Zenon, <1>3, <1>5, <1>6
<1>9. CASE l(pg) = f
  <2>1. Seen(p)'[pg] = v
    BY ONLY Zenon, <1>3, <1>5, <1>7, <1>9, pg \in Page
  <2>2. PageShows(p, pg, v)
    BY Zenon, <1>4, <1>8, <2>1, ViewOfPage
  <2>3. l(pg) # None
    BY ONLY <1>7, <1>9
  <2> QED
    BY Zenon, <2>2, <2>3 DEF l
<1>10. CASE l(pg) # f
  <2>1. Seen(p)'[pg] = Seen(p)[pg]
    BY ONLY Zenon, <1>3, <1>5, <1>10, pg \in Page
  <2>2. \A x \in Page : Seen(p)'[x] = Seen(p)[x]
    BY Zenon, <1>8, <2>1
  <2>3. Seen(p)' = Seen(p)
    BY Zenon, <2>2, SeenSame
  <2> QED
    BY Zenon, <1>4, <2>3, ViewStays
<1> QED
  BY <1>9, <1>10

\* A program and the kernel write into the memory of a task.
LEMMA StoreSeen ==
  ASSUME Basics, FInv, CInv, NEW p \in Pid, NEW pg \in Page, NEW v \in Value,
         store(p, pg, v) \/ copy_to_task(p, pg, v)
  PROVE  \/ View' = View
         \/ space[p].leaf[pg].frame # None /\ PageShows(p, pg, v)
<1>1. CASE store(p, pg, v)
  <2>1. /\ data' = [data EXCEPT ![space[p].leaf[pg].frame] = v]
    BY Zenon, <1>1, StoreFacts
  <2>2. space[p].leaf[pg].frame # None /\ space' = space
    BY <1>1 DEF store
  <2>3. PICK i \in DOMAIN space[p].mappings :
          /\ space[p].mappings[i].page = pg
          /\ space[p].leaf[pg].frame = space[p].mappings[i].frame
    BY ZenonT(40), <2>2, Pids, LeafHeld
  <2>4. data' = [data EXCEPT ![space[p].mappings[i].frame] = v]
    BY Zenon, <2>1, <2>3
  <2> QED
    BY Zenon, <2>2, <2>3, <2>4, WriteSeen
<1>2. CASE copy_to_task(p, pg, v)
  <2>1. PICK i \in DOMAIN space[p].mappings :
          /\ space[p].mappings[i].page = pg /\ space[p].mappings[i].frame \in Frame
          /\ data' = [data EXCEPT ![space[p].mappings[i].frame] = v]
    BY <1>2, CopyFacts
  <2>2. space' = space
    BY Zenon, <1>2, CopyFacts
  <2> QED
    BY Zenon, <2>1, <2>2, WriteSeen
<1> QED
  BY <1>1, <1>2

\* The child sees what its parent sees.
LEMMA ForkSeen ==
  ASSUME FInv, CInv, NEW c \in Pid, fork_ends(c)
  PROVE  \E p \in Pid : PM!Fork(p, c)
<1>1. PICK p \in Pid : p = op.pid
  BY Zenon, ForkEndFacts
<1>2. /\ p # c /\ space[c] = NoSpace /\ space'[c] = space[Draft]
      /\ \A s \in SpaceId : s # c /\ s # Draft => space'[s] = space[s]
  BY Zenon, <1>1, ForkEndFacts
<1>3. op.kind = "fork" /\ op.todo = <<>> /\ data' = data
  BY DEF fork_ends
<1>4. ASSUME NEW q \in Pid, q # c PROVE Seen(q)' = Seen(q)
  <2>1. space'[q].leaf = space[q].leaf
    BY Zenon, <1>2, <1>4, Pids
  <2> QED
    BY Zenon, <1>3, <2>1, SeesTheSame
<1>5. ASSUME NEW pg \in Page PROVE Seen(c)'[pg] = Seen(p)[pg]
  <2> DEFINE f == space[p].leaf[pg].frame
             g == space[Draft].leaf[pg].frame
  <2>1. /\ g = None <=> f = None
        /\ f # None => data[g] = data[f]
    BY Zenon, <1>1, <1>3, ForkComplete
  <2>2. /\ f = None => Seen(p)[pg] = NotThere
        /\ f # None => Seen(p)[pg] = data[f]
    BY Zenon, SeenAt
  <2>3. space'[c].leaf[pg].frame = g
    BY Zenon, <1>2
  <2>4. /\ g = None => Seen(c)'[pg] = NotThere
        /\ g # None => Seen(c)'[pg] = data[g]
    BY <1>3, <2>3, SeenAtNext
  <2> HIDE DEF f, g
  <2> QED
    BY ONLY <2>1, <2>2, <2>4
<1>6. Seen(c)' = Seen(p)
  BY Zenon, <1>5, SeenSame
<1>7. View' = [View EXCEPT ![c] = Seen(p)]
  BY Zenon, <1>4, <1>6, ViewOfOne
<1>8. Seen(c) = [pg \in Page |-> NotThere]
  <2>1. \A pg \in Page : space[c].leaf[pg].frame = None
    BY <1>2, NoSpaceHoldsNothing DEF NoMapping
  <2> QED
    BY <2>1 DEF Seen
<1> QED
  BY Zenon, <1>7, <1>8 DEF PM!Fork, PM!NoMemory, View

\* exec shows the image and nothing of the old program.
LEMMA ExecSeen ==
  ASSUME Basics, FInv, CInv, exec_ends
  PROVE  \E p \in Pid : PM!Exec(p)
<1>1. PICK p \in Pid : p = op.pid
  BY Zenon, ExecEndFacts
<1>2. /\ space'[p] = space[Draft]
      /\ \A s \in SpaceId : s # p /\ s # Draft => space'[s] = space[s]
  BY Zenon, <1>1, ExecEndFacts
<1>3. op.kind = "exec" /\ op.todo = <<>> /\ data' = data
  BY DEF exec_ends
<1>4. ASSUME NEW q \in Pid, q # p PROVE Seen(q)' = Seen(q)
  <2>1. space'[q].leaf = space[q].leaf
    BY Zenon, <1>2, <1>4, Pids
  <2> QED
    BY Zenon, <1>3, <2>1, SeesTheSame
<1>5. ASSUME NEW pg \in Page
      PROVE  Seen(p)'[pg] = IF pg \in Range(Image) THEN Loaded ELSE NotThere
  <2> DEFINE g == space[Draft].leaf[pg].frame
  <2>1. /\ pg \in Range(Image) => g # None /\ data[g] = Loaded
        /\ pg \notin Range(Image) => g = None
    BY Zenon, <1>3, ExecComplete
  <2>2. space'[p].leaf[pg].frame = g
    BY Zenon, <1>2
  <2>3. /\ g = None => Seen(p)'[pg] = NotThere
        /\ g # None => Seen(p)'[pg] = data[g]
    BY <1>3, <2>2, SeenAtNext
  <2> HIDE DEF g
  <2> QED
    BY ONLY Zenon, <2>1, <2>3
<1>6. Seen(p)' = ImageSeen
  <2> DEFINE f == Seen(p)'
  <2>1. f = [pg \in Page |-> f[pg]]
    BY DEF Seen
  <2>2. \A pg \in Page : f[pg] = IF pg \in Range(Image) THEN Loaded ELSE NotThere
    BY <1>5
  <2> HIDE DEF f
  <2>3. f = ImageSeen
    BY ONLY Zenon, <2>1, <2>2 DEF ImageSeen
  <2> QED
    BY ONLY <2>3 DEF f
<1>7. View' = [View EXCEPT ![p] = ImageSeen]
  BY Zenon, <1>4, <1>6, ViewOfOne
<1> QED
  BY Zenon, <1>7 DEF PM!Exec, View

LEMMA ReapSeen ==
  ASSUME Basics, FInv, CInv, NEW c \in Pid, reap_zombie_child(c)
  PROVE  PM!Reap(c)
<1>1. space'[c] = NoSpace /\ \A s \in SpaceId : s # c => space'[s] = space[s]
  BY Zenon, ReapFacts
<1>2. data' = data
  BY DEF reap_zombie_child
<1>3. ASSUME NEW q \in Pid, q # c PROVE Seen(q)' = Seen(q)
  <2>1. space'[q].leaf = space[q].leaf
    BY Zenon, <1>1, <1>3, Pids
  <2> QED
    BY Zenon, <1>2, <2>1, SeesTheSame
<1>4. Seen(c)' = [pg \in Page |-> NotThere]
  <2>1. \A pg \in Page : space'[c].leaf[pg].frame = None
    BY <1>1, NoSpaceHoldsNothing DEF NoMapping
  <2> QED
    BY <2>1 DEF Seen
<1>5. View' = [View EXCEPT ![c] = [pg \in Page |-> NotThere]]
  BY Zenon, <1>3, <1>4, ViewOfOne
<1> QED
  BY Zenon, <1>5 DEF PM!Reap, PM!NoMemory, View

\* Steps that keep the leaves of the tasks and the contents of their frames.
LEMMA NothingSeen ==
  ASSUME FInv, CInv, \A p \in Pid : space'[p] = space[p],
         \A p \in Pid : \A f \in FramesOf(space[p]) : data'[f] = data[f]
  PROVE  View' = View
<1>1. \A p \in Pid : space'[p].leaf = space[p].leaf
  BY Zenon
<1>2. \A p \in Pid : Seen(p)' = Seen(p)
  BY Zenon, <1>1, SeesTheSame
<1> QED
  BY Zenon, <1>2, ViewStays

LEMMA StepRefines ==
  ASSUME Basics, FInv, CInv, [Next]_vars
  PROVE  PM!Next \/ View' = View
<1>1. CASE UNCHANGED vars
  BY Zenon, <1>1 DEF View, Seen, vars
<1>2. CASE make_user_path_private
  BY Zenon, <1>2, PathUnseen
<1>3. CASE map_page
  <2>1. ASSUME NEW p \in Pid, NEW pg \in Page, PageShows(p, pg, Zero) PROVE PM!Next
    <3>1. PM!Grow(p, pg)
      BY Zenon, <2>1 DEF PageShows, PM!Grow, View
    <3> QED
      BY Zenon, <3>1 DEF PM!Next
  <2> QED
    BY Zenon, <1>3, <2>1, MapSeen
<1>4. CASE out_of_frames \/ map_failed \/ exec_read_fails
  <2>1. /\ \A s \in SpaceId : space'[s] = space[s] \/ (s = Draft /\ space'[s] = NoSpace)
        /\ \A s \in SpaceId : \A f \in FramesOf(space[s]) : data'[f] = data[f]
    BY Zenon, <1>4, FailFacts
  <2>2. \A p \in Pid : space'[p] = space[p]
    BY Zenon, <2>1, Pids
  <2>3. \A p \in Pid : \A f \in FramesOf(space[p]) : data'[f] = data[f]
    BY Zenon, <2>1, Pids
  <2> QED
    BY Zenon, <2>2, <2>3, NothingSeen
<1>5. CASE exec_ends
  BY Zenon, <1>5, ExecSeen DEF PM!Next
<1>6. CASE brk_ends \/ mmap_ends
  <2>1. space' = space /\ data' = data
    BY <1>6 DEF brk_ends, mmap_ends
  <2> QED
    BY Zenon, <2>1, NothingSeen
<1>7. ASSUME NEW p \in Pid, fork_starts(p) \/ exec_starts(p) PROVE View' = View
  <2>1. /\ NextFrame \in Frame /\ \A s \in SpaceId : NextFrame \notin FramesOf(space[s])
        /\ \A s \in SpaceId : s # Draft => space'[s] = space[s]
        /\ data' = [data EXCEPT ![NextFrame] = Entries]
    <3>1. CASE fork_starts(p)
      BY Zenon, <3>1, ForkStartFacts
    <3>2. CASE exec_starts(p)
      BY Zenon, <3>2, ExecStartFacts
    <3> QED
      BY <1>7, <3>1, <3>2
  <2>2. \A q \in Pid : space'[q].leaf = space[q].leaf
    BY Zenon, <2>1, Pids
  <2>3. \A q \in Pid : Seen(q)' = Seen(q)
    BY Zenon, <2>1, <2>2, FreshUnseen
  <2> QED
    BY Zenon, <2>3, ViewStays
<1>8. ASSUME NEW c \in Pid, fork_ends(c) PROVE PM!Next
  BY Zenon, <1>8, ForkSeen DEF PM!Next
<1>9. ASSUME NEW c \in Pid, reap_zombie_child(c) PROVE PM!Next
  BY Zenon, <1>9, ReapSeen DEF PM!Next
<1>10. ASSUME NEW p \in Pid,
              \/ fork_out_of_frames(p)
              \/ \E addr \in 0 .. BrkMax : brk_moves(p, addr) \/ brk_grows(p, addr)
              \/ \E hint \in Hints \union {None}, length \in 0 .. MaxLen, prot \in Prot :
                   mmap_starts(p, hint, length, prot)
       PROVE  View' = View
  <2>1. space' = space /\ data' = data
    BY <1>10 DEF fork_out_of_frames, brk_moves, brk_grows, mmap_starts
  <2> QED
    BY Zenon, <2>1, NothingSeen
<1>11. ASSUME NEW p \in Pid, NEW pg \in Page, NEW v \in Value,
              store(p, pg, v) \/ copy_to_task(p, pg, v)
       PROVE  PM!Next \/ View' = View
  <2>1. CASE View' = View
    BY <2>1
  <2>2. CASE space[p].leaf[pg].frame # None /\ PageShows(p, pg, v)
    <3>1. Seen(p)[pg] # NotThere
      <4>1. space[p].leaf[pg].frame \in Frame
        BY Zenon, <2>2, Pids, LeafHeld
      <4>2. data[space[p].leaf[pg].frame] \in Value
        BY <4>1 DEF FInv, Types
      <4>3. Seen(p)[pg] = data[space[p].leaf[pg].frame]
        BY Zenon, <2>2, SeenAt
      <4> QED
        BY <4>2, <4>3 DEF Value, NotThere
    <3>2. View[p][pg] # NotThere
      BY Zenon, <3>1 DEF View
    <3>3. PM!Store(p, pg, v)
      BY Zenon, <2>2, <3>2 DEF PageShows, PM!Store, View
    <3> QED
      BY Zenon, <3>3 DEF PM!Next
  <2> QED
    BY Zenon, <1>11, <2>1, <2>2, StoreSeen
<1> QED
  BY Zenon, <1>1, <1>2, <1>3, <1>4, <1>5, <1>6, <1>7, <1>8, <1>9, <1>10, <1>11 DEF Next

LEMMA InitRefines ==
  ASSUME Init
  PROVE  PM!Init
<1>1. ASSUME NEW p \in Pid PROVE Seen(p) = [pg \in Page |-> NotThere]
  <2>1. space[p] = NoSpace \/ space[p] = [NoSpace EXCEPT !.root = 1]
    BY Pids DEF Init
  <2>2. space[p].leaf = NoSpace.leaf
    BY <2>1 DEF NoSpace
  <2>3. \A pg \in Page : space[p].leaf[pg].frame = None
    BY <2>2, NoSpaceHoldsNothing DEF NoMapping
  <2> QED
    BY <2>3 DEF Seen
<1> QED
  BY Zenon, <1>1 DEF PM!Init, PM!NoMemory

\* Address spaces implement private memory: whatever frames are shared out, given
\* back and issued again by brk, mmap, fork, exec and reaping, a store reaches one
\* page of one task, new pages are zero, the child of a fork sees what its parent
\* saw, and exec shows the image and nothing of the old program.
THEOREM MemoryIsPrivate == Spec => MemoryImplemented
<1>1. FInv /\ CInv /\ [Next]_vars => [PM!Next]_View
  BY Zenon, BasicsHold, StepRefines
<1>2. FInv /\ CInv /\ [Next]_vars => [PM!Next]_([p \in Pid |-> Seen(p)])
  BY <1>1 DEF View
<1>3. Init => PM!Init
  BY InitRefines
<1> QED
  BY <1>2, <1>3, Invariants, PTL DEF Spec, MemoryImplemented, PM!Spec
===============================================================================
