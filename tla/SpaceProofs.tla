------------------------------ MODULE SpaceProofs ------------------------------
(***************************************************************************)
(* What the address spaces of UserMemory hold: a leaf is the last mapping  *)
(* of its page, a draft follows its parent or the image, and the pages     *)
(* behind the break and the mmap cursor are there.                         *)
(***************************************************************************)
EXTENDS UserMemoryProofs

-----------------------------------------------------------------------------
(* What the tables and the draft hold: every action keeps CInv.             *)

LEMMA SpaceTypes ==
  ASSUME FInv, NEW s \in SpaceId
  PROVE  /\ space[s].mappings \in Seq(Entry) /\ space[s].leaf \in [Page -> MappingType]
         /\ \A i \in DOMAIN space[s].mappings :
              /\ space[s].mappings[i] \in Entry
              /\ space[s].mappings[i].page \in Page
              /\ space[s].mappings[i].frame \in Frame
              /\ space[s].mappings[i].frame \in FramesOf(space[s])
<1>1. space[s] \in SpaceType
  BY DEF FInv, Types
<1>2. space[s].mappings \in Seq(Entry) /\ space[s].leaf \in [Page -> MappingType]
  BY <1>1 DEF SpaceType
<1>3. ASSUME NEW i \in DOMAIN space[s].mappings
      PROVE  /\ space[s].mappings[i] \in Entry
             /\ space[s].mappings[i].page \in Page /\ space[s].mappings[i].frame \in Frame
  <2>1. space[s].mappings[i] \in Entry
    BY ONLY <1>2, <1>3
  <2> QED
    BY ONLY <2>1 DEF Entry
<1>4. ASSUME NEW i \in DOMAIN space[s].mappings
      PROVE  space[s].mappings[i].frame \in FramesOf(space[s])
  <2>1. space[s].mappings[i].frame # None
    BY Zenon, <1>3, FrameFacts
  <2> QED
    BY Zenon, <2>1 DEF FramesOf
<1> QED
  BY Zenon, <1>2, <1>3, <1>4

\* A mapping is added to a list.
AddsLeaf(s, n, pg, m, e) ==
  /\ s.mappings \in Seq(Entry) /\ e \in Entry /\ s.leaf \in [Page -> MappingType]
  /\ n.mappings = Append(s.mappings, e) /\ n.leaf = [s.leaf EXCEPT ![pg] = m]
  /\ e.page = pg /\ e.frame = m.frame

LEMMA LeafMoves ==
  ASSUME NEW s, NEW n, LeafIsLast(s), NEW pg \in Page, NEW m, NEW e, AddsLeaf(s, n, pg, m, e)
  PROVE  LeafIsLast(n)
<1> DEFINE k == Len(s.mappings)
<1>0. /\ s.mappings \in Seq(Entry) /\ e \in Entry /\ s.leaf \in [Page -> MappingType]
      /\ n.mappings = Append(s.mappings, e) /\ n.leaf = [s.leaf EXCEPT ![pg] = m]
      /\ e.page = pg /\ e.frame = m.frame
  BY Zenon DEF AddsLeaf
<1>1. /\ k \in Nat /\ DOMAIN s.mappings = 1 .. k /\ DOMAIN n.mappings = 1 .. (k + 1)
      /\ n.mappings[k + 1] = e /\ \A i \in 1 .. k : n.mappings[i] = s.mappings[i]
  BY <1>0
<1>2. n.leaf[pg] = m /\ \A q \in Page : q # pg => n.leaf[q] = s.leaf[q]
  BY <1>0
<1> HIDE DEF k
<1>3. IsLast(n, pg, k + 1)
  BY <1>0, <1>1 DEF IsLast
<1>4. ASSUME NEW q \in Page, q # pg, NEW i \in DOMAIN s.mappings, IsLast(s, q, i)
      PROVE  IsLast(n, q, i) /\ n.mappings[i] = s.mappings[i]
  <2>1. s.mappings[i].page = q /\ \A j \in 1 .. k : s.mappings[j].page = q => j <= i
    BY Zenon, <1>1, <1>4 DEF IsLast
  <2>2. i \in 1 .. (k + 1) /\ n.mappings[i].page = q /\ n.mappings[i] = s.mappings[i]
    BY ONLY <1>1, <1>4, <2>1
  <2>3. \A j \in 1 .. (k + 1) : n.mappings[j].page = q => j \in 1 .. k /\ s.mappings[j].page = q
    <3> TAKE j \in 1 .. (k + 1)
    <3>1. CASE j = k + 1
      BY Zenon, <1>0, <1>1, <1>4, <3>1
    <3>2. CASE j # k + 1
      <4>1. j \in 1 .. k
        BY <1>1, <3>2
      <4> QED
        BY Zenon, <1>1, <4>1
    <3> QED
      BY <3>1, <3>2
  <2> QED
    BY Zenon, <1>1, <2>1, <2>2, <2>3 DEF IsLast
<1>5. ASSUME NEW q \in Page, q # pg PROVE Mapped(n, q) <=> Mapped(s, q)
  <2>1. ASSUME Mapped(s, q) PROVE Mapped(n, q)
    <3>1. PICK i \in 1 .. k : s.mappings[i].page = q
      BY Zenon, <1>1, <2>1 DEF Mapped
    <3>2. i \in 1 .. (k + 1)
      BY <1>1
    <3> QED
      BY Zenon, <1>1, <3>1, <3>2 DEF Mapped
  <2>2. ASSUME Mapped(n, q) PROVE Mapped(s, q)
    <3>1. PICK i \in 1 .. (k + 1) : n.mappings[i].page = q
      BY Zenon, <1>1, <2>2 DEF Mapped
    <3>2. i # k + 1
      BY Zenon, <1>0, <1>1, <1>5, <3>1
    <3>3. i \in 1 .. k
      BY <1>1, <3>2
    <3> QED
      BY Zenon, <1>1, <3>1, <3>3 DEF Mapped
  <2> QED
    BY <2>1, <2>2
<1>6. ASSUME NEW q \in Page
      PROVE  /\ Mapped(n, q) => \E i \in DOMAIN n.mappings :
                                  IsLast(n, q, i) /\ n.leaf[q].frame = n.mappings[i].frame
             /\ ~Mapped(n, q) => n.leaf[q].frame = None
  <2>1. CASE q = pg
    <3>1. k + 1 \in DOMAIN n.mappings /\ n.leaf[q].frame = n.mappings[k + 1].frame
      BY <1>0, <1>1, <1>2, <2>1
    <3>2. Mapped(n, q)
      BY Zenon, <1>0, <1>1, <2>1, <3>1 DEF Mapped
    <3> QED
      BY Zenon, <1>3, <2>1, <3>1, <3>2
  <2>2. CASE q # pg
    <3>1. CASE Mapped(s, q)
      <4>1. PICK i \in DOMAIN s.mappings : IsLast(s, q, i) /\ s.leaf[q].frame = s.mappings[i].frame
        BY Zenon, <3>1 DEF LeafIsLast
      <4>2. IsLast(n, q, i) /\ n.mappings[i] = s.mappings[i]
        BY Zenon, <1>4, <2>2, <4>1
      <4>3. i \in DOMAIN n.mappings
        BY Zenon, <4>2 DEF IsLast
      <4>4. n.leaf[q].frame = n.mappings[i].frame
        BY Zenon, <1>2, <2>2, <4>1, <4>2
      <4> QED
        BY Zenon, <1>5, <2>2, <3>1, <4>2, <4>3, <4>4
    <3>2. CASE ~Mapped(s, q)
      BY Zenon, <1>2, <1>5, <2>2, <3>2 DEF LeafIsLast
    <3> QED
      BY <3>1, <3>2
  <2> QED
    BY <2>1, <2>2
<1> QED
  BY Zenon, <1>6 DEF LeafIsLast

LEMMA LeafSame ==
  ASSUME NEW s, NEW n, LeafIsLast(s), n.mappings = s.mappings, n.leaf = s.leaf
  PROVE  LeafIsLast(n)
<1>1. \A pg \in Page : Mapped(n, pg) <=> Mapped(s, pg)
  BY DEF Mapped
<1>2. \A pg, i : IsLast(n, pg, i) <=> IsLast(s, pg, i)
  BY DEF IsLast
<1> QED
  BY <1>1, <1>2 DEF LeafIsLast

LEMMA EmptyLeaf ==
  ASSUME NEW n, n.mappings = <<>>, n.leaf = NoSpace.leaf
  PROVE  LeafIsLast(n)
<1>1. DOMAIN n.mappings = {} /\ \A pg \in Page : n.leaf[pg].frame = None
  BY NoSpaceHoldsNothing DEF NoMapping
<1> QED
  BY Zenon, <1>1 DEF LeafIsLast, Mapped

LEMMA ListLen ==
  ASSUME NEW n \in Nat, NEW S, NEW f \in [1 .. n -> S]
  PROVE  f \in Seq(S) /\ Len(f) = n /\ DOMAIN f = 1 .. n
<1>1. f \in Seq(S)
  BY Zenon, ListIsSeq
<1>2. Len(f) \in Nat /\ DOMAIN f = 1 .. Len(f) /\ DOMAIN f = 1 .. n
  BY ONLY <1>1, f \in [1 .. n -> S]
<1>3. Len(f) = n
  BY <1>2
<1> QED
  BY <1>1, <1>2, <1>3

\* The list that the draft must show.
Forks(o, sp, k) == o.kind = "fork" /\ DOMAIN sp[o.pid].mappings = 1 .. k

ForkWants(o, sp, dat, k) ==
  /\ Len(Want(o, sp, dat)) = k
  /\ \A i \in 1 .. k : /\ Want(o, sp, dat)[i].page = sp[o.pid].mappings[i].page
                       /\ Want(o, sp, dat)[i].value = dat[sp[o.pid].mappings[i].frame]

LEMMA WantFork ==
  ASSUME NEW o, NEW sp, NEW dat, NEW k \in Nat, Forks(o, sp, k)
  PROVE  ForkWants(o, sp, dat, k)
<1> DEFINE ms == sp[o.pid].mappings
           item(i) == [page |-> ms[i].page, value |-> dat[ms[i].frame]]
           w == [i \in 1 .. k |-> item(i)]
<1>1. Want(o, sp, dat) = w
  BY Zenon DEF Want, Forks
<1>2. \A i \in 1 .. k : item(i).page = ms[i].page /\ item(i).value = dat[ms[i].frame]
  BY Zenon
<1> HIDE DEF item
<1>3. Len(w) = k
  <2>1. w \in [1 .. k -> {item(i) : i \in 1 .. k}]
    BY Zenon
  <2> HIDE DEF w
  <2> QED
    BY Zenon, <2>1, ListLen
<1>4. \A i \in 1 .. k : w[i] = item(i)
  BY Zenon
<1> HIDE DEF w
<1> QED
  BY Zenon, <1>1, <1>2, <1>3, <1>4 DEF ms, ForkWants

LEMMA WantExec ==
  ASSUME NEW o, o.kind = "exec", NEW sp, NEW dat
  PROVE  /\ Len(Want(o, sp, dat)) = Len(Image)
         /\ \A i \in 1 .. Len(Image) : /\ Want(o, sp, dat)[i].page = Image[i]
                                       /\ Want(o, sp, dat)[i].value = Loaded
<1> DEFINE k == Len(Image)
           item(i) == [page |-> Image[i], value |-> Loaded]
           w == [i \in 1 .. k |-> item(i)]
<1>1. k \in Nat /\ DOMAIN Image = 1 .. k
  BY Zenon, ImageFacts
<1>2. "exec" # "fork"
  OBVIOUS
<1>3. Want(o, sp, dat) = w
  BY Zenon, <1>1, <1>2 DEF Want
<1>4. \A i \in 1 .. k : item(i).page = Image[i] /\ item(i).value = Loaded
  BY Zenon
<1> HIDE DEF item
<1>5. Len(w) = k
  <2>1. w \in [1 .. k -> {item(i) : i \in 1 .. k}]
    BY Zenon
  <2> HIDE DEF w
  <2> QED
    BY Zenon, <1>1, <2>1, ListLen
<1>6. \A i \in 1 .. k : w[i] = item(i)
  BY Zenon
<1> HIDE DEF w
<1> QED
  BY Zenon, <1>3, <1>4, <1>5, <1>6

\* Frames that no space holds may change.
Undisturbed(o, o2, sp, sp2, dat, dat2) ==
  /\ o2.kind = o.kind /\ o2.pid = o.pid
  /\ sp2[o.pid].mappings = sp[o.pid].mappings
  /\ \A i \in DOMAIN sp[o.pid].mappings :
       dat2[sp[o.pid].mappings[i].frame] = dat[sp[o.pid].mappings[i].frame]

LEMMA WantSame ==
  ASSUME NEW o, NEW o2, NEW sp, NEW sp2, NEW dat, NEW dat2,
         Undisturbed(o, o2, sp, sp2, dat, dat2)
  PROVE  Want(o2, sp2, dat2) = Want(o, sp, dat)
<1>0. /\ o2.kind = o.kind /\ o2.pid = o.pid
      /\ sp2[o.pid].mappings = sp[o.pid].mappings
      /\ \A i \in DOMAIN sp[o.pid].mappings :
           dat2[sp[o.pid].mappings[i].frame] = dat[sp[o.pid].mappings[i].frame]
  BY Zenon DEF Undisturbed
<1>1. CASE o.kind = "fork"
  <2> DEFINE ms == sp[o.pid].mappings
  <2>1. /\ Want(o, sp, dat) =
             [i \in DOMAIN ms |-> [page |-> ms[i].page, value |-> dat[ms[i].frame]]]
        /\ Want(o2, sp2, dat2) =
             [i \in DOMAIN ms |-> [page |-> ms[i].page, value |-> dat2[ms[i].frame]]]
    BY Zenon, <1>0, <1>1 DEF Want
  <2>2. \A i \in DOMAIN ms : dat2[ms[i].frame] = dat[ms[i].frame]
    BY <1>0
  <2> HIDE DEF ms
  <2> QED
    BY ONLY <2>1, <2>2
<1>2. CASE o.kind # "fork"
  BY Zenon, <1>0, <1>2 DEF Want
<1> QED
  BY <1>1, <1>2

LEMMA FollowsSame ==
  ASSUME NEW want, NEW ms, NEW todo, NEW dat, NEW dat2, Follows(want, ms, todo, dat),
         ms \in Seq(Entry), \A i \in DOMAIN ms : dat2[ms[i].frame] = dat[ms[i].frame]
  PROVE  Follows(want, ms, todo, dat2)
<1>1. DOMAIN ms = 1 .. Len(ms)
  OBVIOUS
<1> QED
  BY Zenon, <1>1 DEF Follows

\* The next page of the list is mapped and filled.
LEMMA FollowsStep ==
  ASSUME NEW want, NEW ms, NEW todo, NEW dat, NEW dat2, Follows(want, ms, todo, dat),
         ms \in Seq(Entry), todo \in Seq(ItemType), todo # <<>>, NEW e \in Entry,
         e.page = Head(todo).page, dat2[e.frame] = Head(todo).value,
         \A i \in DOMAIN ms : dat2[ms[i].frame] = dat[ms[i].frame]
  PROVE  Follows(want, Append(ms, e), Tail(todo), dat2)
<1> DEFINE k == Len(ms)
           l == Len(todo)
           ms2 == Append(ms, e)
           todo2 == Tail(todo)
<1>1. /\ k \in Nat /\ DOMAIN ms = 1 .. k /\ Len(ms2) = k + 1
      /\ ms2[k + 1] = e /\ \A i \in 1 .. k : ms2[i] = ms[i]
  OBVIOUS
<1>2. /\ l \in Nat /\ l > 0 /\ Len(todo2) = l - 1 /\ Head(todo) = todo[1]
      /\ \A i \in 1 .. (l - 1) : todo2[i] = todo[i + 1]
  <2>1. Len(todo2) = l - 1 /\ \A i \in 1 .. Len(todo2) : todo2[i] = todo[i + 1]
    BY ONLY todo \in Seq(ItemType), todo # <<>>
  <2>2. l \in Nat /\ l > 0 /\ Head(todo) = todo[1]
    BY ONLY todo \in Seq(ItemType), todo # <<>>
  <2> QED
    BY ONLY Zenon, <2>1, <2>2
<1>3. /\ k + l = Len(want)
      /\ \A i \in 1 .. k : ms[i].page = want[i].page /\ dat[ms[i].frame] = want[i].value
      /\ \A i \in 1 .. l : /\ todo[i].page = want[k + i].page
                           /\ todo[i].value = want[k + i].value
  BY Zenon DEF Follows
<1> HIDE DEF k, l, ms2, todo2
<1>4. Len(ms2) + Len(todo2) = Len(want)
  <2>1. (k + 1) + (l - 1) = k + l
    BY <1>1, <1>2
  <2> QED
    BY ONLY Zenon, <1>1, <1>2, <1>3, <2>1
<1>5. ASSUME NEW i \in 1 .. (k + 1)
      PROVE  ms2[i].page = want[i].page /\ dat2[ms2[i].frame] = want[i].value
  <2>1. CASE i = k + 1
    <3>1. 1 \in 1 .. l
      BY <1>2
    <3>2. todo[1].page = want[k + 1].page /\ todo[1].value = want[k + 1].value
      BY Zenon, <1>3, <3>1
    <3> QED
      BY Zenon, <1>1, <1>2, <2>1, <3>2
  <2>2. CASE i # k + 1
    <3>1. i \in 1 .. k
      BY <1>1, <2>2
    <3> QED
      BY Zenon, <1>1, <1>3, <3>1
  <2> QED
    BY <2>1, <2>2
<1>6. ASSUME NEW i \in 1 .. (l - 1)
      PROVE  /\ todo2[i].page = want[k + 1 + i].page
             /\ todo2[i].value = want[k + 1 + i].value
  <2>1. i + 1 \in 1 .. l /\ k + (i + 1) = k + 1 + i
    BY <1>1, <1>2
  <2>2. todo[i + 1].page = want[k + (i + 1)].page /\ todo[i + 1].value = want[k + (i + 1)].value
    BY Zenon, <1>3, <2>1
  <2> QED
    BY Zenon, <1>2, <2>1, <2>2
<1>7. \A i \in 1 .. Len(ms2) : ms2[i].page = want[i].page /\ dat2[ms2[i].frame] = want[i].value
  BY Zenon, <1>1, <1>5
<1>8. \A i \in 1 .. Len(todo2) : /\ todo2[i].page = want[Len(ms2) + i].page
                                 /\ todo2[i].value = want[Len(ms2) + i].value
  BY Zenon, <1>1, <1>2, <1>6
<1> QED
  BY Zenon, <1>4, <1>7, <1>8 DEF Follows, ms2, todo2

\* While a draft is built, what it must show stays what it was.
LEMMA Building ==
  ASSUME FInv, Drafts(op.kind)
  PROVE  /\ op.dst = Draft /\ op.pid \in Pid /\ op.pid \in SpaceId /\ op.pid # Draft
         /\ op.todo \in Seq(ItemType)
<1>1. CallInv(op, space, brk, panicked) /\ op \in OpType
  BY Zenon DEF FInv, Types
<1>2. op.dst = Draft /\ op.pid \in Pid
  BY Zenon, <1>1 DEF CallInv
<1>3. op.todo \in Seq(ItemType)
  BY <1>1 DEF OpType
<1> QED
  BY Zenon, <1>2, <1>3, Pids

\* A frame that no space holds is filled.
LEMMA FreshData ==
  ASSUME FInv, NEW f \in Frame, \A s \in SpaceId : f \notin FramesOf(space[s]), NEW v,
         data' = [data EXCEPT ![f] = v]
  PROVE  /\ data'[f] = v
         /\ \A s \in SpaceId : \A i \in DOMAIN space[s].mappings :
              data'[space[s].mappings[i].frame] = data[space[s].mappings[i].frame]
<1>1. data \in [Frame -> Value]
  BY Zenon DEF FInv, Types
<1>2. data'[f] = v /\ \A g \in Frame : g # f => data'[g] = data[g]
  BY <1>1
<1>3. ASSUME NEW s \in SpaceId, NEW i \in DOMAIN space[s].mappings
      PROVE  space[s].mappings[i].frame \in Frame /\ space[s].mappings[i].frame # f
  BY Zenon, SpaceTypes
<1> QED
  BY Zenon, <1>2, <1>3

LEMMA PathBuilds ==
  ASSUME Basics, FInv, CInv, make_user_path_private
  PROVE  CInv'
<1>1. /\ NextFrame \in Frame /\ \A s \in SpaceId : NextFrame \notin FramesOf(space[s])
      /\ space'[op.dst].leaf = space[op.dst].leaf
      /\ space'[op.dst].mappings = space[op.dst].mappings
      /\ \A s \in SpaceId : s # op.dst => space'[s] = space[s]
  BY Zenon, PathFacts
<1>2. op' = op /\ data' = [data EXCEPT ![NextFrame] = Entries]
  BY DEF make_user_path_private
<1>3. \A s \in SpaceId : space'[s].leaf = space[s].leaf /\ space'[s].mappings = space[s].mappings
  BY Zenon, <1>1
<1>4. \A s \in SpaceId : LeafIsLast(space'[s])
  BY Zenon, <1>3, LeafSame DEF CInv
<1>5. \A s \in SpaceId : \A i \in DOMAIN space[s].mappings :
        data'[space[s].mappings[i].frame] = data[space[s].mappings[i].frame]
  BY Zenon, <1>1, <1>2, FreshData
<1>6. ASSUME Drafts(op.kind)
      PROVE  Follows(Want(op, space', data'), space'[Draft].mappings, op.todo, data')
  <2>1. op.dst = Draft /\ op.pid \in SpaceId /\ Draft \in SpaceId
    BY Zenon, <1>6, Building, Pids
  <2>2. Want(op, space', data') = Want(op, space, data)
    <3>1. Undisturbed(op, op, space, space', data, data')
      BY Zenon, <1>3, <1>5, <2>1 DEF Undisturbed
    <3> QED
      BY ONLY <3>1, WantSame
  <2>3. Follows(Want(op, space, data), space[Draft].mappings, op.todo, data)
    BY Zenon, <1>6 DEF CInv
  <2>4. space[Draft].mappings \in Seq(Entry)
    BY Zenon, <2>1, SpaceTypes
  <2>5. Follows(Want(op, space, data), space[Draft].mappings, op.todo, data')
    <3>1. \A i \in DOMAIN space[Draft].mappings :
            data'[space[Draft].mappings[i].frame] = data[space[Draft].mappings[i].frame]
      BY Zenon, <1>5, <2>1
    <3> QED
      BY ONLY Zenon, <2>3, <2>4, <3>1, FollowsSame
  <2> QED
    BY Zenon, <1>3, <2>1, <2>2, <2>5
<1> QED
  BY Zenon, <1>2, <1>4, <1>6 DEF CInv

LEMMA MapBuilds ==
  ASSUME FInv, CInv, map_page
  PROVE  CInv'
<1> DEFINE item == Head(op.todo)
           e == [page |-> item.page, frame |-> NextFrame, prot |-> item.prot]
           m == [frame |-> NextFrame, prot |-> item.prot]
           d == op.dst
<1>1. /\ NextFrame \in Frame /\ \A s \in SpaceId : NextFrame \notin FramesOf(space[s])
      /\ space'[d].leaf = [space[d].leaf EXCEPT ![item.page] = m]
      /\ space'[d].mappings = Append(space[d].mappings, e)
      /\ \A s \in SpaceId : s # d => space'[s] = space[s]
      /\ data' = [data EXCEPT ![NextFrame] = item.value]
  BY Zenon, MapFacts
<1>2. op.todo # <<>> /\ op' = [op EXCEPT !.todo = Tail(op.todo)]
  BY Zenon DEF map_page
<1>3. d \in SpaceId /\ item \in ItemType /\ op \in OpType
  BY Zenon, <1>2, Working
<1>4. op'.kind = op.kind /\ op'.pid = op.pid /\ op'.todo = Tail(op.todo)
  BY Zenon, <1>2, <1>3 DEF OpType
<1>5. item.page \in Page /\ item.prot \in Prot
  BY <1>3 DEF ItemType
<1>6. e \in Entry /\ e.page = item.page /\ e.frame = NextFrame /\ m.frame = NextFrame
  BY Zenon, <1>1, <1>5 DEF Entry
<1> HIDE DEF item, e, m, d
<1>7. space[d].mappings \in Seq(Entry) /\ space[d].leaf \in [Page -> MappingType]
  BY Zenon, <1>3, SpaceTypes
<1>8. LeafIsLast(space'[d])
  <2>1. LeafIsLast(space[d]) /\ e.frame = m.frame
    BY Zenon, <1>3, <1>6 DEF CInv
  <2> QED
    <3>1. AddsLeaf(space[d], space'[d], item.page, m, e)
      BY Zenon, <1>1, <1>6, <1>7, <2>1 DEF AddsLeaf
    <3> QED
      BY ONLY Zenon, <1>5, <2>1, <3>1, LeafMoves
<1>9. \A s \in SpaceId : LeafIsLast(space'[s])
  BY Zenon, <1>1, <1>8 DEF CInv
<1>10. /\ data'[NextFrame] = item.value
       /\ \A s \in SpaceId : \A i \in DOMAIN space[s].mappings :
            data'[space[s].mappings[i].frame] = data[space[s].mappings[i].frame]
  BY Zenon, <1>1, FreshData
<1>11. ASSUME Drafts(op.kind)
       PROVE  Follows(Want(op', space', data'), space'[Draft].mappings, op'.todo, data')
  <2>1. /\ d = Draft /\ op.pid \in SpaceId /\ op.pid # Draft /\ Draft \in SpaceId
        /\ op.todo \in Seq(ItemType)
    BY Zenon, <1>11, Building, Pids DEF d
  <2>2. space'[op.pid].mappings = space[op.pid].mappings
    BY Zenon, <1>1, <2>1
  <2>3. Want(op', space', data') = Want(op, space, data)
    <3>1. Undisturbed(op, op', space, space', data, data')
      BY Zenon, <1>4, <1>10, <2>1, <2>2 DEF Undisturbed
    <3> QED
      BY ONLY <3>1, WantSame
  <2>4. Follows(Want(op, space, data), space[Draft].mappings, op.todo, data)
    BY Zenon, <1>11 DEF CInv
  <2>5. space[Draft].mappings \in Seq(Entry)
    BY Zenon, <2>1, SpaceTypes
  <2>6. data'[e.frame] = Head(op.todo).value /\ e.page = Head(op.todo).page
    BY Zenon, <1>6, <1>10 DEF item
  <2>7. \A i \in DOMAIN space[Draft].mappings :
          data'[space[Draft].mappings[i].frame] = data[space[Draft].mappings[i].frame]
    BY Zenon, <1>10, <2>1
  <2>8. Follows(Want(op, space, data), Append(space[Draft].mappings, e), Tail(op.todo), data')
    BY ONLY Zenon, <1>2, <1>6, <2>1, <2>4, <2>5, <2>6, <2>7, FollowsStep
  <2>9. space'[Draft].mappings = Append(space[Draft].mappings, e)
    BY Zenon, <1>1, <2>1
  <2> QED
    BY Zenon, <1>4, <2>3, <2>8, <2>9
<1> QED
  BY Zenon, <1>4, <1>9, <1>11 DEF CInv

LEMMA FollowsFirst ==
  ASSUME NEW want, NEW todo, NEW dat, NEW n \in Nat, Len(want) = n, Len(todo) = n,
         \A i \in 1 .. n : todo[i].page = want[i].page /\ todo[i].value = want[i].value
  PROVE  Follows(want, <<>>, todo, dat)
<1>1. Len(<<>>) = 0 /\ 0 + n = n /\ 1 .. 0 = {} /\ \A i \in 1 .. n : 0 + i = i
  BY ONLY n \in Nat
<1>2. Len(<<>>) + Len(todo) = Len(want)
  BY Zenon, <1>1
<1>3. \A i \in 1 .. Len(<<>>) :
        <<>>[i].page = want[i].page /\ dat[<<>>[i].frame] = want[i].value
  BY Zenon, <1>1
<1>4. ASSUME NEW i \in 1 .. Len(todo)
      PROVE  /\ todo[i].page = want[Len(<<>>) + i].page
             /\ todo[i].value = want[Len(<<>>) + i].value
  <2>1. Len(<<>>) + i = i
    BY Zenon, <1>1
  <2> QED
    BY Zenon, <2>1
<1> QED
  BY Zenon, <1>2, <1>3, <1>4 DEF Follows

LEMMA ForkBegins ==
  ASSUME FInv, CInv, NEW p \in Pid, fork_starts(p)
  PROVE  CInv'
<1> DEFINE ms == space[p].mappings
           item(i) == [page |-> ms[i].page, prot |-> ms[i].prot, value |-> data[ms[i].frame]]
           todo == [i \in DOMAIN ms |-> item(i)]
           k == Len(ms)
<1>1. /\ NextFrame \in Frame /\ \A s \in SpaceId : NextFrame \notin FramesOf(space[s])
      /\ space'[Draft].leaf = NoSpace.leaf /\ space'[Draft].mappings = <<>>
      /\ \A s \in SpaceId : s # Draft => space'[s] = space[s]
      /\ data' = [data EXCEPT ![NextFrame] = Entries]
      /\ op'.kind = "fork" /\ op'.pid = p /\ op'.todo = todo
  BY Zenon, ForkStartFacts
<1>2. p \in SpaceId /\ p # Draft /\ Draft \in SpaceId
  BY Zenon, Pids
<1>3. ms \in Seq(Entry)
  BY Zenon, <1>2, SpaceTypes
<1>4. LeafIsLast(space'[Draft])
  BY Zenon, <1>1, EmptyLeaf
<1>5. \A s \in SpaceId : LeafIsLast(space'[s])
  BY Zenon, <1>1, <1>4 DEF CInv
<1>6. \A i \in DOMAIN ms : data'[ms[i].frame] = data[ms[i].frame]
  BY Zenon, <1>1, <1>2, FreshData
<1>7. space'[p].mappings = ms
  BY Zenon, <1>1, <1>2
<1>8. \A i : item(i).page = ms[i].page /\ item(i).value = data[ms[i].frame]
  BY Zenon
<1> HIDE DEF ms, item
<1>9. k \in Nat /\ DOMAIN ms = 1 .. k
  BY <1>3
<1> HIDE DEF k
<1>10. Len(todo) = k /\ \A i \in 1 .. k : todo[i] = item(i)
  <2>1. todo \in [1 .. k -> {item(i) : i \in 1 .. k}] /\ \A i \in 1 .. k : todo[i] = item(i)
    BY Zenon, <1>9
  <2> HIDE DEF todo
  <2> QED
    BY Zenon, <1>9, <2>1, ListLen
<1> HIDE DEF todo
<1> DEFINE want == Want(op', space', data')
<1>11. /\ Len(want) = k
       /\ \A i \in 1 .. k : want[i].page = ms[i].page /\ want[i].value = data'[ms[i].frame]
  <2>1. space'[op'.pid].mappings = ms
    BY Zenon, <1>1, <1>7
  <2>2. DOMAIN space'[op'.pid].mappings = 1 .. k
    BY Zenon, <1>9, <2>1
  <2>3. /\ Len(want) = k
        /\ \A i \in 1 .. k : /\ want[i].page = space'[op'.pid].mappings[i].page
                             /\ want[i].value = data'[space'[op'.pid].mappings[i].frame]
    <3>1. Forks(op', space', k)
      BY Zenon, <1>1, <2>2 DEF Forks
    <3>2. ForkWants(op', space', data', k)
      BY ONLY Zenon, <1>9, <3>1, WantFork
    <3> QED
      BY ONLY Zenon, <3>2 DEF ForkWants
  <2> HIDE DEF want
  <2> QED
    BY Zenon, <2>1, <2>3
<1> HIDE DEF want
<1>12. \A i \in 1 .. k : todo[i].page = want[i].page /\ todo[i].value = want[i].value
  BY Zenon, <1>6, <1>8, <1>9, <1>10, <1>11
<1>13. Follows(want, <<>>, todo, data')
  BY ONLY Zenon, <1>9, <1>10, <1>11, <1>12, FollowsFirst
<1> QED
  BY Zenon, <1>1, <1>5, <1>13 DEF CInv, want

LEMMA ExecBegins ==
  ASSUME FInv, CInv, NEW p \in Pid, exec_starts(p)
  PROVE  CInv'
<1> DEFINE item(i) == [page |-> Image[i], prot |-> "rw", value |-> Loaded]
           todo == [i \in DOMAIN Image |-> item(i)]
           k == Len(Image)
<1>1. /\ space'[Draft].leaf = NoSpace.leaf /\ space'[Draft].mappings = <<>>
      /\ \A s \in SpaceId : s # Draft => space'[s] = space[s]
      /\ op'.kind = "exec" /\ op'.pid = p /\ op'.todo = todo
  BY Zenon, ExecStartFacts
<1>2. LeafIsLast(space'[Draft])
  BY Zenon, <1>1, EmptyLeaf
<1>3. \A s \in SpaceId : LeafIsLast(space'[s])
  BY Zenon, <1>1, <1>2 DEF CInv
<1>4. \A i : item(i).page = Image[i] /\ item(i).value = Loaded
  BY Zenon
<1> HIDE DEF item
<1>5. k \in Nat /\ DOMAIN Image = 1 .. k
  BY Zenon, ImageFacts
<1>6. Len(todo) = k /\ \A i \in 1 .. k : todo[i] = item(i)
  <2>1. todo \in [1 .. k -> {item(i) : i \in 1 .. k}] /\ \A i \in 1 .. k : todo[i] = item(i)
    BY Zenon, <1>5
  <2> HIDE DEF todo
  <2> QED
    BY Zenon, <1>5, <2>1, ListLen
<1> DEFINE want == Want(op', space', data')
<1>7. /\ Len(want) = k /\ \A i \in 1 .. k : want[i].page = Image[i] /\ want[i].value = Loaded
  BY ONLY <1>1, WantExec
<1> HIDE DEF want, todo, k
<1>8. \A i \in 1 .. k : todo[i].page = want[i].page /\ todo[i].value = want[i].value
  BY Zenon, <1>4, <1>6, <1>7
<1>9. Follows(want, <<>>, todo, data')
  BY ONLY Zenon, <1>5, <1>6, <1>7, <1>8, FollowsFirst
<1> QED
  BY Zenon, <1>1, <1>3, <1>9 DEF CInv, want

\* Steps after which no draft is built, and whose spaces come from others.
LEMMA NoDraftLeft ==
  ASSUME CInv, ~Drafts(op'.kind),
         \A s \in SpaceId : space'[s] = NoSpace \/ \E u \in SpaceId : space'[s] = space[u]
  PROVE  CInv'
<1>1. LeafIsLast(NoSpace)
  BY Zenon, NoSpaceHoldsNothing, EmptyLeaf
<1>2. ASSUME NEW s \in SpaceId PROVE LeafIsLast(space'[s])
  <2>1. CASE space'[s] = NoSpace
    BY Zenon, <1>1, <2>1
  <2>2. CASE \E u \in SpaceId : space'[s] = space[u]
    BY Zenon, <2>2 DEF CInv
  <2> QED
    BY Zenon, <2>1, <2>2
<1> QED
  BY Zenon, <1>2 DEF CInv

LEMMA CInvStarts ==
  ASSUME Init
  PROVE  CInv
<1>1. op = NoOp /\ space = [s \in SpaceId |-> IF s = ROOT_PID THEN [NoSpace EXCEPT !.root = 1]
                                              ELSE NoSpace]
  BY Zenon DEF Init
<1>2. ASSUME NEW s \in SpaceId
      PROVE  space[s].mappings = <<>> /\ space[s].leaf = NoSpace.leaf
  <2>1. CASE s = ROOT_PID
    <3>1. space[s] = [NoSpace EXCEPT !.root = 1]
      BY Zenon, <1>1, <2>1
    <3> QED
      BY Zenon, <3>1, NoSpaceHoldsNothing DEF NoSpace
  <2>2. CASE s # ROOT_PID
    BY Zenon, <1>1, <2>2, NoSpaceHoldsNothing
  <2> QED
    BY <2>1, <2>2
<1>3. \A s \in SpaceId : LeafIsLast(space[s])
  BY Zenon, <1>2, EmptyLeaf
<1> QED
  BY Zenon, <1>1, <1>3, NoOpFacts DEF CInv

LEMMA CInvKept ==
  ASSUME Basics, FInv, CInv, [Next]_vars
  PROVE  CInv'
<1>0. ~Drafts(NoOp.kind) /\ Draft \in SpaceId /\ \A p \in Pid : p \in SpaceId /\ p # Draft
  BY Zenon, NoOpFacts, Pids
<1>1. CASE UNCHANGED vars
  BY Zenon, <1>1 DEF CInv, vars
<1>2. CASE make_user_path_private
  BY Zenon, <1>2, PathBuilds
<1>3. CASE map_page
  BY Zenon, <1>3, MapBuilds
<1>4. CASE out_of_frames \/ map_failed \/ exec_read_fails
  <2>1. /\ op' = NoOp
        /\ \A s \in SpaceId : space'[s] = space[s] \/ (s = Draft /\ space'[s] = NoSpace)
    BY Zenon, <1>4, FailFacts
  <2> QED
    BY Zenon, <1>0, <2>1, NoDraftLeft
<1>5. CASE exec_ends
  <2>1. op' = NoOp
    BY <1>5 DEF exec_ends
  <2>2. /\ op.pid \in Pid /\ space'[op.pid] = space[Draft] /\ space'[Draft] = NoSpace
        /\ \A s \in SpaceId : s # op.pid /\ s # Draft => space'[s] = space[s]
    BY Zenon, <1>5, ExecEndFacts
  <2>3. \A s \in SpaceId : space'[s] = NoSpace \/ \E u \in SpaceId : space'[s] = space[u]
    BY Zenon, <1>0, <2>2
  <2> QED
    BY Zenon, <1>0, <2>1, <2>3, NoDraftLeft
<1>6. CASE brk_ends \/ mmap_ends
  <2>1. op' = NoOp /\ space' = space
    BY <1>6 DEF brk_ends, mmap_ends
  <2> QED
    BY Zenon, <1>0, <2>1, NoDraftLeft
<1>7. ASSUME NEW p \in Pid, fork_starts(p) PROVE CInv'
  BY Zenon, <1>7, ForkBegins
<1>8. ASSUME NEW p \in Pid, fork_out_of_frames(p) PROVE CInv'
  <2>1. op' = NoOp /\ space' = space
    BY <1>8 DEF fork_out_of_frames, Idle
  <2> QED
    BY Zenon, <1>0, <2>1, NoDraftLeft
<1>9. ASSUME NEW p \in Pid, fork_ends(p) PROVE CInv'
  <2>1. op' = NoOp
    BY <1>9 DEF fork_ends
  <2>2. /\ space'[p] = space[Draft] /\ space'[Draft] = NoSpace
        /\ \A s \in SpaceId : s # p /\ s # Draft => space'[s] = space[s]
    BY Zenon, <1>9, ForkEndFacts
  <2>3. \A s \in SpaceId : space'[s] = NoSpace \/ \E u \in SpaceId : space'[s] = space[u]
    BY Zenon, <1>0, <2>2
  <2> QED
    BY Zenon, <1>0, <2>1, <2>3, NoDraftLeft
<1>10. ASSUME NEW p \in Pid, exec_starts(p) PROVE CInv'
  BY Zenon, <1>10, ExecBegins
<1>11. ASSUME NEW p \in Pid, reap_zombie_child(p) PROVE CInv'
  <2>1. op' = NoOp
    BY <1>11 DEF reap_zombie_child, Idle
  <2>2. space'[p] = NoSpace /\ \A s \in SpaceId : s # p => space'[s] = space[s]
    BY Zenon, <1>11, ReapFacts
  <2>3. \A s \in SpaceId : space'[s] = NoSpace \/ \E u \in SpaceId : space'[s] = space[u]
    BY Zenon, <2>2
  <2> QED
    BY Zenon, <1>0, <2>1, <2>3, NoDraftLeft
<1>12. ASSUME NEW p \in Pid, NEW addr \in 0 .. BrkMax, brk_moves(p, addr) \/ brk_grows(p, addr)
       PROVE  CInv'
  <2>1. space' = space /\ (op' = NoOp \/ op'.kind = "brk")
    BY <1>12 DEF brk_moves, brk_grows, Runs, Idle
  <2>2. ~Drafts("brk")
    BY DEF Drafts
  <2> QED
    BY Zenon, <1>0, <2>1, <2>2, NoDraftLeft
<1>13. ASSUME NEW p \in Pid, NEW hint \in Hints \union {None}, NEW length \in 0 .. MaxLen,
              NEW prot \in Prot, mmap_starts(p, hint, length, prot)
       PROVE  CInv'
  <2>1. space' = space
    BY Zenon, <1>13 DEF mmap_starts
  <2>2. op'.kind \in {"mmap", "hint"}
    <3>1. op'.kind = (IF hint = None THEN "mmap" ELSE "hint")
      BY Zenon, <1>13, MmapStartsFacts
    <3> QED
      BY <3>1
  <2>3. ~Drafts(op'.kind)
    BY <2>2 DEF Drafts
  <2> QED
    BY Zenon, <1>0, <2>1, <2>3, NoDraftLeft
<1>14. ASSUME NEW p \in Pid, NEW pg \in Page, NEW v \in Value,
              store(p, pg, v) \/ copy_to_task(p, pg, v)
       PROVE  CInv'
  <2>1. op' = NoOp /\ space' = space
    BY <1>14 DEF store, copy_to_task, Runs, Idle
  <2> QED
    BY Zenon, <1>0, <2>1, NoDraftLeft
<1> QED
  BY Zenon, <1>1, <1>2, <1>3, <1>4, <1>5, <1>6, <1>7, <1>8, <1>9, <1>10, <1>11, <1>12, <1>13,
     <1>14 DEF Next

-----------------------------------------------------------------------------
(* The areas behind the break and the cursor: every action keeps AInv.      *)

\* A finished list adds its area to the one before it.
LEMMA BackedJoins ==
  ASSUME NEW s, NEW a \in Nat, NEW b \in Nat, NEW c \in Nat,
         Backed(s, <<>>, a, b), Backed(s, <<>>, b, c)
  PROVE  Backed(s, <<>>, a, c)
<1>1. ASSUME NEW pg \in Page PROVE pg * page_size \in Nat
  <2>1. pg \in Nat /\ page_size \in Nat
    BY Sizes DEF Page
  <2> QED
    BY <2>1
<1>2. DOMAIN <<>> = {}
  OBVIOUS
<1>3. ASSUME NEW pg \in Page, pg * page_size >= a, pg * page_size < c
      PROVE  s.leaf[pg].frame # None
  <2>1. pg * page_size >= b \/ pg * page_size < b
    BY <1>1
  <2> QED
    BY Zenon, <1>2, <1>3, <2>1 DEF Backed
<1> QED
  BY Zenon, <1>3 DEF Backed

LEMMA BackedNothing ==
  ASSUME NEW s, NEW todo, NEW a \in Nat
  PROVE  Backed(s, todo, a, a)
<1>1. ASSUME NEW pg \in Page PROVE ~(pg * page_size >= a /\ pg * page_size < a)
  <2>1. pg \in Nat /\ page_size \in Nat
    BY Sizes DEF Page
  <2>2. pg * page_size \in Nat
    BY <2>1
  <2> QED
    BY <2>2
<1> QED
  BY Zenon, <1>1 DEF Backed

\* The list of a growing call has all pages of the area.
LEMMA BackedByList ==
  ASSUME NEW s, NEW a \in Nat, NEW b \in Nat, a >= 1, a <= b, b * page_size <= user_end,
         NEW prot \in Prot, NEW from \in Nat, a * page_size < from + page_size
  PROVE  Backed(s, ZeroPages(a, b, prot), from, b * page_size)
<1> DEFINE z == ZeroPages(a, b, prot)
<1>1. \A pg \in Nat : a <= pg /\ pg < b => \E i \in DOMAIN z : z[i].page = pg
  BY Zenon, ZeroPagesFacts
<1> HIDE DEF z
<1>2. ASSUME NEW pg \in Page, pg * page_size >= from, pg * page_size < b * page_size
      PROVE  \E i \in DOMAIN z : z[i].page = pg
  <2>1. pg \in Nat /\ page_size \in Nat \ {0}
    BY Sizes DEF Page
  <2>2. pg * page_size \in Nat /\ a * page_size \in Nat /\ (pg + 1) * page_size \in Nat
    BY <2>1
  <2>3. pg < b
    BY <1>2, <2>1, Multiples
  <2>4. (pg + 1) * page_size = pg * page_size + page_size
    BY <2>1
  <2>5. a * page_size < (pg + 1) * page_size
    BY <1>2, <2>1, <2>2, <2>4
  <2>6. a < pg + 1
    BY <2>1, <2>5, Multiples
  <2>7. a <= pg
    BY <2>1, <2>6
  <2> QED
    BY Zenon, <1>1, <2>1, <2>3, <2>7
<1> QED
  BY Zenon, <1>2 DEF Backed, z

\* What AInv says of one task.
TaskBacked(s, b, m) ==
  s.root # None /\ b.start # 0 => Backed(s, <<>>, b.start, b.mapped_end)
                                  /\ Backed(s, <<>>, MmapBase, m)

LEMMA AInvTasks ==
  AInv <=> /\ \A p \in Pid : TaskBacked(space[p], brk[p], mmap_end[p])
           /\ op.kind = "brk" =>
                Backed(space[op.pid], op.todo, brk[op.pid].mapped_end, RoundUp(op.end))
           /\ op.kind = "mmap" => Backed(space[op.pid], op.todo, mmap_end[op.pid], op.end)
  BY Zenon DEF AInv, TaskBacked

LEMMA TaskGrows ==
  ASSUME NEW s, NEW n, NEW b, NEW m, TaskBacked(s, b, m), s.root # None,
         \A pg \in Page : s.leaf[pg].frame # None => n.leaf[pg].frame # None
  PROVE  TaskBacked(n, b, m)
<1>1. DOMAIN <<>> = {}
  OBVIOUS
<1> QED
  BY Zenon, <1>1 DEF TaskBacked, Backed

\* A step after which neither brk nor mmap is in progress.
LEMMA AreasAfter ==
  ASSUME \A p \in Pid : TaskBacked(space'[p], brk'[p], mmap_end'[p]),
         op'.kind # "brk", op'.kind # "mmap"
  PROVE  AInv'
  BY Zenon DEF AInv, TaskBacked

\* A step that maps a page, or prepares to.
LEMMA AreasGrow ==
  ASSUME FInv, AInv, brk' = brk, mmap_end' = mmap_end, op.todo # <<>>,
         op'.kind = op.kind, op'.pid = op.pid, op'.end = op.end,
         \A s \in SpaceId : s # op.dst => space'[s] = space[s],
         \A pg \in Page : space[op.dst].leaf[pg].frame # None =>
                            space'[op.dst].leaf[pg].frame # None,
         \A pg \in Page : (\E i \in DOMAIN op.todo : op.todo[i].page = pg) =>
           \/ space'[op.dst].leaf[pg].frame # None
           \/ \E i \in DOMAIN op'.todo : op'.todo[i].page = pg
  PROVE  AInv'
<1>1. /\ space[op.dst].root # None /\ op.dst \in SpaceId
  BY Zenon, Working
<1>2. \A p \in Pid : TaskBacked(space[p], brk[p], mmap_end[p])
  BY Zenon, AInvTasks
<1>3. ASSUME NEW p \in Pid PROVE TaskBacked(space'[p], brk'[p], mmap_end'[p])
  <2>1. CASE p = op.dst
    <3>1. TaskBacked(space[p], brk[p], mmap_end[p]) /\ space[p].root # None
      BY Zenon, <1>1, <1>2, <2>1
    <3>2. \A pg \in Page : space[p].leaf[pg].frame # None => space'[p].leaf[pg].frame # None
      BY Zenon, <2>1
    <3>3. TaskBacked(space'[p], brk[p], mmap_end[p])
      BY ONLY Zenon, <3>1, <3>2, TaskGrows
    <3> QED
      BY Zenon, <3>3
  <2>2. CASE p # op.dst
    BY Zenon, <1>2, <2>2, Pids
  <2> QED
    BY <2>1, <2>2
<1>4. Grows(op.kind) => op.dst = op.pid
  BY Zenon DEF FInv, CallInv
<1>5. ASSUME Grows(op.kind), NEW from, NEW to, Backed(space[op.pid], op.todo, from, to)
      PROVE  Backed(space'[op.pid], op'.todo, from, to)
  <2>1. op.dst = op.pid
    BY Zenon, <1>4, <1>5
  <2>2. \A pg \in Page : space[op.pid].leaf[pg].frame # None =>
                           space'[op.pid].leaf[pg].frame # None
    BY Zenon, <2>1
  <2>3. \A pg \in Page : (\E i \in DOMAIN op.todo : op.todo[i].page = pg) =>
          \/ space'[op.pid].leaf[pg].frame # None
          \/ \E i \in DOMAIN op'.todo : op'.todo[i].page = pg
    BY Zenon, <2>1
  <2> QED
    BY ONLY Zenon, <1>5, <2>2, <2>3 DEF Backed
<1>6. op.kind = "brk" =>
        Backed(space[op.pid], op.todo, brk[op.pid].mapped_end, RoundUp(op.end))
  BY Zenon DEF AInv
<1>7. op.kind = "mmap" => Backed(space[op.pid], op.todo, mmap_end[op.pid], op.end)
  BY Zenon DEF AInv
<1>8. Grows("brk") /\ Grows("mmap")
  BY DEF Grows
<1>9. op'.kind = "brk" =>
        Backed(space'[op'.pid], op'.todo, brk'[op'.pid].mapped_end, RoundUp(op'.end))
  BY Zenon, <1>5, <1>6, <1>8
<1>10. op'.kind = "mmap" => Backed(space'[op'.pid], op'.todo, mmap_end'[op'.pid], op'.end)
  BY Zenon, <1>5, <1>7, <1>8
<1>11. (RoundUp(op.end))' = RoundUp(op'.end)
  BY DEF RoundUp
<1> QED
  BY Zenon, <1>3, <1>9, <1>10, <1>11 DEF AInv, TaskBacked

LEMMA PathBacks ==
  ASSUME Basics, FInv, AInv, make_user_path_private
  PROVE  AInv'
<1>1. /\ op.todo # <<>> /\ op' = op /\ brk' = brk /\ mmap_end' = mmap_end
  BY DEF make_user_path_private
<1>2. /\ space'[op.dst].leaf = space[op.dst].leaf
      /\ \A s \in SpaceId : s # op.dst => space'[s] = space[s]
  BY Zenon, PathFacts
<1> QED
  BY Zenon, <1>1, <1>2, AreasGrow

LEMMA MapBacks ==
  ASSUME FInv, AInv, map_page
  PROVE  AInv'
<1> DEFINE item == Head(op.todo)
           d == op.dst
           m == [frame |-> NextFrame, prot |-> item.prot]
<1>1. /\ op.todo # <<>> /\ op' = [op EXCEPT !.todo = Tail(op.todo)]
      /\ brk' = brk /\ mmap_end' = mmap_end
  BY Zenon DEF map_page
<1>2. /\ NextFrame \in Frame
      /\ space'[d].leaf = [space[d].leaf EXCEPT ![item.page] = m]
      /\ \A s \in SpaceId : s # d => space'[s] = space[s]
  BY Zenon, MapFacts
<1>3. d \in SpaceId /\ item \in ItemType /\ op \in OpType
  BY Zenon, <1>1, Working
<1>4. /\ op'.kind = op.kind /\ op'.pid = op.pid /\ op'.todo = Tail(op.todo) /\ op'.end = op.end
      /\ op.todo \in Seq(ItemType)
  BY Zenon, <1>1, <1>3 DEF OpType
<1>5. item.page \in Page /\ m.frame = NextFrame
  BY <1>3 DEF ItemType
<1>6. space[d].leaf \in [Page -> MappingType]
  BY Zenon, <1>3, SpaceTypes
<1>7. NextFrame # None
  BY Zenon, <1>2, FrameFacts
<1>8. ASSUME NEW i \in DOMAIN op.todo, op.todo[i].page # item.page
      PROVE  \E j \in DOMAIN op'.todo : op'.todo[j].page = op.todo[i].page
  <2> DEFINE l == Len(op.todo)
             j == i - 1
  <2>1. l \in Nat /\ l > 0 /\ item = op.todo[1] /\ i \in 1 .. l
    BY <1>1, <1>4
  <2>2. Len(Tail(op.todo)) = l - 1 /\ \A k \in 1 .. (l - 1) : Tail(op.todo)[k] = op.todo[k + 1]
    BY ONLY <1>1, <1>4
  <2>3. DOMAIN Tail(op.todo) = 1 .. (l - 1)
    BY ONLY <1>1, <1>4, <2>2
  <2> HIDE DEF item, l
  <2>4. i # 1
    BY Zenon, <1>8, <2>1
  <2>5. j \in 1 .. (l - 1) /\ j + 1 = i
    BY <2>1, <2>4
  <2> HIDE DEF j
  <2> QED
    BY Zenon, <1>4, <2>2, <2>3, <2>5
<1> HIDE DEF item, d, m
<1>9. /\ space'[d].leaf[item.page] = m
      /\ \A pg \in Page : pg # item.page => space'[d].leaf[pg] = space[d].leaf[pg]
  BY <1>2, <1>5, <1>6
<1>10. space'[d].leaf[item.page].frame # None
  BY Zenon, <1>5, <1>7, <1>9
<1>11. \A pg \in Page : space[d].leaf[pg].frame # None => space'[d].leaf[pg].frame # None
  BY Zenon, <1>9, <1>10
<1>12. \A pg \in Page : (\E i \in DOMAIN op.todo : op.todo[i].page = pg) =>
         space'[d].leaf[pg].frame # None \/ \E i \in DOMAIN op'.todo : op'.todo[i].page = pg
  BY Zenon, <1>8, <1>10
<1> QED
  BY Zenon, <1>1, <1>2, <1>4, <1>11, <1>12, AreasGrow DEF d

-----------------------------------------------------------------------------
(* A complete draft.                                                        *)

LEMMA LeafCases ==
  ASSUME FInv, CInv, NEW s \in SpaceId, NEW pg \in Page
  PROVE  /\ ~Mapped(space[s], pg) => space[s].leaf[pg].frame = None
         /\ Mapped(space[s], pg) =>
              /\ space[s].leaf[pg].frame \in Frame /\ space[s].leaf[pg].frame # None
              /\ \E i \in DOMAIN space[s].mappings :
                   /\ IsLast(space[s], pg, i)
                   /\ space[s].leaf[pg].frame = space[s].mappings[i].frame
<1>1. LeafIsLast(space[s])
  BY Zenon DEF CInv
<1>2. \A i \in DOMAIN space[s].mappings : space[s].mappings[i].frame \in Frame
  BY Zenon, SpaceTypes
<1> QED
  BY Zenon, <1>1, <1>2, FrameFacts DEF LeafIsLast

LEMMA LastIsOne ==
  ASSUME NEW s, s.mappings \in Seq(Entry), NEW pg, NEW i, NEW j, IsLast(s, pg, i), IsLast(s, pg, j)
  PROVE  i = j
<1>1. i \in DOMAIN s.mappings /\ j \in DOMAIN s.mappings /\ i <= j /\ j <= i
  BY Zenon DEF IsLast
<1>2. i \in Nat /\ j \in Nat
  BY <1>1
<1> QED
  BY <1>1, <1>2

\* The child sees in every page what its parent sees.
LEMMA ForkComplete ==
  ASSUME FInv, CInv, op.kind = "fork", op.todo = <<>>, NEW pg \in Page
  PROVE  /\ space[Draft].leaf[pg].frame = None <=> space[op.pid].leaf[pg].frame = None
         /\ space[op.pid].leaf[pg].frame # None =>
              data[space[Draft].leaf[pg].frame] = data[space[op.pid].leaf[pg].frame]
<1> DEFINE D == space[Draft]
           P == space[op.pid]
           k == Len(P.mappings)
           want == Want(op, space, data)
<1>1. Drafts(op.kind)
  BY DEF Drafts
<1>2. op.pid \in SpaceId /\ Draft \in SpaceId
  BY Zenon, <1>1, Building, Pids
<1>3. D.mappings \in Seq(Entry) /\ P.mappings \in Seq(Entry)
  BY Zenon, <1>2, SpaceTypes
<1>4. Follows(want, D.mappings, op.todo, data)
  BY Zenon, <1>1 DEF CInv
<1>5. k \in Nat /\ DOMAIN P.mappings = 1 .. k
  BY <1>3
<1>6. /\ Len(want) = k
      /\ \A i \in 1 .. k : /\ want[i].page = P.mappings[i].page
                           /\ want[i].value = data[P.mappings[i].frame]
  <2>1. Forks(op, space, k)
    BY Zenon, <1>5 DEF Forks
  <2>2. ForkWants(op, space, data, k)
    BY ONLY Zenon, <1>5, <2>1, WantFork
  <2> QED
    BY ONLY Zenon, <2>2 DEF ForkWants
<1> HIDE DEF D, P, k, want
<1>7. Len(D.mappings) = k /\ DOMAIN D.mappings = 1 .. k
  <2>1. Len(D.mappings) + Len(op.todo) = k /\ Len(op.todo) = 0
    BY ONLY op.todo = <<>>, <1>4, <1>6 DEF Follows
  <2>2. Len(D.mappings) \in Nat /\ DOMAIN D.mappings = 1 .. Len(D.mappings)
    BY <1>3
  <2>3. Len(D.mappings) = k
    BY <1>5, <2>1, <2>2
  <2> QED
    BY Zenon, <2>2, <2>3
<1>8. ASSUME NEW i \in 1 .. k
      PROVE  /\ D.mappings[i].page = P.mappings[i].page
             /\ data[D.mappings[i].frame] = data[P.mappings[i].frame]
  <2>1. D.mappings[i].page = want[i].page /\ data[D.mappings[i].frame] = want[i].value
    BY Zenon, <1>4, <1>7 DEF Follows
  <2> QED
    BY Zenon, <1>6, <2>1
<1>9. Mapped(D, pg) <=> Mapped(P, pg)
  BY Zenon, <1>5, <1>7, <1>8 DEF Mapped
<1>10. \A i : IsLast(D, pg, i) => IsLast(P, pg, i)
  BY Zenon, <1>5, <1>7, <1>8 DEF IsLast
<1>11. CASE Mapped(P, pg)
  <2>1. PICK i \in DOMAIN D.mappings :
          IsLast(D, pg, i) /\ D.leaf[pg].frame = D.mappings[i].frame
    BY Zenon, <1>2, <1>9, <1>11, LeafCases DEF D
  <2>2. PICK j \in DOMAIN P.mappings :
          IsLast(P, pg, j) /\ P.leaf[pg].frame = P.mappings[j].frame
    BY Zenon, <1>2, <1>11, LeafCases DEF P
  <2>3. i = j
    BY Zenon, <1>3, <1>10, <2>1, <2>2, LastIsOne
  <2>4. i \in 1 .. k
    BY Zenon, <1>7, <2>1
  <2>5. data[D.leaf[pg].frame] = data[P.leaf[pg].frame]
    BY Zenon, <1>8, <2>1, <2>2, <2>3, <2>4
  <2>6. D.leaf[pg].frame # None /\ P.leaf[pg].frame # None
    BY Zenon, <1>2, <1>9, <1>11, LeafCases DEF D, P
  <2> QED
    BY Zenon, <2>5, <2>6 DEF D, P
<1>12. CASE ~Mapped(P, pg)
  <2>1. D.leaf[pg].frame = None /\ P.leaf[pg].frame = None
    BY Zenon, <1>2, <1>9, <1>12, LeafCases DEF D, P
  <2> QED
    BY Zenon, <2>1 DEF D, P
<1> QED
  BY Zenon, <1>11, <1>12

\* The image of exec is all there, and nothing else.
LEMMA ExecComplete ==
  ASSUME FInv, CInv, op.kind = "exec", op.todo = <<>>, NEW pg \in Page
  PROVE  /\ pg \in Range(Image) => /\ space[Draft].leaf[pg].frame # None
                                   /\ data[space[Draft].leaf[pg].frame] = Loaded
         /\ pg \notin Range(Image) => space[Draft].leaf[pg].frame = None
<1> DEFINE D == space[Draft]
           k == Len(Image)
           want == Want(op, space, data)
<1>1. Drafts(op.kind)
  BY DEF Drafts
<1>2. Draft \in SpaceId
  BY Zenon, Pids
<1>3. D.mappings \in Seq(Entry)
  BY Zenon, <1>2, SpaceTypes
<1>4. Follows(want, D.mappings, op.todo, data)
  BY Zenon, <1>1 DEF CInv
<1>5. k \in Nat /\ DOMAIN Image = 1 .. k
  BY Zenon, ImageFacts
<1>6. Len(want) = k /\ \A i \in 1 .. k : want[i].page = Image[i] /\ want[i].value = Loaded
  BY ONLY op.kind = "exec", WantExec
<1> HIDE DEF D, k, want
<1>7. Len(D.mappings) = k /\ DOMAIN D.mappings = 1 .. k
  <2>1. Len(D.mappings) + Len(op.todo) = k /\ Len(op.todo) = 0
    BY ONLY op.todo = <<>>, <1>4, <1>6 DEF Follows
  <2>2. Len(D.mappings) \in Nat /\ DOMAIN D.mappings = 1 .. Len(D.mappings)
    BY <1>3
  <2>3. Len(D.mappings) = k
    BY <1>5, <2>1, <2>2
  <2> QED
    BY Zenon, <2>2, <2>3
<1>8. ASSUME NEW i \in 1 .. k
      PROVE  D.mappings[i].page = Image[i] /\ data[D.mappings[i].frame] = Loaded
  <2>1. D.mappings[i].page = want[i].page /\ data[D.mappings[i].frame] = want[i].value
    BY Zenon, <1>4, <1>7 DEF Follows
  <2> QED
    BY Zenon, <1>6, <2>1
<1>9. Mapped(D, pg) <=> pg \in Range(Image)
  <2>1. Mapped(D, pg) <=> \E i \in 1 .. k : Image[i] = pg
    BY Zenon, <1>7, <1>8 DEF Mapped
  <2>2. pg \in Range(Image) <=> \E i \in 1 .. k : Image[i] = pg
    BY Zenon, <1>5 DEF Range
  <2> QED
    BY Zenon, <2>1, <2>2
<1>10. ASSUME Mapped(D, pg)
       PROVE  D.leaf[pg].frame # None /\ data[D.leaf[pg].frame] = Loaded
  <2>1. PICK i \in DOMAIN D.mappings : D.leaf[pg].frame = D.mappings[i].frame
    BY Zenon, <1>2, <1>10, LeafCases DEF D
  <2>2. D.leaf[pg].frame # None
    BY Zenon, <1>2, <1>10, LeafCases DEF D
  <2> QED
    BY Zenon, <1>7, <1>8, <2>1, <2>2
<1>11. ~Mapped(D, pg) => D.leaf[pg].frame = None
  BY Zenon, <1>2, LeafCases DEF D
<1> QED
  BY Zenon, <1>9, <1>10, <1>11 DEF D

-----------------------------------------------------------------------------
(* The calls begin and end.                                                 *)

LEMMA BrkBegins ==
  ASSUME FInv, AInv, NEW p \in Pid, NEW addr \in 0 .. BrkMax, brk_grows(p, addr)
  PROVE  AInv'
<1> DEFINE a == brk[p].mapped_end \div page_size
           b == RoundUp(addr) \div page_size
<1>1. /\ a \in Nat /\ b \in Nat /\ a >= 1 /\ a <= b /\ b * page_size <= user_end
      /\ a * page_size = brk[p].mapped_end /\ b * page_size = RoundUp(addr)
  BY Zenon, BrkPages
<1>2. op'.kind = "brk" /\ op'.pid = p /\ op'.end = addr /\ op'.todo = ZeroPages(a, b, "rw")
  BY Zenon, BrkGrowsFacts
<1>3. space' = space /\ brk' = brk /\ mmap_end' = mmap_end
  BY DEF brk_grows
<1> HIDE DEF a, b
<1>4. a * page_size \in Nat /\ a * page_size < a * page_size + page_size /\ "rw" \in Prot
  BY <1>1, Sizes DEF Prot
<1>5. Backed(space[p], ZeroPages(a, b, "rw"), a * page_size, b * page_size)
  BY Zenon, <1>1, <1>4, BackedByList
<1>6. Backed(space'[op'.pid], op'.todo, brk'[op'.pid].mapped_end, RoundUp(op'.end))
  BY Zenon, <1>1, <1>2, <1>3, <1>5
<1>7. op'.kind # "mmap"
  BY <1>2
<1>8. (RoundUp(op.end))' = RoundUp(op'.end)
  BY DEF RoundUp
<1> QED
  BY Zenon, <1>3, <1>6, <1>7, <1>8 DEF AInv

LEMMA MmapBegins ==
  ASSUME FInv, AInv, NEW p \in Pid, NEW hint \in Hints \union {None}, NEW length \in 0 .. MaxLen,
         NEW prot \in Prot, mmap_starts(p, hint, length, prot)
  PROVE  AInv'
<1> DEFINE range == checked_mmap_range(BaseFor(p, hint), length)
           a == range.base \div page_size
           b == range.end \div page_size
<1>1. /\ a \in Nat /\ b \in Nat /\ a >= 1 /\ a <= b /\ b * page_size <= user_end
      /\ range.base = a * page_size /\ range.end = b * page_size
      /\ hint = None => range.base < mmap_end[p] + page_size
  BY Zenon, MmapPages
<1>2. /\ op'.kind = (IF hint = None THEN "mmap" ELSE "hint") /\ op'.pid = p
      /\ op'.end = range.end /\ op'.todo = ZeroPages(a, b, prot)
  BY Zenon, MmapStartsFacts
<1>3. space' = space /\ brk' = brk /\ mmap_end' = mmap_end
  BY Zenon DEF mmap_starts
<1>4. op'.kind # "brk" /\ (op'.kind = "mmap" => hint = None)
  BY <1>2
<1>5. mmap_end[p] \in Nat
  BY DEF FInv, Types
<1> HIDE DEF range, a, b
<1>6. hint = None => Backed(space[p], ZeroPages(a, b, prot), mmap_end[p], b * page_size)
  <2>1. hint = None => a * page_size < mmap_end[p] + page_size
    BY Zenon, <1>1
  <2> QED
    BY Zenon, <1>1, <1>5, <2>1, BackedByList
<1>7. op'.kind = "mmap" => Backed(space'[op'.pid], op'.todo, mmap_end'[op'.pid], op'.end)
  BY Zenon, <1>1, <1>2, <1>3, <1>4, <1>6
<1> QED
  BY Zenon, <1>3, <1>4, <1>7 DEF AInv

LEMMA BrkEnds ==
  ASSUME FInv, AInv, brk_ends
  PROVE  AInv'
<1> DEFINE p == op.pid
           r == RoundUp(op.end)
<1>1. /\ p \in Pid /\ op.end \in Nat /\ brk[p].start # 0 /\ space[p].root # None
      /\ brk'[p].start = brk[p].start /\ brk'[p].mapped_end = r
      /\ \A q \in Pid : q # p => brk'[q] = brk[q]
  BY Zenon, BrkEndsFacts
<1>2. op.kind = "brk" /\ op.todo = <<>> /\ op' = NoOp /\ space' = space /\ mmap_end' = mmap_end
  BY DEF brk_ends
<1>3. Backed(space[p], <<>>, brk[p].mapped_end, r)
  BY Zenon, <1>2 DEF AInv
<1>4. \A q \in Pid : TaskBacked(space[q], brk[q], mmap_end[q])
  BY Zenon, AInvTasks
<1>5. Backed(space[p], <<>>, brk[p].start, brk[p].mapped_end)
      /\ Backed(space[p], <<>>, MmapBase, mmap_end[p])
  BY Zenon, <1>1, <1>4 DEF TaskBacked
<1>6. brk[p].start \in Nat /\ brk[p].mapped_end \in Nat
  <2>1. brk[p] \in BrkType
    BY <1>1 DEF FInv, Types
  <2> QED
    BY <2>1 DEF BrkType
<1>7. r \in Nat
  BY Zenon, <1>1, RoundUpFacts
<1> HIDE DEF p, r
<1>8. Backed(space[p], <<>>, brk[p].start, r)
  BY ONLY Zenon, <1>3, <1>5, <1>6, <1>7, BackedJoins
<1>9. TaskBacked(space'[p], brk'[p], mmap_end'[p])
  BY Zenon, <1>1, <1>2, <1>5, <1>8 DEF TaskBacked
<1>10. \A q \in Pid : TaskBacked(space'[q], brk'[q], mmap_end'[q])
  BY Zenon, <1>1, <1>2, <1>4, <1>9
<1>11. op'.kind # "brk" /\ op'.kind # "mmap"
  BY <1>2, NoOpFacts
<1> QED
  BY Zenon, <1>10, <1>11, AreasAfter

LEMMA MmapEnds ==
  ASSUME FInv, AInv, mmap_ends
  PROVE  AInv'
<1> DEFINE p == op.pid
<1>1. /\ p \in Pid /\ op.kind \in {"mmap", "hint"} /\ space[p].root # None /\ brk[p].start # 0
      /\ op.kind = "mmap" => mmap_end'[p] = op.end
      /\ op.kind = "hint" => mmap_end' = mmap_end
      /\ \A q \in Pid : q # p => mmap_end'[q] = mmap_end[q]
  BY Zenon, MmapEndsFacts
<1>2. op.todo = <<>> /\ op' = NoOp /\ space' = space /\ brk' = brk
  BY DEF mmap_ends
<1>3. \A q \in Pid : TaskBacked(space[q], brk[q], mmap_end[q])
  BY Zenon, AInvTasks
<1>4. mmap_end[p] \in Nat /\ op.end \in Nat /\ MmapBase \in Nat
  BY <1>1, Constants DEF FInv, Types, OpType
<1>5. op.kind = "mmap" => Backed(space[p], <<>>, mmap_end[p], op.end)
  BY Zenon, <1>2 DEF AInv
<1>6. Backed(space[p], <<>>, brk[p].start, brk[p].mapped_end)
      /\ Backed(space[p], <<>>, MmapBase, mmap_end[p])
  BY Zenon, <1>1, <1>3 DEF TaskBacked
<1> HIDE DEF p
<1>7. op.kind = "mmap" => Backed(space[p], <<>>, MmapBase, op.end)
  BY ONLY Zenon, <1>4, <1>5, <1>6, BackedJoins
<1>8. TaskBacked(space'[p], brk'[p], mmap_end'[p])
  <2>1. CASE op.kind = "mmap"
    BY Zenon, <1>1, <1>2, <1>6, <1>7, <2>1 DEF TaskBacked
  <2>2. CASE op.kind = "hint"
    BY Zenon, <1>1, <1>2, <1>3, <2>2
  <2> QED
    BY <1>1, <2>1, <2>2
<1>9. \A q \in Pid : TaskBacked(space'[q], brk'[q], mmap_end'[q])
  BY Zenon, <1>1, <1>2, <1>3, <1>8
<1>10. op'.kind # "brk" /\ op'.kind # "mmap"
  BY <1>2, NoOpFacts
<1> QED
  BY Zenon, <1>9, <1>10, AreasAfter

LEMMA ForkHandsDown ==
  ASSUME FInv, CInv, AInv, NEW c \in Pid, fork_ends(c)
  PROVE  AInv'
<1> DEFINE p == op.pid
<1>1. /\ p \in Pid /\ p # c /\ space[p].root # None
      /\ space'[c] = space[Draft] /\ space'[Draft] = NoSpace
      /\ \A s \in SpaceId : s # c /\ s # Draft => space'[s] = space[s]
      /\ brk'[c] = brk[p] /\ mmap_end'[c] = mmap_end[p]
      /\ \A q \in Pid : q # c => brk'[q] = brk[q] /\ mmap_end'[q] = mmap_end[q]
  BY Zenon, ForkEndFacts
<1>2. op.kind = "fork" /\ op.todo = <<>> /\ op' = NoOp
  BY DEF fork_ends
<1>3. \A q \in Pid : TaskBacked(space[q], brk[q], mmap_end[q])
  BY Zenon, AInvTasks
<1>4. \A pg \in Page : space[p].leaf[pg].frame # None => space[Draft].leaf[pg].frame # None
  BY Zenon, <1>2, ForkComplete
<1> HIDE DEF p
<1>5. TaskBacked(space[Draft], brk[p], mmap_end[p])
  <2>1. TaskBacked(space[p], brk[p], mmap_end[p])
    BY Zenon, <1>1, <1>3
  <2> QED
    BY ONLY Zenon, <1>1, <1>4, <2>1, TaskGrows
<1>6. ASSUME NEW q \in Pid PROVE TaskBacked(space'[q], brk'[q], mmap_end'[q])
  <2>1. CASE q = c
    BY Zenon, <1>1, <1>5, <2>1
  <2>2. CASE q # c
    BY Zenon, <1>1, <1>3, <2>2, Pids
  <2> QED
    BY <2>1, <2>2
<1>7. op'.kind # "brk" /\ op'.kind # "mmap"
  BY <1>2, NoOpFacts
<1> QED
  BY Zenon, <1>6, <1>7, AreasAfter

LEMMA ExecStartsAfresh ==
  ASSUME Basics, FInv, AInv, exec_ends
  PROVE  AInv'
<1> DEFINE p == op.pid
           b == [start |-> BrkStart, end |-> BrkStart, mapped_end |-> BrkStart]
<1>1. /\ FInv' /\ p \in Pid /\ brk'[p] = b /\ mmap_end'[p] = MmapBase
      /\ \A s \in SpaceId : s # p /\ s # Draft => space'[s] = space[s]
      /\ \A q \in Pid : q # p => brk'[q] = brk[q] /\ mmap_end'[q] = mmap_end[q]
  BY Zenon, ExecEndFacts
<1>2. op' = NoOp
  BY DEF exec_ends
<1>3. \A q \in Pid : TaskBacked(space[q], brk[q], mmap_end[q])
  BY Zenon, AInvTasks
<1>4. brk'[p] \in BrkType
  BY <1>1 DEF FInv, Types
<1>5. b.start = BrkStart /\ b.mapped_end = BrkStart
  BY Zenon
<1> HIDE DEF p, b
<1>6. BrkStart \in Nat /\ MmapBase \in Nat
  <2>1. b.start \in Nat
    BY <1>1, <1>4 DEF BrkType
  <2> QED
    BY <1>5, <2>1, Constants
<1>7. TaskBacked(space'[p], b, MmapBase)
  BY Zenon, <1>5, <1>6, BackedNothing DEF TaskBacked
<1>8. ASSUME NEW q \in Pid PROVE TaskBacked(space'[q], brk'[q], mmap_end'[q])
  <2>1. CASE q = p
    BY Zenon, <1>1, <1>7, <2>1
  <2>2. CASE q # p
    BY Zenon, <1>1, <1>3, <2>2, Pids
  <2> QED
    BY <2>1, <2>2
<1>9. op'.kind # "brk" /\ op'.kind # "mmap"
  BY <1>2, NoOpFacts
<1> QED
  BY Zenon, <1>8, <1>9, AreasAfter

\* Steps between calls that leave spaces, areas and cursors alone.
LEMMA AreasSame ==
  ASSUME AInv, op' = NoOp, \A p \in Pid : space'[p] = space[p],
         \A p \in Pid : /\ brk'[p].start = brk[p].start
                        /\ brk'[p].mapped_end = brk[p].mapped_end,
         mmap_end' = mmap_end
  PROVE  AInv'
<1>1. ASSUME NEW p \in Pid PROVE TaskBacked(space'[p], brk'[p], mmap_end'[p])
  <2>1. TaskBacked(space[p], brk[p], mmap_end[p])
    BY Zenon, AInvTasks
  <2> QED
    BY Zenon, <2>1 DEF TaskBacked
<1>2. op'.kind # "brk" /\ op'.kind # "mmap"
  BY NoOpFacts
<1> QED
  BY Zenon, <1>1, <1>2, AreasAfter

LEMMA ReapForgets ==
  ASSUME Basics, FInv, AInv, NEW c \in Pid, reap_zombie_child(c)
  PROVE  AInv'
<1>1. /\ space'[c] = NoSpace /\ \A s \in SpaceId : s # c => space'[s] = space[s]
      /\ \A p \in Pid : p # c => brk'[p] = brk[p] /\ mmap_end'[p] = mmap_end[p]
  BY Zenon, ReapFacts
<1>2. op' = NoOp
  BY DEF reap_zombie_child, Idle
<1>3. ASSUME NEW p \in Pid PROVE TaskBacked(space'[p], brk'[p], mmap_end'[p])
  <2>1. CASE p = c
    BY Zenon, <1>1, <2>1, NoSpaceHoldsNothing DEF TaskBacked
  <2>2. CASE p # c
    BY Zenon, <1>1, <2>2, Pids, AInvTasks
  <2> QED
    BY <2>1, <2>2
<1>4. op'.kind # "brk" /\ op'.kind # "mmap"
  BY <1>2, NoOpFacts
<1> QED
  BY Zenon, <1>3, <1>4, AreasAfter

\* fork and exec begin: the tasks stay as they are.
LEMMA DraftBegins ==
  ASSUME FInv, AInv, NEW p \in Pid, fork_starts(p) \/ exec_starts(p)
  PROVE  AInv'
<1>1. /\ \A s \in SpaceId : s # Draft => space'[s] = space[s]
      /\ op'.kind \in {"fork", "exec"} /\ brk' = brk /\ mmap_end' = mmap_end
  <2>1. CASE fork_starts(p)
    BY Zenon, <2>1, ForkStartFacts
  <2>2. CASE exec_starts(p)
    BY Zenon, <2>2, ExecStartFacts
  <2> QED
    BY <2>1, <2>2
<1>2. \A q \in Pid : TaskBacked(space'[q], brk'[q], mmap_end'[q])
  BY Zenon, <1>1, Pids, AInvTasks
<1>3. op'.kind # "brk" /\ op'.kind # "mmap"
  BY <1>1
<1> QED
  BY Zenon, <1>2, <1>3, AreasAfter

LEMMA AInvKept ==
  ASSUME Basics, FInv, CInv, AInv, [Next]_vars
  PROVE  AInv'
<1>1. CASE UNCHANGED vars
  BY Zenon, <1>1 DEF AInv, vars
<1>2. CASE make_user_path_private
  BY Zenon, <1>2, PathBacks
<1>3. CASE map_page
  BY Zenon, <1>3, MapBacks
<1>4. CASE out_of_frames \/ map_failed \/ exec_read_fails
  <2>1. /\ op' = NoOp /\ brk' = brk /\ mmap_end' = mmap_end
        /\ \A s \in SpaceId : space'[s] = space[s] \/ (s = Draft /\ space'[s] = NoSpace)
    BY Zenon, <1>4, FailFacts
  <2>2. \A p \in Pid : space'[p] = space[p]
    BY Zenon, <2>1, Pids
  <2> QED
    BY Zenon, <2>1, <2>2, AreasSame
<1>5. CASE exec_ends
  BY Zenon, <1>5, ExecStartsAfresh
<1>6. CASE brk_ends
  BY Zenon, <1>6, BrkEnds
<1>7. CASE mmap_ends
  BY Zenon, <1>7, MmapEnds
<1>8. ASSUME NEW p \in Pid, fork_starts(p) \/ exec_starts(p) PROVE AInv'
  BY Zenon, <1>8, DraftBegins
<1>9. ASSUME NEW p \in Pid, fork_out_of_frames(p) PROVE AInv'
  <2>1. op' = NoOp /\ space' = space /\ brk' = brk /\ mmap_end' = mmap_end
    BY <1>9 DEF fork_out_of_frames, Idle
  <2> QED
    BY Zenon, <2>1, AreasSame
<1>10. ASSUME NEW p \in Pid, fork_ends(p) PROVE AInv'
  BY Zenon, <1>10, ForkHandsDown
<1>11. ASSUME NEW p \in Pid, reap_zombie_child(p) PROVE AInv'
  BY Zenon, <1>11, ReapForgets
<1>12. ASSUME NEW p \in Pid, NEW addr \in 0 .. BrkMax, brk_moves(p, addr) PROVE AInv'
  <2>1. op' = NoOp /\ space' = space /\ mmap_end' = mmap_end
    BY <1>12 DEF brk_moves, Runs, Idle
  <2>2. /\ brk'[p].start = brk[p].start /\ brk'[p].mapped_end = brk[p].mapped_end
        /\ \A q \in Pid : q # p => brk'[q] = brk[q]
    BY Zenon, <1>12, BrkMovesFacts
  <2>3. \A q \in Pid : brk'[q].start = brk[q].start /\ brk'[q].mapped_end = brk[q].mapped_end
    BY Zenon, <2>2
  <2> QED
    BY Zenon, <2>1, <2>3, AreasSame
<1>13. ASSUME NEW p \in Pid, NEW addr \in 0 .. BrkMax, brk_grows(p, addr) PROVE AInv'
  BY Zenon, <1>13, BrkBegins
<1>14. ASSUME NEW p \in Pid, NEW hint \in Hints \union {None}, NEW length \in 0 .. MaxLen,
              NEW prot \in Prot, mmap_starts(p, hint, length, prot)
       PROVE  AInv'
  BY Zenon, <1>14, MmapBegins
<1>15. ASSUME NEW p \in Pid, NEW pg \in Page, NEW v \in Value,
              store(p, pg, v) \/ copy_to_task(p, pg, v)
       PROVE  AInv'
  <2>1. op' = NoOp /\ space' = space /\ brk' = brk /\ mmap_end' = mmap_end
    BY <1>15 DEF store, copy_to_task, Runs, Idle
  <2> QED
    BY Zenon, <2>1, AreasSame
<1> QED
  BY Zenon, <1>1, <1>2, <1>3, <1>4, <1>5, <1>6, <1>7, <1>8, <1>9, <1>10, <1>11, <1>12, <1>13,
     <1>14, <1>15 DEF Next
=============================================================================
