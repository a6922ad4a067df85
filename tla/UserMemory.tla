------------------------------ MODULE UserMemory ------------------------------
(***************************************************************************)
(* Frames, address spaces and the memory system calls (mm/address_space.rs,*)
(* mm/frame_allocator.rs, brk and mmap in syscall/, the copies of          *)
(* syscall/user_memory.rs, and what fork, exec and reaping do to memory).  *)
(*                                                                         *)
(* An address space owns its root, its private page tables and the frame   *)
(* of every mapping it ever made: nothing is unmapped before the whole     *)
(* space is dropped, and a page that is mapped again keeps its old frame   *)
(* in the list.  The hardware sees the table entries, system calls see the *)
(* list.                                                                   *)
(*                                                                         *)
(* brk, mmap, fork and exec map page after page and may run out of frames  *)
(* at each.  An iteration of their loops is a step; op holds the call in   *)
(* progress, and nothing else happens meanwhile.                           *)
(***************************************************************************)
EXTENDS MmapRange, Sequences

CONSTANTS
  Pid, ROOT_PID,
  NrFrames,      \* usable frames of the machine
  BrkMax,        \* user_brk_max, an address
  MmapBase,      \* user_mmap_base, an address
  PathOf,        \* the table slots on the way to a page, from the root down
  Segments,      \* the pages of the segments of a program, in mapping order
  StackPages,    \* the pages of its stack
  Supervisor,    \* pages of the kernel in the lower half
  Hints, MaxLen  \* the hints and the lengths given to mmap, in bytes

Frame  == 1 .. NrFrames
Page   == 1 .. (user_end \div page_size - 1)    \* by number
Table  == UNION {PathOf[pg] : pg \in Page}
Value  == 0 .. 1      \* contents of a page, abstracted
Zero   == 0
Loaded == 1           \* what exec puts into the pages of an image
Entries == 1          \* what a page table leaves in its frame: not zero
Prot   == {"none", "rw"}
None   == 0

ASSUME UserMemoryAssumption ==
  /\ ROOT_PID \in Pid /\ None \notin Pid
  /\ {NrFrames, BrkMax, MmapBase} \subseteq Nat \ {0}
  /\ BrkMax <= user_end /\ MmapBase <= user_end
  /\ PathOf \in [Page -> SUBSET Nat]
  /\ Segments \in Seq(Page) \ {<<>>} /\ StackPages \in Seq(Page)
  /\ Supervisor \subseteq Page
  /\ Hints \subseteq 0 .. (Word - 1) /\ MaxLen \in 0 .. (Word - 1)

Image   == Segments \o StackPages
Draft   == None         \* the space that fork or exec is building
SpaceId == Pid \union {Draft}

NoMapping == [frame |-> None, prot |-> "none"]

\* An address space that does not exist.
NoSpace == [root |-> None, tables |-> [t \in Table |-> None],
            leaf |-> [pg \in Page |-> NoMapping], mappings |-> <<>>]

VARIABLES
  recycled, next,   \* BootInfoFrameAllocator
  data,             \* the contents of the frames
  space,            \* Task::address_space, and the draft
  brk,              \* Task::brk_start, brk_end, brk_mapped_end
  mmap_end,
  op,               \* the call in progress
  panicked

vars == <<recycled, next, data, space, brk, mmap_end, op, panicked>>

NoOp == [kind |-> "none", pid |-> None, dst |-> None, todo |-> <<>>, end |-> 0]

Tasks == {p \in Pid : space[p].root # None}

-----------------------------------------------------------------------------
(* The frame allocator: recycled frames last in, first out, then new ones.  *)

FrameLeft == recycled # <<>> \/ next < NrFrames

NextFrame == IF recycled # <<>> THEN recycled[Len(recycled)] ELSE next + 1

TakeFrame ==
  /\ FrameLeft
  /\ \/ /\ recycled # <<>>
        /\ recycled' = SubSeq(recycled, 1, Len(recycled) - 1) /\ UNCHANGED next
     \/ recycled = <<>> /\ next' = next + 1 /\ UNCHANGED recycled

\* Mutant of OwnedFrames: the private tables are not given back.
OwnedNoTables(s) == [i \in DOMAIN s.mappings |-> s.mappings[i].frame] \o <<s.root>>

\* The frames a space gives back when it is dropped.
OwnedFrames(s) ==
  LET T      == {s.tables[t] : t \in Table} \ {None}
      tables == CHOOSE q \in [1 .. Cardinality(T) -> T] : IsInjective(q)
  IN  [i \in DOMAIN s.mappings |-> s.mappings[i].frame] \o tables \o <<s.root>>

-----------------------------------------------------------------------------
(* Mapping one page of the call in progress into the space op.dst.          *)

\* Mutant of Contents: a frame comes with what its last owner left in it.
StaleContents(item) == IF item.value = Zero THEN data[NextFrame] ELSE item.value

\* Every frame is zeroed, then fork and exec fill it.
Contents(item) == item.value

Missing(pg) == {t \in PathOf[pg] : space[op.dst].tables[t] = None}

make_user_path_private ==
  /\ op.todo # <<>>
  /\ Missing(Head(op.todo).page) # {}
  /\ TakeFrame
  /\ space' = [space EXCEPT ![op.dst].tables[Min(Missing(Head(op.todo).page))] = NextFrame]
  /\ data' = [data EXCEPT ![NextFrame] = Entries]
  /\ UNCHANGED <<brk, mmap_end, op, panicked>>

\* A leaf of a PROT_NONE page is not present and not unused either, so the
\* page can neither be mapped nor unmapped.
Refused(pg) == LET old == space[op.dst].leaf[pg]
               IN  old.frame # None /\ old.prot = "none"

\* map_to, after an unmap when the page was mapped; then the list grows.
SetLeaf(s, pg, m) ==
  [s EXCEPT !.mappings = Append(@, [page |-> pg, frame |-> m.frame, prot |-> m.prot]),
            !.leaf = [@ EXCEPT ![pg] = m]]

map_page ==
  LET item == Head(op.todo)
  IN  /\ op.todo # <<>>
      /\ Missing(item.page) = {}
      /\ ~Refused(item.page)
      /\ TakeFrame
      /\ data' = [data EXCEPT ![NextFrame] = Contents(item)]
      /\ space' = [space EXCEPT ![op.dst] =
                     SetLeaf(@, item.page, [frame |-> NextFrame, prot |-> item.prot])]
      /\ op' = [op EXCEPT !.todo = Tail(@)]
      /\ UNCHANGED <<brk, mmap_end, panicked>>

\* Mutant of Fail: the cursor has moved before the pages were mapped.
FailMovesCursor(free) ==
  /\ recycled' = IF op.kind = "exec" THEN free \o OwnedFrames(space[Draft]) ELSE free
  /\ space' = IF op.kind = "exec" THEN [space EXCEPT ![Draft] = NoSpace] ELSE space
  /\ panicked' = (op.kind = "fork")
  /\ mmap_end' = IF op.kind = "mmap" THEN [mmap_end EXCEPT ![op.pid] = op.end] ELSE mmap_end
  /\ op' = NoOp
  /\ UNCHANGED brk

\* The call fails: brk and mmap keep the pages they have mapped, exec drops
\* the image, and fork, which expects its clone to succeed, panics.
Fail(free) ==
  /\ recycled' = IF op.kind = "exec" THEN free \o OwnedFrames(space[Draft]) ELSE free
  /\ space' = IF op.kind = "exec" THEN [space EXCEPT ![Draft] = NoSpace] ELSE space
  /\ panicked' = (op.kind = "fork")
  /\ op' = NoOp
  /\ UNCHANGED <<brk, mmap_end>>

out_of_frames ==
  /\ op.todo # <<>>
  /\ ~FrameLeft
  /\ Fail(recycled)
  /\ UNCHANGED <<next, data>>

\* The frame taken for the page goes back.
map_failed ==
  LET pg == Head(op.todo).page
  IN  /\ op.todo # <<>>
      /\ Missing(pg) = {} /\ Refused(pg)
      /\ FrameLeft
      /\ data' = [data EXCEPT ![NextFrame] = Zero]
      /\ next' = IF recycled # <<>> THEN next ELSE next + 1
      /\ Fail(IF recycled # <<>> THEN recycled ELSE <<next + 1>>)

\* A segment cannot be read.
exec_read_fails ==
  /\ op.kind = "exec"
  /\ Fail(recycled)
  /\ UNCHANGED <<next, data>>

-----------------------------------------------------------------------------
Init ==
  /\ recycled = <<>>
  /\ next = 1
  /\ data = [f \in Frame |-> Loaded]    \* whatever the boot loader left there
  /\ space = [s \in SpaceId |-> IF s = ROOT_PID THEN [NoSpace EXCEPT !.root = 1]
                                ELSE NoSpace]
  /\ brk = [p \in Pid |-> [start |-> 0, end |-> 0, mapped_end |-> 0]]
  /\ mmap_end = [p \in Pid |-> 0]
  /\ op = NoOp
  /\ panicked = FALSE

Idle == op = NoOp /\ ~panicked

\* A task that has executed a program: the kernel shell and the I/O task make
\* none of the calls below.
Runs(p) == Idle /\ p \in Tasks /\ brk[p].start # 0

\* AddressSpace::kernel for the draft.
NewDraft(kind, pid, todo) ==
  /\ TakeFrame
  /\ space' = [space EXCEPT ![Draft].root = NextFrame]
  /\ op' = [NoOp EXCEPT !.kind = kind, !.pid = pid, !.todo = todo]
  /\ data' = [data EXCEPT ![NextFrame] = Entries]
  /\ UNCHANGED <<brk, mmap_end, panicked>>

\* fork: every mapping of the list is made again and its frame copied.
fork_starts(p) ==
  LET ms == space[p].mappings
  IN  /\ Idle /\ p \in Tasks
      /\ Pid \ Tasks # {}
      /\ NewDraft("fork", p,
           [i \in DOMAIN ms |-> [page |-> ms[i].page, prot |-> ms[i].prot,
                                 value |-> data[ms[i].frame]]])

fork_out_of_frames(p) ==
  /\ Idle /\ p \in Tasks
  /\ Pid \ Tasks # {}
  /\ ~FrameLeft
  /\ panicked' = TRUE
  /\ UNCHANGED <<recycled, next, data, space, brk, mmap_end, op>>

fork_ends(c) ==
  /\ op.kind = "fork" /\ op.todo = <<>>
  /\ c \in Pid \ Tasks
  /\ space' = [space EXCEPT ![c] = space[Draft], ![Draft] = NoSpace]
  /\ brk' = [brk EXCEPT ![c] = brk[op.pid]]
  /\ mmap_end' = [mmap_end EXCEPT ![c] = mmap_end[op.pid]]
  /\ op' = NoOp
  /\ UNCHANGED <<recycled, next, data, panicked>>

exec_starts(p) ==
  /\ Idle /\ p \in Tasks
  /\ NewDraft("exec", p, [i \in DOMAIN Image |-> [page |-> Image[i], prot |-> "rw",
                                                  value |-> Loaded]])

\* The end of the image, rounded up to a page.
BrkStart == (Max({Segments[i] : i \in DOMAIN Segments}) + 1) * page_size

exec_ends ==
  /\ op.kind = "exec" /\ op.todo = <<>>
  /\ space' = [space EXCEPT ![op.pid] = space[Draft], ![Draft] = NoSpace]
  /\ recycled' = recycled \o OwnedFrames(space[op.pid])
  /\ brk' = [brk EXCEPT ![op.pid] = [start |-> BrkStart, end |-> BrkStart,
                                     mapped_end |-> BrkStart]]
  /\ mmap_end' = [mmap_end EXCEPT ![op.pid] = MmapBase]
  /\ op' = NoOp
  /\ UNCHANGED <<next, data, panicked>>

\* reap_zombie_child drops the Task and its space.
reap_zombie_child(c) ==
  /\ Idle
  /\ c \in Tasks \ {ROOT_PID}
  /\ recycled' = recycled \o OwnedFrames(space[c])
  /\ space' = [space EXCEPT ![c] = NoSpace]
  /\ brk' = [brk EXCEPT ![c] = [start |-> 0, end |-> 0, mapped_end |-> 0]]
  /\ mmap_end' = [mmap_end EXCEPT ![c] = 0]
  /\ UNCHANGED <<next, data, op, panicked>>

-----------------------------------------------------------------------------
ZeroPages(first, behind, prot) ==
  [i \in 1 .. (behind - first) |-> [page |-> first + i - 1, prot |-> prot, value |-> Zero]]

RoundUp(addr) == ((addr + page_size - 1) \div page_size) * page_size

\* Below the mapped end only the break moves, up or down.
brk_moves(p, addr) ==
  /\ Runs(p)
  /\ addr >= brk[p].start /\ addr <= brk[p].mapped_end /\ addr <= BrkMax
  /\ brk' = [brk EXCEPT ![p].end = addr]
  /\ UNCHANGED <<recycled, next, data, space, mmap_end, op, panicked>>

brk_grows(p, addr) ==
  /\ Runs(p)
  /\ addr > brk[p].mapped_end /\ addr <= BrkMax
  /\ op' = [kind |-> "brk", pid |-> p, dst |-> p, end |-> addr,
            todo |-> ZeroPages(brk[p].mapped_end \div page_size,
                               RoundUp(addr) \div page_size, "rw")]
  /\ UNCHANGED <<recycled, next, data, space, brk, mmap_end, panicked>>

brk_ends ==
  /\ op.kind = "brk" /\ op.todo = <<>>
  /\ brk' = [brk EXCEPT ![op.pid].end = op.end, ![op.pid].mapped_end = RoundUp(op.end)]
  /\ op' = NoOp
  /\ UNCHANGED <<recycled, next, data, space, mmap_end, panicked>>

\* A hint of None takes the cursor.
BaseFor(p, hint) == IF hint # None THEN hint ELSE mmap_end[p]

\* Ranges that leave user space or touch the kernel are refused before anything
\* changes.
mmap_starts(p, hint, length, prot) ==
  LET range == checked_mmap_range(BaseFor(p, hint), length)
      todo  == ZeroPages(range.base \div page_size, range.end \div page_size, prot)
  IN  /\ Runs(p)
      /\ range.error = 0
      /\ {todo[i].page : i \in DOMAIN todo} \intersect Supervisor = {}
      /\ op' = [kind |-> IF hint = None THEN "mmap" ELSE "hint", pid |-> p, dst |-> p,
                end |-> range.end, todo |-> todo]
      /\ UNCHANGED <<recycled, next, data, space, brk, mmap_end, panicked>>

MovedCursor == IF op.kind = "mmap" THEN [mmap_end EXCEPT ![op.pid] = op.end] ELSE mmap_end

mmap_ends ==
  /\ op.kind \in {"mmap", "hint"} /\ op.todo = <<>>
  /\ mmap_end' = MovedCursor
  /\ op' = NoOp
  /\ UNCHANGED <<recycled, next, data, space, brk, panicked>>

\* The program writes, through the page tables.
store(p, pg, v) ==
  LET m == space[p].leaf[pg]
  IN  /\ Runs(p)
      /\ m.frame # None /\ m.prot = "rw"
      /\ data' = [data EXCEPT ![m.frame] = v]
      /\ UNCHANGED <<recycled, next, space, brk, mmap_end, op, panicked>>

MappingsOf(p, pg) == {i \in DOMAIN space[p].mappings : space[p].mappings[i].page = pg}

\* What visit_task_range finds: the first entry of the list for the page.
FirstMapping(p, pg) == space[p].mappings[Min(MappingsOf(p, pg))]

\* A system call writes into the memory of the task.
copy_to_task(p, pg, v) ==
  /\ Runs(p)
  /\ MappingsOf(p, pg) # {}
  /\ FirstMapping(p, pg).prot = "rw"
  /\ data' = [data EXCEPT ![FirstMapping(p, pg).frame] = v]
  /\ UNCHANGED <<recycled, next, space, brk, mmap_end, op, panicked>>

Next ==
  \/ make_user_path_private \/ map_page \/ out_of_frames \/ map_failed
  \/ exec_read_fails \/ exec_ends \/ brk_ends \/ mmap_ends
  \/ \E p \in Pid :
       \/ fork_starts(p) \/ fork_out_of_frames(p) \/ fork_ends(p)
       \/ exec_starts(p) \/ reap_zombie_child(p)
       \/ \E addr \in 0 .. BrkMax : brk_moves(p, addr) \/ brk_grows(p, addr)
       \/ \E hint \in Hints \union {None}, length \in 0 .. MaxLen, prot \in Prot :
            mmap_starts(p, hint, length, prot)
       \/ \E pg \in Page, v \in Value : store(p, pg, v) \/ copy_to_task(p, pg, v)

Spec == Init /\ [][Next]_vars

-----------------------------------------------------------------------------
MappingType == [frame : Frame \union {None}, prot : Prot]
ItemType    == [page : Page, prot : Prot, value : Value]

TypeOK ==
  /\ recycled \in Seq(Frame) /\ next \in 0 .. NrFrames
  /\ data \in [Frame -> Value]
  /\ \A s \in SpaceId :
       /\ space[s].root \in Frame \union {None}
       /\ space[s].tables \in [Table -> Frame \union {None}]
       /\ space[s].leaf \in [Page -> MappingType]
       /\ space[s].mappings \in Seq([page : Page, frame : Frame, prot : Prot])
  /\ brk \in [Pid -> [start : Nat, end : Nat, mapped_end : Nat]]
  /\ mmap_end \in [Pid -> 0 .. user_end]
  /\ op.todo \in Seq(ItemType) /\ op.dst \in SpaceId
  /\ panicked \in BOOLEAN

\* The places a frame can be: the free list, or a root, a table or a mapping of
\* an address space.
FreePlaces  == {<<"free", 0, i>> : i \in DOMAIN recycled}
RootPlaces  == {<<"root", s, 0>> : s \in {x \in SpaceId : space[x].root # None}}
TablePlaces == UNION {{<<"table", s, t>> : t \in {x \in Table : space[s].tables[x] # None}}
                      : s \in SpaceId}
MapPlaces   == UNION {{<<"map", s, i>> : i \in DOMAIN space[s].mappings} : s \in SpaceId}

Places == FreePlaces \union RootPlaces \union TablePlaces \union MapPlaces

FrameAt(pl) ==
  CASE pl[1] = "free"  -> recycled[pl[3]]
    [] pl[1] = "root"  -> space[pl[2]].root
    [] pl[1] = "table" -> space[pl[2]].tables[pl[3]]
    [] pl[1] = "map"   -> space[pl[2]].mappings[pl[3]].frame

\* Every frame that was ever issued is in exactly one place: allocate_frame and
\* the Drop of AddressSpace neither lose a frame, nor free one twice, nor give one
\* to two address spaces, also when exec, brk or mmap fails in the middle; and
\* between calls none is left with a half-built space.
FrameOwnedOnce ==
  /\ TypeOK
  /\ Idle => space[Draft] = NoSpace
  /\ {FrameAt(pl) : pl \in Places} = 1 .. next
  /\ Cardinality(Places) = next

\* The break and the mmap cursor never run ahead of the pages behind them,
\* whatever brk and mmap calls failed, shrank the break or overlapped, and fork
\* hands them down only with their pages.
AreasBacked ==
  \A p \in Tasks : brk[p].start # 0 =>
    /\ brk[p].start <= brk[p].end /\ brk[p].end <= brk[p].mapped_end
    /\ \A pg \in Page :
         LET a == pg * page_size
         IN  (a >= brk[p].start /\ a < brk[p].end) \/ (a >= MmapBase /\ a < mmap_end[p])
               => space[p].leaf[pg].frame # None

\* Whatever hint and length a task gives to mmap, checked_mmap_range accepts the
\* call exactly when whole pages of user space fit, and answers with the first and
\* fewest of them: no sum that leaves the machine word makes it accept a range
\* elsewhere.
RangeIsLeastFit ==
  \A c \in Misfits, p \in Tasks : c[1] \notin {BaseFor(p, hint) : hint \in 0 .. (Word - 1)}

\* What a task sees in a page.
NotThere == 2
Seen(p) == [pg \in Page |-> IF space[p].leaf[pg].frame = None THEN NotThere
                            ELSE data[space[p].leaf[pg].frame]]
ImageSeen == [pg \in Page |-> IF pg \in Range(Image) THEN Loaded ELSE NotThere]

PM == INSTANCE PrivateMemory WITH Unmapped <- NotThere, ImageView <- ImageSeen,
                                  view <- [p \in Pid |-> Seen(p)]

\* Address spaces implement private memory: a store reaches one page of one task,
\* new pages are zero whoever had the frame before, the child of a fork sees what
\* its parent saw, exec shows the image and nothing of the old program.
MemoryImplemented == PM!Spec
=============================================================================
