--------------------------------- MODULE Fat ---------------------------------
(***************************************************************************)
(* The FAT filesystem (fs/fat.rs) on a disk whose transfers can fail and   *)
(* which can lose power between any two of them.                           *)
(*                                                                         *)
(* Every lookup makes a new FatInode with its own copy of the first        *)
(* cluster and the size, so two opens of a file do not share what one of   *)
(* them learns.  An operation holds the filesystem's mutex from start to   *)
(* end; it is cut here into the transfers it makes, because a failure      *)
(* leaves those before it on the disk.                                     *)
(*                                                                         *)
(* A cell is a byte of a file or a 32-byte entry of a directory.  The      *)
(* second copy of the allocation table is written like the first and never *)
(* read; it is left out.                                                   *)
(*                                                                         *)
(* A transfer of file or directory data that fails ends the operation with *)
(* an error.  One of the table goes unnoticed: a failed write is not       *)
(* reported, and a failed read counts as the value 0, a free cluster.  So  *)
(* a chain is read short, a link or a mark is missing, or a cluster in use *)
(* is handed out again.  The history variables short and doubled record    *)
(* whom that concerns.                                                     *)
(***************************************************************************)
EXTENDS Integers, Sequences, SequencesExt

CONSTANTS
  Name,               \* names that encode_short_name accepts, up to case
  Dot, DotDot,
  Zero, Deleted,      \* the first byte 0x00 and 0xE5
  Garbage,            \* what a cluster that was never allocated holds
  Handle, NoInode, NoSlot, NoCache, Idle,
  Torn,               \* what a failed write, or one through an old inode, leaves
  Image,              \* the disks that can be mounted
  CLUSTER,            \* cells per cluster
  FAT12_LIMIT, FAT16_LIMIT,   \* 4085 and 65525 in FatFs::mount
  MaxFile,            \* stands for u32::MAX
  Buf,
  MaxFaults           \* bound: failed transfers and power cuts together

ASSUME FatAssumption ==
  /\ CLUSTER \in Nat /\ CLUSTER >= 2
  /\ FAT12_LIMIT <= FAT16_LIMIT /\ MaxFile \in Nat
  /\ \A m \in Image : m.clusters \in Nat \ {0} /\ m.root # <<>>

VARIABLES
  image,      \* what the boot sector says
  fat,        \* bytes of the table in FAT12, entries of it otherwise
  cells,      \* the clusters; number 0 is the fixed root directory
  hint,       \* next_free_hint
  inode,      \* the FatInode that an open file or directory holds
  op,         \* the operation in progress, or Idle
  faults,
  expected,   \* history: what a completed write left in a file, by entry
  short,      \* history: entries whose chain was read or linked short
  doubled     \* history: a cluster in use was, or can be, taken for a free one

disk   == <<image, fat, cells>>
unseen == <<short, doubled>>
vars   == <<image, fat, cells, hint, inode, op, faults, expected, short, doubled>>

-----------------------------------------------------------------------------
(* The allocation table.                                                     *)

fat_type ==
  IF image.clusters < FAT12_LIMIT THEN "Fat12"
  ELSE IF image.clusters < FAT16_LIMIT THEN "Fat16" ELSE "Fat32"

max_cluster == image.clusters + 1
Cluster     == 2 .. max_cluster
eoc_marker  == [Fat12 |-> 4095, Fat16 |-> 65535, Fat32 |-> 268435455][fat_type]
is_eoc(v)   == v >= [Fat12 |-> 4088, Fat16 |-> 65528, Fat32 |-> 268435448][fat_type]

\* FAT12 packs two entries into three bytes.
Offset12(c)  == (c * 3) \div 2
Word(c)      == fat[Offset12(c)] + 256 * fat[Offset12(c) + 1]

read_fat_entry(c) ==
  IF fat_type # "Fat12" THEN fat[c]
  ELSE IF c % 2 = 0 THEN Word(c) % 4096 ELSE Word(c) \div 16

write_fat_entry(c, v) ==
  IF fat_type # "Fat12" THEN [fat EXCEPT ![c] = v]
  ELSE LET next == IF c % 2 = 0 THEN 4096 * (Word(c) \div 4096) + v
                                ELSE (Word(c) % 16) + 16 * v
       IN  [fat EXCEPT ![Offset12(c)] = next % 256, ![Offset12(c) + 1] = next \div 256]

\* collect_chain: the clusters from `start` to the end of the chain.  A chain
\* that has not ended after as many links as there are clusters is an error.
Limit == image.clusters + 2
Ends(v) == v < 2 \/ is_eoc(v) \/ v > max_cluster

collect_chain(start) ==
  LET walk[n \in 0 .. Limit] ==
        IF n = 0 THEN <<start>>
        ELSE LET sofar == walk[n - 1]
                 next  == read_fat_entry(Last(sofar))
             IN  IF Ends(next) THEN sofar ELSE Append(sofar, next)
  IN  IF start < 2 THEN <<>> ELSE walk[Limit]

ChainOk(start) == Len(collect_chain(start)) < Limit

\* Mutant of FreeCluster: the hint is taken without a look at the table.
HintedCluster == IF hint <= max_cluster THEN hint ELSE 0

\* allocate_cluster searches from the hint to the end, then from the start.
SearchOrder ==
  LET start == IF hint < 2 THEN 2 ELSE hint
  IN  [i \in 1 .. (max_cluster - start + 1) |-> start + i - 1]
        \o [i \in 1 .. (start - 2) |-> i + 1]

FirstFree == SelectInSeq(SearchOrder, LAMBDA c : read_fat_entry(c) = 0)
FreeCluster == IF FirstFree = 0 THEN 0 ELSE SearchOrder[FirstFree]

\* The clusters in use that the search reads on its way.
Passed ==
  {SearchOrder[i] : i \in IF FirstFree = 0 THEN DOMAIN SearchOrder ELSE 1 .. FirstFree - 1}

\* What is left of a chain when reading it meets a failed read of the table.
CutShort(chain) == {SubSeq(chain, 1, n) : n \in 1 .. Len(chain) - 1}

-----------------------------------------------------------------------------
(* Directories.                                                              *)

Entry(name, dir, first, size) ==
  [name |-> name, dir |-> dir, first |-> first, size |-> size]
InodeOf(dir, first, size, at, fixed) ==
  [dir |-> dir, first |-> first, size |-> size, at |-> at, fixed |-> fixed,
   cache |-> NoCache]

Root ==
  IF fat_type = "Fat32" THEN InodeOf(TRUE, image.rootCluster, 0, NoSlot, FALSE)
  ELSE InodeOf(TRUE, 0, Len(image.root[1]), NoSlot, TRUE)

Cell(at) == cells[at[1]][at[2]]
IsEntry(v) == v \notin {Zero, Deleted, Garbage} /\ "name" \in DOMAIN v

directory_regions(dir) == IF dir.fixed THEN <<0>> ELSE collect_chain(dir.first)

Slots(regions) ==
  FlattenSeq([k \in DOMAIN regions |->
                [i \in 1 .. Len(cells[regions[k]]) |-> <<regions[k], i>>]])

\* Reading stops at the first cell that was never used.
read_directory_entries(regions) ==
  LET slots == Slots(regions)
      end   == SelectInSeq(slots, LAMBDA at : Cell(at) = Zero)
      used  == IF end = 0 THEN slots ELSE SubSeq(slots, 1, end - 1)
  IN  SelectSeq(used, LAMBDA at : IsEntry(Cell(at)))

Find(regions, name) ==
  LET entries == read_directory_entries(regions)
      found   == SelectInSeq(entries, LAMBDA at : Cell(at).name = name)
  IN  IF found = 0 THEN NoSlot ELSE entries[found]

\* Mutant of FreeSlot: the last unused entry is taken.
LastFreeSlot(regions) ==
  LET slots == Slots(regions)
      found == SelectLastInSeq(slots, LAMBDA at : Cell(at) \in {Zero, Deleted})
  IN  IF found = 0 THEN NoSlot ELSE slots[found]

FreeSlot(regions) ==
  LET slots == Slots(regions)
      found == SelectInSeq(slots, LAMBDA at : Cell(at) \in {Zero, Deleted})
  IN  IF found = 0 THEN NoSlot ELSE slots[found]

Open(h) == inode[h] # NoInode
Directories == {Root} \cup {inode[h] : h \in {h \in Handle : Open(h) /\ inode[h].dir}}
DirOk(dir)  == dir.fixed \/ ChainOk(dir.first)

-----------------------------------------------------------------------------
(* Operations.  An error before the first transfer that changes the disk is  *)
(* a step that is not taken.                                                 *)

Finish == op' = Idle
CanFail == faults < MaxFaults
Fail == CanFail /\ Finish /\ faults' = faults + 1
Unnoticed == CanFail /\ faults' = faults + 1

\* Reading the directory short only makes a lookup miss the name.
lookup(h, dir, name) ==
  /\ op = Idle /\ ~Open(h) /\ DirOk(dir)
  /\ LET at == Find(directory_regions(dir), name)
     IN  /\ at # NoSlot
         /\ inode' = [inode EXCEPT ![h] =
              InodeOf(Cell(at).dir, Cell(at).first, Cell(at).size, at, FALSE)]
  /\ UNCHANGED <<disk, hint, op, faults, expected, unseen>>

Drop(h) ==
  /\ op = Idle /\ Open(h)
  /\ inode' = [inode EXCEPT ![h] = NoInode]
  /\ UNCHANGED <<disk, hint, op, faults, expected, unseen>>

\* A full directory takes another cluster, unless it is the fixed root.  The
\* chain of the directory is read three times: to look for the name, for an
\* unused entry, and for the cluster to link a new one to.  One that is read
\* short misses the name, an unused entry, or the end.
create(h, dir, name, isDir) ==
  /\ op = Idle /\ ~Open(h) /\ DirOk(dir)
  /\ LET all == directory_regions(dir)
         start(at, chain) ==
           [kind |-> "create", stage |-> "mark", h |-> h, parent |-> dir,
            name |-> name, dir |-> isDir, at |-> at, chain |-> chain,
            fresh |-> 0, unmarked |-> FALSE]
         new  == Find(all, name) = NoSlot
         room == FreeSlot(all) # NoSlot
     IN  \/ /\ new
            /\ dir.fixed => room
            /\ op' = start(FreeSlot(all), all)
            /\ UNCHANGED <<faults, short>>
         \/ /\ \E part \in CutShort(all) :
                  \/ ~new /\ Find(part, name) = NoSlot /\ op' = start(FreeSlot(all), all)
                  \/ new /\ room /\ FreeSlot(part) = NoSlot /\ op' = start(NoSlot, all)
                  \/ new /\ ~room /\ op' = start(NoSlot, part)
            /\ Unnoticed
            /\ short' = short \cup {dir.at}
  /\ UNCHANGED <<disk, hint, inode, expected, doubled>>

Needed(end) == (end + CLUSTER - 1) \div CLUSTER

AfterGrowth(o) == IF Len(o.chain) < Needed(o.offset + Len(o.data)) THEN "mark" ELSE "put"

\* A chain that is read too short for the write is extended in its middle.
write(h, offset, buf) ==
  /\ op = Idle /\ Open(h) /\ ~inode[h].dir /\ ChainOk(inode[h].first)
  /\ LET all == collect_chain(inode[h].first)
         start(chain) ==
           LET o == [kind |-> "write", stage |-> "", h |-> h, offset |-> offset, data |-> buf,
                     chain |-> chain, fresh |-> 0, unmarked |-> FALSE, done |-> 0]
           IN  [o EXCEPT !.stage = AfterGrowth(o)]
     IN  \/ op' = start(all) /\ UNCHANGED <<faults, short>>
         \/ /\ \E part \in CutShort(all) :
                  Len(part) < Needed(offset + Len(buf)) /\ op' = start(part)
            /\ Unnoticed
            /\ short' = short \cup {inode[h].at}
  /\ UNCHANGED <<disk, hint, inode, expected, doubled>>

\* allocate_cluster, first transfer: the cluster found is marked as the end of
\* a chain.  There may be none left.  The mark may be lost, and a cluster in
\* use may look free.
Mark ==
  /\ op # Idle /\ op.stage = "mark"
  /\ LET take(c, lost) == [op EXCEPT !.stage = "zero", !.fresh = c, !.unmarked = lost]
     IN  \/ FreeCluster = 0 /\ Finish /\ UNCHANGED <<fat, faults, doubled>>
         \/ /\ FreeCluster # 0
            /\ fat' = write_fat_entry(FreeCluster, eoc_marker)
            /\ op' = take(FreeCluster, FALSE)
            /\ UNCHANGED <<faults, doubled>>
         \/ /\ FreeCluster # 0 /\ Unnoticed
            /\ op' = take(FreeCluster, TRUE)
            /\ UNCHANGED <<fat, doubled>>
         \/ /\ Unnoticed
            /\ \E c \in Passed : fat' = write_fat_entry(c, eoc_marker) /\ op' = take(c, FALSE)
            /\ doubled' = TRUE
  /\ UNCHANGED <<image, cells, hint, inode, expected, short>>

\* Where a fresh cluster goes: it is linked to a chain, or begins one.
Linked(o) == IF o.kind = "create" THEN o.at = NoSlot ELSE o.chain # <<>>

\* Mutant of zero_cluster: the cluster keeps what it held.
KeepCells(c) == cells

\* The cluster with zeros all over.
zero_cluster(c) == [cells EXCEPT ![c] = [i \in 1 .. CLUSTER |-> Zero]]

\* allocate_cluster, second transfer.  A cluster that begins a chain and has
\* lost its mark can be found again by a later search.
Clear ==
  /\ op # Idle /\ op.stage = "zero"
  /\ \/ Fail /\ UNCHANGED <<cells, hint, doubled>>
     \/ /\ cells' = zero_cluster(op.fresh)
        /\ hint' = op.fresh + 1
        /\ LET begun == [op EXCEPT !.chain = <<op.fresh>>]
           IN  op' = IF Linked(op) THEN [op EXCEPT !.stage = "link"]
                     ELSE IF op.kind = "create" THEN [op EXCEPT !.stage = "entry"]
                     ELSE [begun EXCEPT !.stage = AfterGrowth(begun)]
        /\ doubled' = (doubled \/ (op.unmarked /\ ~Linked(op)))
        /\ UNCHANGED faults
  /\ UNCHANGED <<image, fat, inode, expected, short>>

\* The last cluster of the chain points to the fresh one.
Link ==
  /\ op # Idle /\ op.stage = "link"
  /\ \/ fat' = write_fat_entry(Last(op.chain), op.fresh) /\ UNCHANGED <<faults, short>>
     \/ /\ Unnoticed
        /\ short' = short \cup {IF op.kind = "create" THEN op.parent.at ELSE inode[op.h].at}
        /\ UNCHANGED fat
  /\ op' = [op EXCEPT !.stage = "end", !.chain = Append(@, op.fresh)]
  /\ UNCHANGED <<image, cells, hint, inode, expected, doubled>>

\* The fresh cluster is marked as the end once more, whether or not it was.
End ==
  /\ op # Idle /\ op.stage = "end"
  /\ \/ fat' = write_fat_entry(op.fresh, eoc_marker) /\ UNCHANGED <<faults, doubled>>
     \/ Unnoticed /\ doubled' = (doubled \/ op.unmarked) /\ UNCHANGED fat
  /\ op' = IF op.kind = "create" THEN [op EXCEPT !.stage = "mark", !.at = <<op.fresh, 1>>]
           ELSE [op EXCEPT !.stage = AfterGrowth(op)]
  /\ UNCHANGED <<image, cells, hint, inode, expected, short>>

\* write_raw_dir_entry.  The entry is one sector's write: all of it or nothing.
WriteEntry ==
  /\ op # Idle /\ op.stage = "entry"
  /\ \/ Fail /\ UNCHANGED <<cells, inode, expected>>
     \/ /\ cells' = [cells EXCEPT ![op.at[1]][op.at[2]] =
                       Entry(op.name, op.dir, op.fresh, 0)]
        /\ expected' = IF op.dir THEN expected ELSE (op.at :> <<>>) @@ expected
        /\ IF op.dir THEN op' = [op EXCEPT !.stage = "dots"] /\ UNCHANGED inode
           ELSE /\ Finish
                /\ inode' = [inode EXCEPT ![op.h] = InodeOf(FALSE, op.fresh, 0, op.at, FALSE)]
        /\ UNCHANGED faults
  /\ UNCHANGED <<image, fat, hint, unseen>>

\* initialize_directory_cluster: zeros, then the entries "." and "..".  The
\* name of the new directory is on the disk already if one of them fails.
Dots ==
  LET parent == IF op.parent.fixed THEN 0 ELSE op.parent.first
      cleared == zero_cluster(op.fresh)
      one == [cleared EXCEPT ![op.fresh][1] = Entry(Dot, TRUE, op.fresh, 0)]
      two == [one EXCEPT ![op.fresh][2] = Entry(DotDot, TRUE, parent, 0)]
  IN  /\ op # Idle /\ op.stage = "dots"
      /\ \/ Fail /\ cells' \in {cells, cleared, one} /\ UNCHANGED inode
         \/ /\ cells' = two
            /\ Finish
            /\ inode' = [inode EXCEPT ![op.h] = InodeOf(TRUE, op.fresh, 0, op.at, FALSE)]
            /\ UNCHANGED faults
      /\ UNCHANGED <<image, fat, hint, expected, unseen>>

\* The write loop moves one cluster's share of the buffer; of a transfer that
\* fails, the sectors before the failure have arrived.
Share ==
  LET position == op.offset + op.done
  IN  Min({Len(op.data) - op.done, CLUSTER - (position % CLUSTER)})

Stored(n) ==
  LET position == op.offset + op.done
      c        == op.chain[(position \div CLUSTER) + 1]
      from     == position % CLUSTER
  IN  [cells EXCEPT ![c] = [i \in 1 .. CLUSTER |->
         IF i \in (from + 1) .. (from + n)
         THEN [of |-> inode[op.h].at, byte |-> op.data[op.done + i - from]] ELSE @[i]]]

Tear == expected' = [expected EXCEPT ![inode[op.h].at] = Torn]

Put ==
  /\ op # Idle /\ op.stage = "put"
  /\ \/ Fail /\ (\E n \in 0 .. Share - 1 : cells' = Stored(n)) /\ Tear
     \/ /\ cells' = Stored(Share)
        /\ LET done == op.done + Share
           IN  op' = [op EXCEPT !.done = done,
                        !.stage = IF \/ done = Len(op.data)
                                     \/ (op.offset + done) \div CLUSTER >= Len(op.chain)
                                  THEN "meta" ELSE @]
        /\ UNCHANGED <<faults, expected>>
  /\ UNCHANGED <<image, fat, hint, inode, unseen>>

Stale(h) == \/ inode[h].first # Cell(inode[h].at).first
            \/ inode[h].size # Cell(inode[h].at).size

\* What a file holds after a write, for the history.
Overwritten(s, offset, data, at) ==
  [i \in 1 .. Max({Len(s), offset + Len(data)}) |->
     IF i \in (offset + 1) .. (offset + Len(data)) THEN [of |-> at, byte |-> data[i - offset]]
     ELSE IF i <= Len(s) THEN s[i] ELSE Zero]

\* Mutant of NewSize: the size is the end of this write.
EndOfWrite(h, end) == end

NewSize(h, end) == Max({inode[h].size, end})

\* update_dir_entry_metadata, and the inode learns what was written.  The size
\* must fit 32 bits, which is looked at only now.
Meta ==
  LET h    == op.h
      at   == inode[h].at
      end  == op.offset + Len(op.data)
      size == NewSize(h, end)
  IN  /\ op # Idle /\ op.stage = "meta"
      /\ \/ end > MaxFile /\ Finish /\ Tear /\ UNCHANGED <<cells, inode, faults>>
         \/ end <= MaxFile /\ Fail /\ Tear /\ UNCHANGED <<cells, inode>>
         \/ /\ end <= MaxFile
            /\ cells' = [cells EXCEPT ![at[1]][at[2]].first = Head(op.chain),
                                      ![at[1]][at[2]].size = size]
            /\ inode' = [inode EXCEPT ![h].first = Head(op.chain), ![h].size = size,
                                      ![h].cache = NoCache]
            /\ expected' = [expected EXCEPT ![at] =
                 IF Stale(h) \/ @ = Torn THEN Torn ELSE Overwritten(@, op.offset, op.data, at)]
            /\ Finish
            /\ UNCHANGED faults
      /\ UNCHANGED <<image, fat, hint, unseen>>

\* The clusters a read skips start from the one it remembers, if that one is
\* not past the target.
Start(node, target) ==
  IF node.cache # NoCache /\ node.cache[1] <= target THEN node.cache ELSE <<0, node.first>>

Skip(node, target) ==
  LET start == Start(node, target)
      walk[n \in start[1] .. target] ==
        IF n = start[1] THEN start[2]
        ELSE LET c == walk[n - 1]
             IN  IF c = 0 \/ Ends(read_fat_entry(c)) THEN 0 ELSE read_fat_entry(c)
  IN  walk[target]

\* The cells from the offset on that a read returns.
read(h, offset) ==
  /\ op = Idle /\ Open(h) /\ ~inode[h].dir
  /\ offset < inode[h].size /\ inode[h].first >= 2
  /\ LET target == offset \div CLUSTER
     IN  /\ Skip(inode[h], target) # 0
         /\ inode' = [inode EXCEPT ![h].cache = <<target, Skip(inode[h], target)>>]
  /\ UNCHANGED <<disk, hint, op, faults, expected, unseen>>

\* The machine stops between two transfers and mounts the disk again.
PowerCut ==
  /\ CanFail /\ faults' = faults + 1
  /\ Finish
  /\ inode' = [h \in Handle |-> NoInode]
  /\ hint' = 2
  /\ IF op # Idle /\ op.stage \in {"put", "meta"} THEN Tear ELSE UNCHANGED expected
  /\ doubled' = (doubled \/ (op # Idle /\ op.stage = "end" /\ op.unmarked))
  /\ UNCHANGED <<disk, short>>

-----------------------------------------------------------------------------
\* The disk that the host tool made: the root directory, in FAT32 a chain of
\* clusters, and in it empty files, which have no cluster.
Init ==
  /\ image \in Image
  /\ LET fixed == image.clusters < FAT16_LIMIT
         rootAt == [k \in DOMAIN image.root |-> IF fixed THEN 0 ELSE image.rootCluster + k - 1]
         chained(c) == ~fixed /\ c \in ToSet(rootAt)
     IN  /\ fat = IF image.clusters < FAT12_LIMIT
                  THEN [i \in 0 .. ((image.clusters + 2) * 3) \div 2 |-> 0]
                  ELSE [c \in 2 .. image.clusters + 1 |->
                          IF ~chained(c) THEN 0 ELSE IF c = Last(rootAt) THEN 268435455 ELSE c + 1]
         /\ cells = [c \in 0 .. image.clusters + 1 |->
                IF c \in ToSet(rootAt) THEN image.root[SelectInSeq(rootAt, LAMBDA r : r = c)]
                ELSE [i \in 1 .. CLUSTER |-> Garbage]]
         /\ expected = [at \in {at \in ToSet(rootAt) \X (1 .. Len(image.root[1])) :
                                IsEntry(Cell(at))} |-> <<>>]
  /\ hint = 2 /\ op = Idle /\ faults = 0
  /\ inode = [h \in Handle |-> NoInode]
  /\ short = {} /\ doubled = FALSE

Begin ==
  /\ op = Idle
  /\ \E h \in Handle :
    \/ Drop(h)
    \/ \E dir \in Directories, name \in Name :
         lookup(h, dir, name) \/ \E isDir \in BOOLEAN : create(h, dir, name, isDir)
    \/ \E offset \in 0 .. MaxFile - 1 :
         read(h, offset) \/ \E buf \in Buf : write(h, offset, buf)

Next == Begin \/ Mark \/ Clear \/ Link \/ End \/ WriteEntry \/ Dots \/ Put \/ Meta \/ PowerCut

Spec == Init /\ [][Next]_vars

-----------------------------------------------------------------------------
(* Properties.                                                               *)

EntriesAt  == {at \in UNION {{c} \X (1 .. Len(cells[c])) : c \in DOMAIN cells} :
                 IsEntry(Cell(at)) /\ Cell(at).name \notin {Dot, DotDot}}
FilesAt    == {at \in EntriesAt : ~Cell(at).dir}

\* Whoever holds a first cluster: an entry on the disk, the root directory of
\* FAT32, or an open inode on behalf of its entry.
Claims ==
  {<<at, Cell(at).first>> : at \in EntriesAt}
    \cup (IF fat_type = "Fat32" THEN {<<NoSlot, image.rootCluster>>} ELSE {})
    \cup {<<inode[h].at, inode[h].first>> : h \in {h \in Handle : Open(h)}}

\* No cluster belongs to two files, whatever data transfer failed, wherever the
\* power was cut, and although links of the table were lost or chains read
\* short: chains have no free cluster and no cycle, end in the end marker, and
\* those of different entries are disjoint (allocate_cluster, ensure_chain_len).
\* The mark of an appended cluster may be lost as well, because it is written
\* twice.  The exceptions are the mark of a cluster that begins a chain and a
\* read that makes a cluster in use look free.  A directory entry never promises
\* more bytes than its chain has room for (FatInode::write), and the cluster an
\* inode remembers from its last read is on the chain where it remembers it,
\* although other inodes extended the chain (read_cluster_cache), unless that
\* very chain was read or linked short.
ChainsApart ==
  ~doubled =>
  /\ LET chains == {[of |-> p[1], at |-> collect_chain(p[2])] : p \in Claims}
     IN  \A p \in chains :
           /\ p.at # <<>> =>
                /\ Len(p.at) < Limit
                /\ read_fat_entry(Last(p.at)) = eoc_marker \/ (op # Idle /\ op.unmarked)
           /\ \A q \in chains : q.of # p.of => ToSet(p.at) \cap ToSet(q.at) = {}
  /\ \A at \in FilesAt \ short :
       Cell(at).size <= CLUSTER * Len(collect_chain(Cell(at).first))
  /\ \A h \in Handle :
       Open(h) /\ inode[h].cache # NoCache /\ inode[h].at \notin short =>
         LET chain == collect_chain(inode[h].first)
         IN  /\ inode[h].cache[1] < Len(chain)
             /\ chain[inode[h].cache[1] + 1] = inode[h].cache[2]

\* What a reader of the disk sees in a file: as much as its chain holds.
Visible(at) ==
  LET chain == collect_chain(Cell(at).first)
  IN  [i \in 1 .. Min({Cell(at).size, CLUSTER * Len(chain)}) |->
         cells[chain[((i - 1) \div CLUSTER) + 1]][((i - 1) % CLUSTER) + 1]]

\* A file shows zeros and its own bytes, never another file's and never what
\* the disk held before (zero_cluster), even where its chain was read or linked
\* short, unless a cluster was handed out twice.
OnlyOwnBytes ==
  ~doubled =>
    \A at \in FilesAt : \A v \in ToSet(Visible(at)) : v = Zero \/ (v # Garbage /\ v.of = at)

\* Between operations a file holds what the writes to it left, with zeros in
\* the gaps, unless a write failed half way, went through an inode that was
\* older than the entry, or found or left the chain of this file short.
ContentKept ==
  ~doubled /\ op = Idle =>
    \A at \in FilesAt \ short : expected[at] # Torn => Visible(at) = expected[at]

\* Every name on the disk is found in exactly one directory, and no directory
\* has a name twice: no crash and no growth of a directory hides an entry behind
\* an unused one, and none is written where nobody looks (find_free_dir_entry,
\* read_directory_entries).  Where a directory was read or linked short names
\* can be lost or doubled, but none appears in two directories.
NamesFound ==
  LET dirs  == {Root} \cup {InodeOf(TRUE, Cell(at).first, 0, at, FALSE) : at \in EntriesAt \ FilesAt}
      lists == {[of |-> dir.at, all |-> read_directory_entries(directory_regions(dir))] : dir \in dirs}
  IN  ~doubled =>
        /\ \A p, q \in lists : p.of # q.of => ToSet(p.all) \cap ToSet(q.all) = {}
        /\ (\A p \in lists : p.of \notin short) =>
             EntriesAt \subseteq UNION {ToSet(p.all) : p \in lists}
        /\ \A p \in lists : p.of \notin short => IsInjective([i \in DOMAIN p.all |-> Cell(p.all[i]).name])
=============================================================================
