-------------------------------- MODULE MemFs --------------------------------
(***************************************************************************)
(* The name space of ramfs and tmpfs (fs/memfs.rs): directories, links,    *)
(* rename, and the life of an inode, which ends when neither a directory   *)
(* nor a caller (an open file, a working directory) holds it any more.     *)
(*                                                                         *)
(* Callers work on inodes they hold, as the Inode trait lets them, so an   *)
(* operation may come for a directory that has been removed in between.    *)
(* Every operation runs under the name space lock and is one step.         *)
(***************************************************************************)
EXTENDS Naturals, Sequences, FiniteSetsExt, SequencesExt

CONSTANTS
  Name,        \* valid entry names
  NrInodes,    \* TmpfsOptions::nr_inodes; out of reach for ramfs
  MaxIno       \* bound on NEXT_INO

ASSUME MemFsAssumption ==
  /\ NrInodes \in Nat \ {0} /\ MaxIno \in Nat \ {0}

Ino  == 1 .. MaxIno
Root == 1
NoIno == 0
FileType == {"none", "dir", "file"}   \* "none": not created yet, or freed

VARIABLES
  file_type, entries, parent, links,   \* MemoryInode
  held,      \* inodes that callers hold an Arc of
  inodes,    \* Shared::inodes, the count of charged inodes
  NEXT_INO,
  stuck      \* the caller spins on a lock that it holds itself

vars == <<file_type, entries, parent, links, held, inodes, NEXT_INO, stuck>>

-----------------------------------------------------------------------------
Alive     == {i \in Ino : file_type[i] # "none"}
Linked    == {i \in Alive : links[i] > 0}
IsDir(i)  == file_type[i] = "dir"

Names(d)        == {entries[d][k][1] : k \in DOMAIN entries[d]}
Children(d)     == {entries[d][k][2] : k \in DOMAIN entries[d]}
IndexOf(d, n)   == CHOOSE k \in DOMAIN entries[d] : entries[d][k][1] = n
Lookup(d, n)    == entries[d][IndexOf(d, n)][2]

\* A set that holds the parent of each of its members.
UpClosed(S) == \A i \in S : parent[i] # NoIno => parent[i] \in S

\* i, its parent, and so on up: what the loop of rename walks through.
Ancestors(i) ==
  {a \in Ino : \A S \in SUBSET Ino : i \in S /\ UpClosed(S) => a \in S}

\* The inodes whose last Arc goes away when directories hold `ents` and callers
\* hold `holders`.
Freed(ents, holders) ==
  {i \in Alive \ ({Root} \union holders) :
     \A d \in Alive : \A k \in DOMAIN ents[d] : ents[d][k][2] # i}

\* Drop of a MemoryInode gives its charge back.
DropInodes(ents, holders) ==
  LET gone == Freed(ents, holders)
  IN  /\ entries' = [i \in Ino |-> IF i \in gone THEN <<>> ELSE ents[i]]
      /\ file_type' = [i \in Ino |-> IF i \in gone THEN "none" ELSE file_type[i]]
      /\ held' = holders
      /\ inodes' = inodes - Cardinality(gone)

-----------------------------------------------------------------------------
Init ==
  /\ file_type = [i \in Ino |-> IF i = Root THEN "dir" ELSE "none"]
  /\ entries = [i \in Ino |-> <<>>]
  /\ parent = [i \in Ino |-> NoIno]
  /\ links = [i \in Ino |-> IF i = Root THEN 2 ELSE 0]
  /\ held = {Root}
  /\ inodes = 1
  /\ NEXT_INO = 2
  /\ stuck = FALSE

\* A caller looks a name up and keeps the inode, or drops one it kept.
lookup(d, n) ==
  /\ d \in held /\ IsDir(d) /\ n \in Names(d)
  /\ held' = held \union {Lookup(d, n)}
  /\ UNCHANGED <<file_type, entries, parent, links, inodes, NEXT_INO, stuck>>

release(i) ==
  /\ i \in held \ {Root}
  /\ DropInodes(entries, held \ {i})
  /\ UNCHANGED <<parent, links, NEXT_INO, stuck>>

CreateAllowed(d, n) == links[d] # 0 /\ IsDir(d) /\ n \notin Names(d)

\* Mutant of Reserve: one more than the limit.
ReserveOneMore(used) == used <= NrInodes

\* Shared::reserve of an inode.
Reserve(used) == used < NrInodes

\* MemoryInode::new: a directory counts its own "." as well.
NewLinks(type) == IF type = "dir" THEN 2 ELSE 1

create(d, n, type) ==
  /\ d \in held
  /\ CreateAllowed(d, n)
  /\ Reserve(inodes)
  /\ NEXT_INO <= MaxIno
  /\ file_type' = [file_type EXCEPT ![NEXT_INO] = type]
  /\ parent' = [parent EXCEPT ![NEXT_INO] = d]
  /\ links' = [links EXCEPT ![NEXT_INO] = NewLinks(type),
                            ![d] = IF type = "dir" THEN @ + 1 ELSE @]
  /\ entries' = [entries EXCEPT ![d] = Append(@, <<n, NEXT_INO>>)]
  /\ held' = held \union {NEXT_INO}
  /\ inodes' = inodes + 1
  /\ NEXT_INO' = NEXT_INO + 1
  /\ UNCHANGED stuck

\* MemoryInode::detach, as a function of the link counts.
detach(ls, d, child) ==
  [ls EXCEPT ![child] = 0, ![d] = IF IsDir(child) THEN @ - 1 ELSE @]

unlink(d, n, directory) ==
  /\ d \in held /\ IsDir(d) /\ n \in Names(d)
  /\ LET child == Lookup(d, n)
     IN  /\ IsDir(child) <=> directory
         /\ IsDir(child) => entries[child] = <<>>
         /\ links' = detach(links, d, child)
         /\ DropInodes([entries EXCEPT ![d] = RemoveAt(@, IndexOf(d, n))], held)
  /\ UNCHANGED <<parent, NEXT_INO, stuck>>

-----------------------------------------------------------------------------
\* Mutant of can_replace: a directory that is not empty may be replaced.
ReplaceAnyDir(source, target) == IsDir(source) <=> IsDir(target)

can_replace(source, target) ==
  /\ IsDir(source) <=> IsDir(target)
  /\ IsDir(target) => entries[target] = <<>>

\* The directory would be moved below itself.
BelowItself(source, dest) == IsDir(source) /\ source \in Ancestors(dest)

\* Within one directory: an entry of the new name goes, the source is renamed.
RenameWithin(d, n, new) ==
  LET source == Lookup(d, n)
      kept   == IF new \in Names(d) THEN RemoveAt(entries[d], IndexOf(d, new))
                ELSE entries[d]
      moved  == [k \in DOMAIN kept |-> IF kept[k][2] = source THEN <<new, source>>
                                       ELSE kept[k]]
  IN  /\ new \in Names(d) => can_replace(source, Lookup(d, new))
      /\ links' = IF new \in Names(d) THEN detach(links, d, Lookup(d, new)) ELSE links
      /\ DropInodes([entries EXCEPT ![d] = moved], held)
      /\ UNCHANGED parent

\* Mutant of Reparented: the moved inode keeps its old parent.
OldParent(source, dest) == parent

Reparented(source, dest) == [parent EXCEPT ![source] = dest]

\* Into another directory: an entry of that name goes, then the source moves.
RenameAcross(d, n, dest, new) ==
  LET source  == Lookup(d, n)
      kept    == IF new \in Names(dest) THEN RemoveAt(entries[dest], IndexOf(dest, new))
                 ELSE entries[dest]
      cleared == IF new \in Names(dest) THEN detach(links, dest, Lookup(dest, new))
                 ELSE links
  IN  /\ IsDir(dest)
      /\ new \in Names(dest) => can_replace(source, Lookup(dest, new))
      /\ links' = IF IsDir(source)
                  THEN [cleared EXCEPT ![d] = @ - 1, ![dest] = @ + 1]
                  ELSE cleared
      /\ parent' = Reparented(source, dest)
      /\ DropInodes([entries EXCEPT ![d] = RemoveAt(@, IndexOf(d, n)),
                                    ![dest] = Append(kept, <<new, source>>)], held)

\* can_replace locks its target while rename holds the lock of d: a directory
\* moved onto the directory it is in makes the caller wait for itself.
LocksTwice(d, n, dest, new) ==
  /\ d # dest /\ IsDir(dest) /\ new \in Names(dest)
  /\ IsDir(Lookup(d, n)) /\ Lookup(dest, new) = d

rename(d, n, dest, new) ==
  /\ {d, dest} \subseteq held
  /\ links[dest] # 0
  /\ IsDir(d) /\ n \in Names(d)
  /\ ~(d = dest /\ n = new)
  /\ ~BelowItself(Lookup(d, n), dest)
  /\ IF LocksTwice(d, n, dest, new)
     THEN stuck' = TRUE /\ UNCHANGED <<file_type, entries, parent, links, held, inodes>>
     ELSE /\ IF d = dest THEN RenameWithin(d, n, new) ELSE RenameAcross(d, n, dest, new)
          /\ UNCHANGED stuck
  /\ UNCHANGED NEXT_INO

Next ==
  /\ ~stuck
  /\ \/ \E i \in Ino : release(i)
     \/ \E d \in Ino, n \in Name :
          \/ lookup(d, n)
          \/ \E type \in {"dir", "file"} : create(d, n, type)
          \/ \E directory \in BOOLEAN : unlink(d, n, directory)
          \/ \E dest \in Ino, new \in Name : rename(d, n, dest, new)

Spec == Init /\ [][Next]_vars

-----------------------------------------------------------------------------
\* Every variable has its type.
TypeOK ==
  /\ file_type \in [Ino -> FileType]
  /\ entries \in [Ino -> Seq(Name \X Ino)]
  /\ parent \in [Ino -> Ino \union {NoIno}]
  /\ links \in [Ino -> Nat]
  /\ held \subseteq Alive /\ Root \in held
  /\ inodes \in Nat /\ NEXT_INO \in Nat
  /\ stuck \in BOOLEAN

\* An inode is linked exactly when it is the root or one entry of one directory
\* names it; that directory is the one in its parent field; names are not used
\* twice in a directory.
NamedOnce ==
  /\ \A d \in Ino : \A k, l \in DOMAIN entries[d] :
       entries[d][k][1] = entries[d][l][1] \/ entries[d][k][2] = entries[d][l][2] => k = l
  /\ \A d \in Ino : Children(d) = {i \in Linked \ {Root} : parent[i] = d}
  /\ \A i \in Linked \ {Root} : parent[i] \in Ino

\* Renames leave no cycle: every linked inode is below the root.
Rooted == \A i \in Linked : Root \in Ancestors(i)

\* A directory that has been removed is empty and stays so, and what a linked
\* directory counts is itself, its "." and its subdirectories.
LinkCounts ==
  \A i \in Alive :
    IF links[i] = 0 THEN entries[i] = <<>>
    ELSE links[i] = IF IsDir(i) THEN 2 + Cardinality({c \in Children(i) : IsDir(c)})
                    ELSE 1

\* Whatever renames, removals and holders of removed directories do, the linked
\* inodes are one tree under the root, and the link counts are those of the tree
\* (create, unlink, rename).
TreeConsistent == NamedOnce /\ Rooted /\ LinkCounts

\* The mount is charged for exactly the inodes that exist, removed ones that a
\* caller still holds included, and never beyond its limit.
ChargedExactly == TypeOK /\ inodes = Cardinality(Alive) /\ inodes <= NrInodes

\* No step takes more than one inode out of the tree, and never one that has
\* entries of its own: a rename loses nothing but the target it replaces.
LosesAtMostOne ==
  [][/\ Cardinality(Linked \ Linked') <= 1
     /\ \A i \in Linked \ Linked' : entries[i] = <<>>]_vars
=============================================================================
