-------------------------------- MODULE Vfs ---------------------------------
(***************************************************************************)
(* Names and mounts (fs/vfs.rs, the path part of syscall/impls.rs): the    *)
(* table of mounted filesystems, the lookup of a path through it, symbolic *)
(* links, and the operations that change names while filesystems are       *)
(* mounted on some of them.  A path is a sequence of names, already        *)
(* normalized unless it says otherwise; a filesystem is a function from    *)
(* the paths in it to nodes.                                               *)
(*                                                                         *)
(* No call unmounts a filesystem and no call makes a link, so neither      *)
(* happens here.  MemFs models what unlink and rename do inside one        *)
(* filesystem, to inodes; here only their effect on names counts.          *)
(***************************************************************************)
EXTENDS Integers, SequencesExt

CONSTANTS
  Name,
  MaxDepth,                          \* bound: the length of paths
  MaxNodes,                          \* bound: names are made while fewer are in a filesystem
  DEFAULT_SYMLINK_RESOLUTION_LIMIT,
  NotFound, Loop

VARIABLES
  fs,       \* mounted filesystems, in the order they were: [kind, nodes]
  root,     \* index of the root filesystem
  mounts,   \* function from mount paths to indices of fs
  cwd,      \* the path of the working directory
  cwdAt     \* history: where its inode is now

vfs == <<fs, root, mounts, cwd, cwdAt>>

\* Where a link or the first line of a script leads, and what a file holds.
Dir  == [type |-> "dir", to |-> <<>>, abs |-> FALSE, holds |-> "data", arg |-> <<>>,
         flaw |-> "none"]
File == [Dir EXCEPT !.type = "file"]
Up   == ".."
Path == UNION {[1 .. n -> Name] : n \in 0 .. MaxDepth}

\* ramfs and tmpfs: the filesystems that unlink and rename.
InMemory(kind) == kind \in {"ramfs", "tmpfs"}
Creates(kind)  == kind \notin {"proc", "dev"}

-----------------------------------------------------------------------------
(* Lookup.                                                                   *)

\* The filesystem mounted deepest on the way to a path, and the path in it.
resolve_path(path) ==
  LET on == {at \in DOMAIN mounts : IsPrefix(at, path)}
      at == CHOOSE at \in on : \A other \in on : Len(at) >= Len(other)
  IN  IF on = {} THEN [fs |-> root, at |-> path]
      ELSE [fs |-> mounts[at], at |-> SubSeq(path, Len(at) + 1, Len(path))]

lookup_path(path) ==
  LET r == resolve_path(path) IN IF r.at \in DOMAIN fs[r.fs].nodes THEN r ELSE NotFound

Node(place) == fs[place.fs].nodes[place.at]
IsDir(place) == place # NotFound /\ Node(place).type = "dir"

normalize_absolute_path(segments) ==
  FoldLeft(LAMBDA path, s : IF s # Up THEN Append(path, s)
                            ELSE IF path = <<>> THEN path ELSE Front(path),
           <<>>, segments)

\* Mutant of LinkBase: a relative target starts from the root.
BaseIsRoot(link, parent) == <<>>

LinkBase(link, parent) == IF link.abs THEN <<>> ELSE parent

\* Follow the first link on the path, and start over.
RECURSIVE ResolveFrom(_, _)
ResolveFrom(path, followed) ==
  LET missing == {i \in 1 .. Len(path) : lookup_path(SubSeq(path, 1, i)) = NotFound}
      links == {i \in (1 .. Len(path)) \ missing :
                  Node(lookup_path(SubSeq(path, 1, i))).type = "link"}
      i == Min(missing \cup links)
      link == Node(lookup_path(SubSeq(path, 1, i)))
      parent == SubSeq(path, 1, i - 1)
  IN  IF missing \cup links = {} THEN path
      ELSE IF i \in missing THEN NotFound
      ELSE IF followed >= DEFAULT_SYMLINK_RESOLUTION_LIMIT THEN Loop
      ELSE ResolveFrom(normalize_absolute_path(LinkBase(link, parent) \o link.to
                                               \o SubSeq(path, i + 1, Len(path))),
                       followed + 1)

resolve_symlink_path(path) == ResolveFrom(path, 0)

-----------------------------------------------------------------------------
(* Operations on names.                                                      *)

Add(place, node) == [fs EXCEPT ![place.fs].nodes = (place.at :> node) @@ @]
Below(at, nodes) == {q \in DOMAIN nodes : IsPrefix(at, q)}
Without(place) ==
  [fs EXCEPT ![place.fs].nodes = [q \in DOMAIN @ \ Below(place.at, @) |-> @[q]]]

\* Mutant of check_mount_mutation: an ancestor of a mount point may go.
OnlyThePoint(path) == path = <<>> \/ path \in DOMAIN mounts

\* A path on which, or below which, something is mounted.
check_mount_mutation(path) == path = <<>> \/ \E at \in DOMAIN mounts : IsPrefix(path, at)

\* The directory a name is made in or taken from, and the place in it.
resolve_parent(path) == lookup_path(Front(path))
Child(parent, path) == [fs |-> parent.fs, at |-> Append(parent.at, Last(path))]

create_path(path, node) ==
  /\ path # <<>>
  /\ LET parent == resolve_parent(path)
         place == Child(parent, path)
     IN  /\ IsDir(parent)
         /\ Creates(fs[parent.fs].kind)
         /\ place.at \notin DOMAIN fs[parent.fs].nodes
         /\ Cardinality(DOMAIN fs[parent.fs].nodes) < MaxNodes
         /\ fs' = Add(place, node)
  /\ UNCHANGED <<root, mounts, cwd, cwdAt>>

\* mkdir of the kernel shell.  The system call makes the same directory, but on
\* ramfs and tmpfs only.
mkdir(path) == create_path(path, Dir)

\* open with O_CREAT, of a name that is not there.
open(path) == lookup_path(path) = NotFound /\ create_path(path, File)

\* unlink and rmdir.
unlink(path) ==
  /\ ~check_mount_mutation(path)
  /\ LET parent == resolve_parent(path)
         place == Child(parent, path)
     IN  /\ IsDir(parent)
         /\ InMemory(fs[parent.fs].kind)
         /\ Below(place.at, fs[place.fs].nodes) = {place.at}
         /\ fs' = Without(place)
         /\ cwdAt' = IF cwdAt = place THEN NotFound ELSE cwdAt
  /\ UNCHANGED <<root, mounts, cwd>>

\* rename: within one filesystem, over nothing or over a node of the same type
\* that is not a directory with entries, and never into itself.
rename(old, new) ==
  /\ ~check_mount_mutation(old) /\ ~check_mount_mutation(new)
  /\ LET from == resolve_parent(old)
         to == resolve_parent(new)
         a == Child(from, old).at
         b == Child(to, new).at
         nodes == fs[from.fs].nodes
         moved == Below(a, nodes)
         Onto(q) == b \o SubSeq(q, Len(a) + 1, Len(q))
     IN  /\ IsDir(from) /\ IsDir(to) /\ from.fs = to.fs /\ InMemory(fs[from.fs].kind)
         /\ a \in DOMAIN nodes /\ ~IsPrefix(a, b)
         /\ b \in DOMAIN nodes => nodes[a].type = nodes[b].type /\ Below(b, nodes) = {b}
         /\ \A q \in moved : Len(Onto(q)) <= MaxDepth
         /\ fs' = [fs EXCEPT ![from.fs].nodes =
                     [q \in {Onto(p) : p \in moved} |-> @[a \o SubSeq(q, Len(b) + 1, Len(q))]]
                     @@ [q \in DOMAIN @ \ (moved \cup {b}) |-> @[q]]]
         /\ cwdAt' = IF cwdAt = NotFound \/ cwdAt.fs # from.fs THEN cwdAt
                     ELSE IF IsPrefix(a, cwdAt.at) THEN [cwdAt EXCEPT !.at = Onto(@)]
                     ELSE IF cwdAt.at = b THEN NotFound ELSE cwdAt
  /\ UNCHANGED <<root, mounts, cwd>>

chdir(path) ==
  /\ IsDir(lookup_path(path))
  /\ cwd' = path
  /\ cwdAt' = lookup_path(path)
  /\ UNCHANGED <<fs, root, mounts>>

\* A relative path is appended to the path of the working directory.
resolve_from_cwd(name) == lookup_path(Append(cwd, name))
=============================================================================
