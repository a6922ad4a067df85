----------------------------- MODULE Descriptors -----------------------------
(***************************************************************************)
(* Descriptor tables, open file descriptions and what the virtual file     *)
(* system and the device registry remember of open files                   *)
(* (process/fd_table.rs, process/task.rs, the descriptor calls of          *)
(* process/mod.rs, OpenFile in fs/vfs.rs, drivers/registry.rs).            *)
(*                                                                         *)
(* A table slot holds an Arc of a description; dup and fork clone it.  The *)
(* last clone dropped closes the file, which gives back what open took: an *)
(* entry of open_inodes, one of the inode index (fstat looks at it) and a  *)
(* count of the device registry (unregister looks at it, see Devices).     *)
(* Which task runs, and which tasks exist, is the business of module       *)
(* Process: here any of them may be next.                                  *)
(***************************************************************************)
EXTENDS Naturals, Sequences, FiniteSetsExt

CONSTANTS
  Pid, ROOT_PID,
  BootPids,   \* the tasks that exist from boot on
  Inode,      \* the files that can be opened
  Device,     \* those that are device nodes
  Stdio,      \* the device of the standard descriptors
  StdFds,     \* how many of them PID 1 has at boot (3 in the code)
  MaxFd,      \* bound on the slots of a table
  MaxOpen,    \* bound on the open file descriptions
  MaxLost     \* bound on the registry counts that are never given back

DescriptorsAssumption ==
  /\ ROOT_PID \in BootPids /\ BootPids \subseteq Pid
  /\ Device \subseteq Inode
  /\ Stdio \in Device
  /\ {StdFds, MaxFd, MaxOpen, MaxLost} \subseteq Nat
  /\ StdFds <= MaxFd /\ StdFds <= MaxOpen

Desc  == 1 .. MaxOpen
Slot  == [file : Desc \union {0}, cloexec : BOOLEAN]
Empty == [file |-> 0, cloexec |-> FALSE]
NoInode == "none"

VARIABLES
  tasks,      \* the task list
  current,    \* the task that executes
  exited,     \* tasks that have been through sys_exit, and run no more
  fds,        \* Task::fds
  files,      \* open files: descriptions, and the counts kept about them
  lost        \* per device, registry opens that nothing will close

vars == <<tasks, current, exited, fds, files, lost>>

-----------------------------------------------------------------------------
(* FdTable.  Descriptor fd is element fd + 1 of the sequence.               *)

InUse(table) == {fd \in 0 .. (Len(table) - 1) : table[fd + 1] # Empty}

insert_at(table, fd, entry) ==
  [i \in 1 .. Max({Len(table), fd + 1}) |->
     IF i = fd + 1 THEN entry
     ELSE IF i <= Len(table) THEN table[i] ELSE Empty]

\* The slot insert_from picks: the first hole at or after min, or the end.
FreeFrom(table, min) ==
  LET holes == {fd \in min .. (Len(table) - 1) : table[fd + 1] = Empty}
  IN  IF holes # {} THEN Min(holes) ELSE Max({Len(table), min})

insert_from(table, min, file, cloexec) ==
  insert_at(table, FreeFrom(table, min), [file |-> file, cloexec |-> cloexec])

remove(table, fd) == [table EXCEPT ![fd + 1] = Empty]

close_on_exec(table) ==
  [i \in DOMAIN table |-> IF table[i].cloexec THEN Empty ELSE table[i]]

\* How many slots of a table hold each description.
Holds(table, d) == Cardinality({i \in DOMAIN table : table[i].file = d})

-----------------------------------------------------------------------------
(* Open file descriptions.                                                  *)

Live(fs) == {d \in Desc : fs.strong[d] > 0}

\* OpenFile::new for a path: tracked, indexed and, for a device, registered.
OpenFileNew(fs, d, inode) ==
  [fs EXCEPT !.strong[d] = 1,
             !.inode[d] = inode,
             !.open_inodes[inode] = @ + 1,
             !.ref_counts[inode] = @ + 1,
             !.open_count = [dev \in Device |-> IF dev = inode THEN @[dev] + 1
                                                ELSE @[dev]]]

Less(n, k) == IF k <= n THEN n - k ELSE 0

\* OpenFile::close of the descriptions in `dead`: the registry count, then the
\* tracking and the index entry.
CloseFiles(fs, dead) ==
  LET gone(i) == Cardinality({d \in dead : fs.inode[d] = i})
  IN  [fs EXCEPT
         !.inode = [d \in Desc |-> IF d \in dead THEN NoInode ELSE fs.inode[d]],
         !.open_inodes = [i \in Inode |-> Less(fs.open_inodes[i], gone(i))],
         !.ref_counts = [i \in Inode |-> Less(fs.ref_counts[i], gone(i))],
         !.open_count = [i \in Device |-> Less(fs.open_count[i], gone(i))]]

\* refs[d] clones of the Arc of d are dropped; a description that loses its
\* last one is closed (Arc::try_unwrap, OpenFileDescription::drop).
DropRefs(fs, refs) ==
  [CloseFiles(fs, {d \in Live(fs) : fs.strong[d] <= refs[d]}) EXCEPT
     !.strong = [d \in Desc |-> Less(fs.strong[d], refs[d])]]

\* What a table gives up on its way from `before` to `after`.
Dropped(before, after) ==
  [d \in Desc |-> Less(Holds(before, d), Holds(after, d))]

-----------------------------------------------------------------------------
\* After boot: refresh_stdio has opened the terminal of PID 1 once for each of
\* its standard descriptors.  (Those of the kernel I/O task never change.)
Init ==
  /\ tasks = BootPids
  /\ current = ROOT_PID
  /\ exited = {}
  /\ fds = [p \in Pid |-> IF p # ROOT_PID THEN <<>>
                          ELSE [i \in 1 .. StdFds |-> [file |-> i, cloexec |-> FALSE]]]
  /\ files = [strong |-> [d \in Desc |-> IF d <= StdFds THEN 1 ELSE 0],
              inode |-> [d \in Desc |-> IF d <= StdFds THEN Stdio ELSE NoInode],
              open_inodes |-> [i \in Inode |-> IF i = Stdio THEN StdFds ELSE 0],
              ref_counts |-> [i \in Inode |-> IF i = Stdio THEN StdFds ELSE 0],
              open_count |-> [i \in Device |-> IF i = Stdio THEN StdFds ELSE 0]]
  /\ lost = [i \in Device |-> 0]

Executes == current \notin exited

\* open, openat: the description goes into the lowest free slot.
open_with_mode(inode, cloexec) ==
  LET d == Min(Desc \ Live(files))
  IN  /\ Executes
      /\ Live(files) # Desc
      /\ FreeFrom(fds[current], 0) < MaxFd
      /\ files' = OpenFileNew(files, d, inode)
      /\ fds' = [fds EXCEPT ![current] = insert_from(@, 0, d, cloexec)]
      /\ UNCHANGED <<tasks, current, exited, lost>>

\* An OpenFile that is dropped and not closed: an open refused after the file
\* was opened (O_DIRECTORY, O_TRUNC), and the second OpenFile that fstat and
\* readdir make.  Drop gives back the tracking and the index entry, but not the
\* count of the device registry.
OpenFileDropped(inode) ==
  /\ Executes
  /\ inode \in Device
  /\ lost[inode] < MaxLost
  /\ files' = [files EXCEPT !.open_count[inode] = @ + 1]
  /\ lost' = [lost EXCEPT ![inode] = @ + 1]
  /\ UNCHANGED <<tasks, current, exited, fds>>

close_fd(fd) ==
  LET table == remove(fds[current], fd)
  IN  /\ Executes
      /\ fd \in InUse(fds[current])
      /\ fds' = [fds EXCEPT ![current] = table]
      /\ files' = DropRefs(files, Dropped(fds[current], table))
      /\ UNCHANGED <<tasks, current, exited, lost>>

\* F_DUPFD and F_DUPFD_CLOEXEC.
dup_fd(fd, min, cloexec) ==
  LET d == fds[current][fd + 1].file
  IN  /\ Executes
      /\ fd \in InUse(fds[current])
      /\ FreeFrom(fds[current], min) < MaxFd
      /\ fds' = [fds EXCEPT ![current] = insert_from(@, min, d, cloexec)]
      /\ files' = [files EXCEPT !.strong[d] = @ + 1]
      /\ UNCHANGED <<tasks, current, exited, lost>>

\* F_SETFD.
set_fd_flags(fd, cloexec) ==
  /\ Executes
  /\ fd \in InUse(fds[current])
  /\ fds' = [fds EXCEPT ![current][fd + 1].cloexec = cloexec]
  /\ UNCHANGED <<tasks, current, exited, files, lost>>

-----------------------------------------------------------------------------
(* What becomes of a table in the life of its task.                         *)

\* Mutant of ForkFiles: the clones are not counted.
ForkShares(fs, table) == fs

\* Cloning a table clones every Arc in it.
ForkFiles(fs, table) ==
  [fs EXCEPT !.strong = [d \in Desc |-> @[d] + Holds(table, d)]]

fork(child) ==
  /\ Executes
  /\ child \in Pid \ tasks
  /\ tasks' = tasks \union {child}
  /\ current' \in {current, child}
  /\ fds' = [fds EXCEPT ![child] = fds[current]]
  /\ files' = ForkFiles(files, fds[current])
  /\ UNCHANGED <<exited, lost>>

\* The new image is in place: close-on-exec slots are emptied.
execve_with_args ==
  LET table == close_on_exec(fds[current])
  IN  /\ Executes
      /\ fds' = [fds EXCEPT ![current] = table]
      /\ files' = DropRefs(files, Dropped(fds[current], table))
      /\ UNCHANGED <<tasks, current, exited, lost>>

close_all_fds(table) == [i \in DOMAIN table |-> Empty]

sys_exit ==
  LET table == close_all_fds(fds[current])
  IN  /\ Executes
      /\ fds' = [fds EXCEPT ![current] = table]
      /\ files' = DropRefs(files, Dropped(fds[current], table))
      /\ exited' = exited \union {current}
      /\ current' \in tasks
      /\ UNCHANGED <<tasks, lost>>

\* The processor goes to another task without an exit: a fault, or the end of a
\* wait.  A faulted or killed task keeps its descriptors until it is reaped.
switch ==
  /\ current' \in tasks \ {current}
  /\ UNCHANGED <<tasks, exited, fds, files, lost>>

ReapedTable(table) == <<>>

\* reap_zombie_child drops the Task and with it its table.
reap_zombie_child(child) ==
  LET table == ReapedTable(fds[child])
  IN  /\ Executes
      /\ child \in tasks \ (BootPids \union {current})
      /\ tasks' = tasks \ {child}
      /\ exited' = exited \ {child}
      /\ fds' = [fds EXCEPT ![child] = table]
      /\ files' = DropRefs(files, Dropped(fds[child], table))
      /\ UNCHANGED <<current, lost>>

-----------------------------------------------------------------------------
Next ==
  \/ \E i \in Inode : OpenFileDropped(i) \/ \E c \in BOOLEAN : open_with_mode(i, c)
  \/ \E fd \in 0 .. (MaxFd - 1) :
       \/ close_fd(fd)
       \/ \E c \in BOOLEAN : set_fd_flags(fd, c)
       \/ \E min \in 0 .. (MaxFd - 1), c \in BOOLEAN : dup_fd(fd, min, c)
  \/ \E p \in Pid : fork(p) \/ reap_zombie_child(p)
  \/ execve_with_args \/ sys_exit \/ switch

Spec == Init /\ [][Next]_vars

-----------------------------------------------------------------------------
Files == [strong : [Desc -> Nat], inode : [Desc -> Inode \union {NoInode}],
          open_inodes : [Inode -> Nat], ref_counts : [Inode -> Nat],
          open_count : [Device -> Nat]]

\* Every variable has its type, and a task that is not in the list has no table.
TypeOK ==
  /\ tasks \subseteq Pid /\ {ROOT_PID, current} \subseteq tasks
  /\ exited \subseteq tasks
  /\ \A p \in Pid : fds[p] \in Seq(Slot) /\ (p \notin tasks => fds[p] = <<>>)
  /\ files \in Files
  /\ lost \in [Device -> Nat]

\* The slots, over the tables of all tasks, that hold a description.
SlotsOf(d) ==
  {<<p, fd>> \in Pid \X (0 .. (MaxFd - 1)) :
     fd \in InUse(fds[p]) /\ fds[p][fd + 1].file = d}

\* An Arc count is the number of slots that hold the description: no fork, dup,
\* close, exec, exit or reap loses or invents a reference.
RefsMatchSlots == TypeOK /\ \A d \in Desc : files.strong[d] = Cardinality(SlotsOf(d))

OpenOn(inode) == {d \in Live(files) : files.inode[d] = inode}

\* The file system manager and the inode index count each inode once for every
\* live description of it, so fstat finds its inode as long as a descriptor is
\* open (track_open_inode, release_tracking, release_refcount).
OpenFilesTracked ==
  \A i \in Inode : /\ files.open_inodes[i] = Cardinality(OpenOn(i))
                    /\ files.ref_counts[i] = Cardinality(OpenOn(i))

\* The registry counts a device once for every live description of it, and
\* once more for every OpenFile that was dropped without being closed.
DevicesCounted ==
  \A i \in Device : files.open_count[i] = Cardinality(OpenOn(i)) + lost[i]
=============================================================================
