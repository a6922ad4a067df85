# A TLA+ model of the krust kernel

krust is a small Rust kernel for x86_64 (with a partial aarch64 port): tasks and
a scheduler, Linux-style system calls, user address spaces, a virtual file
system with RAM, FAT, ext4, initrd, device and process backends, character
terminals, a module loader, and a host program that builds disk images. This
directory holds TLA+ modules of its own logic, the TLC configurations that check
them on small instances, and proofs that TLAPS checks for every value of the
constants. Paths below are relative to `kernel/src/` unless they start with
another directory of the repository.

## 1. What kind of system this is

- **One processor, no preemption.** System calls run with interrupts masked
  (`SFMask` in `arch/x86_64/syscall.rs`), and the timer handler only counts. The
  processor changes hands in exactly three places: fork and the launch of a
  command (to the child), exit, and a fault in user mode (to the parent, failing
  that round robin). Interleaving is therefore at the granularity of whole system
  calls, faults and input events; a step of the models is one of these, not one
  statement.
- **Except towards the outside.** A disk takes its time, fails, answers late or
  loses power between two writes; keys arrive while a reader polls; mkdisk is
  interrupted on the host. There the models cut a call into its transfers,
  register accesses or polls, since something can happen between them.
- **What is hard** is not data races but long sequences of legal calls: the
  scheduler keeps the same fact in several places (`current_index`,
  `CURRENT_PID`, the core table, task states, running clocks) and each operation
  changes some of them; objects (open files, inodes, frames) are shared by
  reference counts and outlive their names; names are kept as text (the mount
  table, the working directory) while what they name moves; operations fail in
  the middle and leave what they did so far.

## 2. Parts and modules

| Part | Sources | What makes it correct | Modules |
|---|---|---|---|
| tasks, scheduler | `process/`, `syscall/handlers.rs`, `arch/x86_64/` | the kernel knows which task runs; the dead never run; waits end; no work is lost | `Process`, `ProcessProofs` |
| CPU accounting | `process/accounting.rs` | every interval charged once, to the right task | `CpuTime`, `CpuTimeProofs` |
| descriptors, open files | `process/fd_table.rs`, `fs/vfs.rs`, `drivers/registry.rs` | counts equal references; sharing is not closing | `Descriptors` |
| both together | `syscall/`, `process/mod.rs` | tables are used as their module says; exit closes before the parent looks | `Kernel` |
| RAM filesystem, names | `fs/memfs.rs` | a tree, always; links and quota exact | `MemFs`, `MemFsProofs` |
| RAM filesystem, data | `fs/memfs.rs`, `fs/vfs.rs` | behaves as a byte sequence; quota exact | `MemFile`, `ByteFile`, `MemFileProofs` |
| user memory | `mm/`, `syscall/mmap.rs` | a frame has one owner; each task sees a private memory | `UserMemory`, `PrivateMemory`, `MmapRange`; `UserMemoryProofs`, `SpaceProofs`, `MemoryTheorems` |
| mounts and paths | `fs/vfs.rs`, `syscall/impls.rs` | a lookup by text agrees with a walk through directories | `Vfs` |
| program loading | `process/binfmt.rs`, `arch/x86_64/userspace.rs` | redirects end; a program gets the arguments it was called with | `Exec` |
| boot, host tools | `fs/boot.rs`, `fs/mod.rs`, `boot_settings.rs`, `src/main.rs`, `src/disk.rs` | what runs is what was configured | `Boot` |
| FAT | `fs/fat.rs` | chains apart, contents kept, also after failures and power cuts | `Fat` |
| SATA | `drivers/block/sata.rs`, `drivers/traits.rs` | success means it happened; every call returns | `Ahci` |
| terminals | `drivers/char/`, `drivers/tty/` | lines arrive once, whole and in order | `Terminal`, `LineEditor` |
| kernel modules | `module/` | dependencies first; no init twice | `Modules`, `ModulesProofs` |
| registries, PCI | `drivers/registry.rs`, `drivers/bus/pci.rs`, `fs/mod.rs` | the registries hold what the machine has | `Devices` |
| directories of devfs, procfs | `fs/devfs.rs`, `fs/procfs.rs`, `syscall/impls.rs` | a listing misses and repeats no more than changed | `Listing` |

`PROJECT.json` lists the parts with their sources and what of them is left out,
and under `hazards` what can go wrong in them that a test would hardly reach,
each with the properties that watch it.

## 3. Modules

**`Process`** — tasks, scheduler, and the process system calls. The scheduler
methods (`add_task`, `set_task_state`, `schedule_on`, `switch_to_pid`,
`preempt_and_switch`, `reap_zombie_child`) are operators from one scheduler state
to the next, so an action composes them in the order the code calls them.
`sched` is what the kernel *believes* is running; `onCpu` is the task whose stack
the processor is really on, changed only by a context switch. `at` is the control
point of each task (in its program, at the shell prompt, at the entry of a
launched command, in the loop of `wait4`, in the loop of the I/O task, dead).
Signals are a group of actions of their own (`Signals`), so that the model can be
run without them (`QuietNext`). Left out because nothing in the repository calls
them: `preempt_if_higher_priority`, `process_pending_signals`,
`sleep_on_tty_input`, `Scheduler::schedule`, `Waiting` tasks.

**`CpuTime`** — `Process` with the clocks of the tasks: user and kernel time,
pauses, switches, interrupts, reaping. Its steps are the steps of `Process` with
time added.

**`Descriptors`** — descriptor tables, open file descriptions with their Arc
counts, and the three places that count open files: `open_inodes` (unmount),
`inode_ref_counts` (fstat) and the device registry (unregister). Which task is
current is left open, so the module stands on its own; `lost` counts the opens of
the registry that no close will ever match. The standard descriptors of the kernel I/O
task, which stay open as long as the machine runs, are left out.

**`Kernel`** — `Process` with `Descriptors` instantiated on its task list and its
processor: each process action does to the tables what the code does, and the
descriptor calls are made by the task on the processor.

**`MemFs`** — the name space of ramfs and tmpfs. Callers act on inodes they hold,
so operations reach directories that were removed in between, as they can through
an open file or a working directory. The walk of `rename` up the parents is
`Ancestors`, the intersection of all parent-closed sets around an inode, which
needs no recursion. `stuck` records a caller that waits for a lock it holds.

**`ByteFile`, `MemFile`** — `ByteFile` is what a regular file promises: a
sequence of bytes with overwrite and resize. `MemFile` is tmpfs: a size, the
pages that were written, a page quota shared by all files, cursors and append
flags; `ContentImplemented` is the refinement, with what a reader can see as the
mapping. The data of ramfs is one vector, which is `ByteFile` itself.

**`PrivateMemory`, `UserMemory`** — `PrivateMemory` is the promise: a memory per
task, zero when new, copied by fork, replaced by exec. `UserMemory` is the code:
the frame allocator, and address spaces with a root, private tables, a list of
mappings and the table entries the processor uses. The calls that map several
pages do it one step at a time (`op` is the call in progress and excludes
everything else), because frames can run out at each page and what was mapped
before stays, or is dropped with the half-built space (`Draft`). Contents are two
values, zero and not zero. That a `PROT_NONE` entry cannot be replaced is how the
`x86_64` crate treats a non-present entry (external). System calls look pages up
in the list (`FirstMapping`), the program goes through the tables (`leaf`). The
order in which a dropped space gives back its private tables is left to `CHOOSE`: it
follows a list that the model keeps as a function.

**`MmapRange`** — the overflow-checked rounding in front of mmap, against a
definition on unbounded numbers.

**`Vfs`** — the mount table, the lookup of a path through it by the longest
mount path, symbolic links expanded in the text of the path, and mkdir, open with
O_CREAT, unlink, rename and chdir while filesystems are mounted on some of the
names. The working directory is both a path (`cwd`, as the code keeps it) and the
place its inode has now (`cwdAt`). No call of the kernel unmounts or makes links.

**`Exec`** — what execve does before it changes the task: the link is followed,
the file is shown to the format handlers, a script is replaced by its interpreter
up to `MAX_INTERPRETER_REDIRECTS` times, and the arguments, environment and
tables are laid out on the new stack, whose pointers the code computes twice. It
has no variables; `Boot` calls it to start PID 1 and its property calls it with
every path of every running state.

**`Boot`** — from the host to a running kernel: mkdisk writes the image and then
the settings beside it, and can fail at either; run builds the boot ramdisk; the
kernel mounts the root, reads and checks fstab, mounts its entries parents first
and starts PID 1. Both sides check the configuration with the same code
(`boot_settings.rs`). An image may also come from elsewhere, without an fstab and
without settings beside it; the kernel then takes the fstab of the boot ramdisk. A
disk that fstab lists once more is one set of names with two mounts. Then the
operations of `Vfs` follow. `host_path` is how the host follows links when mkdisk
copies a tree to FAT (external).

**`Fat`** — `fs/fat.rs`: the allocation table (two entries in three bytes for
FAT12), cluster chains, directories with their slots, inodes that copy the first
cluster and the size when they are made. An operation is cut into its transfers,
each of which can fail, and the power can go between any two. The code notices
failures of data transfers only. A failed read of the table is a 0 and a failed write
of it is ignored, so these are steps after which the operation goes on: a chain is read
short (`CutShort`), a cluster in use looks free (`Passed`), a mark or a link is lost
(`Unnoticed`). Two history variables record what that leads to: `short` has the files
and directories whose chain was once read or linked short, and `doubled` is set when
a cluster in use is taken, or can be taken, for a free one.

**`Ahci`** — byte transfers over sectors and partitions (`drivers/traits.rs`) over
the one command slot, command table and buffer of `drivers/block/sata.rs`, with
the port as an actor of its own that fetches, completes, fails or stays silent,
also after the driver gave up. `Address` is the sector that a command reaches: with
28-bit commands the driver loses the bits from 24 on.

**`LineEditor`, `Terminal`** — `LineEditor` is the promise: one text in the order
of typing, and a mark up to which it may be read. Every byte that is typed (`typed`)
has an effect on it, and only beyond the longest line is a byte dropped. `Terminal` is
the code: the line
discipline, virtual consoles that share keyboard and serial line, the serial port
with its own discipline, and both ends of a pseudo-terminal with bounded buffers.

**`Modules`, `Devices`, `Listing`** — `Modules` cuts `load_module_recursive` into
its calls (`stack` has a frame per call in progress). `Devices` adds what the
modules of this kernel put into the registries, from PCI enumeration to drives,
partitions and filesystems. `Listing` adds readers of `/dev`, `/proc`,
`/proc/modules` and a directory in memory, whose `readdir` takes an index into
entries that come and go. Every `Listing` step is a step of `Modules` or leaves
its variables alone.

**`ProcessProofs`, `CpuTimeProofs`, `ModulesProofs`, `MemFsProofs`,
`MemFileProofs`, `UserMemoryProofs`, `SpaceProofs`, `MemoryTheorems`** — the theorems
and what they rest on (section 6).

The modules whose names begin with MC give values to constants. A definition
marked "Mutant of" is a faulty variant of the definition after it, used to see
that the properties can fail.

## 4. Runs

| Run | Instance | Shows |
|---|---|---|
| `process` | 5 pids, signals on, 3 units of time | one runner, one charged task, the dead stay off the processor, halting only without work, zombies only leave by being reaped; `/proc` shows what each task executed, and reaping loses and invents no time |
| `process_quiet` | 6 pids, no fatal signals, fair | the live tasks are one line of descent (`LineOfDescent`), `wait4` never idles, the kernel shell gets its prompt back (`ShellRegainsPrompt`, liveness) |
| `process_killed` | 3 pids, violated | a task that received a fatal signal goes on running, against the comment on `deliver_signal` |
| `kernel` | 4 pids, 2 inodes, 1 device, 2 descriptor calls | every count of open files is exact (`OpenFilesCounted`); `Kernel` implements `Descriptors`; until the first fatal signal, whenever PID 1 runs all open files are its own or those of a faulted child |
| `memfs` | 2 names, 4 inodes at a time, 5 in all | a tree at all times; link counts; inode quota; a rename loses nothing but its target |
| `memfile` | 1 file of 3 pages of 2 bytes, quota 2, 2 descriptions | page quota exact, no page behind the end; behaves as a byte sequence; appends keep everything |
| `user_memory` | 2 tasks, 7 frames, 3 pages of 2 bytes, 4-bit words | each frame has one owner; tables show the newest mapping; break and cursor are backed; implements `PrivateMemory`; the preflight of mmap accepts exactly what fits |
| `fat` | a FAT12 and three FAT32 volumes, 2 names, 2 inodes, 1 fault | until a cluster is handed out twice: chains apart and long enough; files show only their own bytes; contents kept; every name found in one directory |
| `ahci` | 3 sectors of 2 units, partitions, 2 slots, 3 drives | success only for what happened and nothing else changed; every call returns (liveness) |
| `boot` | 11 source trees, 8 fstabs, 2 images, paths of 3 names | lookups agree with a walk, also through links; what runs is what was configured; programs get their arguments; what mkdisk accepts the kernel accepts |
| `terminal` | 2 consoles, serial line, pty | each terminal implements `LineEditor`; a typed line arrives (liveness); a pty keeps the order of echo and output and loses only ends |
| `listing` | 6 computers | dependencies loaded; no init twice; registries match; every drive has its devices; listings accurate; loads return (liveness) |

**Bounds.** They are named in the modules and set in the `.cfg` files.

- *Process, kernel.* Five pids give the boot pair and three forks, six one more:
  reaping in front of, at and behind the current index, orphans, and a line of
  descent of three with a sibling. The theorems hold for any number. Three units
  of time let a task run in both modes, be interrupted and be reaped. In `kernel`,
  `MaxCalls` bounds the descriptor calls between process calls.
- *RAM filesystem.* Two names and four inodes give a directory in a directory with
  renames in both directions, replacement, and removed directories that are held;
  the fifth inode number lets one be created after another was freed. Pages of two
  bytes and a file of five give a page cut in its middle, a hole, and a write over
  a page border; a quota of two bites in the middle of a write. The two
  descriptions are interchangeable (symmetry). The theorems about `MemFs` and
  `MemFile` hold for any names, any number of inodes and files and any sizes.
- *User memory.* Seven frames are two tasks of three (root, table, page) and one
  more: every call runs out at every point. The view identifies states that differ
  only in which frame is where. A four-bit word with user space in its lower half
  has every rounding and overflow of the arithmetic. The theorems hold for any
  tasks, pages, tables, image, frames and words.
- *FAT.* Two clusters and four, of two cells each, so that files and directories
  grow over a cluster border and the disk runs full; two inodes may be of one
  file (they are interchangeable); `MaxFaults` allows one failed transfer or power
  cut at any point of the run. `FAT12_LIMIT` and `FAT16_LIMIT` are scaled to these sizes.
  One FAT32 volume has room in its root directory, in one the room is in the root's
  second cluster, and in one the second is full, so that a chain can be read short with
  something behind the cut. The constraint `OneOwner` ends a behaviour in the state in
  which a cluster may get two owners, since nothing is claimed from there on.
- *SATA.* Three sectors, a partition in the middle and one past the end; requests
  of part of a sector and over a border; `AHCI_TIMEOUT` is two polls instead of a
  million, and `MaxLate` lets the driver give up twice. One drive takes 48-bit commands,
  one only 28-bit ones, with its last sector beyond `LBA24` (2^24 in the code, here
  2), and one reports no sectors.
- *Boot.* Paths of up to three names out of two; `MaxNodes` bounds the names that
  operations make, `MaxImages` the runs of mkdisk. Link targets have `..` at their head,
  behind a name that is missing until it is made, and behind a link. Link limit 3 and redirect limit 2
  (10 and 4 in the code) are reached. Stacks of nine pages of 48 bytes are large
  enough for most argument lists and too small for some.
- *Terminal.* The scripts of `MCTerminal` type with a switch of consoles in the
  middle, serial input between keys, and both ends of a pty; a line of two and
  queues of three bytes overflow, echoes and writes are cut in their middle and
  followed by others; settings change once at any moment.
- *Listing.* Each machine of `MCMachines` asks something else: the order of drives
  on the bus, all partitions, a listing while modules come and go, tasks or files
  coming and going, circular and nested module registrations.

**Types.** `TypeOK` of `Descriptors`, `MemFs`, `MemFile` and `UserMemory` is a
conjunct of the property that counts what the module owns (`OpenFilesCounted`,
`ChargedExactly`, `PagesCharged`, `FrameOwnedOnce`); all but that of `Descriptors` are
proved, and so are those of `Process` and `Modules`.

**Deadlock** is checked in `process_quiet` and `fat`; elsewhere the system may
stop: the machine halts when the last task dies or fork runs out of frames, a lock
is waited for by its holder, a script has been typed, or a bound is reached.

**Fairness.** Where a step gets fairness, the code is in a loop or a call that
nothing else can stop.

- `KernelFairness`: the processor does not stop inside the kernel, so the exec of a
  launched command and the loop of `wait4` go on. `FairQuietSpec` adds that a
  program that keeps the processor exits; the shell's prompt depends on it, since
  nothing can preempt a program. Faults, signals and system calls get none.
- `Ahci`: the driver's steps (`Driver`), which run in the caller. The port gets none:
  it may stay silent for ever.
- `Terminal`: the steps of the running task inside a call (`Step`). Keys and
  programs get none; `LineArrives` speaks of lines whose end was already typed.
- `Listing`: the steps of a registration (`Loading`), which run in its caller.

## 5. Where the code and its words differ

`process_killed` is expected to fail, against a sentence of the repository that
`findings` in `PROJECT.json` quotes. The models show further places where the code
does not do what one would expect. They model the code, and no property claims the
contrary:

- The loop of the kernel I/O task never yields (`process/mod.rs:631`, with the
  comment "Yield to other tasks to allow shell to run" at line 640).
- An `OpenFile` that is dropped without close, after an open that is refused late
  (`syscall/impls.rs:65`) or by fstat (`syscall/impls.rs:183`), leaves its device
  busy: `Drop` does not call `registry::close` (`fs/vfs.rs:1088`). `lost` counts them.
- memfs rename of `x/y` onto the name of `x` waits for a lock it holds
  (`fs/memfs.rs:538`); `stuck` in `MemFs`.
- After a failed brk or mmap that is retried, the copies of system calls
  (`syscall/user_memory.rs:31`) use the first entry in the list, the program the
  newest.
- Ctrl-C is only noticed as part of its echo (`drivers/char/ldisc.rs:188`), so with
  ECHO off it clears the line and sends no signal.
- A relative path is appended to the path of the working directory
  (`syscall/impls.rs:787`), so it leads elsewhere once that directory is renamed.
- A string of the initial stack that crosses a page is written past the frame of
  its first page (`mm/address_space.rs:244`); `torn` in `Exec`.
- A failed read of the FAT is taken for the value 0 (`fs/fat.rs:680`) and a failed
  write of it is ignored (`fs/fat.rs:705`); the operation reports success. In two cases
  a cluster gets two owners: the mark of a cluster that begins a chain is lost, or
  the search for a free cluster misreads one that is in use (`doubled` in `Fat`). In
  the others a file or directory loses what is behind a cut (`short`).
- A write through an inode that is older than the directory entry puts back the first
  cluster and the size it remembers (`fs/fat.rs:391`); `ContentKept` makes no claim
  for the file from then on.
- On a drive without 48-bit commands, sectors from 2^24 on are taken for others
  (`drivers/block/sata.rs:388`); `Addressed` in `Ahci`.
- A command on which the SATA driver gave up may run during a later transfer, with the
  table and the buffer of that one (`drivers/block/sata.rs:462`); `hist.shared`.
- A byte beyond `CANON_BUF_MAX` is dropped (`drivers/char/ldisc.rs:221`), although the
  comment on the constant says "Maximum bytes held in the canonical line buffer before
  a forced flush" (line 24). `LineEditor` has the drop.
- A `..` in the target of a link takes back the name before it in the text
  (`fs/vfs.rs:370`), also if that is itself a link, from whose target one would go up, or
  is not there. `LinksFollowed` compares with a walk where neither happens.
- Nothing ties an image to the settings beside it: after a mkdisk that stopped between
  the two (`src/main.rs:118`) the settings are those of an older image.
- When something on the way to `/sbin/init` is a link or a file, the boot fails
  instead of starting the shell (`Blocked` in `Boot`).

## 6. Proofs

TLAPS checks eight modules, for every value of the constants that the named
assumptions admit.

**`ProcessProofs`** — any number of pids; the only assumption is `MaxPidAssumption`
(there is room for the two boot tasks). None of the invariants is inductive: that
the running task is the one on the processor depends on where the scheduler
believes it to be, and that on the shape of its list. `IInv` therefore adds to them:
the types; a task list that is strictly ascending and below `NEXT_PID`; no task is
its own parent; a task in its last `hlt` loop is a zombie; and `Good`, the scheduler
is right: `CURRENT_PID` is the task on the processor and in the list,
`current_index` is unset or its position, nobody else is Running, and exactly it is
charged unless it is a zombie. The lemmas take the scheduler methods one by one
(what each does to a scheduler state that is `Good`, or `Good` but for the task that
just gave the processor up); the step of an action then composes them as the action
does. From `IInv`: `TypeCorrect`, `KernelKnowsItsTask`, `OneRunnerOneAccount`,
`DeadStayOff`, `WaitersKeepTheirChild`, `HaltMeansNoWork`, and the action property
`NoResurrection`. For the system without fatal signals, `QInv` adds the line of
descent itself and which tasks run programs; from both, `QuietLine` and `QuietWaits`.

**`CpuTimeProofs`** — any number of pids and any length of time
(`MaxNowAssumption`: the clock has at least one value). `ClocksOnlyWatch`: a step with
clocks is a step of `Process`, so the theorems above hold with them.
`SnapshotsAreExact` is `ShowsWhatWasSpent`. A snapshot adds to the clock of the
running task what passed since it was started, so the invariant `TInv` says of each
clock where the rest is: that of the task on the processor runs in the mode the
processor is in (or stands still, when the task is dead), every other clock stands
still and holds the time its task executed, and that of a free pid is new. It rests on
`IInv` of `ProcessProofs`: were another task on the processor than the scheduler
believes, the wrong clock would run. The lemmas take the operations on one clock, then
on all clocks, and a step composes them in the order the code calls them.

**`ModulesProofs`** — any set of modules, dependencies and nested registrations,
cycles included (`ModulesAssumption` only types them). `IInv` says of the calls in
progress what makes them safe: a module is filed under its own name; a name being
loaded is on the stack once and not loaded (`LoadsOnce`, itself a property); a call
that is past a dependency has it loaded (`PastLoaded`); a call that waits does so for
the call above it (`Waiting`). From it `DependenciesLoaded` and `NoInitTwice`. A step
of `Listing` is a step of `Modules` or leaves its variables alone, so what is proved
holds there too; the run `listing` checks both properties on it.

**`MemFsProofs`** — any names and limits (`MemFsAssumption`: at least one inode number
and room for one inode). `TreeStaysConsistent`, `InodesChargedExactly` and
`NothingElseLost` come from one `IInv`: `Shape` (root, parents, links: whatever is linked
has a linked directory as its parent and the root among its ancestors, and its link
count is counted from its children), `Listed` (a directory lists exactly the inodes
whose parent it is, each under one name) and `Charged`. That rename makes no cycle is
an argument about `Ancestors`: a subtree that does not hold the new parent can be moved
without changing what is above the new parent. The lemmas treat the two things an
operation does to the tree apart, the cut of a leaf and the addition or move of a
subtree; a rename that replaces is one after the other. The directories that callers
hold after their removal are outside the tree, and the proof shows that they stay there.

**`MemFileProofs`** — any files, open descriptions, buffers, page size and limits
(`MemFileAssumption`: the page size is positive, buffers are not empty). `QuotaExact`
is `PagesCharged`. The charge of a write is the number of pages it is about to
create, so the proof counts: pages created by one call are disjoint from those held,
those a truncation drops are a subset, and `Held` is finite, which `IInv` carries
along. `BytesImplemented` is the refinement of `ByteFile` with the append property.
It needs `TailZero`, the one fact about bytes that nobody can see: behind the end of
its file a page holds zeros. Without it a truncation that is followed by a longer
write would show old bytes. The lemmas `BytesAfterWrite` and `BytesAfterCut` give every
byte after a step, `WriteRefines` and `TruncateRefines` put them together into the
abstract operation, and `StepRefines` takes the actions one by one.

**`UserMemoryProofs`, `SpaceProofs`, `MemoryTheorems`** — any tasks, pages, private
tables, program image, number of frames, word and page size
(`UserMemoryAssumption`, `MmapRangeAssumption`: word and user space are whole pages,
the break limit and the mmap base lie in user space, as those of
`arch/x86_64/userspace.rs` do). `RangeIsExact` is about the arithmetic alone: for all words,
`checked_mmap_range` with its checked additions answers as the definition on unbounded
numbers; `RangesAreLeastFits` states it of the running system. The others come from an
invariant in three layers, each proved with the help of the ones before:

- `FInv`, who holds what. The free list and the spaces list every issued frame once
  (`FrameInv`), an absent space holds nothing, and the call in progress has the draft
  or the task that it works on (`CallInv`). `FrameOwnedOnce` counts; the invariant says
  the same without counting, which is what a step can be shown to preserve.
- `CInv`, what the spaces hold. A table entry leads to the last mapping of its page, and
  the draft of a fork or an exec has so far the pages of its parent or of the image, in
  order, with their contents.
- `AInv`, that pages behind the break and the mmap cursor are there, and that those of
  a call in progress are there or still to do.

`FramesStayOwnedOnce` and `AreasStayBacked` follow. `MemoryIsPrivate` is the refinement of
`PrivateMemory`: `StepRefines` takes the actions one by one. A write to a frame changes
the view of one task in one page because the frame has one owner (`FInv`) and one page
leads to it (`CInv`); a fork shows the child what its parent sees because the draft
followed it to the end (`CInv`); a frame that is filled for a draft or a table is
nobody's, so that nobody sees it happen (`FInv`). A page that is mapped over an older
one, as the retry of a failed brk does, is a new page to its task (`Grow`).

The lemmas of the first two modules take two facts about numbers and finite sets as a
hypothesis, `Basics`: a nonempty set of numbers has a least element, and a set of frames
can be listed. `BasicsHold` in `MemoryTheorems` proves it from the theorems about finite
sets; keeping those out of the context of the long proofs makes them several times
faster to check.

**Only model-checked.** Liveness under fairness (`ShellRegainsPrompt`, the returns of
`Ahci` and `Listing`, the arrival of lines in `Terminal`) is outside this prover.
`Vfs`, `Exec`, `Boot` and `Terminal` use recursive operators for walks and texts,
whose results for every input would need induction over data; so does
`TimeConserved`, a sum over all tasks. `Descriptors`, `Kernel`, `Fat`, `Ahci`, `Devices` and
`Listing` beyond `Modules` are checked on the instances of section 4.

## 7. Not modelled

`components` in `PROJECT.json` has the state of every part. Left out are:

- *Code outside the repository.* The ext4 crate (in `Boot` a filesystem with links
  that creates names), the heap allocator, the `x86_64` crate but for what it does
  with a non-present entry, QEMU.
- *Refusals that do not occur.* Modules without a name or a version
  (`module/registry.rs:34`): every module of the kernel has both.
- *Code without a caller.* unmount, `alloc_pty`, the scheduler operations named in
  section 3, and the registration of further program formats.
- *Formatting and parsing.* The text of `/proc` files, the commands of the kernel shell
  that print state, logging, the text of boot settings and of fstab lines, the headers
  of the boot archive. The models have the values before or after the text.
- *Device registers and drawing.* The PS/2 controller, the screen with its escape
  sequences, PCI configuration space beyond what is found, interrupt controllers.
- *Data that no decision depends on.* Program headers and the values of the auxiliary
  vector, register contents, the entries of intermediate page tables, the size and
  the layout of disk images, aliases of device names.
- *FAT.* Long names, and the second copy of the table, which nothing reads. An entry
  of a FAT12 table that lies across two sectors is written at once.
- *Permissions*, which the kernel stores and does not enforce.
- *aarch64.* A partial port whose user-mode paths are stubs.
