------------------------------- MODULE Listing -------------------------------
(***************************************************************************)
(* Directories that change while they are listed: getdents64               *)
(* (syscall/impls.rs) on /dev (fs/devfs.rs), on /proc and /proc/modules    *)
(* (fs/procfs.rs) and on a directory in memory (fs/memfs.rs), from the     *)
(* start of the kernel's modules on.                                       *)
(*                                                                         *)
(* Every readdir takes an index into the entries as they are at that       *)
(* moment, so entries that come or go between two calls move the others.   *)
(* A call itself is not interrupted.  Names are triples, as in Devices.    *)
(***************************************************************************)
EXTENDS Devices

CONSTANTS
  File,         \* names in the directory in memory
  RecordSize,   \* a function: size of the record for a name of a given kind
  Room          \* sizes of the buffers that programs pass

VARIABLES
  submitted,    \* how many modules were submitted by module::init
  tasks,        \* the scheduler's list of tasks
  files,        \* the entries of the directory in memory
  open,         \* the open directory: [dir, offset], or Closed
  hist,         \* history of the listing: names got, present all the time,
                \* present some time, entries that went and came, end reached
  changes

listing == <<submitted, tasks, files, open, hist, changes>>
allvars == <<vars, registries, listing>>

Closed == [dir |-> "none", offset |-> 0]
Running == submitted = Len(Submitted) /\ stack = <<>> /\ ~hung

-----------------------------------------------------------------------------
(* What is in the directories.                                               *)

Rank == << "cpuinfo", "meminfo", "modules", "console", "devfs", "extra", "fatfs", "fb", "fbdev",
           "null", "pci-bus", "procfs", "ptmx", "sata-dev", "sd", "tty", "ttyS", "pts", "task", "file" >>

Place == [kind \in ToSet(Rank) |-> SelectInSeq(Rank, LAMBDA k : k = kind)]

\* The order of the registries' maps.
Before(a, b) ==
  \/ Place[a[1]] < Place[b[1]]
  \/ a[1] = b[1] /\ (a[2] < b[2] \/ (a[2] = b[2] /\ a[3] < b[3]))

Sorted(names) ==
  [i \in 1 .. Cardinality(names) |->
     CHOOSE n \in names : Cardinality({m \in names : Before(m, n)}) = i - 1]

dev_readdir == Append(Sorted(DOMAIN devices), <<"pts", 0, 0>>)

proc_readdir ==
  << <<"cpuinfo", 0, 0>>, <<"meminfo", 0, 0>>, <<"modules", 0, 0>> >>
    \o [i \in DOMAIN tasks |-> <<"task", tasks[i], 0>>]

modules_readdir == Sorted({n \in Name : IsLoaded(n)})

mem_readdir == files

Entries(dir) ==
  CASE dir = "dev" -> dev_readdir
    [] dir = "proc" -> proc_readdir
    [] dir = "modules" -> modules_readdir
    [] dir = "mem" -> mem_readdir

\* The same without the order.
EntrySet(dir) ==
  CASE dir = "dev" -> DOMAIN devices \cup {<<"pts", 0, 0>>}
    [] dir = "modules" -> {n \in Name : IsLoaded(n)}
    [] dir \in {"proc", "mem"} -> ToSet(Entries(dir))

-----------------------------------------------------------------------------
(* Listing.                                                                  *)

opendir(dir) ==
  /\ open = Closed /\ dir \in machine.dirs
  /\ open' = [dir |-> dir, offset |-> 0]
  /\ hist' = [got |-> <<>>, stayed |-> EntrySet(dir), seen |-> EntrySet(dir),
              gone |-> 0, came |-> 0, ended |-> FALSE]

closedir ==
  /\ open # Closed
  /\ open' = Closed
  /\ hist' = [hist EXCEPT !.ended = FALSE]

\* Mutant of Taken: the record that does not fit is lost.
TakenAndOne(entries, offset, room) ==
  LET size(k) == FoldLeft(LAMBDA n, e : n + RecordSize[e[1]], 0, SubSeq(entries, offset + 1, offset + k))
      most == Max({k \in 0 .. Len(entries) - offset : size(k) <= room})
  IN  [records |-> SubSeq(entries, offset + 1, offset + most),
       offset |-> Min({Len(entries), offset + most + 1})]

\* The records that fit, and the offset after them.
Taken(entries, offset, room) ==
  LET size(k) == FoldLeft(LAMBDA n, e : n + RecordSize[e[1]], 0, SubSeq(entries, offset + 1, offset + k))
      most == Max({k \in 0 .. Len(entries) - offset : size(k) <= room})
  IN  [records |-> SubSeq(entries, offset + 1, offset + most), offset |-> offset + most]

\* No record means the end, to the caller: also when the next one does not fit.
getdents64(room) ==
  /\ open # Closed
  /\ LET entries == Entries(open.dir)
         t == IF open.offset < Len(entries) THEN Taken(entries, open.offset, room)
              ELSE [records |-> <<>>, offset |-> open.offset]
     IN  /\ open' = [open EXCEPT !.offset = t.offset]
         /\ hist' = [hist EXCEPT !.got = @ \o t.records,
                                 !.ended = @ \/ (t.records = <<>> /\ room = Max(Room))]

\* What the history makes of a step that changes directories.  An entry that
\* another one of the same name replaces goes and comes.
Observe(replaced) ==
  IF open = Closed THEN UNCHANGED hist
  ELSE LET before == EntrySet(open.dir)
           after == EntrySet(open.dir)'
       IN  hist' = [hist EXCEPT !.stayed = (@ \cap after) \ replaced, !.seen = @ \cup after,
                                !.gone = @ + Cardinality((before \ after) \cup replaced),
                                !.came = @ + Cardinality((after \ before) \cup replaced)]

-----------------------------------------------------------------------------
(* Changes.                                                                  *)

\* add_task, and the removal of a task that is waited for (see Process).
fork == tasks' = Append(tasks, 1 + Max(ToSet(tasks)))
reap == \E i \in DOMAIN tasks \ {1} : tasks' = RemoveAt(tasks, i)

create(f) == f \notin ToSet(files) /\ files' = Append(files, f)
unlink(f) == f \in ToSet(files) /\ files' = SelectSeq(files, LAMBDA g : g # f)

\* The entry keeps its place; one it replaces goes.
rename(f, g) ==
  /\ f \in ToSet(files) /\ f # g
  /\ LET others == SelectSeq(files, LAMBDA e : e # g)
     IN  files' = [i \in DOMAIN others |-> IF others[i] = f THEN g ELSE others[i]]

Boot ==
  /\ submitted < Len(Submitted)
  /\ submitted' = submitted + 1
  /\ register_module(Submitted[submitted + 1])
  /\ UNCHANGED <<registries, tasks, files, open, hist, changes>>

Loading == LoadStep /\ UNCHANGED <<submitted, tasks, files, open, changes>> /\ Observe({})

\* A module is submitted again, or unloaded.
ChangeModules ==
  /\ Running /\ machine.dirs \cap {"proc", "mem"} = {} /\ changes < machine.changes
  /\ changes' = changes + 1
  /\ \/ \E m \in ToSet(Submitted) \cup machine.extra : register_module(m) /\ UNCHANGED registries
     \/ \E n \in {n \in Name : IsLoaded(n)} : Unload(n)
  /\ UNCHANGED <<submitted, tasks, files, open>>
  /\ Observe({})

UseDevices ==
  /\ Running /\ machine.dirs \cap {"proc", "mem"} = {} /\ machine.changes > 0
  /\ \/ OpenDevice(fb)
     \/ CloseDevice(fb)
     \/ \E fs \in DOMAIN registrations : Mount(fs)
  /\ UNCHANGED listing

ChangeTasks ==
  /\ Running /\ "proc" \in machine.dirs /\ changes < machine.changes
  /\ fork \/ reap
  /\ changes' = changes + 1
  /\ UNCHANGED <<vars, registries, submitted, open, files>>
  /\ Observe({})

ChangeFiles ==
  /\ Running /\ "mem" \in machine.dirs /\ changes < machine.changes
  /\ changes' = changes + 1
  /\ UNCHANGED <<vars, registries, submitted, open, tasks>>
  /\ \E f \in File :
       \/ (create(f) \/ unlink(f)) /\ Observe({})
       \/ \E g \in File : rename(f, g) /\ Observe({g} \cap ToSet(files))

List ==
  /\ Running
  /\ \/ \E dir \in {"dev", "proc", "modules", "mem"} : opendir(dir)
     \/ closedir
     \/ \E room \in Room : getdents64(room)
  /\ UNCHANGED <<vars, registries, submitted, tasks, files, changes>>

ListInit ==
  /\ Init
  /\ machine \in Machines /\ bus = NoBus /\ devices = Builtin /\ block = {}
  /\ registrations = [fs \in {"proc", "dev", "fat"} |-> 0] /\ mounted = {}
  /\ submitted = 0 /\ tasks = <<1>> /\ files = <<>> /\ changes = 0
  /\ open = Closed
  /\ hist = [got |-> <<>>, stayed |-> {}, seen |-> {}, gone |-> 0, came |-> 0, ended |-> FALSE]

ListNext == Boot \/ Loading \/ ChangeModules \/ UseDevices \/ ChangeTasks \/ ChangeFiles \/ List

ListSpec == ListInit /\ [][ListNext]_allvars /\ WF_allvars(Loading)

-----------------------------------------------------------------------------
\* A listing that was read to its end, in buffers of any size, misses no more
\* names than went away in the meantime and repeats no more than came, of those
\* that were there all the time; and it shows none that never was (getdents64
\* and the readdir of each filesystem).  Without a change it is exact.
ListingAccurate ==
  hist.ended =>
    /\ Cardinality(hist.stayed \ ToSet(hist.got)) <= hist.gone
    /\ Len(hist.got) - Cardinality(ToSet(hist.got)) <= hist.came
    /\ ToSet(hist.got) \subseteq hist.seen

\* The SATA controllers that answer, by slot and function: a function other than
\* the first counts only behind a first one that announces others.
Controllers ==
  {c \in (DOMAIN machine.slots) \X (1 .. 8) :
     LET slot == machine.slots[c[1]]
     IN  /\ c[2] \in DOMAIN slot /\ slot[c[2]].present /\ slot[c[2]].ahci
         /\ c[2] > 1 => slot[1].present /\ slot[1].multi}

\* Between calls the registries hold what the loaded modules put there, and no
\* more.  After the start every SATA controller has its drive and every partition
\* of it its device, under the letter of its place on the bus: its number leads
\* to it, and a volume without a FAT filesystem costs the volumes after it nothing
\* (cleanup of the modules, register_controller_devices, enumerate).
DrivesRegistered ==
  /\ RegistriesMatch
  /\ submitted = Len(Submitted) /\ stack = <<>> =>
       \A c \in Controllers :
         LET earlier == {d \in Controllers : d[1] < c[1] \/ (d[1] = c[1] /\ d[2] < c[2])}
             i == Cardinality(earlier)
         IN  \A p \in 0 .. machine.slots[c[1]][c[2]].partitions :
               LET n == <<"sd", i, p>>
               IN  n \in block \cap DOMAIN devices /\ lookup_device(dev_lookup(n)) = n

\* A registration returns, whatever fails in it and whatever depends on whatever
\* (load_module_recursive, under the fairness that its caller keeps running).
LoadReturns == (stack # <<>>) ~> (stack = <<>>)
=============================================================================
