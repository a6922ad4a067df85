------------------------------- MODULE Devices -------------------------------
(***************************************************************************)
(* What the kernel's modules put into its registries (drivers/registry.rs, *)
(* the table of filesystems in fs/mod.rs): the PCI bus with the functions  *)
(* found on it (drivers/bus/pci.rs), a device for every SATA drive and     *)
(* partition (drivers/block/sata.rs), the frame buffer, and the            *)
(* filesystems "proc", "dev" and "fat".                                    *)
(*                                                                         *)
(* Names are triples: <<"sd", i, p>> is partition p of drive i, or the     *)
(* drive if p is 0, and the module fatfs-sda1 is <<"fatfs", 0, 1>>.        *)
(***************************************************************************)
EXTENDS Modules, SequencesExt, FiniteSets

CONSTANTS
  Machines,     \* the computers: [slots, extra, dirs, changes], with what answers
                \* in each PCI slot, the modules beyond those of the kernel that
                \* are submitted on it, the directories that are listed and a
                \* bound on the changes once the kernel runs
  Consoles,     \* number of virtual consoles
  MaxOpen       \* bound: opens of one device

VARIABLES
  machine,
  bus,              \* what the PCI bus registered, or NoBus
  devices,          \* DeviceRegistry: name -> [type, major, minor, open_count]
  block,            \* names that have a block device
  registrations,    \* registration_counts: filesystem -> count
  mounted           \* active_mounts: filesystems that were mounted

registries == <<machine, bus, devices, block, registrations, mounted>>

NoBus == [found |-> FALSE, functions |-> <<>>]

-----------------------------------------------------------------------------
(* PCI.                                                                      *)

\* The functions of a slot, as sequences with function 0 first.  The others are
\* looked at only if function 0 says that there are others.
enumerate(slots) ==
  LET looked(slot) == IF slot[1].present /\ slot[1].multi THEN slot ELSE SubSeq(slot, 1, 1)
  IN  FlattenSeq([s \in DOMAIN slots |-> SelectSeq(looked(slots[s]), LAMBDA f : f.present)])

discover_controllers == SelectSeq(bus.functions, LAMBDA f : f.ahci)

-----------------------------------------------------------------------------
(* The device registry.                                                      *)

Device(type, major, minor) ==
  [type |-> type, major |-> major, minor |-> minor, open_count |-> 0]

SameNumber(d, e) == d.type = e.type /\ d.major = e.major /\ d.minor = e.minor

CanRegister(devs, name, dev) ==
  /\ name \notin DOMAIN devs
  /\ \A other \in DOMAIN devs : ~SameNumber(devs[other], dev)

register(devs, name, dev) == IF CanRegister(devs, name, dev) THEN (name :> dev) @@ devs ELSE devs

get_descriptor_by_number(dev) == CHOOSE n \in DOMAIN devices : SameNumber(devices[n], dev)

\* A node in /dev remembers the numbers of its device, and finds it by them.
dev_lookup(n) == [type |-> devices[n].type, major |-> devices[n].major, minor |-> devices[n].minor]
lookup_device(node) == get_descriptor_by_number(node)

\* drivers::init.
Builtin ==
  LET serial == [i \in 0 .. 1 |-> Device("char", 4, 64 + i)]
      tty == [i \in 0 .. Consoles - 1 |-> Device("char", 4, i)]
  IN  [n \in {<<"ttyS", i, 0>> : i \in 0 .. 1} |-> serial[n[2]]]
      @@ [n \in {<<"tty", i, 0>> : i \in 0 .. Consoles - 1} |-> tty[n[2]]]
      @@ (<<"console", 0, 0>> :> Device("char", 5, 1))
      @@ (<<"null", 0, 0>> :> Device("char", 1, 3))
      @@ (<<"ptmx", 0, 0>> :> Device("char", 5, 2))

\* The opens and closes that Descriptors models in full.
OpenDevice(n) ==
  /\ n \in DOMAIN devices /\ devices[n].open_count < MaxOpen
  /\ devices' = [devices EXCEPT ![n].open_count = @ + 1]
  /\ UNCHANGED <<vars, machine, bus, block, registrations, mounted>>

CloseDevice(n) ==
  /\ n \in DOMAIN devices /\ devices[n].open_count > 0
  /\ devices' = [devices EXCEPT ![n].open_count = @ - 1]
  /\ UNCHANGED <<vars, machine, bus, block, registrations, mounted>>

-----------------------------------------------------------------------------
(* Modules.                                                                  *)

Plain(name) == [name |-> <<name, 0, 0>>, deps |-> <<>>, nested |-> <<>>]
FatFs(v)    == [name |-> <<"fatfs", v[2], v[3]>>, deps |-> <<>>, nested |-> <<>>]

\* What is mountable on a drive: its partitions, or all of it if there are none.
Volumes(i, drive) ==
  IF drive.partitions = 0 THEN << <<"sd", i, 0>> >>
  ELSE [p \in 1 .. drive.partitions |-> <<"sd", i, p>>]

\* The init of the SATA module registers a module for each volume.
SataOf(drives) ==
  LET volumes == FlattenSeq([i \in DOMAIN drives |-> Volumes(i - 1, drives[i])])
  IN  [name |-> <<"sata-dev", 0, 0>>, deps |-> <<>>,
       nested |-> [k \in DOMAIN volumes |-> FatFs(volumes[k])]]

\* module::init.
Submitted ==
  << Plain("procfs"), Plain("devfs"), Plain("fbdev"), Plain("pci-bus"),
     SataOf(discover_controllers) >>

Is(name) == Top.mod.name[1] = name

\* Mutant of Minor: room for four numbers per drive.
FourPerDrive(v) == 4 * v[2] + v[3]

Minor(v) == 16 * v[2] + v[3]

\* register_controller_devices, for the volume whose module comes next: the
\* drive comes with its first volume.
Volume == <<"sd", Nested(Top).name[2], Nested(Top).name[3]>>
DriveOf(v) == <<"sd", v[2], 0>>
Block(v) == Device("block", 8, Minor(v))

DriveFails(v) == v[3] <= 1 /\ ~CanRegister(devices, DriveOf(v), Block(DriveOf(v)))
WithDrive(v) == IF v[3] <= 1 THEN register(devices, DriveOf(v), Block(DriveOf(v))) ELSE devices
PartitionFails(v) == v[3] > 0 /\ ~CanRegister(WithDrive(v), v, Block(v))

\* A drive that cannot be registered ends the init with an error; a partition
\* that cannot is left out, with its filesystem.
NextVolume ==
  /\ stack # <<>> /\ ~failing /\ HasCall(Top) /\ Is("sata-dev")
  /\ IF DriveFails(Volume) THEN InitErr /\ UNCHANGED <<devices, block>>
     ELSE /\ devices' = register(WithDrive(Volume), Volume, Block(Volume))
          /\ block' = block \cup ({DriveOf(Volume), Volume} \cap DOMAIN devices')
          /\ IF PartitionFails(Volume) THEN LeaveOut ELSE NextCall
  /\ UNCHANGED <<machine, bus, registrations, mounted>>

register_filesystem(fs) == registrations' = [registrations EXCEPT ![fs] = @ + 1]

fb == <<"fb", 0, 0>>

fbdev_init ==
  /\ Is("fbdev") /\ CanRegister(devices, fb, Device("char", 29, 0))
  /\ InitOk
  /\ devices' = register(devices, fb, Device("char", 29, 0))
  /\ UNCHANGED <<machine, bus, block, registrations, mounted>>

scan_devices == enumerate(machine.slots)

\* register_bus.
pci_bus_init ==
  /\ Is("pci-bus") /\ ~bus.found
  /\ InitOk
  /\ bus' = [found |-> TRUE, functions |-> scan_devices]
  /\ UNCHANGED <<machine, devices, block, registrations, mounted>>

procfs_init ==
  /\ Is("procfs") /\ InitOk
  /\ register_filesystem("proc")
  /\ UNCHANGED <<machine, bus, devices, block, mounted>>

devfs_init ==
  /\ Is("devfs") /\ InitOk
  /\ register_filesystem("dev")
  /\ UNCHANGED <<machine, bus, devices, block, mounted>>

\* The volume is mounted to see whether there is a FAT on it.
fatfs_init ==
  /\ Is("fatfs")
  /\ \/ InitOk /\ register_filesystem("fat")
     \/ InitErr /\ UNCHANGED registrations
  /\ UNCHANGED <<machine, bus, devices, block, mounted>>

sata_init  == Is("sata-dev") /\ InitOk /\ UNCHANGED registries
extra_init == Is("extra") /\ (InitOk \/ InitErr) /\ UNCHANGED registries

\* The init of a module, once it has made its calls.
InitModule == fbdev_init \/ pci_bus_init \/ procfs_init \/ devfs_init \/ fatfs_init \/ sata_init \/ extra_init

LoadStep ==
  /\ stack # <<>>
  /\ \/ NextVolume
     \/ ~Is("sata-dev") /\ NextCall /\ UNCHANGED registries
     \/ ~failing /\ ~HasCall(Top) /\ InitModule
     \/ Propagate /\ UNCHANGED registries

-----------------------------------------------------------------------------
(* Cleanup.                                                                  *)

CanRemove(fs) == fs \notin mounted /\ registrations[fs] > 0

\* Mutant of Removed: the filesystem goes with the first module.
NoneLeft(fs) == [registrations EXCEPT ![fs] = 0]

Removed(fs) == [registrations EXCEPT ![fs] = @ - 1]

\* unregister_filesystem.
fs_cleanup(n, fs) ==
  /\ unregister_module(n, CanRemove(fs))
  /\ registrations' = IF CanRemove(fs) THEN Removed(fs) ELSE registrations
  /\ UNCHANGED <<machine, bus, devices, block, mounted>>

\* A device that is open cannot be unregistered.
fbdev_cleanup(n) ==
  LET free == devices[fb].open_count = 0
  IN  /\ unregister_module(n, free)
      /\ devices' = IF free THEN [d \in DOMAIN devices \ {fb} |-> devices[d]] ELSE devices
      /\ UNCHANGED <<machine, bus, block, registrations, mounted>>

pci_bus_cleanup(n) ==
  /\ unregister_module(n, TRUE)
  /\ bus' = NoBus
  /\ UNCHANGED <<machine, devices, block, registrations, mounted>>

\* That of the SATA module hangs before it comes to its devices.
sata_cleanup(n) == unregister_module(n, TRUE) /\ UNCHANGED registries

Unload(n) ==
  \/ n[1] = "fbdev" /\ fbdev_cleanup(n)
  \/ n[1] = "pci-bus" /\ pci_bus_cleanup(n)
  \/ n[1] = "procfs" /\ fs_cleanup(n, "proc")
  \/ n[1] = "devfs" /\ fs_cleanup(n, "dev")
  \/ n[1] = "fatfs" /\ fs_cleanup(n, "fat")
  \/ n[1] \in {"sata-dev", "extra"} /\ sata_cleanup(n)

\* mount_required: the table remembers what was ever mounted.
Mount(fs) ==
  /\ IF fs = "fat" THEN block # {} ELSE registrations[fs] > 0
  /\ fs \notin mounted /\ mounted' = mounted \cup {fs}
  /\ UNCHANGED <<vars, machine, bus, devices, block, registrations>>

-----------------------------------------------------------------------------
(* Properties.                                                               *)

\* Between calls the registries hold what the loaded modules put there, and no
\* more: the frame buffer, the bus, and each filesystem as often as a module
\* registered it; a module whose filesystem is mounted stays (cleanup of the
\* modules, register_filesystem, unregister_filesystem).
RegistriesMatch ==
  stack = <<>> =>
    LET of(kind) == {n \in Name : n[1] = kind /\ IsLoaded(n)}
    IN  /\ of("fbdev") # {} <=> fb \in DOMAIN devices
        /\ of("pci-bus") # {} <=> bus.found
        /\ registrations = [proc |-> Cardinality(of("procfs")), dev |-> Cardinality(of("devfs")),
                             fat |-> Cardinality(of("fatfs"))]
        /\ \A fs \in mounted : fs # "fat" => registrations[fs] > 0
=============================================================================
