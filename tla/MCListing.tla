------------------------------ MODULE MCListing ------------------------------
(* Listing on small computers.                                               *)
EXTENDS Listing

Absent == [present |-> FALSE, multi |-> FALSE, ahci |-> FALSE, partitions |-> 0]
Bridge == [Absent EXCEPT !.present = TRUE, !.multi = TRUE]
Disk(n) == [Absent EXCEPT !.present = TRUE, !.ahci = TRUE, !.partitions = n]

Extra(i, deps, nested) ==
  [name |-> <<"extra", i, 0>>, deps |-> deps, nested |-> nested]
fbdev == <<"fbdev", 0, 0>>

\* 1 needs the frame buffer and 2, or only the frame buffer; 2 needs 3; 3 needs
\* nothing, or 1, or registers 1 and itself.
MCExtra ==
  { Extra(1, <<fbdev, <<"extra", 2, 0>> >>, <<>>), Extra(1, <<fbdev>>, <<>>),
    Extra(2, << <<"extra", 3, 0>> >>, <<>>),
    Extra(3, <<>>, <<>>), Extra(3, << <<"extra", 1, 0>> >>, <<>>),
    Extra(3, <<>>, << Extra(1, << <<"extra", 2, 0>> >>, <<>>), Extra(3, <<>>, <<>>) >>) }

Machine(slots, extra, dirs, number) ==
  [slots |-> slots, extra |-> extra, dirs |-> dirs, changes |-> number]

MCMachines ==
  { Machine(<< <<Bridge, Absent, Disk(2)>>, <<Disk(0)>>, <<Absent, Disk(1)>> >>, {}, {}, 2),
    Machine(<< <<Disk(4)>>, <<Disk(1)>> >>, {}, {}, 0),
    Machine(<< <<Disk(1)>> >>, {}, {"dev", "modules"}, 2),
    Machine(<<>>, {}, {"proc"}, 4),
    Machine(<<>>, {}, {"mem"}, 4),
    Machine(<<>>, MCExtra, {}, 3) }

MCName ==
  {<<k, 0, 0>> : k \in {"procfs", "devfs", "fbdev", "pci-bus", "sata-dev"}}
    \cup ({"fatfs"} \X (0 .. 1) \X (0 .. 4)) \cup {<<"extra", i, 0>> : i \in 1 .. 3}

MCModule ==
  {Plain(k) : k \in {"procfs", "devfs", "fbdev", "pci-bus"}}
    \cup {FatFs(v) : v \in {"sd"} \X (0 .. 1) \X (0 .. 4)}
    \cup {SataOf(SelectSeq(enumerate(m.slots), LAMBDA f : f.ahci)) : m \in MCMachines}
    \cup {SataOf(<<>>)} \cup MCExtra
    \cup UNION {{m.nested[i] : i \in DOMAIN m.nested} : m \in MCExtra}

MCRecordSize == [k \in {Rank[i] : i \in DOMAIN Rank} |-> IF k = "file" THEN 1 ELSE 2]
MCFile == {<<"file", i, 0>> : i \in 1 .. 3}
=============================================================================
