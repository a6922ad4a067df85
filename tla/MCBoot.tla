------------------------------- MODULE MCBoot -------------------------------
EXTENDS Boot

Line(src, at, kind) ==
  [source |-> src, target |-> at, fs |-> kind, noauto |-> FALSE, wellformed |-> TRUE]

Deep == <<"dev", "proc", "dev">>

\* Children before parents; a root on a second disk; two entries for one target;
\* a filesystem on one that makes no directories; a disk that is not there; the
\* disk of the root once more; the root alone.
MCFstab == {
  << Line("none", Deep, "proc"), Line("none", <<"dev">>, "tmpfs") >>,
  << Line("sdb", <<>>, "ext4"), Line("none", <<"dev">>, "tmpfs") >>,
  << Line("none", <<"dev">>, "dev"), Line("none", <<"dev">>, "tmpfs") >>,
  << Line("none", <<"dev", "proc">>, "tmpfs"), Line("none", <<"dev">>, "dev") >>,
  << Line("sda", <<>>, "fat"), [Line("sdb", <<"proc">>, "ext4") EXCEPT !.noauto = TRUE],
     Line("none", <<"dev">>, "dev") >>,
  << Line("sdb", <<"proc">>, "ext4") >>,
  << Line("sda", <<"dev">>, "ext4"), Line("none", <<"dev", "proc">>, "tmpfs") >>,
  << Line("sda", <<>>, "ext4") >> }

Link(abs, to) == [Dir EXCEPT !.type = "link", !.abs = abs, !.to = to]
Holding(what) == [File EXCEPT !.holds = what]
Flawed(how) == [Holding("elf") EXCEPT !.flaw = how]
Script(abs, to, arg) == [Holding("script") EXCEPT !.abs = abs, !.to = to, !.arg = arg]
Tree(nodes) == nodes @@ (<<>> :> Dir)

\* Links up and over into a mounted filesystem, to each other, from below, to a
\* directory that FAT gets instead, back from a name that is missing until it is
\* made, and back from a link; programs, and scripts that name them
\* directly, by another script, by a link, from the working directory, or never.
MCSource == {
  Tree(<<"proc">> :> Link(TRUE, <<"dev">>)),
  Tree((<<"proc">> :> Dir) @@ (<<"proc", "proc">> :> Link(FALSE, <<Up, "dev">>))
       @@ (<<"proc", "dev">> :> Link(FALSE, <<"proc">>))),
  Tree((<<"proc">> :> Link(FALSE, <<"proc">>))),
  Tree((<<"proc">> :> Dir) @@ (<<"proc", "proc">> :> Link(FALSE, <<"dev", Up>>))),
  Tree((<<"dev">> :> Dir) @@ (<<"dev", "proc">> :> Dir) @@ (<<"proc">> :> Link(FALSE, <<"dev", "proc">>))
       @@ (<<"dev", "dev">> :> Link(FALSE, <<Up, "proc", Up>>))),
  Tree((<<"dev">> :> Dir) @@ (<<"dev", "proc">> :> Dir) @@ (<<"proc">> :> Link(FALSE, <<"dev">>))
       @@ (<<"dev", "proc", "proc">> :> Holding("elf"))),
  Tree(<<"dev">> :> File),
  Tree((<<"proc">> :> Dir) @@ (<<"proc", "proc">> :> Dir) @@ (<<"proc", "dev">> :> Dir)
       @@ (<<"proc", "proc", "proc">> :> Holding("elf"))
       @@ (<<"proc", "proc", "dev">> :> Script(TRUE, <<"proc", "proc", "proc">>, << <<"a">> >>))
       @@ (<<"proc", "dev", "proc">> :> Script(FALSE, <<"proc", "proc", "dev">>, << <<"b">> >>))
       @@ (<<"proc", "dev", "dev">> :> Script(TRUE, <<"proc", "dev", "proc">>, <<>>))),
  Tree((<<"proc">> :> Dir) @@ (<<"proc", "proc">> :> Script(TRUE, <<"proc", "proc">>, <<>>))
       @@ (<<"proc", "dev">> :> Script(FALSE, <<"proc", "proc">>, <<>>))),
  Tree((<<"proc">> :> Dir) @@ (<<"proc", "proc">> :> Dir)
       @@ (<<"proc", "proc", "proc">> :> Script(FALSE, <<"proc", "dev">>, <<>>))
       @@ (<<"proc", "proc", "dev">> :> Holding("elf"))),
  Tree((<<"proc">> :> Dir) @@ (<<"proc", "proc">> :> Flawed("headers")) @@ (<<"proc", "dev">> :> Dir)
       @@ (<<"proc", "dev", "proc">> :> Flawed("interpreter"))
       @@ (<<"proc", "dev", "dev">> :> Flawed("segments"))) }

MCBootConfig == {[root_fs |-> "ramfs", root_device |-> "none", init |-> NoFile],
                 [root_fs |-> "fat", root_device |-> "sda", init |-> <<"proc", "proc", "dev">>],
                 [root_fs |-> "ext4", root_device |-> "sda", init |-> <<"proc", "dev", "proc">>],
                 [root_fs |-> "ext4", root_device |-> "none", init |-> NoFile]}

MCInitArg == {<<"proc", "proc", "proc">>}

MCLegacy == {[kind |-> "ext4", nodes |-> Tree(<<"dev">> :> Dir), fstab |-> NoFile,
              whole |-> TRUE, beside |-> FALSE]}

MCInit1 == <<"dev", "proc", "proc">>

\* What the operations and the invariants depend on: never the working directory
\* and, once the kernel runs, neither the host's files nor how it was started.
MCView ==
  <<fs, root, mounts>> \o
    IF phase = "host" THEN <<boot, image, sidecar, made>>
    ELSE IF phase # "running" THEN <<boot, image>>
    ELSE <<phase, settings.root_fs, settings.init = NoFile, table, pid1>>
=============================================================================
