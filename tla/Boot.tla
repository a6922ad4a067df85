-------------------------------- MODULE Boot --------------------------------
(***************************************************************************)
(* From the host tool to a running kernel: mkdisk writes an image and the  *)
(* file beside it that names its root filesystem (src/main.rs,             *)
(* src/disk.rs); run reads that file and starts the kernel with a ramdisk; *)
(* the kernel mounts the root, reads fstab and mounts what it lists        *)
(* (fs/boot.rs, fs/mod.rs, boot_config.rs).  Both sides check the          *)
(* configuration with the same code (boot_settings.rs).  Once the kernel   *)
(* runs, the operations of Vfs follow.                                     *)
(*                                                                         *)
(* The lines of fstab are records; "wellformed" stands for what a line     *)
(* must satisfy on its own: six fields, escapes, a canonical target, known *)
(* options, the final zeros.  /etc/fstab itself is kept beside the tree.   *)
(***************************************************************************)
EXTENDS Exec

CONSTANTS
  Fstab,        \* contents of fstab files: sequences of lines
  Source,       \* trees that images are made from
  BootConfig,   \* settings given by --boot-config
  InitArg,      \* programs given by init=
  Legacy,       \* images from elsewhere, with no file beside them and no fstab
  MaxEntries,   \* 64 in the code
  MaxImages,    \* bound: runs of mkdisk
  Init1,        \* /sbin/init
  NoFile

VARIABLES
  image,      \* the disk image: [kind, nodes, fstab, whole, beside]
  sidecar,    \* settings beside the image
  made,       \* runs of mkdisk so far
  phase,      \* "host", "root", "fstab", "mount", "running" or "failed"
  reason,     \* why the boot failed
  ramdisk,    \* the files the kernel is started with
  settings,   \* the settings the kernel read from it
  attached,   \* the image is attached
  own,        \* history: the settings are those mkdisk wrote with the image
  table,      \* the fstab that was read
  entries,    \* what is left to mount
  pid1        \* what runs as PID 1: "none", "shell" or "program"

host == <<image, sidecar, made>>
boot == <<phase, reason, ramdisk, settings, attached, own, table, entries, pid1>>
vars == <<host, boot, vfs>>

Blank == (<<>> :> Dir)
IsDisk(kind) == kind \in {"ext4", "fat"}
Default == [root_fs |-> "ext4", root_device |-> "sda", init |-> NoFile]

-----------------------------------------------------------------------------
(* boot_settings.rs                                                          *)

validate(s) == IF s.root_fs = "ramfs" THEN s.root_device = "none" ELSE s.root_device # "none"

default_fstab(s) ==
  LET line(src, at, kind) == [source |-> src, target |-> at, fs |-> kind,
                              noauto |-> FALSE, wellformed |-> TRUE]
  IN  << line(s.root_device, <<>>, s.root_fs), line("none", <<"proc">>, "proc"),
         line("none", <<"dev">>, "dev") >>

LineOk(l) ==
  /\ l.wellformed
  /\ IsDisk(l.fs) <=> l.source # "none"
  /\ l.target = <<>> => ~l.noauto /\ l.fs \in {"ext4", "fat", "ramfs"}

Slashes(l) == IF l.target = <<>> THEN 1 ELSE Len(l.target)

\* The entries, parents before children and otherwise in the order of the file.
parse_fstab(lines) ==
  IF /\ \A i \in DOMAIN lines : LineOk(lines[i])
     /\ \A i, j \in DOMAIN lines : i # j => lines[i].target # lines[j].target
     /\ Len(lines) <= MaxEntries
  THEN FlattenSeq([d \in 1 .. MaxDepth |-> SelectSeq(lines, LAMBDA l : Slashes(l) = d)])
  ELSE NoFile

RootOf(ls) == {ls[i] : i \in {k \in DOMAIN ls : ls[k].target = <<>>}}

validate_fstab_root(ls, s) ==
  \A r \in RootOf(ls) : r.fs = s.root_fs /\ r.source = s.root_device

-----------------------------------------------------------------------------
(* The host tool.                                                            *)

\* Mutant of Checked: the root entry is not compared.
ParsedOnly(ls, s) == ls # NoFile /\ validate(s)

Checked(ls, s) == ls # NoFile /\ validate(s) /\ validate_fstab_root(ls, s)

\* The directories on the way to the mount points.
directories(ls) == {p \in Path : \E i \in DOMAIN ls : IsPrefix(p, ls[i].target)}

\* DiskMountConfig::load.
load(source, format, lines) ==
  LET ls == parse_fstab(lines)
      s == [Default EXCEPT !.root_fs = format,
                           !.root_device = IF ls = NoFile \/ RootOf(ls) = {} THEN @
                                           ELSE (CHOOSE r \in RootOf(ls) : TRUE).source]
      dirs == IF ls = NoFile THEN {} ELSE directories(ls)
  IN  [ok |-> /\ Checked(ls, s)
              /\ \A p \in dirs \cap DOMAIN source : source[p].type = "dir",
       settings |-> s, dirs |-> dirs]

HostLinks == 40

\* Where a path leads on the host, links followed.  Outside the source there is
\* nothing: an absolute target, or one above the source, leads nowhere.
RECURSIVE host_path(_, _, _, _)
host_path(source, at, todo, left) ==
  LET next == Append(at, Head(todo))
  IN  IF todo = <<>> THEN at
      ELSE IF source[at].type # "dir" THEN NotFound
      ELSE IF Head(todo) = Up
           THEN IF at = <<>> THEN NotFound ELSE host_path(source, Front(at), Tail(todo), left)
      ELSE IF next \notin DOMAIN source THEN NotFound
      ELSE IF source[next].type # "link" THEN host_path(source, next, Tail(todo), left)
      ELSE IF source[next].abs \/ left = 0 THEN NotFound
      ELSE host_path(source, at, source[next].to \o Tail(todo), left - 1)

\* FAT has no links: one that leads to a directory on the host is copied as
\* that directory, any other is left out.
copy_dir_to_fat(source) ==
  LET real == [p \in Path |-> host_path(source, <<>>, p, HostLinks)]
      copied == {p \in Path : /\ real[p] # NotFound
                              /\ \/ source[real[p]].type = "dir"
                                 \/ real[p] = Append(real[Front(p)], Last(p))}
  IN  [p \in copied |-> source[real[p]]]

\* ext4 keeps the links.
collect_debugfs_cmds(source) == source

\* An image: the source, and the mount points where the source lacks them.
create_fat_vhd_with_config(source, dirs) == copy_dir_to_fat(source) @@ [p \in dirs |-> Dir]
create_ext4_vhd_with_config(source, dirs) == collect_debugfs_cmds(source) @@ [p \in dirs |-> Dir]

\* cmd_mkdisk.  The configuration and the size are checked before the image is
\* touched.  The steps after that can fail: before the image is complete, or
\* between the image and the file beside it.
mkdisk(source, format, custom, fails) ==
  LET lines == IF custom = NoFile THEN default_fstab([Default EXCEPT !.root_fs = format])
               ELSE custom
      config == load(source, format, lines)
  IN  /\ phase = "host" /\ made < MaxImages
      /\ config.ok
      /\ made' = made + 1
      /\ image' = [kind |-> format,
                   nodes |-> IF format = "fat"
                             THEN create_fat_vhd_with_config(source, config.dirs)
                             ELSE create_ext4_vhd_with_config(source, config.dirs),
                   fstab |-> lines, whole |-> fails # "image", beside |-> fails = "none"]
      /\ sidecar' = IF fails = "none" THEN config.settings ELSE sidecar
      /\ UNCHANGED <<boot, vfs>>

\* --boot-config before the file beside the image before the defaults; init=
\* before what they name.
load_boot_settings(disk, config, init) ==
  LET s == IF config # NoFile THEN config
           ELSE IF ~disk THEN [Default EXCEPT !.root_fs = "ramfs", !.root_device = "none"]
           ELSE IF sidecar # NoFile THEN sidecar ELSE Default
  IN  IF init = NoFile THEN s ELSE [s EXCEPT !.init = init]

\* The two files of the ramdisk that the kernel is started with.
boot_ramdisk(s) == ("boot.toml" :> s) @@ ("etc/fstab" :> default_fstab(s))

\* cmd_run: check the settings, put them in a ramdisk, start the machine.
run(disk, config, init) ==
  LET chosen == load_boot_settings(disk, config, init)
  IN  /\ phase = "host"
      /\ disk => image # NoFile
      /\ validate(chosen)
      /\ phase' = "root"
      /\ ramdisk' = boot_ramdisk(chosen)
      /\ attached' = disk
      /\ own' = (disk /\ config = NoFile /\ image.beside)
      /\ UNCHANGED <<reason, settings, table, entries, pid1, host, vfs>>

-----------------------------------------------------------------------------
(* The kernel: mount_filesystems.                                            *)

\* Mutant of Fail: what cannot be mounted is skipped.
Skip(why) == UNCHANGED <<phase, reason>>

Fail(why) == phase' = "failed" /\ reason' = why

read_ramdisk_file(name) == ramdisk[name]

\* The settings the kernel starts with: parsed again from the ramdisk.
from_boot_info ==
  LET s == read_ramdisk_file("boot.toml") IN IF validate(s) THEN s ELSE NoFile

\* The disk that a mount asks for: attached, whole, and of that kind.
Disk(kind, device) == attached /\ device = "sda" /\ image.whole /\ image.kind = kind

\* The bootstrap root, and then the one the settings ask for in its place.
mount_root(disk) ==
  /\ fs' = <<[kind |-> "ramfs", nodes |-> Blank]>>
           \o (IF disk THEN <<[kind |-> image.kind, nodes |-> image.nodes]>> ELSE <<>>)
  /\ root' = Len(fs')

MountRoot ==
  /\ phase = "root"
  /\ LET s == from_boot_info
         disk == s.root_fs # "ramfs"
     IN  IF s = NoFile THEN Fail("config") /\ UNCHANGED <<fs, root, settings>>
         ELSE /\ settings' = s
              /\ IF disk => Disk(s.root_fs, s.root_device)
                 THEN mount_root(disk) /\ phase' = "fstab" /\ UNCHANGED reason
                 ELSE Fail("mount") /\ UNCHANGED <<fs, root>>
  /\ UNCHANGED <<ramdisk, attached, own, table, entries, pid1, host, mounts, cwd, cwdAt>>

\* The fstab of the root or, on a RAM root or one that has none, the one in the
\* boot ramdisk.
ReadFstab ==
  /\ phase = "fstab"
  /\ LET lines == IF settings.root_fs = "ramfs" \/ image.fstab = NoFile
                  THEN read_ramdisk_file("etc/fstab") ELSE image.fstab
         ls == parse_fstab(lines)
     IN  /\ table' = lines
         /\ IF ls # NoFile /\ validate_fstab_root(ls, settings)
            THEN phase' = "mount" /\ entries' = ls /\ UNCHANGED reason
            ELSE Fail("config") /\ UNCHANGED entries
  /\ UNCHANGED <<ramdisk, settings, attached, own, pid1, host, vfs>>

\* ensure_directory_path: the filesystems with the directories on the way to a
\* path made, or NotFound where one cannot be.  All that is missing is in one
\* filesystem: the one the path resolves to.
ensure_directory_path(path) ==
  LET prefixes == {SubSeq(path, 1, i) : i \in 1 .. Len(path)}
      missing == {p \in prefixes : lookup_path(p) = NotFound}
      at == resolve_path(path)
  IN  IF \E p \in prefixes \ missing : ~IsDir(lookup_path(p)) THEN NotFound
      ELSE IF missing = {} THEN fs
      ELSE IF ~Creates(fs[at.fs].kind) THEN NotFound
      ELSE [fs EXCEPT ![at.fs].nodes = [q \in {resolve_path(p).at : p \in missing} |-> Dir] @@ @]

\* FileSystemManager::mount, over the directories that were made for it.  A disk
\* is the one of the root, mounted once more: neither mount caches names, so both
\* have those of the disk.  (The fstab of a RAM root names no disk.)
mount(path, kind, made_dirs) ==
  IF IsDisk(kind) THEN fs' = made_dirs /\ mounts' = (path :> root) @@ mounts
  ELSE /\ fs' = Append(made_dirs, [kind |-> kind, nodes |-> Blank])
       /\ mounts' = (path :> Len(fs) + 1) @@ mounts

mount_required_with_options(path, kind, device) ==
  LET made_dirs == ensure_directory_path(path)
  IN  IF made_dirs = NotFound THEN Fail("mount") /\ UNCHANGED <<fs, mounts>>
      ELSE IF IsDisk(kind) /\ ~Disk(kind, device)
           THEN Fail("mount") /\ fs' = made_dirs /\ UNCHANGED mounts
      ELSE mount(path, kind, made_dirs) /\ UNCHANGED <<phase, reason>>

\* The next entry of fstab.
MountEntry ==
  /\ phase = "mount" /\ entries # <<>>
  /\ entries' = Tail(entries)
  /\ LET e == Head(entries)
     IN  IF e.target = <<>> \/ e.noauto THEN UNCHANGED <<phase, reason, fs, mounts>>
         ELSE mount_required_with_options(e.target, e.fs, e.source)
  /\ UNCHANGED <<ramdisk, settings, attached, own, table, pid1, host, root, cwd, cwdAt>>

\* HOME, PATH and TERM.
BootEnv == << <<"HOME">>, <<"PATH">>, <<"TERM">> >>

\* Something on the way to the path is not a directory.
Blocked(path) ==
  \E i \in 1 .. Len(path) - 1 : LET place == lookup_path(SubSeq(path, 1, i))
                                IN  place # NotFound /\ ~IsDir(place)

\* kernel_main goes on to start PID 1 in the root directory: the program that
\* the settings name, or /sbin/init, or the kernel shell if that is not there.
Start ==
  /\ phase = "mount" /\ entries = <<>>
  /\ LET path == IF settings.init = NoFile THEN Init1 ELSE settings.init
         shell == settings.init = NoFile /\ lookup_path(path) = NotFound
     IN  IF (IF shell THEN Blocked(path)
             ELSE execve_with_args(<<>>, path, <<path>>, BootEnv) = Failed)
         THEN Fail("init") /\ UNCHANGED <<pid1, cwdAt>>
         ELSE /\ phase' = "running"
              /\ pid1' = IF shell THEN "shell" ELSE "program"
              /\ cwdAt' = [fs |-> root, at |-> <<>>]
              /\ UNCHANGED reason
  /\ UNCHANGED <<ramdisk, settings, attached, own, table, entries, host, fs, root, mounts, cwd>>

Run ==
  /\ phase = "running"
  /\ \E path \in Path :
       \/ mkdir(path)
       \/ open(path)
       \/ unlink(path)
       \/ \E new \in Path : rename(path, new)
       \/ chdir(path)
  /\ UNCHANGED <<host, boot>>

-----------------------------------------------------------------------------
Init ==
  /\ image \in Legacy \cup {NoFile} /\ sidecar = NoFile /\ made = 0
  /\ phase = "host" /\ reason = "none" /\ ramdisk = NoFile /\ settings = Default /\ attached = FALSE /\ own = FALSE
  /\ table = <<>> /\ entries = <<>> /\ pid1 = "none"
  /\ fs = <<>> /\ root = 1 /\ mounts = <<>> /\ cwd = <<>> /\ cwdAt = NotFound

Host ==
  \/ \E source \in Source, format \in {"fat", "ext4"}, custom \in Fstab \cup {NoFile},
        fails \in {"none", "image", "sidecar"} : mkdisk(source, format, custom, fails)
  \/ \E disk \in BOOLEAN, config \in BootConfig \cup {NoFile}, init \in InitArg \cup {NoFile} :
       run(disk, config, init)

Next == Host \/ MountRoot \/ ReadFstab \/ MountEntry \/ Start \/ Run

Spec == Init /\ [][Next]_vars

-----------------------------------------------------------------------------
\* The walk that a lookup stands for: from the root, one name after the other,
\* going over to the mounted filesystem at each mount point.
RECURSIVE Walk(_)
Walk(path) ==
  IF path = <<>> THEN [fs |-> root, at |-> <<>>]
  ELSE LET dir == Walk(Front(path))
           at == Append(dir.at, Last(path))
       IN  IF dir = NotFound \/ at \notin DOMAIN fs[dir.fs].nodes THEN NotFound
           ELSE IF path \in DOMAIN mounts THEN [fs |-> mounts[path], at |-> <<>>]
           ELSE [fs |-> dir.fs, at |-> at]

\* The lookup by the longest mount path finds what the walk finds, after any
\* sequence of operations: mount points were directories of the filesystem they
\* cover when they were mounted, parents first, and no operation on names takes
\* one away or moves a directory above one.
LookupIsWalk ==
  phase \in {"mount", "running"} => \A path \in Path : lookup_path(path) = Walk(path)

\* Every name that a ".." of the target takes back is a directory.
Plain(base, to) ==
  \A k \in {k \in DOMAIN to : to[k] = Up} :
    IsDir(Walk(normalize_absolute_path(base \o SubSeq(to, 1, k - 1))))

\* The same with links, which the walk follows where it meets them, and whether
\* the targets of all it met were plain.
RECURSIVE Follow(_, _, _, _)
Follow(at, todo, left, plain) ==
  LET next == Append(at, Head(todo))
      place == Walk(next)
      Found(what) == [at |-> what, plain |-> plain]
  IN  IF todo = <<>> THEN Found(at)
      ELSE IF Head(todo) = Up
           THEN IF IsDir(Walk(at)) THEN Follow(IF at = <<>> THEN at ELSE Front(at), Tail(todo), left, plain)
                ELSE Found(NotFound)
      ELSE IF place = NotFound THEN Found(NotFound)
      ELSE IF Node(place).type # "link" THEN Follow(next, Tail(todo), left, plain)
      ELSE IF left = 0 THEN Found(Loop)
      ELSE LET base == IF Node(place).abs THEN <<>> ELSE at
           IN  Follow(base, Node(place).to \o Tail(todo), left - 1, plain /\ Plain(base, Node(place).to))

Followed(path) == Follow(<<>>, path, DEFAULT_SYMLINK_RESOLUTION_LIMIT, TRUE)

\* Expanding the first link and starting over, with ".." taken off the text of
\* the path, finds what following each link from where it is finds, and a cycle
\* of links ends in an error on both ways, if the targets on the way are plain.
\* A ".." behind a name that is a link, or that is not there, is taken off with
\* the name, where the walk goes up from where the link leads, or fails; then
\* only this is claimed: what is found is there, and no link is left on the way.
LinksFollowed ==
  phase = "running" =>
    \A path \in Path :
      LET found == resolve_symlink_path(path)
      IN  /\ Followed(path).plain => found = Followed(path).at
          /\ found \notin {NotFound, Loop} => Follow(<<>>, found, 0, TRUE).at = found

\* A kernel that runs has the root it was asked for, and on it exactly what the
\* fstab it read lists and does not mark noauto, each with the right filesystem.
\* Nothing is skipped, a missing disk is never replaced by the RAM root, and the
\* kernel shell never takes the place of a program the settings name.
BootAsConfigured ==
  phase = "running" =>
    LET auto == {table[i] : i \in {k \in DOMAIN table : ~table[k].noauto /\ table[k].target # <<>>}}
    IN  /\ fs[root].kind = settings.root_fs
        /\ DOMAIN mounts = {l.target : l \in auto}
        /\ \A l \in auto : fs[mounts[l.target]].kind = l.fs
        /\ pid1 = "shell" => settings.init = NoFile

\* The scripts on the way from a path to a program, with the name each is passed
\* on by, and last what is no script.  A relative interpreter is looked for from
\* the root, and only if it is not there in the working directory.  Behind links
\* whose targets are not plain the chain starts where the code says they lead.
RECURSIVE Chain(_, _, _, _)
Chain(from, path, abs, left) ==
  LET at == IF Followed(path).plain THEN Followed(path).at ELSE resolve_symlink_path(path)
      found == at \notin {NotFound, Loop}
      place == IF found THEN Walk(at) ELSE Walk(IF abs THEN path ELSE from \o path)
      node == IF place = NotFound THEN Dir ELSE Node(place)
      step == [name |-> IF found THEN at ELSE path, node |-> node]
  IN  IF node.holds # "script" \/ left = 0 THEN <<step>>
      ELSE <<step>> \o Chain(from, node.to, node.abs, left - 1)

\* The name of the program in the last script and, last to first, the scripts,
\* each behind the argument of its first line; behind them what was passed.
Wanted(scripts, argv) ==
  IF scripts = <<>> THEN argv
  ELSE <<Last(scripts).node.to>>
       \o FlattenSeq(Reverse([i \in DOMAIN scripts |->
                                scripts[i].node.arg \o <<scripts[i].name>>]))
       \o SubSeq(argv, 2, Len(argv))

\* The table has the words from a slot on, each by the address of its string.
Lists(stack, first, words) ==
  /\ \A i \in DOMAIN words : stack.text[stack.table[first + i - 1]] = words[i]
  /\ stack.table[first + Len(words)] = 0

StartsAs(r, program, argv, envp, stack) ==
  /\ r # Failed <=> program.holds = "elf" /\ program.flaw = "none" /\ stack.sp >= 0
  /\ r # Failed =>
       /\ r.program = program /\ r.argv = argv /\ r.stack = stack
       /\ ~stack.torn =>
            /\ stack.sp % 16 = 0 /\ stack.sp + 8 * Len(stack.table) <= stack.low
            /\ stack.table[1] = Len(argv)
            /\ Lists(stack, 2, argv) /\ Lists(stack, 3 + Len(argv), envp)

StartsWith(r, program, argv, envp, path) ==
  StartsAs(r, program, argv, envp, build_initial_user_stack(argv, envp, path))

StartsBehind(r, chain, argv, envp, path) ==
  StartsWith(r, Last(chain).node, Wanted(Front(chain), argv), envp, path)

\* execve finds the program at the end of the chain if there are not more scripts
\* than the limit, and passes it the arguments that Wanted describes.  On the
\* stack of the program, aligned to 16 bytes, the table lists the arguments and
\* the environment in order, each entry the address of its own string, above the
\* table.  Not claimed: strings that cross a page.
ProgramGetsArguments ==
  phase = "running" =>
    \A path \in Path, from \in {p \in Path : IsDir(lookup_path(p))} :
      LET chain == Chain(from, path, TRUE, MAX_INTERPRETER_REDIRECTS)
      IN  \A argv \in {<<>>, <<path>>, <<path, <<"x">>>>}, envp \in {<<>>, BootEnv} :
            StartsBehind(execve_with_args(from, path, argv, envp), chain, argv, envp, path)

\* An image that mkdisk finished, started with the settings that mkdisk wrote
\* beside it, never fails on its configuration: what the host tool accepts, the
\* kernel accepts.  An interrupted mkdisk over an older image may.
MadeDiskAccepted == own => reason # "config"
=============================================================================
