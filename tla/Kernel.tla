-------------------------------- MODULE Kernel --------------------------------
(***************************************************************************)
(* The processes of module Process with the descriptor tables of module    *)
(* Descriptors: every process operation takes the tables along, and the    *)
(* descriptor calls are made by whichever task has the processor.          *)
(***************************************************************************)
EXTENDS Process

CONSTANTS Inode, Device, Stdio, StdFds, MaxFd, MaxOpen, MaxLost,
          MaxCalls     \* bound: descriptor calls

VARIABLES exited, fds, files, lost,
          calls,       \* descriptor calls so far
          signalled    \* history: a fatal signal was sent

fdVars == <<exited, fds, files, lost>>
allVars == <<sched, parent, userland, exit_code, at, waitFor, NEXT_PID, onCpu,
             machine, exited, fds, files, lost, calls, signalled>>

D == INSTANCE Descriptors WITH BootPids <- {ROOT_PID, KERNEL_IO_TASK_PID},
                               tasks <- Present(sched), current <- onCpu

ASSUME KernelAssumption == D!DescriptorsAssumption

KernelInit == Init /\ D!Init /\ calls = 0 /\ signalled = FALSE

-----------------------------------------------------------------------------
\* A program, or the kernel shell, makes a descriptor call.
DescriptorCall ==
  /\ machine = "up"
  /\ calls < MaxCalls /\ calls' = calls + 1
  /\ at[onCpu] \in {"user", "shell"}
  /\ UNCHANGED vars
  /\ \/ \E i \in Inode : \/ D!OpenFileDropped(i)
                         \/ \E c \in BOOLEAN : D!open_with_mode(i, c)
     \/ \E fd \in 0 .. (MaxFd - 1) :
          \/ D!close_fd(fd)
          \/ \E c \in BOOLEAN : D!set_fd_flags(fd, c)
          \/ \E min \in 0 .. (MaxFd - 1), c \in BOOLEAN : D!dup_fd(fd, min, c)

\* The child starts with a copy of the table of its parent.
Fork == (clone_from_syscall \/ fork_execve) /\ D!fork(NEXT_PID)

\* A launched command, or a program that execs another, gets a new image.
Exec == /\ \/ execve_succeeds
           \/ machine = "up" /\ at[onCpu] = "user" /\ UNCHANGED vars
        /\ D!execve_with_args

\* Mutant of Exit: the descriptors stay open.
ExitKeepsFiles == /\ \E status \in ExitStatus : sys_exit(status)
                  /\ exited' = exited \union {onCpu}
                  /\ UNCHANGED <<fds, files, lost>>

\* sys_exit closes every descriptor first, then gives the processor up.
Exit == (\E status \in ExitStatus : sys_exit(status)) /\ D!sys_exit

\* The fault handlers do not touch the descriptors.
Fault == page_fault_handler /\ UNCHANGED fdVars

\* Mutant of Wait: reaping leaves the table behind.
WaitKeepsTable ==
  /\ \E want \in Pid \union {None} : wait_for_child(want)
  /\ UNCHANGED fdVars

\* Reaping a child drops its table.
Wait ==
  /\ \E want \in Pid \union {None} : wait_for_child(want)
  /\ LET gone == Present(sched) \ Present(sched')
     IN  IF gone = {} THEN UNCHANGED fdVars
         ELSE \E child \in gone : D!reap_zombie_child(child)

Elsewhere == /\ \/ terminate_root_process \/ sys_shutdown \/ terminal_read_idles
             /\ UNCHANGED fdVars

KernelWork == Fork \/ Exec \/ Exit \/ Fault \/ Wait \/ Elsewhere

KernelNext ==
  \/ DescriptorCall /\ UNCHANGED signalled
  \/ KernelWork /\ UNCHANGED <<calls, signalled>>
  \/ Off /\ UNCHANGED <<fdVars, calls, signalled>>
  \/ Signals /\ signalled' = TRUE /\ UNCHANGED <<fdVars, calls>>

KernelSpec == KernelInit /\ [][KernelNext]_allVars

-----------------------------------------------------------------------------
\* Descriptors are only ever used the way module Descriptors describes: every
\* step of the kernel is one of its steps or leaves the tables alone, so its
\* invariants hold of the whole kernel.
DescriptorsImplemented == D!Spec

\* An Arc count is the number of slots that hold the description, the tracking
\* and the index count every live description once, and the device registry
\* counts them and what was opened and dropped without a close: no fork, dup,
\* close, exec, exit, fault or reap of any task loses or invents a reference.
OpenFilesCounted == D!RefsMatchSlots /\ D!OpenFilesTracked /\ D!DevicesCounted

\* The processor never runs a task that has been through sys_exit, and such a
\* task holds nothing.  Until the first fatal signal, whenever PID 1 has the
\* processor, every file that is open is held by PID 1 or by a child that
\* faulted and was not reaped.
RootHoldsTheRest ==
  machine = "up" =>
    /\ onCpu \notin exited /\ \A p \in exited : D!InUse(fds[p]) = {}
    /\ onCpu = ROOT_PID /\ ~signalled =>
         \A p \in Present(sched) \ {ROOT_PID} :
           D!InUse(fds[p]) # {} => sched.state[p] = "Zombie" /\ exit_code[p] = 139
=============================================================================
