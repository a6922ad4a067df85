------------------------------- MODULE Process -------------------------------
(***************************************************************************)
(* Tasks, the scheduler and the process system calls of the kernel         *)
(* (kernel/src/process, and the fork, exit, wait, kill and fault paths in  *)
(* kernel/src/syscall and kernel/src/arch/x86_64).                         *)
(*                                                                         *)
(* The kernel runs on one processor and never preempts: system calls mask  *)
(* interrupts and the timer handler only counts.  The processor changes    *)
(* hands in a fork (to the child) and in an exit or a fault (to the parent *)
(* or, failing that, round robin), so a step of this specification is one  *)
(* system call, fault or input event of the task that has the processor.   *)
(*                                                                         *)
(* CURRENT_PID and current_index are what the kernel BELIEVES is running;  *)
(* onCpu is the task whose stack the processor really is on, which only a  *)
(* context switch changes.                                                 *)
(***************************************************************************)
EXTENDS Naturals, Sequences, FiniteSetsExt

CONSTANT MaxPid   \* bound on NEXT_PID: fork is not modelled beyond it

ASSUME MaxPidAssumption == MaxPid \in Nat /\ MaxPid >= 2

ROOT_PID == 1
KERNEL_IO_TASK_PID == 2

Pid == 1 .. MaxPid
None == 0         \* no pid, no index: pids and indices start at 1

\* Waiting is left out: nothing calls sleep_on_tty_input, its only source.
\* "Free" marks a pid that is not in the task list.
TaskState == {"Free", "Ready", "Running", "Zombie"}
Runnable  == {"Ready", "Running"}

\* 0: exit(0); 127: exec failed; 139: fault; 143: SIGTERM.
ExitStatus == {0, 127, 139, 143}

\* What the code of a task does when it next has the processor:
\* user: its program runs; shell: the kernel shell prompt; entry: start of
\* fork_execve_child_entry; wait: the loop of wait4; io: the loop of the
\* kernel I/O task; dead: the hlt loop after an exit or a fault.
ControlPoint == {"free", "user", "shell", "entry", "wait", "io", "dead"}

VARIABLES
  sched,      \* the Scheduler, with CURRENT_PID and the running accounts
  parent,     \* Task::parent_pid
  userland,   \* Task::userland
  exit_code,  \* Task::exit_code
  at,         \* control point of every task
  waitFor,    \* the pid wait4 was called with, None for any child
  NEXT_PID,
  onCpu,      \* the task whose context the processor executes
  machine     \* "up", "off" after arch::shutdown, "halted" in a hlt loop

vars == <<sched, parent, userland, exit_code, at, waitFor, NEXT_PID, onCpu,
          machine>>

-----------------------------------------------------------------------------
(* Scheduler methods, as operators from a scheduler state to the next.  The *)
(* index of a task counts from 1 here.                                      *)

Present(s) == {s.tasks[i] : i \in DOMAIN s.tasks}

\* tasks.iter().position(|task| task.pid == pid)
Position(s, pid) ==
  LET found == {i \in DOMAIN s.tasks : s.tasks[i] = pid}
  IN  IF found = {} THEN None ELSE Min(found)

\* The task at current_index, if there is one.
Current(s) ==
  IF s.current_index \in DOMAIN s.tasks THEN s.tasks[s.current_index] ELSE None

\* The new task is Ready, at the back of the list.
add_task(s, pid) ==
  [s EXCEPT !.tasks = Append(s.tasks, pid),
            !.state = [s.state EXCEPT ![pid] = "Ready"]]

set_task_state(s, pid, new) ==
  LET loses == new = "Zombie" /\ Current(s) = pid
  IN  IF pid \notin Present(s) THEN s
      ELSE [s EXCEPT !.state = [s.state EXCEPT ![pid] = new],
                     !.running = IF new = "Zombie" THEN s.running \ {pid}
                                                   ELSE s.running,
                     !.current_index = IF loses THEN None ELSE s.current_index,
                     !.core = IF loses /\ s.core = pid THEN None ELSE s.core]

\* Pause the account of CURRENT_PID, resume the one of the next task.
account_switch(s, next) == (s.running \ {s.CURRENT_PID}) \union {next}

\* Halt until an interrupt with the account of the current task paused; it is
\* resumed afterwards, but not for a zombie (resume_cpu_accounting).
idle_until_interrupt(s) ==
  LET pid == s.CURRENT_PID
  IN  [s EXCEPT !.running = (s.running \ {pid}) \union
                  {p \in {pid} \intersect Present(s) : s.state[p] # "Zombie"}]

\* Mutant of Dispatch: the old task stays Running.
DispatchKeepsOld(s, old, new) ==
  LET pid == s.tasks[new]
  IN  [s EXCEPT !.state = [s.state EXCEPT ![pid] = "Running"],
                !.current_index = new,
                !.running = account_switch(s, pid),
                !.CURRENT_PID = pid,
                !.core = pid]

\* The switch that schedule_on and switch_to_pid share: the task at `old`
\* loses the processor, the one at `new` gets it.
Dispatch(s, old, new) ==
  LET pid == s.tasks[new]
      st  == IF old \in DOMAIN s.tasks /\ old # new
                /\ s.state[s.tasks[old]] = "Running"
             THEN [s.state EXCEPT ![s.tasks[old]] = "Ready"] ELSE s.state
  IN  [s EXCEPT !.state = [st EXCEPT ![pid] = "Running"],
                !.current_index = new,
                !.running = account_switch(s, pid),
                !.CURRENT_PID = pid,
                !.core = pid]

\* First runnable index in round-robin order after current_index.
NextRunnable(s) ==
  LET len     == Len(s.tasks)
      start   == IF s.current_index = None THEN 0 ELSE s.current_index % len
      slot(o) == 1 + ((start + o) % len)
      offsets == {o \in 0 .. (len - 1) : s.state[s.tasks[slot(o)]] \in Runnable}
  IN  IF offsets = {} THEN None ELSE slot(Min(offsets))

schedule_on(s) ==
  LET next == NextRunnable(s)
  IN  IF next = None
      THEN [s EXCEPT !.current_index = None, !.core = None,
                     !.running = s.running \ {s.CURRENT_PID}]
      ELSE Dispatch(s, s.current_index, next)

\* Mutant of preempt_and_switch: a zombie is made Ready like any other task.
PreemptRevives(s) ==
  LET old == Current(s)
      s1  == IF old # None THEN set_task_state(s, old, "Ready") ELSE s
      s2  == schedule_on(s1)
  IN  [sched |-> s2,
       plan  |-> IF Current(s2) # old /\ s.current_index # None
                 THEN Current(s2) ELSE None]

\* A plan names the task that switch_context will resume, None for no switch.
preempt_and_switch(s) ==
  LET old == Current(s)
      s1  == IF old # None /\ s.state[old] # "Zombie"
             THEN set_task_state(s, old, "Ready") ELSE s
      s2  == schedule_on(s1)
  IN  [sched |-> s2,
       plan  |-> IF Current(s2) # old /\ s.current_index # None
                 THEN Current(s2) ELSE None]

switch_to_pid(s, pid) ==
  LET old == IF s.current_index = None THEN Position(s, s.CURRENT_PID)
                                       ELSE s.current_index
      new == Position(s, pid)
      ok  == /\ old # None /\ new # None /\ old # new
             /\ s.state[pid] \in Runnable
  IN  [sched |-> IF ok THEN Dispatch(s, old, new)
                       ELSE [s EXCEPT !.current_index = old],
       plan  |-> IF ok THEN pid ELSE None]

\* Mutant of SwitchFromDead: round robin only.
SwitchAnywhere(s, ppid) ==
  preempt_and_switch([s EXCEPT !.current_index = Position(s, s.CURRENT_PID)])

\* Mutant of SwitchFromDead: the failed switch_to_pid does not leave the
\* position of the dead task in current_index.
SwitchForgetsIndex(s, ppid) ==
  LET direct == switch_to_pid(s, ppid)
  IN  IF direct.plan # None THEN direct ELSE preempt_and_switch(s)

\* switch_to_pid(parent).or_else(preempt_and_switch): the end of every death.
SwitchFromDead(s, ppid) ==
  LET direct == switch_to_pid(s, ppid)
  IN  IF direct.plan # None THEN direct ELSE preempt_and_switch(direct.sched)

\* Mutant of Reapable: the pid is compared the wrong way round.
ReapableOthers(s, ppid, want) ==
  {i \in DOMAIN s.tasks : /\ parent[s.tasks[i]] = ppid
                          /\ s.state[s.tasks[i]] = "Zombie"
                          /\ want # s.tasks[i]}

\* Indices of the zombie children of `ppid` that a wait for `want` matches.
Reapable(s, ppid, want) ==
  {i \in DOMAIN s.tasks : /\ parent[s.tasks[i]] = ppid
                          /\ s.state[s.tasks[i]] = "Zombie"
                          /\ want \in {None, s.tasks[i]}}

reap_zombie_child(s, idx) ==
  LET pid == s.tasks[idx]
      cur == s.current_index
  IN  [s EXCEPT !.tasks = [i \in 1 .. (Len(s.tasks) - 1) |->
                             IF i < idx THEN s.tasks[i] ELSE s.tasks[i + 1]],
                !.state = [s.state EXCEPT ![pid] = "Free"],
                !.running = s.running \ {pid},
                !.core = IF s.core = pid THEN None ELSE s.core,
                !.current_index = IF cur = None \/ idx > cur THEN cur
                                  ELSE IF idx < cur THEN cur - 1 ELSE None]

-----------------------------------------------------------------------------
(* Boot: register_boot_processes, then exec of init or the kernel shell.    *)

Init ==
  /\ sched = [tasks |-> <<ROOT_PID, KERNEL_IO_TASK_PID>>,
              state |-> [p \in Pid |-> CASE p = ROOT_PID -> "Running"
                                         [] p = KERNEL_IO_TASK_PID -> "Ready"
                                         [] OTHER -> "Free"],
              current_index |-> None,
              CURRENT_PID |-> ROOT_PID,
              core |-> None,
              running |-> {ROOT_PID}]
  /\ parent = [p \in Pid |-> None]
  /\ userland \in [Pid -> BOOLEAN]
  /\ \A p \in Pid : userland[p] => p = ROOT_PID
  /\ exit_code = [p \in Pid |-> 0]
  /\ at = [p \in Pid |-> CASE p = ROOT_PID -> IF userland[p] THEN "user" ELSE "shell"
                           [] p = KERNEL_IO_TASK_PID -> "io"
                           [] OTHER -> "free"]
  /\ waitFor = [p \in Pid |-> None]
  /\ NEXT_PID = 3
  /\ onCpu = ROOT_PID
  /\ machine = "up"

\* Task::set_exit_code: the death of a userland PID 1 stops the kernel.
StopsKernel(pid) == pid = ROOT_PID /\ userland[pid]

PowerOff ==
  /\ machine' = "off"
  /\ UNCHANGED <<sched, parent, userland, exit_code, at, waitFor, NEXT_PID, onCpu>>

\* The processor follows the plan; without one the dying task halts it.
FollowPlan(plan) ==
  /\ onCpu' = IF plan # None THEN plan ELSE onCpu
  /\ machine' = IF plan # None THEN machine ELSE "halted"

-----------------------------------------------------------------------------
(* Fork.                                                                    *)

\* fork_current_task_with: a Ready copy of the caller at the back of the list.
fork_current_task_with(childUserland, childAt, callerAt, callerWaits) ==
  LET ppid  == sched.CURRENT_PID
      child == NEXT_PID
      r     == switch_to_pid(add_task(sched, child), child)
  IN  /\ NEXT_PID <= MaxPid
      /\ NEXT_PID' = NEXT_PID + 1
      /\ parent' = [parent EXCEPT ![child] = ppid]
      /\ userland' = [userland EXCEPT ![child] = childUserland]
      /\ exit_code' = [exit_code EXCEPT ![child] = exit_code[ppid]]
      /\ at' = [at EXCEPT ![child] = childAt, ![onCpu] = callerAt]
      /\ waitFor' = [waitFor EXCEPT ![onCpu] = callerWaits]
      /\ sched' = r.sched
      /\ onCpu' = IF r.plan # None THEN r.plan ELSE onCpu
      /\ UNCHANGED machine

\* fork and fork-style clone: the child returns to the caller's program.
clone_from_syscall ==
  /\ machine = "up"
  /\ at[onCpu] = "user"
  /\ userland[sched.CURRENT_PID]
  /\ fork_current_task_with(TRUE, "user", "user", None)

\* A command of the kernel shell: launch, then wait for that child.
fork_execve ==
  /\ machine = "up"
  /\ at[onCpu] = "shell"
  /\ fork_current_task_with(FALSE, "entry", "wait", NEXT_PID)

\* The launched child execs its program.
execve_succeeds ==
  /\ machine = "up"
  /\ at[onCpu] = "entry"
  /\ userland' = [userland EXCEPT ![sched.CURRENT_PID] = TRUE]
  /\ at' = [at EXCEPT ![onCpu] = "user"]
  /\ UNCHANGED <<sched, parent, exit_code, waitFor, NEXT_PID, onCpu, machine>>

-----------------------------------------------------------------------------
(* Death.                                                                   *)

\* A program exits, or the exec of a launched command fails (status 127).
sys_exit(status) ==
  LET pid == sched.CURRENT_PID
      r   == SwitchFromDead(set_task_state(sched, pid, "Zombie"), parent[pid])
  IN  /\ machine = "up"
      /\ <<at[onCpu], status>> \in {<<"user", 0>>, <<"entry", 127>>}
      /\ IF StopsKernel(pid) THEN PowerOff
         ELSE /\ exit_code' = [exit_code EXCEPT ![pid] = status]
              /\ sched' = r.sched
              /\ at' = [at EXCEPT ![onCpu] = "dead"]
              /\ FollowPlan(r.plan)
              /\ UNCHANGED <<parent, userland, waitFor, NEXT_PID>>

\* Mutant of Faulted: the state of the task is forgotten.
FaultForgotten(s, pid) == s

\* The fault handlers write the state without set_task_state.
Faulted(s, pid) == [s EXCEPT !.state = [s.state EXCEPT ![pid] = "Zombie"]]

\* A page fault in ring 3 (the invalid-opcode and protection handlers differ
\* in the status only).
page_fault_handler ==
  LET pid == sched.CURRENT_PID
      r   == SwitchFromDead(Faulted(sched, pid), parent[pid])
  IN  /\ machine = "up"
      /\ at[onCpu] = "user"
      /\ userland[pid]
      /\ IF StopsKernel(pid) THEN PowerOff
         ELSE /\ exit_code' = [exit_code EXCEPT ![pid] = 139]
              /\ sched' = r.sched
              /\ at' = [at EXCEPT ![onCpu] = "dead"]
              /\ FollowPlan(r.plan)
              /\ UNCHANGED <<parent, userland, waitFor, NEXT_PID>>

\* The kernel shell returned: terminate_root_process, then shutdown.
terminate_root_process ==
  /\ machine = "up"
  /\ at[onCpu] = "shell"
  /\ sched' = set_task_state(sched, ROOT_PID, "Zombie")
  /\ machine' = "off"
  /\ UNCHANGED <<parent, userland, exit_code, at, waitFor, NEXT_PID, onCpu>>

\* sys_shutdown, open to every program.
sys_shutdown ==
  /\ machine = "up"
  /\ at[onCpu] = "user"
  /\ PowerOff

-----------------------------------------------------------------------------
(* Fatal signals.  Others are queued and never looked at again, because     *)
(* nothing calls process_pending_signals; they change nothing here.         *)

deliver_signal(pid) ==
  IF StopsKernel(pid) THEN PowerOff
  ELSE /\ exit_code' = [exit_code EXCEPT ![pid] = 143]
       /\ sched' = [sched EXCEPT !.state = [sched.state EXCEPT ![pid] = "Zombie"],
                                 !.running = sched.running \ {pid}]
       /\ UNCHANGED <<parent, userland, at, waitFor, NEXT_PID, onCpu, machine>>

sys_kill(target) ==
  /\ machine = "up"
  /\ at[onCpu] = "user"
  /\ target \in Present(sched)
  /\ deliver_signal(target)

\* A read of the terminal with nothing typed yet.
terminal_read_idles ==
  /\ machine = "up"
  /\ at[onCpu] \in {"user", "shell"}
  /\ sched' = idle_until_interrupt(sched)
  /\ UNCHANGED <<parent, userland, exit_code, at, waitFor, NEXT_PID, onCpu, machine>>

\* Ctrl-C read from the terminal by the task that polls it: that task gets
\* SIGTERM, and goes on running.
ctrl_c ==
  /\ machine = "up"
  /\ at[onCpu] \in {"user", "shell", "io"}
  /\ deliver_signal(sched.CURRENT_PID)

-----------------------------------------------------------------------------
(* Wait.  One step is one iteration of the loop.                            *)

\* Where a task goes on when its system call or wait returns.
Resumes(pid) == IF userland[pid] THEN "user" ELSE "shell"

WaitReaps(want) ==
  LET idx   == Min(Reapable(sched, sched.CURRENT_PID, want))
      child == sched.tasks[idx]
  IN  /\ Reapable(sched, sched.CURRENT_PID, want) # {}
      /\ sched' = reap_zombie_child(sched, idx)
      /\ parent' = [parent EXCEPT ![child] = None]
      /\ userland' = [userland EXCEPT ![child] = FALSE]
      /\ exit_code' = [exit_code EXCEPT ![child] = 0]
      /\ at' = [at EXCEPT ![child] = "free", ![onCpu] = Resumes(onCpu)]
      /\ waitFor' = [waitFor EXCEPT ![child] = None, ![onCpu] = None]
      /\ UNCHANGED <<NEXT_PID, onCpu, machine>>

HasChild(want) ==
  \E pid \in Present(sched) : /\ parent[pid] = sched.CURRENT_PID
                              /\ want \in {None, pid}

\* ECHILD.
WaitHasNoChild(want) ==
  /\ ~HasChild(want)
  /\ at' = [at EXCEPT ![onCpu] = Resumes(onCpu)]
  /\ waitFor' = [waitFor EXCEPT ![onCpu] = None]
  /\ UNCHANGED <<sched, parent, userland, exit_code, NEXT_PID, onCpu, machine>>

\* No zombie yet: halt until the next interrupt, then look again.
WaitIdles(want) ==
  /\ HasChild(want)
  /\ Reapable(sched, sched.CURRENT_PID, want) = {}
  /\ at' = [at EXCEPT ![onCpu] = "wait"]
  /\ waitFor' = [waitFor EXCEPT ![onCpu] = want]
  /\ sched' = idle_until_interrupt(sched)
  /\ UNCHANGED <<parent, userland, exit_code, NEXT_PID, onCpu, machine>>

\* Called by a program, going on after an idle wait, or the shell's wait for
\* its command.  (WNOHANG returns where this idles, and changes nothing.)
wait_for_child(want) ==
  /\ machine = "up"
  /\ \/ at[onCpu] = "user"
     \/ at[onCpu] = "wait" /\ want = waitFor[onCpu]
  /\ WaitReaps(want) \/ WaitHasNoChild(want) \/ WaitIdles(want)

-----------------------------------------------------------------------------
\* Nothing happens once the machine is off.
Off == machine = "off" /\ UNCHANGED vars

Work == \/ clone_from_syscall \/ fork_execve \/ execve_succeeds
        \/ page_fault_handler \/ terminate_root_process \/ sys_shutdown
        \/ terminal_read_idles
        \/ \E status \in ExitStatus : sys_exit(status)
        \/ \E want \in Pid \union {None} : wait_for_child(want)

Signals == ctrl_c \/ \E target \in Pid : sys_kill(target)

\* Without fatal signals, and with them.
QuietNext == Work \/ Off
Next      == Work \/ Signals \/ Off

-----------------------------------------------------------------------------
QuietSpec == Init /\ [][QuietNext]_vars
Spec      == Init /\ [][Next]_vars

\* The processor does not stop inside the kernel; and, for the quiet system, a
\* program that keeps the processor ends.
KernelFairness == /\ WF_vars(execve_succeeds)
                  /\ WF_vars(at[onCpu] = "wait" /\ wait_for_child(waitFor[onCpu]))

FairSpec      == Spec /\ KernelFairness
FairQuietSpec == QuietSpec /\ KernelFairness /\ WF_vars(sys_exit(0))

-----------------------------------------------------------------------------
(* What holds in every reachable state.                                     *)

Schedulers == [tasks : Seq(Pid), state : [Pid -> TaskState],
               current_index : Nat, CURRENT_PID : Pid,
               core : Pid \union {None}, running : SUBSET Pid]

\* Every variable has its type, and the task list holds exactly the pids that
\* are not free, each once and in the order fork gave them out.
TypeOK ==
  /\ sched \in Schedulers
  /\ parent \in [Pid -> Pid \union {None}]
  /\ userland \in [Pid -> BOOLEAN]
  /\ exit_code \in [Pid -> ExitStatus]
  /\ at \in [Pid -> ControlPoint]
  /\ waitFor \in [Pid -> Pid \union {None}]
  /\ NEXT_PID \in 3 .. (MaxPid + 1)
  /\ onCpu \in Pid
  /\ machine \in {"up", "off", "halted"}
  /\ \A i, j \in DOMAIN sched.tasks : i < j => sched.tasks[i] < sched.tasks[j]
  /\ \A p \in Pid : p \in Present(sched) <=> sched.state[p] # "Free"

\* While the machine runs, the kernel knows which task it runs: CURRENT_PID is
\* the task whose context the processor is in, it is in the list, and
\* current_index, which fork, exit, faults and reap_zombie_child all move, is
\* unset or the position of that task.
CurrentConsistent ==
  machine = "up" =>
    /\ sched.CURRENT_PID = onCpu
    /\ onCpu \in Present(sched)
    /\ sched.current_index # None =>
          /\ sched.current_index \in DOMAIN sched.tasks
          /\ sched.tasks[sched.current_index] = onCpu
    /\ sched.core \in {None, onCpu}

\* Nobody but the task on the processor is Running, so a task that lost the
\* processor can be scheduled again (switch_to_pid, schedule_on).
SoleRunner ==
  machine = "up" =>
    \A p \in Present(sched) : sched.state[p] = "Running" => p = onCpu

\* Processor time is charged to the task on the processor and to no other, and
\* to nobody once that task is a zombie: pause and resume are balanced over
\* switches, deaths, signals and idle waits (account_switch,
\* idle_until_interrupt, deliver_signal).
ChargedToRunner ==
  machine = "up" =>
    sched.running = {p \in {onCpu} : sched.state[p] # "Zombie"}

\* The processor never returns into a task that has exited or faulted, into the
\* hlt loop after its last context switch.
DeadNeverResumed == machine = "up" => at[onCpu] # "dead"

\* A task inside the loop of wait_for_child still has a child to wait for: only
\* it could have reaped that child, so the wait cannot end with ECHILD.
WaiterHasChild ==
  machine = "up" =>
    \A p \in Present(sched) : at[p] = "wait" =>
      \E c \in Present(sched) : parent[c] = p /\ waitFor[p] \in {None, c}

\* The hlt loop at the end of sys_exit and of the fault handlers is reached for
\* good only when no task could have run instead.
HaltsOnlyWithoutWork ==
  machine = "halted" =>
    \A p \in Present(sched) : sched.state[p] \notin Runnable

\* A zombie leaves its state only by being reaped, by its parent; and no step
\* gives the processor to a task that is not runnable.
ZombieStep ==
  /\ \A p \in Pid : sched.state[p] = "Zombie" =>
       \/ sched'.state[p] = "Zombie"
       \/ sched'.state[p] = "Free" /\ parent[p] = onCpu
  /\ onCpu' # onCpu => sched'.state[onCpu'] = "Running"
ZombiesStayDead == [][ZombieStep]_vars

-----------------------------------------------------------------------------
(* What holds as long as no fatal signal is sent.                           *)

Live == {p \in Present(sched) : sched.state[p] # "Zombie"} \ {KERNEL_IO_TASK_PID}

\* Fork runs the child at once and exit returns to the parent, so the live
\* tasks form one line of descent from PID 1 and the processor is always with
\* the youngest: the parent of a live task is the next older live one.
LineOfDescent ==
  machine = "up" =>
    /\ {ROOT_PID, onCpu} \subseteq Live
    /\ \A p \in Live : p <= onCpu
    /\ \A p \in Live \ {ROOT_PID} :
          /\ parent[p] \in Live
          /\ parent[p] < p
          /\ \A q \in Live : q < p => q <= parent[p]

\* A wait4 that does not fail with ECHILD finds a zombie at its first look: it
\* never has to idle for a child that could not run meanwhile.
WaitNeverIdles ==
  machine = "up" =>
    \A want \in Pid \union {None} :
      HasChild(want) => Reapable(sched, sched.CURRENT_PID, want) # {}

\* The kernel shell gets the processor back after every command it launches,
\* provided that programs end.
ShellRegainsPrompt ==
  (at[ROOT_PID] = "wait" /\ ~userland[ROOT_PID])
    ~> (at[ROOT_PID] = "shell" \/ machine = "off")

-----------------------------------------------------------------------------
(* What comments in the code say and the code does not do.                  *)

\* "Fatal signals (SIGKILL, SIGTERM) immediately terminate": a task that is a
\* zombie does not execute.
TerminatedTaskStops == machine = "up" => sched.state[onCpu] # "Zombie"
==============================================================================
