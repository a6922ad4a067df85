------------------------------- MODULE CpuTime -------------------------------
(***************************************************************************)
(* The processor time of the tasks (process/accounting.rs) under the       *)
(* process operations of module Process.                                   *)
(*                                                                         *)
(* A clock settles when its task enters or leaves the kernel, loses or     *)
(* gets the processor, idles, dies or is reaped.  A step of Process spends *)
(* some time in the kernel before it takes effect; between the steps the   *)
(* task on the processor executes.  spent is a history variable: what each *)
(* task really executed, in which mode, until its death.                   *)
(***************************************************************************)
EXTENDS Process

CONSTANT MaxNow   \* bound on monotonic_ns

ASSUME MaxNowAssumption == MaxNow \in Nat \ {0}

VARIABLES
  cpu,       \* Task::cpu_time of every task
  now,       \* monotonic_ns
  spent      \* history: the time executed by every task that is not reaped,
             \* and, under None, by those that are

timeVars == <<sched, parent, userland, exit_code, at, waitFor, NEXT_PID, onCpu,
              machine, cpu, now, spent>>

TaskMode == {"User", "Kernel"}
Usage    == [TaskMode -> Nat]
NoUsage  == [m \in TaskMode |-> 0]
Stopped  == 0        \* running_since: None

Add(u, v) == [m \in TaskMode |-> u[m] + v[m]]

-----------------------------------------------------------------------------
(* CpuAccounting.                                                           *)

NewClock == [usage |-> NoUsage, children |-> NoUsage, mode |-> "Kernel",
             running_since |-> Stopped]

snapshot(c, t) ==
  IF c.running_since = Stopped THEN c.usage
  ELSE [c.usage EXCEPT ![c.mode] = @ + (t - c.running_since)]

pause(c, t) == [c EXCEPT !.usage = snapshot(c, t), !.running_since = Stopped]

resume(c, t) == IF c.running_since = Stopped THEN [c EXCEPT !.running_since = t] ELSE c

\* Mutant of set_mode: the interval before the change goes to the new mode.
SetModeFirst(c, m, t) == [c EXCEPT !.mode = m]

set_mode(c, m, t) ==
  [c EXCEPT !.usage = snapshot(c, t),
            !.running_since = IF @ = Stopped THEN Stopped ELSE t,
            !.mode = m]

\* Mutant of reap: the descendants of the child are forgotten.
ReapOwn(c, child, t) == [c EXCEPT !.children = Add(@, snapshot(child, t))]

reap(c, child, t) ==
  [c EXCEPT !.children = Add(Add(@, snapshot(child, t)), child.children)]

-----------------------------------------------------------------------------
(* The clocks of all tasks, as the process operations move them.            *)

Enter(cs, pid, t) == [cs EXCEPT ![pid] = set_mode(@, "Kernel", t)]

\* A task that goes on in its program returns to user mode.
Leave(cs, pid, t) ==
  IF at'[pid] = "user" THEN [cs EXCEPT ![pid] = set_mode(@, "User", t)] ELSE cs

SwitchClocks(cs, old, new, t) ==
  [[cs EXCEPT ![old] = pause(@, t)] EXCEPT ![new] = resume(@, t)]

\* pause, hlt for `idle`, with an interrupt handler at its end, then
\* resume_cpu_accounting.
IdleClocks(cs, pid, t, idle) ==
  LET halted == [cs EXCEPT ![pid] = pause(@, t)]
      woken  == [halted EXCEPT ![pid] = set_mode(set_mode(@, "Kernel", t + idle),
                                                 "Kernel", t + idle)]
  IN  IF sched.state[pid] = "Zombie" THEN woken
      ELSE [woken EXCEPT ![pid] = resume(@, t + idle)]

\* What the history adds for the task on the processor.
Spend(mode, time) ==
  IF sched.state[onCpu] = "Zombie" THEN spent
  ELSE [spent EXCEPT ![onCpu][mode] = @ + time]

Mode == IF at[onCpu] = "user" THEN "User" ELSE "Kernel"

TimeInit ==
  /\ Init
  /\ now = 1
  /\ cpu = [p \in Pid |-> IF p # ROOT_PID THEN NewClock
                          ELSE [NewClock EXCEPT !.running_since = 1, !.mode = Mode]]
  /\ spent = [p \in Pid \union {None} |-> NoUsage]

\* The task on the processor executes.
Execute ==
  /\ machine = "up"
  /\ now < MaxNow
  /\ now' = now + 1
  /\ spent' = Spend(Mode, 1)
  /\ UNCHANGED <<vars, cpu>>

\* An interrupt outside the kernel (KernelModeGuard).
irq0_handler(time) ==
  LET t == now + time
  IN  /\ machine = "up"
      /\ at[onCpu] \in {"user", "shell"}
      /\ t <= MaxNow
      /\ now' = t
      /\ cpu' = [cpu EXCEPT ![onCpu] = set_mode(set_mode(@, "Kernel", now), @.mode, t)]
      /\ spent' = Spend("Kernel", time)
      /\ UNCHANGED vars

\* A call, fault or wait of the current task that spends `time` in the kernel
\* before it takes effect, with `settled` the clocks after its effect.
InKernel(time, settled) ==
  /\ now + time <= MaxNow
  /\ now' = now + time
  /\ cpu' = Leave(settled, onCpu', now + time)

Entered == Enter(cpu, sched.CURRENT_PID, now)

Fork(time) ==
  /\ clone_from_syscall \/ fork_execve
  /\ InKernel(time, SwitchClocks([Entered EXCEPT ![NEXT_PID] = NewClock],
                                 sched.CURRENT_PID, NEXT_PID, now + time))
  /\ spent' = Spend("Kernel", time)

Exec(time) ==
  /\ execve_succeeds
  /\ InKernel(time, Entered)
  /\ spent' = Spend("Kernel", time)

\* sys_exit settles in set_task_state, the fault handlers in the switch or,
\* when there is no task to switch to, in schedule_on.
Die(time) ==
  LET stopped == [Entered EXCEPT ![sched.CURRENT_PID] = pause(@, now + time)]
  IN  /\ page_fault_handler \/ \E status \in ExitStatus : sys_exit(status)
      /\ InKernel(time, IF machine' # "up" THEN stopped
                        ELSE SwitchClocks(stopped, sched.CURRENT_PID, onCpu', now + time))
      /\ spent' = Spend("Kernel", time)

Kill(time) ==
  /\ \E target \in Pid :
       /\ sys_kill(target) \/ (ctrl_c /\ target = sched.CURRENT_PID)
       /\ InKernel(time, [Entered EXCEPT ![target] = pause(@, now + time)])
  /\ spent' = Spend("Kernel", time)

Idle(time, idle) ==
  /\ terminal_read_idles
  /\ now + time + idle <= MaxNow
  /\ now' = now + time + idle
  /\ cpu' = Leave(IdleClocks(Entered, sched.CURRENT_PID, now + time, idle), onCpu,
                  now + time + idle)
  /\ spent' = Spend("Kernel", time)

Wait(time, idle) ==
  /\ \E want \in Pid \union {None} : wait_for_child(want)
  /\ LET gone == Present(sched) \ Present(sched')
         pid  == sched.CURRENT_PID
         t    == now + time
     IN  IF gone # {}
         THEN LET child == Max(gone)
              IN  /\ InKernel(time, [Entered EXCEPT ![pid] = reap(@, cpu[child], t),
                                                    ![child] = NewClock])
                  /\ spent' = [Spend("Kernel", time) EXCEPT
                                 ![None] = Add(@, spent[child]), ![child] = NoUsage]
         ELSE /\ t + idle <= MaxNow
              /\ now' = t + idle
              /\ cpu' = Leave(IF at'[onCpu] = "wait"
                              THEN IdleClocks(Entered, pid, t, idle) ELSE Entered,
                              onCpu, t + idle)
              /\ at'[onCpu] # "wait" => idle = 0
              /\ spent' = Spend("Kernel", time)

\* Power goes off, or is off.
End ==
  /\ terminate_root_process \/ sys_shutdown \/ Off
  /\ UNCHANGED <<cpu, now, spent>>

TimeNext ==
  \/ Execute \/ End
  \/ \E time \in 0 .. 1 :
       \/ irq0_handler(time) \/ Fork(time) \/ Exec(time) \/ Die(time) \/ Kill(time)
       \/ \E idle \in 0 .. 1 : Idle(time, idle) \/ Wait(time, idle)

TimeSpec == TimeInit /\ [][TimeNext]_timeVars

-----------------------------------------------------------------------------
Shown == [p \in Pid |-> snapshot(cpu[p], now)]

\* "snapshots include the current interval without double-counting it": what
\* /proc shows for a task is what it executed, in each mode, to the nanosecond,
\* across calls, interrupts, switches and idle waits.
ShowsWhatWasSpent ==
  machine = "up" => \A p \in Present(sched) : Shown[p] = spent[p]

\* No time is lost or counted twice when children are reaped: what the tasks in
\* the list show as their own and as their children's time is all that was ever
\* executed.
TimeConserved ==
  machine = "up" => \A m \in TaskMode :
    MapThenSumSet(LAMBDA p : Shown[p][m] + cpu[p].children[m], Present(sched))
      = MapThenSumSet(LAMBDA p : spent[p][m], Pid \union {None})
==============================================================================
