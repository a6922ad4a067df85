---------------------------- MODULE ProcessProofs ----------------------------
(***************************************************************************)
(* Proofs about Process: the type invariant and the safety properties of   *)
(* the scheduler for every value of MaxPid, and the line of descent of the *)
(* system without fatal signals.                                           *)
(***************************************************************************)
EXTENDS Process, TLAPS, WellFoundedInduction

-----------------------------------------------------------------------------
(* Facts about one scheduler state.                                         *)

\* The task list is what TypeOK says of it.
ListOK(s) ==
  /\ s \in Schedulers
  /\ \A i, j \in DOMAIN s.tasks : i < j => s.tasks[i] < s.tasks[j]
  /\ \A p \in Pid : p \in Present(s) <=> s.state[p] # "Free"

\* The scheduler believes that `cpu` runs.
Believes(s, cpu) ==
  /\ s.CURRENT_PID = cpu
  /\ cpu \in Present(s)
  /\ s.current_index # None =>
        /\ s.current_index \in DOMAIN s.tasks
        /\ s.tasks[s.current_index] = cpu
  /\ s.core \in {None, cpu}

\* A non-empty set of naturals has a least element, which Min chooses.
LEMMA MinOfNats ==
  ASSUME NEW S \in SUBSET Nat, S # {}
  PROVE  Min(S) \in S /\ \A y \in S : Min(S) <= y
<1>1. PICK x \in S : \A y \in S : ~(<<y, x>> \in OpToRel(<, Nat))
  BY Zenon, NatLessThanWellFounded, WFMin
<1>2. ASSUME NEW y \in S, y < x PROVE FALSE
  <2>1. <<y, x>> \in OpToRel(<, Nat)
    BY <1>2 DEF OpToRel
  <2> QED
    BY Zenon, <1>1, <2>1
<1>3. \A y \in S : x <= y
  BY <1>2
<1> QED
  BY Zenon, <1>3 DEF Min

\* Position finds the place of a task, and None only if there is none.
LEMMA PositionFinds ==
  ASSUME NEW s, s \in Schedulers, NEW pid
  PROVE  /\ pid \in Present(s) => /\ Position(s, pid) \in DOMAIN s.tasks
                                  /\ s.tasks[Position(s, pid)] = pid
         /\ pid \notin Present(s) => Position(s, pid) = None
<1> DEFINE found == {i \in DOMAIN s.tasks : s.tasks[i] = pid}
<1>1. found \in SUBSET Nat
  BY DEF Schedulers
<1>2. found # {} <=> pid \in Present(s)
  BY DEF Present
<1>3. found # {} => Min(found) \in found
  BY <1>1, MinOfNats
<1> QED
  BY <1>2, <1>3 DEF Position

\* In a sorted list a task has one position.
LEMMA PositionUnique ==
  ASSUME NEW s, ListOK(s), NEW i \in DOMAIN s.tasks, NEW j \in DOMAIN s.tasks,
         s.tasks[i] = s.tasks[j]
  PROVE  i = j
<1>1. s.tasks \in Seq(Pid) /\ Pid \subseteq Nat
  BY MaxPidAssumption DEF ListOK, Schedulers, Pid
<1>2. i \in Nat /\ j \in Nat /\ s.tasks[i] \in Nat /\ s.tasks[j] \in Nat
  BY <1>1
<1> QED
  BY <1>2 DEF ListOK

-----------------------------------------------------------------------------
(* What the scheduler methods preserve.                                     *)

\* A state change keeps the list, and moves no task but `pid`.
LEMMA SetTaskState ==
  ASSUME NEW s, ListOK(s), NEW pid \in Pid, NEW new \in {"Ready", "Zombie"},
         NEW cpu, Believes(s, cpu)
  PROVE  /\ ListOK(set_task_state(s, pid, new))
         /\ Believes(set_task_state(s, pid, new), cpu)
         /\ set_task_state(s, pid, new).tasks = s.tasks
         /\ set_task_state(s, pid, new).running \subseteq s.running
         /\ pid \in Present(s) =>
              set_task_state(s, pid, new).state = [s.state EXCEPT ![pid] = new]
<1> DEFINE r == set_task_state(s, pid, new)
<1>1. CASE pid \notin Present(s)
  BY <1>1 DEF set_task_state
<1>2. CASE pid \in Present(s)
  <2>1. /\ r.tasks = s.tasks
        /\ r.state = [s.state EXCEPT ![pid] = new]
        /\ r.CURRENT_PID = s.CURRENT_PID
        /\ r.current_index \in {None, s.current_index}
        /\ r.core \in {None, s.core}
        /\ r.running \in {s.running, s.running \ {pid}}
        /\ r \in Schedulers
    BY Zenon, <1>2 DEF set_task_state, ListOK, Schedulers, TaskState, None, Pid
  <2>2. Present(r) = Present(s)
    BY <2>1 DEF Present
  <2> QED
    BY <1>2, <2>1, <2>2 DEF ListOK, Believes, Schedulers
<1> QED
  BY <1>1, <1>2

\* The task states after a dispatch, in one function.
DispatchedState(s, old, new) ==
  [p \in Pid |-> IF p = s.tasks[new] THEN "Running"
                 ELSE IF /\ old \in DOMAIN s.tasks /\ p = s.tasks[old]
                         /\ old # new /\ s.state[p] = "Running"
                 THEN "Ready" ELSE s.state[p]]

\* The dispatched task is the one the scheduler then believes in.
LEMMA DispatchRuns ==
  ASSUME NEW s, ListOK(s), NEW old, NEW new \in DOMAIN s.tasks
  PROVE  /\ ListOK(Dispatch(s, old, new))
         /\ Believes(Dispatch(s, old, new), s.tasks[new])
         /\ Dispatch(s, old, new).tasks = s.tasks
         /\ Dispatch(s, old, new).current_index = new
         /\ Dispatch(s, old, new).running = account_switch(s, s.tasks[new])
         /\ Dispatch(s, old, new).state = DispatchedState(s, old, new)
<1> DEFINE r   == Dispatch(s, old, new)
           pid == s.tasks[new]
           st  == IF old \in DOMAIN s.tasks /\ old # new
                     /\ s.state[s.tasks[old]] = "Running"
                  THEN [s.state EXCEPT ![s.tasks[old]] = "Ready"] ELSE s.state
<1>1. /\ s.tasks \in Seq(Pid) /\ new \in Nat \ {0} /\ pid \in Pid
      /\ old \in DOMAIN s.tasks => s.tasks[old] \in Pid
      /\ s.state \in [Pid -> TaskState] /\ s.running \in SUBSET Pid
  BY DEF ListOK, Schedulers
<1>2. /\ st \in [Pid -> TaskState]
      /\ \A p \in Pid : st[p] = "Free" <=> s.state[p] = "Free"
  BY <1>1 DEF TaskState
<1>3. /\ r.tasks = s.tasks
      /\ r.state = [st EXCEPT ![pid] = "Running"]
      /\ r.current_index = new
      /\ r.CURRENT_PID = pid
      /\ r.core = pid
      /\ r.running = account_switch(s, pid)
      /\ DOMAIN r = DOMAIN s
  BY DEF Dispatch, ListOK, Schedulers
<1>4. r \in Schedulers
  <2>1. account_switch(s, pid) \in SUBSET Pid
    BY <1>1 DEF account_switch
  <2>2. [st EXCEPT ![pid] = "Running"] \in [Pid -> TaskState]
    BY Zenon, <1>2 DEF TaskState
  <2> QED
    BY Zenon, <1>1, <2>1, <2>2 DEF Dispatch, ListOK, Schedulers
<1>5. Present(r) = Present(s) /\ pid \in Present(s)
  BY <1>3 DEF Present
<1>6. \A p \in Pid : p \in Present(r) <=> r.state[p] # "Free"
  BY <1>1, <1>2, <1>3, <1>5 DEF ListOK
<1>7. r.state = DispatchedState(s, old, new)
  BY <1>1, <1>2, <1>3 DEF DispatchedState
<1> QED
  BY <1>1, <1>3, <1>4, <1>5, <1>6, <1>7 DEF ListOK, Believes

\* Remainders of numbers below twice the modulus.
LEMMA ModFacts ==
  ASSUME NEW n \in Nat, n # 0, NEW a \in 0 .. (n - 1)
  PROVE  a % n = a /\ (a + n) % n = a
  OBVIOUS

\* A remainder is below the modulus.
LEMMA ModBound ==
  ASSUME NEW n \in Nat, n # 0, NEW a \in Nat
  PROVE  a % n \in 0 .. (n - 1)
  OBVIOUS

\* Round robin finds a runnable task if there is one.
LEMMA RoundRobin ==
  ASSUME NEW s, ListOK(s), NEW cpu, Believes(s, cpu)
  PROVE  /\ NextRunnable(s) # None =>
              /\ NextRunnable(s) \in DOMAIN s.tasks
              /\ s.state[s.tasks[NextRunnable(s)]] \in Runnable
         /\ NextRunnable(s) = None =>
              \A p \in Present(s) : s.state[p] \notin Runnable
<1> DEFINE len     == Len(s.tasks)
           start   == IF s.current_index = None THEN 0 ELSE s.current_index % len
           slot(o) == 1 + ((start + o) % len)
           offsets == {o \in 0 .. (len - 1) : s.state[s.tasks[slot(o)]] \in Runnable}
<1>1. /\ s.tasks \in Seq(Pid) /\ len \in Nat /\ DOMAIN s.tasks = 1 .. len
      /\ len # 0 /\ s.current_index \in Nat
  BY DEF ListOK, Schedulers, Believes, Present
<1>2. start \in 0 .. (len - 1)
  BY <1>1 DEF None
<1>3. ASSUME NEW o \in 0 .. (len - 1)
      PROVE  slot(o) \in DOMAIN s.tasks
  <2> HIDE DEF start, len
  <2>1. start + o \in Nat /\ len \in Nat /\ len # 0
    BY <1>1, <1>2
  <2>2. (start + o) % len \in 0 .. (len - 1)
    BY ONLY <2>1, ModBound
  <2> QED
    BY <1>1, <2>1, <2>2
<1>4. ASSUME NEW i \in DOMAIN s.tasks
      PROVE  \E o \in 0 .. (len - 1) : slot(o) = i
  <2>1. i - 1 \in 0 .. (len - 1)
    BY <1>1
  <2>2. (i - 1) % len = i - 1 /\ (i - 1 + len) % len = i - 1
    BY Zenon, <1>1, <2>1, ModFacts
  <2> HIDE DEF start, len
  <2>3. CASE i - 1 >= start
    <3>1. i - 1 - start \in 0 .. (len - 1) /\ start + (i - 1 - start) = i - 1
      BY <1>1, <1>2, <2>1, <2>3
    <3>2. slot(i - 1 - start) = i
      BY <1>1, <2>1, <2>2, <3>1
    <3> QED
      BY <3>1, <3>2
  <2>4. CASE i - 1 < start
    <3>1. i - 1 + len - start \in 0 .. (len - 1)
          /\ start + (i - 1 + len - start) = i - 1 + len
      BY <1>1, <1>2, <2>1, <2>4
    <3>2. slot(i - 1 + len - start) = i
      BY <1>1, <2>1, <2>2, <3>1
    <3> QED
      BY <3>1, <3>2
  <2> QED
    BY <1>1, <1>2, <2>1, <2>3, <2>4
<1>5. offsets \in SUBSET Nat
  BY <1>1
<1>6. NextRunnable(s) = IF offsets = {} THEN None ELSE slot(Min(offsets))
  BY DEF NextRunnable
<1>7. CASE offsets # {}
  <2>1. Min(offsets) \in offsets
    BY Zenon, <1>5, <1>7, MinOfNats
  <2>2. NextRunnable(s) = slot(Min(offsets))
    BY Zenon, <1>6, <1>7
  <2> HIDE DEF start, len
  <2>3. /\ slot(Min(offsets)) \in DOMAIN s.tasks
        /\ s.state[s.tasks[slot(Min(offsets))]] \in Runnable
    BY Zenon, <1>3, <2>1
  <2>4. 0 \notin DOMAIN s.tasks
    BY <1>1
  <2> QED
    BY Zenon, <2>2, <2>3, <2>4 DEF None
<1>8. CASE offsets = {}
  <2>1. NextRunnable(s) = None
    BY <1>6, <1>8
  <2>2. \A i \in DOMAIN s.tasks : s.state[s.tasks[i]] \notin Runnable
    BY Zenon, <1>4, <1>8
  <2> QED
    BY <2>1, <2>2 DEF Present
<1> QED
  BY Zenon, <1>7, <1>8

\* Only `cpu` may be Running, and only its account may run.
Alone(s, cpu) ==
  /\ \A p \in Pid : s.state[p] = "Running" => p = cpu
  /\ s.running \subseteq {cpu}

\* The task states after the processor went to `pid`.
SwitchedState(s, pid) ==
  [p \in Pid |-> IF p = pid THEN "Running"
                 ELSE IF s.state[p] = "Running" THEN "Ready" ELSE s.state[p]]

\* A fork hands the processor to the child: the only other task whose state
\* changes is the caller, from Running to Ready.
LEMMA SwitchToReady ==
  ASSUME NEW s, ListOK(s), NEW cpu, Believes(s, cpu), Alone(s, cpu),
         NEW pid \in Present(s), pid # cpu, s.state[pid] \in Runnable
  PROVE  LET r == switch_to_pid(s, pid)
         IN  /\ r.plan = pid
             /\ ListOK(r.sched) /\ Believes(r.sched, pid)
             /\ r.sched.tasks = s.tasks
             /\ r.sched.running = {pid}
             /\ r.sched.state = SwitchedState(s, pid)
<1> DEFINE old == IF s.current_index = None THEN Position(s, s.CURRENT_PID)
                                            ELSE s.current_index
           new == Position(s, pid)
           r   == switch_to_pid(s, pid)
           d   == Dispatch(s, old, new)
<1>1. s \in Schedulers /\ 0 \notin DOMAIN s.tasks /\ cpu \in Pid /\ pid \in Pid
  BY DEF ListOK, Schedulers, Believes, Present
<1>2. old \in DOMAIN s.tasks /\ s.tasks[old] = cpu
  BY <1>1, PositionFinds DEF Believes
<1>3. new \in DOMAIN s.tasks /\ s.tasks[new] = pid
  BY <1>1, PositionFinds
<1>4. old # new
  BY <1>2, <1>3
<1>5. r = [sched |-> d, plan |-> pid]
  BY <1>1, <1>2, <1>3, <1>4 DEF switch_to_pid, None
<1> HIDE DEF old, new
<1> DEFINE to == s.tasks[new]
<1>6. /\ ListOK(d) /\ Believes(d, to) /\ d.tasks = s.tasks
      /\ d.running = account_switch(s, to)
      /\ d.state = DispatchedState(s, old, new)
  <2>1. new \in DOMAIN s.tasks
    BY <1>3
  <2> QED
    BY <2>1, DispatchRuns
<1>7. d.running = {pid}
  BY <1>1, <1>3, <1>6 DEF account_switch, Alone, Believes
<1>8. d.state = SwitchedState(s, pid)
  BY <1>1, <1>2, <1>3, <1>4, <1>6 DEF Alone, DispatchedState, SwitchedState
<1> QED
  BY <1>3, <1>5, <1>6, <1>7, <1>8

\* Death hands the processor to the parent if it is runnable, otherwise to
\* some runnable task; it finds no successor only if there is none.
LEMMA DeathSwitches ==
  ASSUME NEW s, ListOK(s), NEW cpu, Believes(s, cpu), Alone(s, cpu),
         s.state[cpu] = "Zombie", NEW ppid
  PROVE  LET r == SwitchFromDead(s, ppid)
         IN  /\ ListOK(r.sched)
             /\ r.sched.tasks = s.tasks
             /\ r.plan # None =>
                  /\ r.plan \in Present(s) /\ s.state[r.plan] \in Runnable
                  /\ Believes(r.sched, r.plan)
                  /\ r.sched.running = {r.plan}
                  /\ r.sched.state = [s.state EXCEPT ![r.plan] = "Running"]
             /\ r.plan = None =>
                  /\ r.sched.state = s.state
                  /\ \A p \in Present(s) : s.state[p] \notin Runnable
             /\ ppid \in Present(s) /\ s.state[ppid] \in Runnable => r.plan = ppid
<1> DEFINE r == SwitchFromDead(s, ppid)
           direct == switch_to_pid(s, ppid)
<1>1. s \in Schedulers /\ 0 \notin DOMAIN s.tasks /\ cpu \in Pid /\ Present(s) \subseteq Pid
      /\ 0 \notin Pid
  BY MaxPidAssumption DEF ListOK, Schedulers, Believes, Present, Pid
<1>2. CASE ppid \in Present(s) /\ s.state[ppid] \in Runnable
  <2>1. ppid # cpu
    BY <1>2 DEF Runnable
  <2>2. /\ direct.plan = ppid
        /\ ListOK(direct.sched) /\ Believes(direct.sched, ppid)
        /\ direct.sched.tasks = s.tasks
        /\ direct.sched.running = {ppid}
        /\ direct.sched.state = SwitchedState(s, ppid)
    BY <1>2, <2>1, SwitchToReady
  <2>3. direct.sched.state = [s.state EXCEPT ![ppid] = "Running"]
    BY <1>1, <2>2 DEF Alone, Schedulers, SwitchedState
  <2>4. r = direct /\ ppid # None
    BY <1>1, <1>2, <2>2 DEF SwitchFromDead, None
  <2> QED
    BY <1>2, <2>2, <2>3, <2>4
<1>3. CASE ~(ppid \in Present(s) /\ s.state[ppid] \in Runnable)
  <2> DEFINE idx == IF s.current_index = None THEN Position(s, s.CURRENT_PID)
                                              ELSE s.current_index
             s0  == [s EXCEPT !.current_index = idx]
             nxt == NextRunnable(s0)
  <2>1. idx \in DOMAIN s.tasks /\ s.tasks[idx] = cpu /\ idx \in Nat \ {0}
    BY <1>1, PositionFinds DEF Believes, Schedulers
  <2>2. direct = [sched |-> s0, plan |-> None]
    <3>1. ~(Position(s, ppid) # None /\ s.state[ppid] \in Runnable)
      BY <1>1, <1>3, PositionFinds
    <3> QED
      BY <3>1 DEF switch_to_pid
  <2>3. /\ s0.tasks = s.tasks /\ s0.state = s.state /\ s0.current_index = idx
        /\ s0.running = s.running /\ s0.CURRENT_PID = s.CURRENT_PID /\ s0.core = s.core
        /\ s0 \in Schedulers
    BY <1>1, <2>1 DEF Schedulers
  <2>4. Present(s0) = Present(s)
    BY <2>3 DEF Present
  <2>5. ListOK(s0) /\ Believes(s0, cpu)
    BY <2>1, <2>3, <2>4 DEF ListOK, Believes
  <2>6. r = preempt_and_switch(s0)
    BY <2>2 DEF SwitchFromDead
  <2>7. Current(s0) = cpu
    BY <2>1, <2>3 DEF Current
  <2>8. r = [sched |-> schedule_on(s0),
             plan |-> IF Current(schedule_on(s0)) # cpu THEN Current(schedule_on(s0))
                      ELSE None]
    BY <2>1, <2>3, <2>6, <2>7 DEF preempt_and_switch, None
  <2> HIDE DEF s0
  <2>9. CASE nxt = None
    <3>1. schedule_on(s0) = [s0 EXCEPT !.current_index = None, !.core = None,
                                       !.running = s0.running \ {s0.CURRENT_PID}]
      BY <2>9 DEF schedule_on
    <3>2. /\ schedule_on(s0).tasks = s.tasks /\ schedule_on(s0).state = s.state
          /\ schedule_on(s0).current_index = None
          /\ schedule_on(s0) \in Schedulers
      <4>1. s0.running \ {s0.CURRENT_PID} \in SUBSET Pid /\ None \in Nat
        BY <2>3 DEF Schedulers, None
      <4> QED
        BY Zenon, <2>3, <3>1, <4>1 DEF Schedulers
    <3>3. Current(schedule_on(s0)) = None
      BY <1>1, <3>2 DEF Current, None
    <3>4. ListOK(schedule_on(s0))
      BY <3>2, <2>5, <2>3 DEF ListOK, Present
    <3>5. \A p \in Present(s) : s.state[p] \notin Runnable
      BY <2>3, <2>4, <2>5, <2>9, RoundRobin
    <3>6. r.plan = None /\ r.sched = schedule_on(s0)
      BY <2>8, <3>3
    <3> QED
      BY <1>3, <3>2, <3>4, <3>5, <3>6
  <2>10. CASE nxt # None
    <3>1. nxt \in DOMAIN s.tasks /\ s.state[s.tasks[nxt]] \in Runnable
      BY <2>3, <2>5, <2>10, RoundRobin
    <3> DEFINE d == Dispatch(s0, idx, nxt)
               to == s.tasks[nxt]
    <3>2. schedule_on(s0) = d
      BY <2>3, <2>10 DEF schedule_on
    <3> HIDE DEF idx, nxt
    <3>3. /\ ListOK(d) /\ Believes(d, to) /\ d.tasks = s.tasks
          /\ d.current_index = nxt /\ d.running = account_switch(s0, to)
          /\ d.state = DispatchedState(s0, idx, nxt)
      BY <2>3, <2>5, <3>1, DispatchRuns
    <3>4. to \in Present(s) /\ to # cpu /\ to # None
      BY <1>1, <3>1 DEF Present, Runnable, None
    <3>5. Current(d) = to
      BY <3>1, <3>3 DEF Current
    <3>6. r.plan = to /\ r.sched = d
      BY <2>8, <3>2, <3>4, <3>5
    <3>7. d.running = {to}
      BY <2>3, <3>3, <3>4, <1>1 DEF account_switch, Alone, Believes
    <3>8. d.state = [s.state EXCEPT ![to] = "Running"]
      BY <1>1, <2>1, <2>3, <3>3 DEF Schedulers, DispatchedState
    <3> QED
      BY Zenon, <1>3, <3>1, <3>3, <3>4, <3>6, <3>7, <3>8
  <2> QED
    BY <2>9, <2>10
<1> QED
  BY <1>2, <1>3

\* A task with a fresh pid keeps the list sorted.
LEMMA AddTask ==
  ASSUME NEW s, ListOK(s), NEW cpu, Believes(s, cpu), Alone(s, cpu),
         NEW pid \in Pid, \A p \in Present(s) : p < pid
  PROVE  LET r == add_task(s, pid)
         IN  /\ ListOK(r) /\ Believes(r, cpu) /\ Alone(r, cpu)
             /\ Present(r) = Present(s) \union {pid}
             /\ r.state = [s.state EXCEPT ![pid] = "Ready"]
             /\ pid \notin Present(s)
             /\ r.running = s.running
<1> DEFINE r == add_task(s, pid)
<1>1. /\ s \in Schedulers /\ s.tasks \in Seq(Pid) /\ Pid \subseteq Nat
      /\ Present(s) \subseteq Pid /\ cpu \in Present(s)
  BY MaxPidAssumption DEF ListOK, Schedulers, Pid, Present, Believes
<1>2. /\ r.tasks = Append(s.tasks, pid)
      /\ r.state = [s.state EXCEPT ![pid] = "Ready"]
      /\ r.running = s.running /\ r.core = s.core
      /\ r.current_index = s.current_index /\ r.CURRENT_PID = s.CURRENT_PID
  BY <1>1 DEF add_task, Schedulers
<1>3. r \in Schedulers
  <2>1. /\ Append(s.tasks, pid) \in Seq(Pid)
        /\ [s.state EXCEPT ![pid] = "Ready"] \in [Pid -> TaskState]
    BY <1>1 DEF Schedulers, TaskState
  <2> QED
    BY Zenon, <1>1, <2>1 DEF add_task, Schedulers
<1>4. /\ DOMAIN r.tasks = 1 .. (Len(s.tasks) + 1) /\ Len(s.tasks) \in Nat
      /\ DOMAIN s.tasks = 1 .. Len(s.tasks)
      /\ r.tasks[Len(s.tasks) + 1] = pid
      /\ \A i \in DOMAIN s.tasks : r.tasks[i] = s.tasks[i]
  BY <1>1, <1>2
<1>5. Present(r) = Present(s) \union {pid}
  BY <1>4 DEF Present
<1>6. pid \notin Present(s)
  BY <1>1
<1>7. ASSUME NEW i \in DOMAIN r.tasks, NEW j \in DOMAIN r.tasks, i < j
      PROVE  r.tasks[i] < r.tasks[j]
  <2>1. i \in DOMAIN s.tasks
    BY <1>4, <1>7
  <2>2. CASE j = Len(s.tasks) + 1
    BY <1>4, <2>1, <2>2 DEF Present
  <2>3. CASE j # Len(s.tasks) + 1
    BY <1>4, <1>7, <2>1, <2>3 DEF ListOK
  <2> QED
    BY <2>2, <2>3
<1>8. ListOK(r)
  BY <1>1, <1>2, <1>3, <1>5, <1>7 DEF ListOK, Schedulers
<1>9. Believes(r, cpu)
  BY <1>2, <1>4, <1>5 DEF Believes
<1>10. Alone(r, cpu)
  BY <1>1, <1>2 DEF Alone, Schedulers
<1> QED
  BY <1>2, <1>5, <1>6, <1>8, <1>9, <1>10

\* r is s without the task `pid`, while `cpu` runs.
WithoutTask(s, cpu, pid, r) ==
  /\ ListOK(r) /\ Believes(r, cpu) /\ Alone(r, cpu)
  /\ Present(r) = Present(s) \ {pid}
  /\ r.state = [s.state EXCEPT ![pid] = "Free"]
  /\ r.running = s.running

\* Reaping a task other than the running one keeps current_index right.
LEMMA ReapChild ==
  ASSUME NEW s, ListOK(s), NEW cpu, Believes(s, cpu), Alone(s, cpu),
         NEW idx \in DOMAIN s.tasks, s.tasks[idx] # cpu
  PROVE  WithoutTask(s, cpu, s.tasks[idx], reap_zombie_child(s, idx))
<1> DEFINE r   == reap_zombie_child(s, idx)
           pid == s.tasks[idx]
           len == Len(s.tasks)
           tsk == [i \in 1 .. (len - 1) |->
                     IF i < idx THEN s.tasks[i] ELSE s.tasks[i + 1]]
           cur == s.current_index
<1>1. /\ s \in Schedulers /\ s.tasks \in Seq(Pid) /\ Pid \subseteq Nat /\ pid \in Pid
      /\ Present(s) \subseteq Pid /\ cpu \in Present(s) /\ cur \in Nat
      /\ len \in Nat /\ DOMAIN s.tasks = 1 .. len /\ len - 1 \in Nat
  BY MaxPidAssumption DEF ListOK, Schedulers, Pid, Present, Believes
<1>2. /\ r.tasks = tsk
      /\ r.state = [s.state EXCEPT ![pid] = "Free"]
      /\ r.running = s.running \ {pid}
      /\ r.core \in {None, s.core}
      /\ r.current_index = IF cur = None \/ idx > cur THEN cur
                           ELSE IF idx < cur THEN cur - 1 ELSE None
      /\ r.CURRENT_PID = s.CURRENT_PID
  BY <1>1 DEF reap_zombie_child, Schedulers
<1>3. tsk \in Seq(Pid) /\ DOMAIN tsk = 1 .. (len - 1)
  <2>1. tsk \in [1 .. (len - 1) -> Pid]
    BY <1>1
  <2> QED
    BY <1>1, <2>1
<1>4. r \in Schedulers
  <2> DEFINE ix == IF cur = None \/ idx > cur THEN cur
                   ELSE IF idx < cur THEN cur - 1 ELSE None
             st == [s.state EXCEPT ![pid] = "Free"]
             co == IF s.core = pid THEN None ELSE s.core
             ru == s.running \ {pid}
  <2>1. ix \in Nat
    BY <1>1 DEF None
  <2>2. st \in [Pid -> TaskState]
    BY <1>1 DEF Schedulers, TaskState
  <2>3. co \in Pid \union {None} /\ ru \in SUBSET Pid
    BY <1>1 DEF Schedulers
  <2>4. r = [s EXCEPT !.tasks = tsk, !.state = st, !.running = ru, !.core = co,
                      !.current_index = ix]
    BY DEF reap_zombie_child
  <2> HIDE DEF tsk, ix, st, co, ru, r
  <2> QED
    BY Zenon, <1>1, <1>3, <2>1, <2>2, <2>3, <2>4 DEF Schedulers
<1>5. \A i \in 1 .. (len - 1) : tsk[i] = IF i < idx THEN s.tasks[i] ELSE s.tasks[i + 1]
  OBVIOUS
<1> HIDE DEF tsk
<1>6. ASSUME NEW i \in DOMAIN tsk, NEW j \in DOMAIN tsk, i < j
      PROVE  tsk[i] < tsk[j]
  <2>1. /\ i \in 1 .. (len - 1) /\ j \in 1 .. (len - 1) /\ i \in Nat /\ j \in Nat
        /\ idx \in Nat /\ i \in DOMAIN s.tasks /\ j \in DOMAIN s.tasks
        /\ i + 1 \in DOMAIN s.tasks /\ j + 1 \in DOMAIN s.tasks
    BY <1>1, <1>3
  <2>2. CASE j < idx
    <3>1. i < idx
      BY ONLY <1>6, <2>1, <2>2
    <3>2. tsk[i] = s.tasks[i] /\ tsk[j] = s.tasks[j]
      BY ONLY Zenon, <1>5, <2>1, <2>2, <3>1
    <3> QED
      BY <1>6, <2>1, <3>2 DEF ListOK
  <2>3. CASE i < idx /\ ~(j < idx)
    <3>1. i < j + 1
      BY ONLY <1>6, <2>1
    <3>2. tsk[i] = s.tasks[i] /\ tsk[j] = s.tasks[j + 1]
      BY ONLY Zenon, <1>5, <2>1, <2>3
    <3> QED
      BY <2>1, <3>1, <3>2 DEF ListOK
  <2>4. CASE ~(i < idx)
    <3>1. i + 1 < j + 1 /\ ~(j < idx)
      BY <1>6, <2>1, <2>4
    <3>2. tsk[i] = s.tasks[i + 1] /\ tsk[j] = s.tasks[j + 1]
      BY <1>5, <2>1, <2>4, <3>1
    <3> QED
      BY <2>1, <3>1, <3>2 DEF ListOK
  <2> QED
    BY <1>6, <2>1, <2>2, <2>3, <2>4
<1>7. Present(r) = Present(s) \ {pid}
  <2>1. ASSUME NEW i \in DOMAIN tsk
        PROVE  tsk[i] \in Present(s) \ {pid}
    <3>1. PICK k \in DOMAIN s.tasks : k # idx /\ tsk[i] = s.tasks[k]
      <4>1. i \in DOMAIN s.tasks /\ i + 1 \in DOMAIN s.tasks /\ i \in 1 .. (len - 1)
        BY <1>1, <1>3
      <4>2. CASE i < idx
        BY <1>1, <1>5, <4>1, <4>2
      <4>3. CASE ~(i < idx)
        <5>1. i + 1 # idx /\ tsk[i] = s.tasks[i + 1]
          BY <1>1, <1>5, <4>1, <4>3
        <5> QED
          BY <4>1, <5>1
      <4> QED
        BY <4>2, <4>3
    <3> QED
      BY <3>1, PositionUnique DEF Present
  <2>2. ASSUME NEW k \in DOMAIN s.tasks, s.tasks[k] # pid
        PROVE  \E i \in DOMAIN tsk : tsk[i] = s.tasks[k]
    <3>1. CASE k < idx
      BY <1>1, <1>3, <1>5, <3>1
    <3>2. CASE k > idx
      <4>1. k - 1 \in DOMAIN tsk /\ tsk[k - 1] = s.tasks[k]
        BY <1>1, <1>3, <1>5, <3>2
      <4> QED
        BY <4>1
    <3> QED
      BY <1>1, <2>2, <3>1, <3>2
  <2> QED
    BY <1>2, <2>1, <2>2 DEF Present
<1>8. ListOK(r)
  BY <1>1, <1>2, <1>4, <1>6, <1>7 DEF ListOK, Schedulers
<1>9. Believes(r, cpu)
  <2>1. r.current_index # None => /\ r.current_index \in DOMAIN tsk
                                  /\ tsk[r.current_index] = cpu
    <3> SUFFICES ASSUME cur # None
                 PROVE  /\ r.current_index \in DOMAIN tsk
                        /\ tsk[r.current_index] = cpu
      BY <1>2
    <3>1. cur \in 1 .. len /\ s.tasks[cur] = cpu /\ cur # idx /\ idx \in 1 .. len
      BY <1>1 DEF Believes
    <3>2. CASE cur < idx
      <4>1. r.current_index = cur /\ cur \in 1 .. (len - 1)
        BY <1>1, <1>2, <3>1, <3>2
      <4>2. tsk[cur] = s.tasks[cur]
        BY ONLY <1>5, <3>2, <4>1
      <4> QED
        BY <1>3, <3>1, <4>1, <4>2
    <3>3. CASE cur > idx
      <4>1. r.current_index = cur - 1 /\ cur - 1 \in 1 .. (len - 1)
        BY <1>1, <1>2, <3>1, <3>3
      <4>2. tsk[cur - 1] = s.tasks[cur]
        BY <1>1, <1>5, <3>1, <3>3, <4>1
      <4> QED
        BY <1>3, <3>1, <4>1, <4>2
    <3> QED
      BY <1>1, <3>1, <3>2, <3>3
  <2> QED
    BY <1>1, <1>2, <1>7, <2>1 DEF Believes
<1>10. Alone(r, cpu) /\ r.running = s.running
  BY <1>1, <1>2 DEF Alone, Schedulers
<1> QED
  BY <1>2, <1>7, <1>8, <1>9, <1>10 DEF WithoutTask

-----------------------------------------------------------------------------
(* The inductive invariant.                                                 *)

Types ==
  /\ parent \in [Pid -> Pid \union {None}]
  /\ userland \in [Pid -> BOOLEAN]
  /\ exit_code \in [Pid -> ExitStatus]
  /\ at \in [Pid -> ControlPoint]
  /\ waitFor \in [Pid -> Pid \union {None}]
  /\ NEXT_PID \in 3 .. (MaxPid + 1)
  /\ onCpu \in Pid
  /\ machine \in {"up", "off", "halted"}

\* The scheduler is right about the running task, and charges it alone.
Good(s, cpu) ==
  /\ ListOK(s) /\ Believes(s, cpu) /\ Alone(s, cpu)
  /\ cpu \in s.running <=> s.state[cpu] # "Zombie"

\* Beside the properties: pids still to be given out are above all pids in the
\* list, nobody is its own parent, and a task in its last hlt loop is a zombie.
IInv ==
  /\ Types
  /\ ListOK(sched)
  /\ \A p \in Present(sched) : p < NEXT_PID
  /\ \A p \in Pid : parent[p] # p
  /\ \A p \in Pid : at[p] = "dead" => sched.state[p] = "Zombie"
  /\ machine = "up" => Good(sched, onCpu) /\ at[onCpu] # "dead"
  /\ WaiterHasChild
  /\ HaltsOnlyWithoutWork

\* The invariant holds after register_boot_processes.
LEMMA InitIInv == Init => IInv
<1> SUFFICES ASSUME Init PROVE IInv
  OBVIOUS
<1>1. {1, 2} \subseteq Pid /\ Pid \subseteq Nat /\ 0 \notin Pid
  BY MaxPidAssumption DEF Pid
<1>2. /\ sched.tasks = <<1, 2>> /\ sched.current_index = 0
      /\ sched.CURRENT_PID = 1 /\ sched.core = 0 /\ sched.running = {1}
      /\ sched.state = [p \in Pid |-> CASE p = 1 -> "Running" [] p = 2 -> "Ready"
                                        [] OTHER -> "Free"]
      /\ DOMAIN sched.tasks = {1, 2} /\ sched.tasks[1] = 1 /\ sched.tasks[2] = 2
  BY DEF Init, ROOT_PID, KERNEL_IO_TASK_PID, None
<1>3. Present(sched) = {1, 2}
  BY <1>2 DEF Present
<1>4. sched \in Schedulers
  <2>1. <<1, 2>> \in Seq(Pid)
    BY <1>1
  <2>2. sched.state \in [Pid -> TaskState]
    BY <1>2 DEF TaskState
  <2> QED
    BY <1>1, <2>1, <2>2 DEF Init, Schedulers, ROOT_PID, KERNEL_IO_TASK_PID, None
<1>5. ListOK(sched)
  BY <1>1, <1>2, <1>3, <1>4 DEF ListOK
<1>6. Good(sched, 1)
  BY <1>1, <1>2, <1>3, <1>5 DEF Good, Believes, Alone, None
<1>7. /\ at \in [Pid -> ControlPoint] /\ \A p \in Pid : at[p] \notin {"dead", "wait"}
  BY DEF Init, ControlPoint
<1>8. Types
  BY <1>1, <1>7, MaxPidAssumption DEF Init, Types, ExitStatus, None, ROOT_PID
<1>9. /\ onCpu = 1 /\ NEXT_PID = 3 /\ machine = "up"
      /\ \A p \in Pid : parent[p] # p
  BY <1>1 DEF Init, ROOT_PID, None
<1> QED
  BY <1>1, <1>3, <1>5, <1>6, <1>7, <1>8, <1>9
     DEF IInv, WaiterHasChild, HaltsOnlyWithoutWork

\* What the invariant says while the machine is up.
LEMMA UpFacts ==
  ASSUME IInv, machine = "up"
  PROVE  /\ Types /\ ListOK(sched) /\ Believes(sched, onCpu) /\ Alone(sched, onCpu)
         /\ sched.CURRENT_PID = onCpu /\ onCpu \in Present(sched) /\ onCpu \in Pid
         /\ Present(sched) \subseteq Pid /\ 0 \notin Pid /\ Pid \subseteq Nat
         /\ sched.state \in [Pid -> TaskState]
         /\ \A p \in Present(sched) : p < NEXT_PID
  BY MaxPidAssumption DEF IInv, Good, Believes, ListOK, Schedulers, Present, Pid

\* What fork does, in each of its two forms.
LEMMA ForkEffect ==
  ASSUME IInv, machine = "up", NEW cu \in BOOLEAN,
         NEW ca \in {"user", "entry"}, NEW pa \in {"user", "wait"}, NEW w,
         w = IF pa = "wait" THEN NEXT_PID ELSE None,
         fork_current_task_with(cu, ca, pa, w)
  PROVE  LET child == NEXT_PID
         IN  /\ child \in Pid /\ child \notin Present(sched) /\ child # onCpu
             /\ NEXT_PID' = NEXT_PID + 1
             /\ parent' = [parent EXCEPT ![child] = onCpu]
             /\ userland' = [userland EXCEPT ![child] = cu]
             /\ exit_code' = [exit_code EXCEPT ![child] = exit_code[onCpu]]
             /\ at' = [at EXCEPT ![child] = ca, ![onCpu] = pa]
             /\ waitFor' = [waitFor EXCEPT ![onCpu] = w]
             /\ onCpu' = child /\ machine' = "up"
             /\ Present(sched') = Present(sched) \union {child}
             /\ Good(sched', child)
             /\ \A p \in Pid : sched'.state[p] = "Zombie" <=> sched.state[p] = "Zombie"
             /\ sched'.state[child] = "Running"
<1> DEFINE child == NEXT_PID
           s     == add_task(sched, child)
           r     == switch_to_pid(s, child)
<1>1. /\ Types /\ ListOK(sched) /\ Believes(sched, onCpu) /\ Alone(sched, onCpu)
      /\ sched.CURRENT_PID = onCpu /\ onCpu \in Present(sched) /\ onCpu \in Pid
      /\ Present(sched) \subseteq Pid /\ 0 \notin Pid /\ Pid \subseteq Nat
      /\ sched.state \in [Pid -> TaskState]
      /\ \A p \in Present(sched) : p < NEXT_PID
  BY UpFacts
<1>2. /\ child \in Pid
      /\ NEXT_PID' = NEXT_PID + 1
      /\ parent' = [parent EXCEPT ![child] = onCpu]
      /\ userland' = [userland EXCEPT ![child] = cu]
      /\ exit_code' = [exit_code EXCEPT ![child] = exit_code[onCpu]]
      /\ at' = [at EXCEPT ![child] = ca, ![onCpu] = pa]
      /\ waitFor' = [waitFor EXCEPT ![onCpu] = w]
      /\ sched' = r.sched
      /\ onCpu' = IF r.plan # None THEN r.plan ELSE onCpu
      /\ machine' = "up"
  BY <1>1, MaxPidAssumption DEF fork_current_task_with, Types, Pid
<1>3. /\ ListOK(s) /\ Believes(s, onCpu) /\ Alone(s, onCpu)
      /\ Present(s) = Present(sched) \union {child}
      /\ s.state = [sched.state EXCEPT ![child] = "Ready"]
      /\ child \notin Present(sched)
  BY <1>1, <1>2, AddTask
<1>4. child # onCpu /\ child \in Present(s) /\ s.state[child] \in Runnable
  BY <1>1, <1>2, <1>3 DEF Runnable
<1> HIDE DEF s, child
<1>5. /\ r.plan = child /\ ListOK(r.sched) /\ Believes(r.sched, child)
      /\ r.sched.tasks = s.tasks /\ r.sched.running = {child}
      /\ r.sched.state = SwitchedState(s, child)
  <2>1. ListOK(s) /\ Believes(s, onCpu) /\ Alone(s, onCpu)
    BY <1>3
  <2> QED
    BY ONLY <2>1, <1>4, SwitchToReady
<1>6. onCpu' = child /\ Present(sched') = Present(sched) \union {child}
  <2>1. Present(sched') = Present(s)
    BY <1>2, <1>5 DEF Present
  <2> QED
    BY <1>1, <1>2, <1>3, <1>5, <2>1 DEF None
<1>7. Good(sched', onCpu')
  <2>1. sched'.state[child] = "Running"
        /\ \A p \in Pid : sched'.state[p] = "Running" => p = child
    BY <1>2, <1>5 DEF SwitchedState
  <2> QED
    BY <1>2, <1>5, <1>6, <2>1 DEF Good, Alone
<1>8. sched.state[child] = "Free"
  BY <1>1, <1>2, <1>3 DEF ListOK
<1>9. sched'.state = SwitchedState(s, child)
  BY <1>2, <1>5
<1>10. \A p \in Pid : sched'.state[p] = "Zombie" <=> sched.state[p] = "Zombie"
  BY <1>1, <1>2, <1>3, <1>8, <1>9 DEF SwitchedState
<1>11. sched'.state[child] = "Running"
  BY <1>2, <1>9 DEF SwitchedState
<1> QED
  BY <1>2, <1>3, <1>4, <1>6, <1>7, <1>10, <1>11 DEF child

\* Fork keeps the invariant.
LEMMA ForkIInv ==
  ASSUME IInv, machine = "up", NEW cu \in BOOLEAN,
         NEW ca \in {"user", "entry"}, NEW pa \in {"user", "wait"}, NEW w,
         w = IF pa = "wait" THEN NEXT_PID ELSE None,
         fork_current_task_with(cu, ca, pa, w)
  PROVE  IInv' /\ ZombieStep
<1> DEFINE child == NEXT_PID
<1>1. /\ Types /\ ListOK(sched) /\ Believes(sched, onCpu) /\ Alone(sched, onCpu)
      /\ sched.CURRENT_PID = onCpu /\ onCpu \in Present(sched) /\ onCpu \in Pid
      /\ Present(sched) \subseteq Pid /\ 0 \notin Pid /\ Pid \subseteq Nat
      /\ sched.state \in [Pid -> TaskState]
      /\ \A p \in Present(sched) : p < NEXT_PID
  BY UpFacts
<1>2. /\ child \in Pid /\ child \notin Present(sched) /\ child # onCpu
      /\ NEXT_PID' = NEXT_PID + 1
      /\ parent' = [parent EXCEPT ![child] = onCpu]
      /\ userland' = [userland EXCEPT ![child] = cu]
      /\ exit_code' = [exit_code EXCEPT ![child] = exit_code[onCpu]]
      /\ at' = [at EXCEPT ![child] = ca, ![onCpu] = pa]
      /\ waitFor' = [waitFor EXCEPT ![onCpu] = w]
      /\ onCpu' = child /\ machine' = "up"
      /\ Present(sched') = Present(sched) \union {child}
      /\ Good(sched', child)
      /\ \A p \in Pid : sched'.state[p] = "Zombie" <=> sched.state[p] = "Zombie"
      /\ sched'.state[child] = "Running"
  BY ForkEffect
<1>3. Types'
  <2>1. w \in Pid \union {None} /\ NEXT_PID' \in 3 .. (MaxPid + 1)
    BY <1>1, <1>2, MaxPidAssumption DEF Types, Pid, child
  <2>2. ca \in ControlPoint /\ pa \in ControlPoint
    BY DEF ControlPoint
  <2> QED
    BY <1>1, <1>2, <2>1, <2>2 DEF Types
<1>4. \A p \in Present(sched') : p < NEXT_PID'
  BY <1>1, <1>2, <1>3
<1> HIDE DEF child
<1>5. \A p \in Pid : at'[p] = "dead" => at[p] = "dead" /\ p # child /\ p # onCpu
  BY <1>1, <1>2 DEF Types
<1>6. WaiterHasChild'
  <2> SUFFICES ASSUME NEW p \in Present(sched'), at'[p] = "wait"
               PROVE  \E c \in Present(sched') : parent'[c] = p /\ waitFor'[p] \in {None, c}
    BY DEF WaiterHasChild
  <2>1. p # child /\ p \in Present(sched)
    BY <1>1, <1>2 DEF Types
  <2>2. CASE p = onCpu
    BY <1>1, <1>2, <2>2 DEF Types, child
  <2>3. CASE p # onCpu
    <3>1. PICK c \in Present(sched) : parent[c] = p /\ waitFor[p] \in {None, c}
      BY <1>1, <1>2, <2>1, <2>3 DEF IInv, WaiterHasChild, Types
    <3>2. parent'[c] = p /\ waitFor'[p] = waitFor[p]
      BY <1>1, <1>2, <2>1, <2>3, <3>1 DEF Types
    <3> QED
      BY <1>2, <3>1, <3>2
  <2> QED
    BY <2>2, <2>3
<1>7. \A p \in Pid : parent'[p] # p
  BY Zenon, <1>1, <1>2 DEF IInv, Types
<1>8. ListOK(sched') /\ Good(sched', onCpu') /\ at'[onCpu'] # "dead"
  BY Zenon, <1>2, <1>5 DEF Good
<1>9. \A p \in Pid : at'[p] = "dead" => sched'.state[p] = "Zombie"
  BY <1>2, <1>5 DEF IInv
<1>10. ZombieStep /\ HaltsOnlyWithoutWork'
  BY <1>2 DEF ZombieStep, HaltsOnlyWithoutWork
<1> QED
  BY <1>3, <1>4, <1>6, <1>7, <1>8, <1>9, <1>10 DEF IInv

\* The part that exit and the fault handlers share, once they have made the
\* task a zombie in `s`.
Dying(s, status) ==
  /\ machine = "up"
  /\ ListOK(s) /\ Believes(s, onCpu) /\ Alone(s, onCpu)
  /\ s.state = [sched.state EXCEPT ![onCpu] = "Zombie"] /\ s.tasks = sched.tasks
  /\ sched' = SwitchFromDead(s, parent[onCpu]).sched
  /\ FollowPlan(SwitchFromDead(s, parent[onCpu]).plan)
  /\ exit_code' = [exit_code EXCEPT ![onCpu] = status]
  /\ at' = [at EXCEPT ![onCpu] = "dead"]
  /\ UNCHANGED <<parent, userland, waitFor, NEXT_PID>>

\* What sys_exit and the fault handlers have in common keeps the invariant: the
\* task becomes a zombie, and the processor goes to its parent, to the next
\* runnable task, or nowhere.
LEMMA DeathIInv ==
  ASSUME IInv, NEW s, NEW status \in ExitStatus, Dying(s, status)
  PROVE  IInv' /\ ZombieStep
<1> DEFINE r == SwitchFromDead(s, parent[onCpu])
<1>0. /\ machine = "up"
      /\ ListOK(s) /\ Believes(s, onCpu) /\ Alone(s, onCpu)
      /\ s.state = [sched.state EXCEPT ![onCpu] = "Zombie"] /\ s.tasks = sched.tasks
      /\ sched' = r.sched /\ FollowPlan(r.plan)
      /\ exit_code' = [exit_code EXCEPT ![onCpu] = status]
      /\ at' = [at EXCEPT ![onCpu] = "dead"]
      /\ UNCHANGED <<parent, userland, waitFor, NEXT_PID>>
  BY Zenon DEF Dying
<1>1. /\ Types /\ ListOK(sched) /\ Believes(sched, onCpu) /\ Alone(sched, onCpu)
      /\ sched.CURRENT_PID = onCpu /\ onCpu \in Present(sched) /\ onCpu \in Pid
      /\ Present(sched) \subseteq Pid /\ 0 \notin Pid /\ Pid \subseteq Nat
      /\ sched.state \in [Pid -> TaskState]
      /\ \A p \in Present(sched) : p < NEXT_PID
  BY <1>0, UpFacts
<1>2. s.state[onCpu] = "Zombie"
  BY <1>0, <1>1
<1>3. /\ ListOK(r.sched) /\ r.sched.tasks = s.tasks
      /\ r.plan # None => /\ r.plan \in Present(s) /\ s.state[r.plan] \in Runnable
                          /\ Believes(r.sched, r.plan)
                          /\ r.sched.running = {r.plan}
                          /\ r.sched.state = [s.state EXCEPT ![r.plan] = "Running"]
      /\ r.plan = None => /\ r.sched.state = s.state
                          /\ \A p \in Present(s) : s.state[p] \notin Runnable
  <2>1. ListOK(s) /\ Believes(s, onCpu) /\ Alone(s, onCpu)
    BY Zenon, <1>0
  <2> QED
    BY ONLY Zenon, <1>2, <2>1, DeathSwitches DEF r
<1>4. Present(sched') = Present(sched) /\ Present(s) = Present(sched)
  <2>1. sched'.tasks = sched.tasks /\ s.tasks = sched.tasks
    BY Zenon, <1>0, <1>3
  <2> QED
    BY ONLY <2>1 DEF Present
<1> HIDE DEF r
<1>5. /\ sched' = r.sched
      /\ onCpu' = IF r.plan # None THEN r.plan ELSE onCpu
      /\ machine' = IF r.plan # None THEN "up" ELSE "halted"
  BY Zenon, <1>0 DEF FollowPlan
<1>6. onCpu' \in Pid
  BY Zenon, <1>1, <1>3, <1>4, <1>5
<1>7. Types'
  BY <1>0, <1>1, <1>5, <1>6 DEF Types, ControlPoint
<1>8. \A p \in Pid : at'[p] = "dead" => sched.state[p] = "Zombie" \/ p = onCpu
  BY <1>0, <1>1 DEF IInv, Types
<1>9. WaiterHasChild'
  <2>1. \A p \in Pid : at'[p] = "wait" => at[p] = "wait"
    BY Zenon, <1>0, <1>1 DEF Types
  <2> QED
    BY Zenon, <1>0, <1>1, <1>4, <2>1 DEF IInv, WaiterHasChild
<1>10. CASE r.plan # None
  <2>1. /\ onCpu' = r.plan /\ machine' = "up" /\ r.plan # onCpu
        /\ sched'.state = [s.state EXCEPT ![r.plan] = "Running"]
        /\ s.state[r.plan] # "Zombie" /\ r.plan \in Pid
    BY Zenon, <1>0, <1>1, <1>2, <1>3, <1>4, <1>5, <1>10 DEF Runnable
  <2>2. \A p \in Pid : sched.state[p] = "Zombie" => sched'.state[p] = "Zombie"
    BY ONLY <1>0, <1>1, <2>1
  <2>3. sched'.state[onCpu] = "Zombie" /\ sched'.state[r.plan] = "Running"
    BY ONLY <1>0, <1>1, <2>1
  <2>4. \A p \in Pid : at'[p] = "dead" => sched'.state[p] = "Zombie"
    BY Zenon, <1>8, <2>2, <2>3
  <2>5. \A p \in Pid : sched'.state[p] = "Running" => p = r.plan
    BY ONLY <1>0, <1>1, <1>2, <2>1 DEF Alone
  <2>6. Good(sched', onCpu')
    BY Zenon, <1>3, <1>5, <1>10, <2>1, <2>3, <2>5 DEF Good, Alone
  <2>7. at'[onCpu'] # "dead"
    BY Zenon, <2>1, <2>3, <2>4
  <2>8. ZombieStep
    BY <2>1, <2>2, <2>3 DEF ZombieStep
  <2> QED
    BY Zenon, <1>0, <1>1, <1>3, <1>4, <1>5, <1>7, <1>9, <2>1, <2>4, <2>6, <2>7, <2>8
       DEF IInv, HaltsOnlyWithoutWork
<1>11. CASE r.plan = None
  <2>1. onCpu' = onCpu /\ machine' = "halted" /\ sched'.state = s.state
    BY Zenon, <1>3, <1>5, <1>11
  <2>2. \A p \in Pid : sched.state[p] = "Zombie" => sched'.state[p] = "Zombie"
    BY ONLY <1>0, <1>1, <2>1
  <2>3. \A p \in Pid : at'[p] = "dead" => sched'.state[p] = "Zombie"
    BY ONLY <1>0, <1>1, <1>8, <2>1
  <2>4. HaltsOnlyWithoutWork'
    BY ONLY <1>3, <1>4, <1>11, <2>1 DEF HaltsOnlyWithoutWork
  <2> QED
    BY Zenon, <1>0, <1>1, <1>3, <1>4, <1>5, <1>7, <1>9, <2>1, <2>2, <2>3, <2>4 DEF IInv, ZombieStep
<1> QED
  BY <1>10, <1>11

\* Nothing changes.
LEMMA UnchangedIInv ==
  ASSUME IInv, UNCHANGED vars
  PROVE  IInv' /\ ZombieStep
<1>1. /\ sched' = sched /\ parent' = parent /\ userland' = userland
      /\ exit_code' = exit_code /\ at' = at /\ waitFor' = waitFor
      /\ NEXT_PID' = NEXT_PID /\ onCpu' = onCpu /\ machine' = machine
  BY DEF vars
<1>2. Types' /\ ListOK(sched)'
  BY <1>1 DEF IInv, Types
<1>3. WaiterHasChild'
  BY <1>1 DEF IInv, WaiterHasChild, Present
<1>4. HaltsOnlyWithoutWork'
  BY <1>1 DEF IInv, HaltsOnlyWithoutWork, Present
<1>5. ZombieStep
  BY <1>1 DEF ZombieStep
<1>6. Present(sched)' = Present(sched) /\ Good(sched, onCpu)' = Good(sched, onCpu)
  BY ONLY Zenon, <1>1
<1> QED
  BY <1>1, <1>2, <1>3, <1>4, <1>5, <1>6 DEF IInv

\* Switching the machine off changes nothing else.
LEMMA PowerOffIInv ==
  ASSUME IInv, PowerOff
  PROVE  IInv' /\ ZombieStep
<1>1. UNCHANGED <<sched, parent, userland, exit_code, at, waitFor, NEXT_PID, onCpu>>
      /\ machine' = "off"
  BY DEF PowerOff
<1>2. Types' /\ ListOK(sched)'
  BY <1>1 DEF IInv, Types
<1>3. WaiterHasChild'
  BY <1>1 DEF IInv, WaiterHasChild, Present
<1>4. HaltsOnlyWithoutWork' /\ ZombieStep
  BY <1>1 DEF HaltsOnlyWithoutWork, ZombieStep
<1> QED
  BY <1>1, <1>2, <1>3, <1>4 DEF IInv, Present

\* exit makes the task die, or stops the machine.
LEMMA ExitDies ==
  ASSUME IInv, NEW status \in ExitStatus, sys_exit(status)
  PROVE  PowerOff \/ (~StopsKernel(onCpu) /\ \E s : Dying(s, status))
<1> DEFINE s == set_task_state(sched, onCpu, "Zombie")
<1> machine = "up"
  BY Zenon DEF sys_exit
<1>1. /\ Types /\ ListOK(sched) /\ Believes(sched, onCpu) /\ Alone(sched, onCpu)
      /\ sched.CURRENT_PID = onCpu /\ onCpu \in Present(sched) /\ onCpu \in Pid
      /\ Present(sched) \subseteq Pid /\ 0 \notin Pid /\ Pid \subseteq Nat
      /\ sched.state \in [Pid -> TaskState]
      /\ \A p \in Present(sched) : p < NEXT_PID
  BY UpFacts
<1>2. CASE StopsKernel(onCpu)
  BY <1>1, <1>2 DEF sys_exit
<1>3. CASE ~StopsKernel(onCpu)
  <2>1. /\ ListOK(s) /\ Believes(s, onCpu) /\ s.tasks = sched.tasks
        /\ s.running \subseteq sched.running
        /\ s.state = [sched.state EXCEPT ![onCpu] = "Zombie"]
    BY Zenon, <1>1, SetTaskState
  <2>2. Alone(s, onCpu)
    BY <1>1, <2>1 DEF Alone
  <2>3. /\ sched' = SwitchFromDead(s, parent[onCpu]).sched
        /\ FollowPlan(SwitchFromDead(s, parent[onCpu]).plan)
        /\ exit_code' = [exit_code EXCEPT ![onCpu] = status]
        /\ at' = [at EXCEPT ![onCpu] = "dead"]
        /\ UNCHANGED <<parent, userland, waitFor, NEXT_PID>>
    BY Zenon, <1>1, <1>3 DEF sys_exit
  <2> HIDE DEF s
  <2>4. Dying(s, status)
    BY Zenon, <2>1, <2>2, <2>3 DEF Dying
  <2> QED
    BY <1>3, <2>4
<1> QED
  BY <1>2, <1>3

\* A fault in user mode does the same.
LEMMA FaultDies ==
  ASSUME IInv, page_fault_handler
  PROVE  PowerOff \/ (~StopsKernel(onCpu) /\ \E s : Dying(s, 139))
<1> DEFINE s == Faulted(sched, onCpu)
<1> machine = "up"
  BY Zenon DEF page_fault_handler
<1>1. /\ Types /\ ListOK(sched) /\ Believes(sched, onCpu) /\ Alone(sched, onCpu)
      /\ sched.CURRENT_PID = onCpu /\ onCpu \in Present(sched) /\ onCpu \in Pid
      /\ Present(sched) \subseteq Pid /\ 0 \notin Pid /\ Pid \subseteq Nat
      /\ sched.state \in [Pid -> TaskState]
      /\ \A p \in Present(sched) : p < NEXT_PID
  BY UpFacts
<1>2. CASE StopsKernel(onCpu)
  BY <1>1, <1>2 DEF page_fault_handler
<1>3. CASE ~StopsKernel(onCpu)
  <2>1. /\ s.tasks = sched.tasks /\ s.running = sched.running
        /\ s.current_index = sched.current_index /\ s.core = sched.core
        /\ s.CURRENT_PID = sched.CURRENT_PID
        /\ s.state = [sched.state EXCEPT ![onCpu] = "Zombie"]
        /\ s \in Schedulers
    BY Zenon, <1>1 DEF Faulted, ListOK, Schedulers, TaskState
  <2>2. Present(s) = Present(sched)
    BY <2>1 DEF Present
  <2>3. ListOK(s) /\ Believes(s, onCpu) /\ Alone(s, onCpu)
    BY <1>1, <2>1, <2>2 DEF ListOK, Believes, Alone
  <2>4. /\ sched' = SwitchFromDead(s, parent[onCpu]).sched
        /\ FollowPlan(SwitchFromDead(s, parent[onCpu]).plan)
        /\ exit_code' = [exit_code EXCEPT ![onCpu] = 139]
        /\ at' = [at EXCEPT ![onCpu] = "dead"]
        /\ UNCHANGED <<parent, userland, waitFor, NEXT_PID>>
    BY Zenon, <1>1, <1>3 DEF page_fault_handler
  <2> HIDE DEF s
  <2>5. Dying(s, 139)
    BY Zenon, <2>1, <2>3, <2>4 DEF Dying
  <2> QED
    BY <1>3, <2>5
<1> QED
  BY <1>2, <1>3

\* Exec of a launched command.
LEMMA ExecIInv ==
  ASSUME IInv, execve_succeeds
  PROVE  IInv' /\ ZombieStep
<1> machine = "up"
  BY DEF execve_succeeds
<1>1. /\ Types /\ ListOK(sched) /\ Believes(sched, onCpu) /\ Alone(sched, onCpu)
      /\ sched.CURRENT_PID = onCpu /\ onCpu \in Present(sched) /\ onCpu \in Pid
      /\ Present(sched) \subseteq Pid /\ 0 \notin Pid /\ Pid \subseteq Nat
      /\ sched.state \in [Pid -> TaskState]
      /\ \A p \in Present(sched) : p < NEXT_PID
  BY UpFacts
<1>2. /\ userland' = [userland EXCEPT ![onCpu] = TRUE]
      /\ at' = [at EXCEPT ![onCpu] = "user"]
      /\ UNCHANGED <<sched, parent, exit_code, waitFor, NEXT_PID, onCpu, machine>>
  BY Zenon, <1>1 DEF execve_succeeds
<1>3. Types'
  BY Zenon, <1>1, <1>2 DEF Types, ControlPoint
<1>4. \A p \in Pid : at'[p] \in {"dead", "wait"} => at'[p] = at[p]
  BY Zenon, <1>1, <1>2 DEF Types
<1>5. at'[onCpu] # "dead" /\ Present(sched)' = Present(sched)
  <2>1. at \in [Pid -> ControlPoint] /\ onCpu \in Pid
    BY Zenon, <1>1 DEF Types
  <2>2. at'[onCpu] = "user"
    BY ONLY <1>2, <2>1
  <2>3. Present(sched)' = Present(sched)
    BY ONLY Zenon, <1>2
  <2> QED
    BY ONLY <2>2, <2>3
<1>6. WaiterHasChild'
  <2>1. WaiterHasChild /\ parent' = parent /\ waitFor' = waitFor
    BY Zenon, <1>2 DEF IInv
  <2>2. \A p \in Present(sched) : at'[p] = "wait" => at[p] = "wait"
    BY ONLY Zenon, <1>1, <1>4
  <2> QED
    BY ONLY Zenon, machine = "up", <1>5, <2>1, <2>2 DEF WaiterHasChild
<1> QED
  BY Zenon, <1>1, <1>2, <1>3, <1>4, <1>5, <1>6 DEF IInv, HaltsOnlyWithoutWork, ZombieStep

\* The end of the kernel shell.
LEMMA RootIInv ==
  ASSUME IInv, terminate_root_process
  PROVE  IInv' /\ ZombieStep
<1> machine = "up"
  BY DEF terminate_root_process
<1>1. /\ Types /\ ListOK(sched) /\ Believes(sched, onCpu) /\ Alone(sched, onCpu)
      /\ sched.CURRENT_PID = onCpu /\ onCpu \in Present(sched) /\ onCpu \in Pid
      /\ Present(sched) \subseteq Pid /\ 0 \notin Pid /\ Pid \subseteq Nat
      /\ sched.state \in [Pid -> TaskState]
      /\ \A p \in Present(sched) : p < NEXT_PID
  BY UpFacts
<1>2. ROOT_PID \in Pid
  BY MaxPidAssumption DEF ROOT_PID, Pid
<1>3. /\ ListOK(sched') /\ sched'.tasks = sched.tasks
      /\ ROOT_PID \in Present(sched) =>
           sched'.state = [sched.state EXCEPT ![ROOT_PID] = "Zombie"]
  BY Zenon, <1>1, <1>2, SetTaskState DEF terminate_root_process
<1>4. ROOT_PID \notin Present(sched) => sched' = sched
  BY DEF terminate_root_process, set_task_state
<1>5. \A p \in Pid : sched.state[p] = "Zombie" => sched'.state[p] = "Zombie"
  BY <1>1, <1>3, <1>4
<1>6. Present(sched)' = Present(sched)
  BY <1>3 DEF Present
<1> QED
  BY Zenon, <1>1, <1>3, <1>5, <1>6
     DEF terminate_root_process, IInv, Types, WaiterHasChild, HaltsOnlyWithoutWork, ZombieStep

\* Pausing and resuming the account of the running task cancel out.
LEMMA IdleChangesNothing ==
  ASSUME NEW s, NEW cpu, Good(s, cpu)
  PROVE  idle_until_interrupt(s) = s
<1> DEFINE run == (s.running \ {cpu}) \union
                    {p \in {cpu} \intersect Present(s) : s.state[p] # "Zombie"}
<1>1. run = s.running
  BY DEF Good, Alone, Believes
<1>2. idle_until_interrupt(s) = [s EXCEPT !.running = run]
  BY DEF idle_until_interrupt, Good, Believes
<1> HIDE DEF run
<1> QED
  BY <1>1, <1>2 DEF Good, ListOK, Schedulers

\* A terminal read that finds nothing.
LEMMA ReadIInv ==
  ASSUME IInv, terminal_read_idles
  PROVE  IInv' /\ ZombieStep
<1>1. sched' = sched
  BY IdleChangesNothing DEF terminal_read_idles, IInv
<1>2. UNCHANGED vars
  BY <1>1 DEF terminal_read_idles, vars
<1> QED
  BY ONLY Zenon, IInv, <1>2, UnchangedIInv

\* A fatal signal to any task, the running one included.
LEMMA SignalIInv ==
  ASSUME IInv, machine = "up", NEW pid \in Present(sched), deliver_signal(pid)
  PROVE  IInv' /\ ZombieStep
<1>1. /\ Types /\ ListOK(sched) /\ Believes(sched, onCpu) /\ Alone(sched, onCpu)
      /\ sched.CURRENT_PID = onCpu /\ onCpu \in Present(sched) /\ onCpu \in Pid
      /\ Present(sched) \subseteq Pid /\ 0 \notin Pid /\ Pid \subseteq Nat
      /\ sched.state \in [Pid -> TaskState]
      /\ \A p \in Present(sched) : p < NEXT_PID
  BY Zenon, UpFacts
<1>2. CASE StopsKernel(pid)
  BY <1>2, PowerOffIInv DEF deliver_signal
<1>3. CASE ~StopsKernel(pid)
  <2>1. /\ exit_code' = [exit_code EXCEPT ![pid] = 143]
        /\ sched' = [sched EXCEPT !.state = [sched.state EXCEPT ![pid] = "Zombie"],
                                  !.running = sched.running \ {pid}]
        /\ UNCHANGED <<parent, userland, at, waitFor, NEXT_PID, onCpu, machine>>
    BY <1>3 DEF deliver_signal
  <2>2. /\ sched'.tasks = sched.tasks /\ sched'.running = sched.running \ {pid}
        /\ sched'.current_index = sched.current_index /\ sched'.core = sched.core
        /\ sched'.CURRENT_PID = sched.CURRENT_PID
        /\ sched'.state = [sched.state EXCEPT ![pid] = "Zombie"]
        /\ sched' \in Schedulers
    BY Zenon, <1>1, <2>1 DEF ListOK, Schedulers, TaskState
  <2>3. Present(sched') = Present(sched) /\ pid \in Pid
    BY <1>1, <2>2 DEF Present
  <2>4. ListOK(sched') /\ Believes(sched', onCpu) /\ Alone(sched', onCpu)
    BY Zenon, <1>1, <2>2, <2>3 DEF ListOK, Believes, Alone
  <2>5. Good(sched', onCpu')
    BY <1>1, <2>1, <2>2, <2>3, <2>4 DEF Good, IInv
  <2>6. \A p \in Pid : sched.state[p] = "Zombie" => sched'.state[p] = "Zombie"
    BY <1>1, <2>2
  <2>7. Types'
    BY <1>1, <2>1, <2>3 DEF Types, ExitStatus
  <2>8. WaiterHasChild' /\ HaltsOnlyWithoutWork' /\ ZombieStep
    BY <2>1, <2>3, <2>6 DEF IInv, WaiterHasChild, HaltsOnlyWithoutWork, ZombieStep
  <2> QED
    BY <1>1, <2>1, <2>3, <2>4, <2>5, <2>6, <2>7, <2>8 DEF IInv
<1> QED
  BY <1>2, <1>3

\* The step in which the running task reaps `child`.
Reaped(child) ==
  /\ parent[child] = onCpu /\ sched.state[child] = "Zombie"
  /\ parent' = [parent EXCEPT ![child] = None]
  /\ userland' = [userland EXCEPT ![child] = FALSE]
  /\ exit_code' = [exit_code EXCEPT ![child] = 0]
  /\ at' = [at EXCEPT ![child] = "free", ![onCpu] = Resumes(onCpu)]
  /\ waitFor' = [waitFor EXCEPT ![child] = None, ![onCpu] = None]
  /\ UNCHANGED <<NEXT_PID, onCpu, machine>>
  /\ ListOK(sched') /\ Believes(sched', onCpu) /\ Alone(sched', onCpu)
  /\ Present(sched') = Present(sched) \ {child}
  /\ sched'.state = [sched.state EXCEPT ![child] = "Free"]
  /\ sched'.running = sched.running

\* What a wait4 that finds a zombie child does.
LEMMA ReapEffect ==
  ASSUME IInv, machine = "up", NEW want, WaitReaps(want)
  PROVE  \E child \in Present(sched) \ {onCpu} : Reaped(child)
<1> DEFINE R     == Reapable(sched, sched.CURRENT_PID, want)
           idx   == Min(R)
           child == sched.tasks[idx]
<1>1. /\ Types /\ ListOK(sched) /\ Believes(sched, onCpu) /\ Alone(sched, onCpu)
      /\ sched.CURRENT_PID = onCpu /\ onCpu \in Present(sched) /\ onCpu \in Pid
      /\ Present(sched) \subseteq Pid /\ 0 \notin Pid /\ Pid \subseteq Nat
      /\ sched.state \in [Pid -> TaskState]
      /\ \A p \in Present(sched) : p < NEXT_PID
  BY Zenon, UpFacts
<1>2. idx \in R
  <2>1. R \in SUBSET Nat /\ R # {}
    <3>1. DOMAIN sched.tasks \subseteq Nat
      BY <1>1 DEF ListOK, Schedulers
    <3> QED
      BY Zenon, <3>1 DEF Reapable, WaitReaps
  <2> HIDE DEF R
  <2> QED
    BY <2>1, MinOfNats
<1>3. /\ idx \in DOMAIN sched.tasks /\ child \in Pid /\ child \in Present(sched)
      /\ parent[child] = onCpu /\ sched.state[child] = "Zombie" /\ child # onCpu
  BY Zenon, <1>1, <1>2 DEF Reapable, Present, IInv
<1>4. /\ sched' = reap_zombie_child(sched, idx)
      /\ parent' = [parent EXCEPT ![child] = None]
      /\ userland' = [userland EXCEPT ![child] = FALSE]
      /\ exit_code' = [exit_code EXCEPT ![child] = 0]
      /\ at' = [at EXCEPT ![child] = "free", ![onCpu] = Resumes(onCpu)]
      /\ waitFor' = [waitFor EXCEPT ![child] = None, ![onCpu] = None]
      /\ UNCHANGED <<NEXT_PID, onCpu, machine>>
  BY DEF WaitReaps
<1> HIDE DEF idx
<1>5. /\ ListOK(sched') /\ Believes(sched', onCpu) /\ Alone(sched', onCpu)
      /\ Present(sched') = Present(sched) \ {child}
      /\ sched'.state = [sched.state EXCEPT ![child] = "Free"]
      /\ sched'.running = sched.running
  <2>1. ListOK(sched) /\ Believes(sched, onCpu) /\ Alone(sched, onCpu)
    BY Zenon, <1>1
  <2> QED
    <3>1. idx \in DOMAIN sched.tasks /\ sched.tasks[idx] # onCpu
      BY Zenon, <1>3
    <3>2. sched' = reap_zombie_child(sched, idx)
      BY Zenon, <1>4
    <3>3. WithoutTask(sched, onCpu, child, sched')
      BY ONLY Zenon, <2>1, <3>1, <3>2, ReapChild DEF child
    <3> QED
      BY ONLY Zenon, <3>3 DEF WithoutTask
<1>6. Reaped(child)
  BY Zenon, <1>3, <1>4, <1>5 DEF Reaped
<1> HIDE DEF child
<1> QED
  BY <1>3, <1>6

\* It keeps the invariant.
LEMMA ReapIInv ==
  ASSUME IInv, machine = "up", NEW child \in Present(sched) \ {onCpu}, Reaped(child)
  PROVE  IInv' /\ ZombieStep
<1> USE DEF Reaped
<1>1. /\ Types /\ ListOK(sched) /\ Believes(sched, onCpu) /\ Alone(sched, onCpu)
      /\ sched.CURRENT_PID = onCpu /\ onCpu \in Present(sched) /\ onCpu \in Pid
      /\ Present(sched) \subseteq Pid /\ 0 \notin Pid /\ Pid \subseteq Nat
      /\ sched.state \in [Pid -> TaskState]
      /\ \A p \in Present(sched) : p < NEXT_PID
  BY Zenon, UpFacts
<1>3. child \in Pid /\ child # onCpu
  BY Zenon, <1>1
<1>6. Resumes(onCpu) \in {"user", "shell"}
  BY Zenon DEF Resumes
<1>7. Types'
  BY Zenon, <1>1, <1>3, <1>6 DEF Types, ControlPoint, ExitStatus
<1>8. Good(sched', onCpu')
  BY <1>1, <1>3 DEF Good, IInv
<1>9. \A p \in Pid : at'[p] \in {"dead", "wait"} =>
                     p # child /\ p # onCpu /\ at'[p] = at[p]
  BY <1>1, <1>3, <1>6 DEF Types
<1>10. \A p \in Pid : at'[p] = "dead" => sched'.state[p] = "Zombie"
  BY Zenon, <1>1, <1>9 DEF IInv
<1>11. WaiterHasChild'
  <2> SUFFICES ASSUME NEW p \in Present(sched'), at'[p] = "wait"
               PROVE  \E c \in Present(sched') : parent'[c] = p /\ waitFor'[p] \in {None, c}
    BY Zenon DEF WaiterHasChild
  <2>1. p \in Present(sched) /\ p \in Pid /\ p # child /\ p # onCpu /\ at[p] = "wait"
    BY Zenon, <1>1, <1>9
  <2>2. PICK c \in Present(sched) : parent[c] = p /\ waitFor[p] \in {None, c}
    BY Zenon, <2>1 DEF IInv, WaiterHasChild
  <2>3. c # child /\ parent'[c] = p /\ waitFor'[p] = waitFor[p]
    BY Zenon, <1>1, <1>3, <2>1, <2>2 DEF Types
  <2> QED
    BY <2>2, <2>3
<1>12. ZombieStep
  BY Zenon, <1>1, <1>3 DEF ZombieStep
<1>13. \A p \in Pid : parent'[p] # p
  BY Zenon, <1>1, <1>3 DEF IInv, Types, None
<1>14. at'[onCpu'] # "dead"
  BY Zenon, <1>1, <1>3, <1>9
<1> QED
  BY Zenon, <1>1, <1>7, <1>8, <1>10, <1>11, <1>12, <1>13, <1>14
     DEF IInv, HaltsOnlyWithoutWork

\* wait4 finds no child, or idles.
LEMMA WaitIInv ==
  ASSUME IInv, machine = "up", NEW want \in Pid \union {None},
         WaitHasNoChild(want) \/ WaitIdles(want)
  PROVE  IInv' /\ ZombieStep
<1>1. /\ Types /\ ListOK(sched) /\ Believes(sched, onCpu) /\ Alone(sched, onCpu)
      /\ sched.CURRENT_PID = onCpu /\ onCpu \in Present(sched) /\ onCpu \in Pid
      /\ Present(sched) \subseteq Pid /\ 0 \notin Pid /\ Pid \subseteq Nat
      /\ sched.state \in [Pid -> TaskState]
      /\ \A p \in Present(sched) : p < NEXT_PID
  BY Zenon, UpFacts
<1>2. sched' = sched
  BY Zenon, <1>1, IdleChangesNothing DEF WaitHasNoChild, WaitIdles, IInv
<1>3. PICK a \in {"user", "shell", "wait"}, w \in {want, None} :
        /\ at' = [at EXCEPT ![onCpu] = a] /\ waitFor' = [waitFor EXCEPT ![onCpu] = w]
        /\ a = "wait" => HasChild(want) /\ w = want
        /\ UNCHANGED <<parent, userland, exit_code, NEXT_PID, onCpu, machine>>
  BY DEF WaitHasNoChild, WaitIdles, Resumes
<1>4. Types'
  BY <1>1, <1>3 DEF Types, ControlPoint
<1>5. \A p \in Pid : p # onCpu => at'[p] = at[p] /\ waitFor'[p] = waitFor[p]
  BY <1>1, <1>3 DEF Types
<1>6. at'[onCpu] = a /\ waitFor'[onCpu] = w
  BY <1>1, <1>3 DEF Types
<1>7. WaiterHasChild'
  <2> SUFFICES ASSUME NEW p \in Present(sched'), at'[p] = "wait"
               PROVE  \E c \in Present(sched') : parent'[c] = p /\ waitFor'[p] \in {None, c}
    BY DEF WaiterHasChild
  <2>1. CASE p = onCpu
    BY Zenon, <1>1, <1>2, <1>3, <1>6, <2>1 DEF HasChild
  <2>2. CASE p # onCpu
    BY Zenon, <1>1, <1>2, <1>3, <1>5, <2>2 DEF IInv, WaiterHasChild
  <2> QED
    BY <2>1, <2>2
<1>8. \A p \in Pid : at'[p] = "dead" => sched'.state[p] = "Zombie"
  BY Zenon, <1>2, <1>5, <1>6 DEF IInv
<1> QED
  BY Zenon, <1>1, <1>2, <1>3, <1>4, <1>6, <1>7, <1>8
     DEF IInv, HaltsOnlyWithoutWork, ZombieStep

\* Every step keeps the invariant and brings no zombie back.
LEMMA NextIInv ==
  ASSUME IInv, [Next]_vars
  PROVE  IInv' /\ [ZombieStep]_vars
<1>1. CASE clone_from_syscall
  BY Zenon, <1>1, ForkIInv DEF clone_from_syscall
<1>2. CASE fork_execve
  BY Zenon, <1>2, ForkIInv DEF fork_execve
<1>3. CASE execve_succeeds
  BY <1>3, ExecIInv
<1>4. CASE page_fault_handler
  BY <1>4, FaultDies, DeathIInv, PowerOffIInv DEF ExitStatus
<1>5. CASE terminate_root_process
  BY <1>5, RootIInv
<1>6. CASE sys_shutdown
  BY <1>6, PowerOffIInv DEF sys_shutdown
<1>7. CASE terminal_read_idles
  BY <1>7, ReadIInv
<1>8. CASE \E status \in ExitStatus : sys_exit(status)
  BY <1>8, ExitDies, DeathIInv, PowerOffIInv
<1>9. ASSUME NEW want \in Pid \union {None}, wait_for_child(want)
      PROVE  IInv' /\ ZombieStep
  BY <1>9, ReapEffect, ReapIInv, WaitIInv DEF wait_for_child
<1>10. CASE ctrl_c
  BY <1>10, UpFacts, SignalIInv DEF ctrl_c
<1>11. ASSUME NEW target \in Pid, sys_kill(target)
       PROVE  IInv' /\ ZombieStep
  BY <1>11, SignalIInv DEF sys_kill
<1>12. CASE UNCHANGED vars
  <2>1. Types'
    BY <1>12 DEF vars, IInv, Types
  <2>2. WaiterHasChild' /\ HaltsOnlyWithoutWork'
    BY <1>12 DEF vars, IInv, WaiterHasChild, HaltsOnlyWithoutWork, Present
  <2> QED
    BY <1>12, <2>1, <2>2 DEF vars, IInv
<1> QED
  BY <1>1, <1>2, <1>3, <1>4, <1>5, <1>6, <1>7, <1>8, <1>9, <1>10, <1>11, <1>12
     DEF Next, Work, Signals, Off

\* The invariant implies the properties it strengthens.
LEMMA IInvImplies ==
  ASSUME IInv
  PROVE  /\ TypeOK /\ CurrentConsistent /\ SoleRunner /\ ChargedToRunner
         /\ DeadNeverResumed /\ WaiterHasChild /\ HaltsOnlyWithoutWork
<1>1. TypeOK
  <2>1. Types /\ ListOK(sched)
    BY Zenon DEF IInv
  <2>2. sched \in Schedulers /\ Pid \subseteq Nat
    BY ONLY <2>1 DEF ListOK, Pid
  <2> QED
    BY ONLY Zenon, <2>1, <2>2 DEF TypeOK, Types, ListOK
<1>2. CurrentConsistent /\ SoleRunner
  <2>1. CASE machine = "up"
    <3>1. Believes(sched, onCpu) /\ Alone(sched, onCpu) /\ ListOK(sched)
      BY <2>1 DEF IInv, Good
    <3>2. CurrentConsistent
      BY ONLY <3>1 DEF Believes, CurrentConsistent, Present
    <3>3. SoleRunner
      BY ONLY <3>1 DEF Believes, Alone, SoleRunner, Present, ListOK, Schedulers
    <3> QED
      BY <3>2, <3>3
  <2>2. CASE machine # "up"
    BY ONLY <2>2 DEF CurrentConsistent, SoleRunner
  <2> QED
    BY <2>1, <2>2
<1>3. ChargedToRunner
  BY Zenon DEF IInv, Good, Alone, ChargedToRunner
<1> QED
  BY <1>1, <1>2, <1>3 DEF IInv, DeadNeverResumed

\* IInv is an invariant of the processes, signals included.
LEMMA SpecIInv == Spec => []IInv
  BY InitIInv, NextIInv, PTL DEF Spec

-----------------------------------------------------------------------------
(* The theorems about the system with signals.                              *)

\* The type invariant of the process tables and the scheduler, for any number
\* of tasks.
THEOREM TypeCorrect == Spec => []TypeOK
  BY SpecIInv, IInvImplies, PTL

\* Through every fork, death, signal and reap, CURRENT_PID, current_index and
\* the core agree with the task that really has the processor.
THEOREM KernelKnowsItsTask == Spec => []CurrentConsistent
  BY SpecIInv, IInvImplies, PTL

\* Only the task on the processor is marked Running, and it alone is charged.
THEOREM OneRunnerOneAccount == Spec => [](SoleRunner /\ ChargedToRunner)
  BY SpecIInv, IInvImplies, PTL

\* No context switch returns into a task that has ended.
THEOREM DeadStayOff == Spec => []DeadNeverResumed
  BY SpecIInv, IInvImplies, PTL

\* A waiting task never loses the child it waits for.
THEOREM WaitersKeepTheirChild == Spec => []WaiterHasChild
  BY SpecIInv, IInvImplies, PTL

\* An exiting task halts the machine only if no task was left to run.
THEOREM HaltMeansNoWork == Spec => []HaltsOnlyWithoutWork
  BY SpecIInv, IInvImplies, PTL

\* Zombies are only ever reaped, and only by their parent.
THEOREM NoResurrection == Spec => ZombiesStayDead
  BY SpecIInv, NextIInv, PTL DEF Spec, ZombiesStayDead

-----------------------------------------------------------------------------
(* The system without fatal signals.                                        *)

\* Beside the line of descent: code at "user" belongs to a userland task, PID 1
\* is not a launched command, and the two boot tasks have no parent.
QInv ==
  /\ LineOfDescent
  /\ \A p \in Pid : at[p] = "user" => userland[p]
  /\ at[ROOT_PID] # "entry"
  /\ parent[ROOT_PID] = None /\ parent[KERNEL_IO_TASK_PID] = None

\* The line of descent holds after register_boot_processes: PID 1 alone.
LEMMA InitQInv == Init => QInv
<1> SUFFICES ASSUME Init PROVE QInv
  OBVIOUS
<1>1. {1, 2} \subseteq Pid /\ Pid \subseteq Nat
  BY MaxPidAssumption DEF Pid
<1>2. /\ sched.tasks = <<1, 2>> /\ DOMAIN sched.tasks = {1, 2}
      /\ sched.tasks[1] = 1 /\ sched.tasks[2] = 2
      /\ sched.state[1] = "Running" /\ sched.state[2] = "Ready"
  BY <1>1 DEF Init, ROOT_PID, KERNEL_IO_TASK_PID
<1>3. Live = {1}
  BY <1>2 DEF Live, Present, KERNEL_IO_TASK_PID
<1>4. LineOfDescent
  BY <1>3 DEF Init, LineOfDescent, ROOT_PID
<1>5. \A p \in Pid : at[p] = "user" => userland[p]
  BY DEF Init
<1>6. at[1] # "entry" /\ parent[1] = None /\ parent[2] = None
  BY <1>1 DEF Init, ROOT_PID, KERNEL_IO_TASK_PID
<1> QED
  BY <1>4, <1>5, <1>6 DEF QInv, ROOT_PID, KERNEL_IO_TASK_PID

\* The child becomes the youngest of the line.
LEMMA ForkQInv ==
  ASSUME IInv, QInv, machine = "up", NEW cu \in BOOLEAN,
         NEW ca \in {"user", "entry"}, NEW pa \in {"user", "wait"}, NEW w,
         w = IF pa = "wait" THEN NEXT_PID ELSE None,
         ca = "user" => cu, pa = "user" => userland[onCpu],
         fork_current_task_with(cu, ca, pa, w)
  PROVE  QInv'
<1> DEFINE child == NEXT_PID
<1>1. /\ Types /\ ListOK(sched) /\ Believes(sched, onCpu) /\ Alone(sched, onCpu)
      /\ sched.CURRENT_PID = onCpu /\ onCpu \in Present(sched) /\ onCpu \in Pid
      /\ Present(sched) \subseteq Pid /\ 0 \notin Pid /\ Pid \subseteq Nat
      /\ sched.state \in [Pid -> TaskState]
      /\ \A p \in Present(sched) : p < NEXT_PID
  BY Zenon, UpFacts
<1>2. /\ child \in Pid /\ child \notin Present(sched) /\ child # onCpu
      /\ parent' = [parent EXCEPT ![child] = onCpu]
      /\ userland' = [userland EXCEPT ![child] = cu]
      /\ at' = [at EXCEPT ![child] = ca, ![onCpu] = pa]
      /\ onCpu' = child /\ machine' = "up"
      /\ Present(sched') = Present(sched) \union {child}
      /\ \A p \in Pid : sched'.state[p] = "Zombie" <=> sched.state[p] = "Zombie"
      /\ sched'.state[child] = "Running"
  BY ForkEffect
<1>3. child > 2 /\ 1 \in Pid /\ 2 \in Pid
  BY <1>1, MaxPidAssumption DEF Types, Pid
<1>4. Live' = Live \union {child}
  <2>1. child # KERNEL_IO_TASK_PID
    BY ONLY <1>3 DEF KERNEL_IO_TASK_PID
  <2>2. \A p \in Present(sched) : sched'.state[p] = "Zombie" <=> sched.state[p] = "Zombie"
    BY ONLY <1>1, <1>2
  <2>3. sched'.state[child] # "Zombie"
    BY ONLY <1>2
  <2> QED
    BY ONLY Zenon, <1>2, <2>1, <2>2, <2>3 DEF Live
<1>5. Live \subseteq Pid /\ \A p \in Live : p < child /\ p <= onCpu /\ p # child
  <2>1. Live \subseteq Present(sched)
    BY DEF Live
  <2>2. \A p \in Live : p <= onCpu
    BY Zenon, <1>1 DEF QInv, LineOfDescent
  <2> QED
    BY Zenon, <1>1, <1>2, <2>1, <2>2
<1> HIDE DEF child
<1>6. \A p \in Live : parent'[p] = parent[p]
  BY Zenon, <1>1, <1>2, <1>5 DEF Types
<1>7. parent'[child] = onCpu
  BY Zenon, <1>1, <1>2 DEF Types
<1>8. LineOfDescent'
  <2>1. {ROOT_PID, onCpu'} \subseteq Live' /\ onCpu \in Live
    <3>1. {ROOT_PID, onCpu} \subseteq Live
      BY Zenon DEF QInv, LineOfDescent
    <3> QED
      BY ONLY Zenon, <1>2, <1>4, <3>1
  <2>2. \A p \in Live' : p <= onCpu'
    <3>1. child \in Nat /\ Live \subseteq Nat
      BY Zenon, <1>1, <1>2, <1>5
    <3>2. onCpu' = child
      BY Zenon, <1>2
    <3> QED
      BY ONLY <1>4, <1>5, <3>1, <3>2
  <2>3. ASSUME NEW p \in Live' \ {ROOT_PID}
        PROVE  /\ parent'[p] \in Live' /\ parent'[p] < p
               /\ \A q \in Live' : q < p => q <= parent'[p]
    <3>1. CASE p = child
      <4>1. parent'[p] = onCpu /\ onCpu \in Live'
        BY ONLY Zenon, <1>4, <1>7, <2>1, <3>1
      <4>2. onCpu < p
        BY ONLY Zenon, <1>5, <2>1, <3>1
      <4>3. child \in Nat
        BY Zenon, <1>1, <1>2
      <4>4. ~(child < child)
        BY ONLY <4>3
      <4>5. \A q \in Live' : q < p => q <= onCpu
        BY ONLY Zenon, <1>4, <1>5, <3>1, <4>4
      <4> QED
        BY ONLY Zenon, <4>1, <4>2, <4>5
    <3>2. CASE p \in Live
      <4>1. ~(child < p)
        <5>1. p < child /\ p \in Nat /\ child \in Nat
          BY Zenon, <1>1, <1>2, <1>5, <3>2
        <5> QED
          BY ONLY <5>1
      <4>2. /\ parent[p] \in Live /\ parent[p] < p
            /\ \A q \in Live : q < p => q <= parent[p]
        BY Zenon, <2>3, <3>2 DEF QInv, LineOfDescent
      <4> QED
        BY ONLY Zenon, <1>4, <1>6, <3>2, <4>1, <4>2
    <3> QED
      BY <1>4, <3>1, <3>2
  <2> QED
    BY Zenon, <1>2, <2>1, <2>2, <2>3 DEF LineOfDescent
<1>9. \A p \in Pid : at'[p] = "user" => userland'[p]
  <2>1. /\ at \in [Pid -> ControlPoint] /\ userland \in [Pid -> BOOLEAN]
        /\ child \in Pid /\ onCpu \in Pid
    BY Zenon, <1>1, <1>2 DEF Types
  <2>2. \A p \in Pid : at[p] = "user" => userland[p]
    BY DEF QInv
  <2> QED
    BY <1>2, <2>1, <2>2
<1>10. at'[ROOT_PID] # "entry" /\ parent'[ROOT_PID] = None
       /\ parent'[KERNEL_IO_TASK_PID] = None
  BY <1>1, <1>2, <1>3 DEF QInv, Types, ROOT_PID, KERNEL_IO_TASK_PID, child
<1> QED
  BY <1>8, <1>9, <1>10 DEF QInv

\* The youngest leaves the line, and its parent is the youngest again.
LEMMA DeathQInv ==
  ASSUME IInv, QInv, NEW s, NEW status, Dying(s, status), onCpu # ROOT_PID
  PROVE  QInv'
<1> DEFINE ppid == parent[onCpu]
           r    == SwitchFromDead(s, ppid)
<1> machine = "up"
  BY DEF Dying
<1>1. /\ Types /\ ListOK(sched) /\ Believes(sched, onCpu) /\ Alone(sched, onCpu)
      /\ sched.CURRENT_PID = onCpu /\ onCpu \in Present(sched) /\ onCpu \in Pid
      /\ Present(sched) \subseteq Pid /\ 0 \notin Pid /\ Pid \subseteq Nat
      /\ sched.state \in [Pid -> TaskState]
      /\ \A p \in Present(sched) : p < NEXT_PID
  BY UpFacts
<1>2. /\ onCpu \in Live /\ ppid \in Live /\ ppid < onCpu /\ Live \subseteq Pid
      /\ \A q \in Live : q <= onCpu /\ (q < onCpu => q <= ppid)
  BY Zenon, <1>1 DEF QInv, LineOfDescent, Live
<1>3. /\ s.state[onCpu] = "Zombie" /\ Present(s) = Present(sched)
      /\ s.state[ppid] = sched.state[ppid]
  <2>1. s.state = [sched.state EXCEPT ![onCpu] = "Zombie"] /\ s.tasks = sched.tasks
    BY Zenon DEF Dying
  <2>2. onCpu \in Pid /\ ppid \in Pid /\ ppid # onCpu
    <3> HIDE DEF ppid
    <3>1. onCpu \in Pid /\ ppid \in Pid /\ Pid \subseteq Nat
      BY ONLY <1>1, <1>2
    <3>2. ppid < onCpu
      BY ONLY <1>2
    <3> QED
      BY ONLY <3>1, <3>2
  <2>3. Present(s) = Present(sched)
    BY ONLY <2>1 DEF Present
  <2>4. s.state[onCpu] = "Zombie" /\ s.state[ppid] = sched.state[ppid]
    BY ONLY <2>1, <2>2, <1>1
  <2> QED
    BY <2>3, <2>4
<1>4. ppid \in Present(s) /\ s.state[ppid] \in Runnable
  BY Zenon, <1>1, <1>2, <1>3 DEF Live, ListOK, Runnable, TaskState
<1> HIDE DEF ppid
<1>5. /\ r.plan = ppid /\ r.sched.tasks = s.tasks
      /\ r.sched.state = [s.state EXCEPT ![ppid] = "Running"]
  <2>1. ListOK(s) /\ Believes(s, onCpu) /\ Alone(s, onCpu)
    BY Zenon DEF Dying
  <2>2. ppid # None
    BY ONLY Zenon, <1>1, <1>2 DEF None
  <2>3. s.state[onCpu] = "Zombie"
    BY <1>3
  <2>4. r.plan = ppid
    BY ONLY Zenon, <1>4, <2>1, <2>3, DeathSwitches
  <2>5. /\ r.sched.tasks = s.tasks
        /\ r.plan # None => r.sched.state = [s.state EXCEPT ![r.plan] = "Running"]
    BY ONLY Zenon, <2>1, <2>3, DeathSwitches
  <2> QED
    BY <2>2, <2>4, <2>5
<1>6. /\ onCpu' = ppid /\ machine' = "up" /\ sched'.tasks = sched.tasks
      /\ sched'.state = [s.state EXCEPT ![ppid] = "Running"]
      /\ at' = [at EXCEPT ![onCpu] = "dead"]
      /\ UNCHANGED <<parent, userland>>
  <2>1. Dying(s, status) /\ None # ppid
    BY Zenon, <1>1, <1>2 DEF None
  <2> QED
    BY ONLY Zenon, <1>5, <2>1 DEF Dying, FollowPlan, ppid, r
<1>7. Present(sched') = Present(sched)
  BY Zenon, <1>6 DEF Present
<1>8. \A p \in Pid : sched'.state[p] = "Zombie" <=> sched.state[p] = "Zombie" \/ p = onCpu
  <2>1. s.state = [sched.state EXCEPT ![onCpu] = "Zombie"]
    BY Zenon DEF Dying
  <2>2. ppid \in Pid /\ ppid # onCpu /\ sched.state[ppid] # "Zombie"
    <3>1. ppid \in Nat /\ onCpu \in Nat /\ ppid < onCpu /\ ppid \in Pid
      BY ONLY Zenon, <1>1, <1>2
    <3>2. ppid # onCpu
      BY ONLY <3>1
    <3>3. sched.state[ppid] # "Zombie"
      BY ONLY Zenon, <1>2 DEF Live
    <3> QED
      BY ONLY Zenon, <3>1, <3>2, <3>3
  <2>3. sched.state \in [Pid -> TaskState] /\ onCpu \in Pid
    BY ONLY Zenon, <1>1
  <2>4. sched'.state = [s.state EXCEPT ![ppid] = "Running"]
    BY ONLY Zenon, <1>6
  <2> QED
    BY ONLY <2>1, <2>2, <2>3, <2>4
<1>9. Live' = Live \ {onCpu}
  BY Zenon, <1>1, <1>7, <1>8 DEF Live
<1>10. LineOfDescent'
  <2>1. {ROOT_PID, onCpu'} \subseteq Live'
    <3>1. ppid # onCpu /\ onCpu' = ppid
      <4>1. ppid \in Nat /\ onCpu \in Nat /\ ppid < onCpu
        BY ONLY Zenon, <1>1, <1>2
      <4> QED
        BY ONLY <1>6, <4>1
    <3>2. ROOT_PID \in Live
      BY Zenon DEF QInv, LineOfDescent
    <3> QED
      BY Zenon, <1>2, <1>9, <3>1, <3>2
  <2>2. \A p \in Live' : p <= onCpu' /\ p # onCpu /\ p \in Live /\ p < onCpu
    BY <1>1, <1>2, <1>6, <1>9
  <2>3. ASSUME NEW p \in Live' \ {ROOT_PID}
        PROVE  /\ parent'[p] \in Live' /\ parent'[p] < p
               /\ \A q \in Live' : q < p => q <= parent'[p]
    <3>1. /\ parent[p] \in Live /\ parent[p] < p
          /\ \A q \in Live : q < p => q <= parent[p]
      BY <2>2, <2>3 DEF QInv, LineOfDescent
    <3>2. parent[p] # onCpu
      BY <1>1, <1>2, <2>2, <3>1
    <3> QED
      BY <1>6, <1>9, <3>1, <3>2
  <2> QED
    BY Zenon, <1>6, <2>1, <2>2, <2>3 DEF LineOfDescent
<1>11. \A p \in Pid : at'[p] = "user" => userland'[p]
  BY Zenon, <1>1, <1>6 DEF QInv, Types
<1>12. at'[ROOT_PID] # "entry"
  BY <1>1, <1>6 DEF QInv, Types
<1> QED
  BY Zenon, <1>6, <1>10, <1>11, <1>12 DEF QInv

\* A reaped zombie was not in the line.
LEMMA ReapQInv ==
  ASSUME IInv, QInv, machine = "up", NEW child \in Present(sched) \ {onCpu},
         Reaped(child)
  PROVE  QInv'
<1>1. /\ Types /\ ListOK(sched) /\ Believes(sched, onCpu) /\ Alone(sched, onCpu)
      /\ sched.CURRENT_PID = onCpu /\ onCpu \in Present(sched) /\ onCpu \in Pid
      /\ Present(sched) \subseteq Pid /\ 0 \notin Pid /\ Pid \subseteq Nat
      /\ sched.state \in [Pid -> TaskState]
      /\ \A p \in Present(sched) : p < NEXT_PID
  BY UpFacts
<1>2. /\ child \in Pid /\ child # onCpu /\ child # ROOT_PID /\ child # KERNEL_IO_TASK_PID
      /\ UNCHANGED <<onCpu, machine>>
  BY <1>1 DEF Reaped, QInv, None
<1>3. Live' = Live /\ child \notin Live /\ Live \subseteq Pid
  BY <1>1, <1>2 DEF Reaped, Live
<1>4. \A p \in Live : parent'[p] = parent[p]
  BY Zenon, <1>1, <1>3 DEF Reaped, Types
<1>5. LineOfDescent'
  BY <1>2, <1>3, <1>4 DEF QInv, LineOfDescent
<1>6. \A p \in Pid : at'[p] = "user" => userland'[p]
  BY Zenon, <1>1, <1>2 DEF Reaped, QInv, Types, Resumes
<1>7. /\ at'[ROOT_PID] # "entry"
      /\ parent'[ROOT_PID] = None /\ parent'[KERNEL_IO_TASK_PID] = None
  <2>1. {ROOT_PID, KERNEL_IO_TASK_PID} \subseteq Pid
    BY MaxPidAssumption DEF ROOT_PID, KERNEL_IO_TASK_PID, Pid
  <2> QED
    BY Zenon, <1>1, <1>2, <2>1 DEF Reaped, QInv, Types, Resumes
<1> QED
  BY <1>5, <1>6, <1>7 DEF QInv

\* Steps that leave the task list, the states and the parents alone.
LEMMA SameTasksQInv ==
  ASSUME IInv, QInv, machine = "up", UNCHANGED <<sched, parent, onCpu, machine>>,
         userland \in [Pid -> BOOLEAN], userland' \in [Pid -> BOOLEAN],
         \A p \in Pid : userland[p] => userland'[p],
         \A p \in Pid \ {onCpu} : at'[p] = at[p],
         at'[onCpu] = "user" => userland'[onCpu], at'[onCpu] # "entry"
  PROVE  QInv'
<1>1. Live' = Live
  BY DEF Live, Present
<1>2. LineOfDescent'
  BY <1>1 DEF QInv, LineOfDescent
<1>3. \A p \in Pid : at'[p] = "user" => userland'[p]
  BY DEF QInv
<1>4. at'[ROOT_PID] # "entry" /\ UNCHANGED parent
  BY MaxPidAssumption DEF QInv, ROOT_PID, Pid
<1> QED
  BY Zenon, <1>2, <1>3, <1>4 DEF QInv

\* Once the machine is off or halted the line does not matter.
LEMMA DownQInv ==
  ASSUME QInv, machine' # "up", UNCHANGED <<parent, userland, at>>
  PROVE  QInv'
  BY DEF QInv, LineOfDescent

\* A step that changes nothing the line of descent is about keeps it.
LEMMA UnchangedQInv ==
  ASSUME QInv, UNCHANGED <<sched, parent, userland, at, onCpu, machine>>
  PROVE  QInv'
<1>1. Live' = Live
  BY DEF Live, Present
<1>2. LineOfDescent'
  BY <1>1 DEF QInv, LineOfDescent
<1> QED
  BY <1>2 DEF QInv

\* Every step of the quiet system keeps the line of descent.
LEMMA NextQInv ==
  ASSUME IInv, QInv, [QuietNext]_vars
  PROVE  QInv'
<1>1. CASE clone_from_syscall
  BY Zenon, <1>1, UpFacts, ForkQInv DEF clone_from_syscall
<1>2. CASE fork_execve
  BY Zenon, <1>2, ForkQInv DEF fork_execve
<1>3. CASE execve_succeeds
  <2>1. /\ machine = "up" /\ onCpu \in Pid /\ sched.CURRENT_PID = onCpu /\ Types
    BY <1>3, UpFacts DEF execve_succeeds
  <2>2. /\ UNCHANGED <<sched, parent, onCpu, machine>>
        /\ userland' = [userland EXCEPT ![onCpu] = TRUE]
        /\ at' = [at EXCEPT ![onCpu] = "user"]
    BY <1>3, <2>1 DEF execve_succeeds
  <2> QED
    BY <2>1, <2>2, SameTasksQInv DEF Types
<1>4. ASSUME NEW s, NEW status, Dying(s, status), ~StopsKernel(onCpu),
             at[onCpu] \in {"user", "entry"}
      PROVE  QInv'
  <2>1. onCpu \in Pid
    BY Zenon, <1>4, UpFacts DEF Dying
  <2>2. onCpu # ROOT_PID
    BY <1>4, <2>1 DEF QInv, StopsKernel
  <2> QED
    BY <1>4, <2>2, DeathQInv
<1>5. CASE PowerOff
  BY <1>5, DownQInv DEF PowerOff
<1>6. CASE page_fault_handler
  <2>1. PowerOff \/ (~StopsKernel(onCpu) /\ \E s : Dying(s, 139))
    BY ONLY Zenon, IInv, <1>6, FaultDies
  <2>2. at[onCpu] = "user"
    BY Zenon, <1>6 DEF page_fault_handler
  <2> QED
    BY ONLY Zenon, <1>4, <1>5, <2>1, <2>2
<1>7. CASE \E status \in ExitStatus : sys_exit(status)
  <2>1. PICK status \in ExitStatus : sys_exit(status)
    BY <1>7
  <2>2. PowerOff \/ (~StopsKernel(onCpu) /\ \E s : Dying(s, status))
    BY <2>1, ExitDies
  <2>3. at[onCpu] \in {"user", "entry"}
    BY Zenon, <2>1 DEF sys_exit
  <2> QED
    BY <1>4, <1>5, <2>2, <2>3
<1>8. CASE terminate_root_process
  BY <1>8, DownQInv DEF terminate_root_process
<1>9. CASE sys_shutdown
  BY <1>5, <1>9 DEF sys_shutdown
<1>10. CASE terminal_read_idles
  <2>1. sched' = sched
    BY Zenon, <1>10, IdleChangesNothing DEF terminal_read_idles, IInv
  <2> QED
    BY <1>10, <2>1, UnchangedQInv DEF terminal_read_idles
<1>11. ASSUME NEW want \in Pid \union {None}, wait_for_child(want)
       PROVE  QInv'
  <2>2. machine = "up"
    BY Zenon, <1>11 DEF wait_for_child
  <2>3. CASE WaitReaps(want)
    BY <2>2, <2>3, ReapEffect, ReapQInv
  <2>4. CASE WaitHasNoChild(want) \/ WaitIdles(want)
    <3>1. sched' = sched
      BY Zenon, <2>2, <2>4, IdleChangesNothing DEF WaitHasNoChild, WaitIdles, IInv
    <3>2. Types /\ onCpu \in Pid
      BY Zenon, <2>2, UpFacts
    <3>3. PICK a \in {Resumes(onCpu), "wait"} : at' = [at EXCEPT ![onCpu] = a]
      BY Zenon, <2>4 DEF WaitHasNoChild, WaitIdles
    <3>4. UNCHANGED <<parent, userland, onCpu, machine>>
      BY <2>4 DEF WaitHasNoChild, WaitIdles
    <3> QED
      BY <2>2, <3>1, <3>2, <3>3, <3>4, SameTasksQInv DEF Types, Resumes
  <2> QED
    BY Zenon, <1>11, <2>3, <2>4 DEF wait_for_child
<1>12. CASE UNCHANGED vars
  BY <1>12, UnchangedQInv DEF vars
<1> QED
  BY <1>1, <1>2, <1>3, <1>6, <1>7, <1>8, <1>9, <1>10, <1>11, <1>12
     DEF QuietNext, Work, Off

\* In the line the runner has no live child, so wait4 has a zombie or nothing.
LEMMA QInvWait ==
  ASSUME IInv, QInv
  PROVE  WaitNeverIdles
<1> SUFFICES ASSUME machine = "up", NEW want \in Pid \union {None}, HasChild(want)
             PROVE  Reapable(sched, sched.CURRENT_PID, want) # {}
  BY DEF WaitNeverIdles
<1>1. /\ Types /\ ListOK(sched) /\ Believes(sched, onCpu) /\ Alone(sched, onCpu)
      /\ sched.CURRENT_PID = onCpu /\ onCpu \in Present(sched) /\ onCpu \in Pid
      /\ Present(sched) \subseteq Pid /\ 0 \notin Pid /\ Pid \subseteq Nat
      /\ sched.state \in [Pid -> TaskState]
      /\ \A p \in Present(sched) : p < NEXT_PID
  BY UpFacts
<1>2. PICK pid \in Present(sched) : parent[pid] = onCpu /\ want \in {None, pid}
  BY Zenon, <1>1 DEF HasChild
<1>3. pid \in Pid /\ pid # ROOT_PID /\ pid # KERNEL_IO_TASK_PID
  BY <1>1, <1>2 DEF QInv, None
<1>4. sched.state[pid] = "Zombie"
  <2> SUFFICES ASSUME sched.state[pid] # "Zombie" PROVE FALSE
    OBVIOUS
  <2>1. pid \in Live
    BY Zenon, <1>2, <1>3 DEF Live
  <2>2. pid <= onCpu /\ parent[pid] < pid
    BY <1>3, <2>1 DEF QInv, LineOfDescent
  <2> QED
    BY ONLY <1>1, <1>2, <1>3, <2>2
<1>5. PICK i \in DOMAIN sched.tasks : sched.tasks[i] = pid
  BY <1>2 DEF Present
<1> QED
  BY <1>1, <1>2, <1>4, <1>5 DEF Reapable

\* Without fatal signals both parts of the invariant hold for ever.
LEMMA QuietSpecInv == QuietSpec => [](IInv /\ QInv)
<1>1. IInv /\ QInv /\ [QuietNext]_vars => (IInv /\ QInv)'
  BY NextIInv, NextQInv DEF QuietNext, Next
<1> QED
  BY <1>1, InitIInv, InitQInv, PTL DEF QuietSpec

\* Without fatal signals the live tasks are one line of descent from PID 1 and
\* the youngest of them runs.
THEOREM QuietLine == QuietSpec => []LineOfDescent
  BY QuietSpecInv, PTL DEF QInv

\* Without fatal signals no wait4 ever idles for a child.
THEOREM QuietWaits == QuietSpec => []WaitNeverIdles
  BY QuietSpecInv, QInvWait, PTL
=============================================================================
