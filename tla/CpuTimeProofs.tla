---------------------------- MODULE CpuTimeProofs ----------------------------
(***************************************************************************)
(* Proofs about CpuTime: the clocks follow the process operations without  *)
(* disturbing them, and show what each task executed, for every number of  *)
(* tasks and however long the machine runs.                                *)
(***************************************************************************)
EXTENDS CpuTime, ProcessProofs

-----------------------------------------------------------------------------
(* One clock.                                                               *)

Clock == [usage : Usage, children : Usage, mode : TaskMode, running_since : Nat]

\* A clock that is not running and holds `u`.
Settled(c, u) == c \in Clock /\ c.running_since = Stopped /\ c.usage = u

\* A clock that runs in mode `m` and shows `u` at time `t`.
Going(c, u, m, t) ==
  /\ c \in Clock /\ t \in Nat /\ c.running_since \in 1 .. t
  /\ c.mode = m
  /\ snapshot(c, t) = u

Plus(u, m, d) == [u EXCEPT ![m] = @ + d]

LEMMA SnapshotType ==
  ASSUME NEW c \in Clock, NEW t \in Nat, c.running_since \in 0 .. t
  PROVE  snapshot(c, t) \in Usage
<1>1. c.usage \in [TaskMode -> Nat] /\ c.mode \in TaskMode
  BY DEF Clock, Usage
<1>2. c.running_since \in Nat /\ t - c.running_since \in Nat
  OBVIOUS
<1>3. c.usage[c.mode] + (t - c.running_since) \in Nat
  BY <1>1, <1>2
<1> QED
  BY <1>1, <1>3 DEF snapshot, Usage

\* A clock with some of its fields written.
IsClock(d, u, ch, m, r) ==
  d \in Clock /\ d.usage = u /\ d.children = ch /\ d.mode = m /\ d.running_since = r

\* Writing the fields of a clock.
LEMMA WrittenClock ==
  ASSUME NEW c \in Clock, NEW u \in Usage, NEW r \in Nat, NEW n \in TaskMode
  PROVE  /\ IsClock([c EXCEPT !.usage = u, !.running_since = r], u, c.children, c.mode, r)
         /\ IsClock([c EXCEPT !.usage = u, !.running_since = r, !.mode = n],
                    u, c.children, n, r)
<1>1. c.usage \in Usage /\ c.children \in Usage /\ c.mode \in TaskMode
  BY DEF Clock
<1> QED
  BY Zenon, <1>1 DEF Clock, IsClock

\* A running clock goes on in its mode.
LEMMA GoesOn ==
  ASSUME NEW c, NEW u \in Usage, NEW m, NEW t, Going(c, u, m, t), NEW d \in Nat
  PROVE  Plus(u, m, d) \in Usage /\ Going(c, Plus(u, m, d), m, t + d)
<1> DEFINE s == c.running_since
<1>1. /\ c \in Clock /\ t \in Nat /\ s \in 1 .. t /\ m \in TaskMode /\ c.mode = m
      /\ c.usage \in [TaskMode -> Nat] /\ u \in [TaskMode -> Nat]
  BY DEF Going, Clock, Usage
<1>2. u = [c.usage EXCEPT ![m] = @ + (t - s)]
  BY <1>1 DEF Going, snapshot, Stopped
<1>3. snapshot(c, t + d) = [c.usage EXCEPT ![m] = @ + (t + d - s)]
  BY <1>1 DEF snapshot, Stopped
<1> HIDE DEF s
<1>4. c.usage[m] + (t + d - s) = (c.usage[m] + (t - s)) + d
  BY <1>1
<1>5. Plus(u, m, d) = [c.usage EXCEPT ![m] = @ + (t + d - s)]
  BY <1>1, <1>2, <1>4 DEF Plus
<1>6. Plus(u, m, d) \in Usage
  BY <1>1 DEF Plus, Usage
<1>7. t + d \in Nat /\ s \in 1 .. (t + d)
  BY <1>1
<1> QED
  BY <1>1, <1>3, <1>5, <1>6, <1>7 DEF Going, s

\* CpuAccounting::set_mode settles a running clock and lets it go on in the new
\* mode; it does not start a stopped one.
LEMMA SetModeGoing ==
  ASSUME NEW c, NEW u \in Usage, NEW m, NEW t, Going(c, u, m, t), NEW n \in TaskMode
  PROVE  Going(set_mode(c, n, t), u, n, t)
<1> DEFINE d == set_mode(c, n, t)
<1>1. c \in Clock /\ t \in Nat /\ c.running_since \in 1 .. t /\ snapshot(c, t) = u
  BY DEF Going
<1>2. IsClock(d, u, c.children, n, t)
  <2>1. c.running_since # Stopped
    BY <1>1 DEF Stopped
  <2>2. d = [c EXCEPT !.usage = u, !.running_since = t, !.mode = n]
    BY Zenon, <1>1, <2>1 DEF set_mode
  <2>3. IsClock([c EXCEPT !.usage = u, !.running_since = t, !.mode = n],
                u, c.children, n, t)
    BY Zenon, <1>1, WrittenClock
  <2> QED
    BY ONLY Zenon, <2>2, <2>3
<1>3. d \in Clock /\ d.usage = u /\ d.mode = n /\ d.running_since = t /\ t \in 1 .. t
  BY <1>1, <1>2 DEF IsClock
<1> HIDE DEF d
<1>4. u[n] + (t - t) = u[n] /\ t # Stopped
  BY <1>1 DEF Usage, Stopped
<1>5. [u EXCEPT ![n] = @ + (t - t)] = u
  BY <1>4 DEF Usage
<1>6. snapshot(d, t) = u
  BY <1>3, <1>4, <1>5 DEF snapshot
<1> QED
  BY <1>1, <1>3, <1>6 DEF Going, d

LEMMA SetModeSettled ==
  ASSUME NEW c, NEW u \in Usage, Settled(c, u), NEW n \in TaskMode, NEW t \in Nat
  PROVE  Settled(set_mode(c, n, t), u) /\ set_mode(c, n, t).mode = n
<1>1. snapshot(c, t) = u /\ c \in Clock /\ c.running_since = Stopped
  BY DEF Settled, snapshot
<1>2. Stopped \in Nat
  BY DEF Stopped
<1>3. IsClock(set_mode(c, n, t), u, c.children, n, Stopped)
  BY Zenon, <1>1, <1>2, WrittenClock DEF set_mode
<1> QED
  BY Zenon, <1>3 DEF Settled, IsClock

\* pause settles a clock, and keeps its mode.
LEMMA PauseSettles ==
  ASSUME NEW c, NEW u \in Usage, NEW m, NEW t \in Nat,
         Going(c, u, m, t) \/ Settled(c, u)
  PROVE  Settled(pause(c, t), u) /\ pause(c, t).mode = c.mode
<1>1. snapshot(c, t) = u /\ c \in Clock
  BY DEF Going, Settled, snapshot
<1>2. Stopped \in Nat /\ c.mode \in TaskMode
  BY <1>1 DEF Stopped, Clock
<1>3. IsClock(pause(c, t), u, c.children, c.mode, Stopped)
  BY Zenon, <1>1, <1>2, WrittenClock DEF pause
<1> QED
  BY Zenon, <1>3 DEF Settled, IsClock

\* resume starts a stopped clock.
LEMMA ResumeGoes ==
  ASSUME NEW c, NEW u \in Usage, Settled(c, u), NEW t \in Nat \ {0}
  PROVE  Going(resume(c, t), u, c.mode, t)
<1> DEFINE d == resume(c, t)
<1>1. d = [usage |-> u, children |-> c.children, mode |-> c.mode, running_since |-> t]
  BY DEF Settled, resume, Clock
<1>2. d \in Clock /\ t \in 1 .. t /\ c.mode \in TaskMode
  BY <1>1 DEF Settled, Clock
<1>3. u[c.mode] + (t - t) = u[c.mode] /\ t # Stopped
  BY <1>2 DEF Usage, Stopped
<1>4. [u EXCEPT ![c.mode] = @ + (t - t)] = u
  BY <1>2, <1>3 DEF Usage
<1>5. snapshot(d, t) = u
  BY <1>1, <1>3, <1>4 DEF snapshot
<1> QED
  BY <1>1, <1>2, <1>5 DEF Going

-----------------------------------------------------------------------------
(* All clocks.                                                              *)

\* The clock of the task on the processor, which has spent u: it runs in `mode`
\* unless the task is dead.
CurOK(c, u, t, dead, mode) ==
  IF dead THEN Settled(c, u) /\ c.mode = mode ELSE Going(c, u, mode, t)

\* At time t the clock of `cur`, the task on the processor, is as CurOK says;
\* every other clock is stopped, in the kernel; each clock shows what its task
\* spent; and the clock of a pid that is not in the list is new.
ClocksOK(cs, sp, t, cur, dead, mode, pres) ==
  /\ cs \in [Pid -> Clock] /\ sp \in [Pid \union {None} -> Usage]
  /\ t \in Nat \ {0} /\ cur \in Pid /\ mode \in TaskMode
  /\ CurOK(cs[cur], sp[cur], t, dead, mode)
  /\ \A p \in Pid \ {cur} : Settled(cs[p], sp[p]) /\ cs[p].mode = "Kernel"
  /\ \A p \in Pid \ pres : cs[p] = NewClock /\ sp[p] = NoUsage

\* The task on the processor is dead.
CurDead == sched.state[onCpu] = "Zombie"

TInv ==
  /\ IInv
  /\ machine = "up" => ClocksOK(cpu, spent, now, onCpu, CurDead, Mode, Present(sched))

LEMMA Modes == "User" \in TaskMode /\ "Kernel" \in TaskMode
  BY DEF TaskMode

\* Each operation on the clock of the task on the processor keeps what it shows.
LEMMA CurMode ==
  ASSUME NEW c, NEW u \in Usage, NEW t \in Nat \ {0}, NEW dead, NEW mode,
         CurOK(c, u, t, dead, mode), NEW m \in TaskMode
  PROVE  CurOK(set_mode(c, m, t), u, t, dead, m)
<1>1. t \in Nat
  OBVIOUS
<1>2. CASE dead
  BY Zenon, <1>1, <1>2, SetModeSettled DEF CurOK
<1>3. CASE ~dead
  BY Zenon, <1>3, SetModeGoing DEF CurOK
<1> QED
  BY <1>2, <1>3

LEMMA CurPaused ==
  ASSUME NEW c, NEW u \in Usage, NEW t \in Nat \ {0}, NEW dead, NEW mode,
         CurOK(c, u, t, dead, mode)
  PROVE  CurOK(pause(c, t), u, t, TRUE, mode)
<1>1. t \in Nat
  OBVIOUS
<1>2. (Going(c, u, mode, t) \/ Settled(c, u)) /\ c.mode = mode
  BY Zenon DEF CurOK, Going
<1> QED
  BY Zenon, <1>1, <1>2, PauseSettles DEF CurOK

LEMMA CurGoesOn ==
  ASSUME NEW c, NEW u \in Usage, NEW t \in Nat \ {0}, NEW dead, NEW mode,
         CurOK(c, u, t, dead, mode), NEW d \in Nat
  PROVE  LET v == IF dead THEN u ELSE Plus(u, mode, d)
         IN  v \in Usage /\ CurOK(c, v, t + d, dead, mode)
<1>1. CASE dead
  BY Zenon, <1>1 DEF CurOK
<1>2. CASE ~dead
  BY Zenon, <1>2, GoesOn DEF CurOK
<1> QED
  BY <1>1, <1>2

LEMMA CurIsClock ==
  ASSUME NEW c, NEW u, NEW t, NEW dead, NEW mode, CurOK(c, u, t, dead, mode)
  PROVE  c \in Clock
  BY Zenon DEF CurOK, Settled, Going

\* Writing the clock, and the history, of the task on the processor.
LEMMA WriteCur ==
  ASSUME NEW cs, NEW sp, NEW t, NEW cur, NEW dead, NEW mode, NEW pres,
         ClocksOK(cs, sp, t, cur, dead, mode, pres), cur \in pres,
         NEW c, NEW u \in Usage, NEW t2 \in Nat \ {0}, NEW dead2,
         NEW mode2 \in TaskMode, CurOK(c, u, t2, dead2, mode2)
  PROVE  ClocksOK([cs EXCEPT ![cur] = c], [sp EXCEPT ![cur] = u], t2, cur, dead2,
                  mode2, pres)
<1> DEFINE cs2 == [cs EXCEPT ![cur] = c]
           sp2 == [sp EXCEPT ![cur] = u]
<1>1. /\ cs \in [Pid -> Clock] /\ sp \in [Pid \union {None} -> Usage] /\ cur \in Pid
      /\ c \in Clock
  BY Zenon, CurIsClock DEF ClocksOK
<1>2. /\ cs2 \in [Pid -> Clock] /\ cs2[cur] = c
      /\ \A p \in Pid \ {cur} : cs2[p] = cs[p]
  BY <1>1
<1>3. /\ sp2 \in [Pid \union {None} -> Usage] /\ sp2[cur] = u
      /\ \A p \in Pid \ {cur} : sp2[p] = sp[p]
  BY <1>1
<1> HIDE DEF cs2, sp2
<1>4. \A p \in Pid \ {cur} : Settled(cs2[p], sp2[p]) /\ cs2[p].mode = "Kernel"
  BY Zenon, <1>2, <1>3 DEF ClocksOK
<1>5. \A p \in Pid \ pres : cs2[p] = NewClock /\ sp2[p] = NoUsage
  BY Zenon, <1>2, <1>3 DEF ClocksOK
<1>6. ClocksOK(cs2, sp2, t2, cur, dead2, mode2, pres)
  BY Zenon, <1>1, <1>2, <1>3, <1>4, <1>5 DEF ClocksOK
<1> QED
  BY ONLY Zenon, <1>6 DEF cs2, sp2

\* A write of the clock that keeps what the task spent.
LEMMA WriteClock ==
  ASSUME NEW cs, NEW sp, NEW t, NEW cur, NEW dead, NEW mode, NEW pres,
         ClocksOK(cs, sp, t, cur, dead, mode, pres), cur \in pres,
         NEW c, NEW t2 \in Nat \ {0}, NEW dead2,
         NEW mode2 \in TaskMode, CurOK(c, sp[cur], t2, dead2, mode2)
  PROVE  ClocksOK([cs EXCEPT ![cur] = c], sp, t2, cur, dead2, mode2, pres)
<1>1. sp \in [Pid \union {None} -> Usage] /\ cur \in Pid
  BY Zenon DEF ClocksOK
<1>2. sp[cur] \in Usage
  BY <1>1
<1>3. ClocksOK([cs EXCEPT ![cur] = c], [sp EXCEPT ![cur] = sp[cur]], t2, cur, dead2,
               mode2, pres)
  BY Zenon, <1>2, WriteCur
<1>4. [sp EXCEPT ![cur] = sp[cur]] = sp
  BY <1>1
<1> QED
  BY ONLY Zenon, <1>3, <1>4

\* The task on the processor spends time d.
SpendOf(sp, cur, dead, mode, d) == IF dead THEN sp ELSE [sp EXCEPT ![cur][mode] = @ + d]

LEMMA ClocksTypes ==
  ASSUME NEW cs, NEW sp, NEW t, NEW cur, NEW dead, NEW mode, NEW pres,
         ClocksOK(cs, sp, t, cur, dead, mode, pres)
  PROVE  /\ cs \in [Pid -> Clock] /\ sp \in [Pid \union {None} -> Usage] /\ cur \in Pid
         /\ t \in Nat \ {0} /\ mode \in TaskMode
         /\ cs[cur] \in Clock /\ sp[cur] \in Usage
         /\ CurOK(cs[cur], sp[cur], t, dead, mode)
<1>1. /\ cs \in [Pid -> Clock] /\ sp \in [Pid \union {None} -> Usage] /\ cur \in Pid
      /\ t \in Nat \ {0} /\ mode \in TaskMode
      /\ CurOK(cs[cur], sp[cur], t, dead, mode)
  BY Zenon DEF ClocksOK
<1> QED
  BY <1>1

\* Time passes, and the clocks show it.
LEMMA TimePasses ==
  ASSUME NEW cs, NEW sp, NEW t, NEW cur, NEW dead, NEW mode, NEW pres,
         ClocksOK(cs, sp, t, cur, dead, mode, pres), cur \in pres, NEW d \in Nat
  PROVE  ClocksOK(cs, SpendOf(sp, cur, dead, mode, d), t + d, cur, dead, mode, pres)
<1> DEFINE v == IF dead THEN sp[cur] ELSE Plus(sp[cur], mode, d)
<1>1. /\ cs \in [Pid -> Clock] /\ sp \in [Pid \union {None} -> Usage] /\ cur \in Pid
      /\ t \in Nat \ {0} /\ mode \in TaskMode
      /\ cs[cur] \in Clock /\ sp[cur] \in Usage
      /\ CurOK(cs[cur], sp[cur], t, dead, mode)
  BY Zenon, ClocksTypes
<1>2. t + d \in Nat \ {0}
  BY <1>1
<1>3. v \in Usage /\ CurOK(cs[cur], v, t + d, dead, mode)
  BY Zenon, <1>1, CurGoesOn
<1> HIDE DEF v
<1>4. ClocksOK([cs EXCEPT ![cur] = cs[cur]], [sp EXCEPT ![cur] = v], t + d, cur, dead,
               mode, pres)
  BY Zenon, <1>1, <1>2, <1>3, WriteCur
<1>5. [cs EXCEPT ![cur] = cs[cur]] = cs
  BY <1>1
<1>6. SpendOf(sp, cur, dead, mode, d) = [sp EXCEPT ![cur] = v]
  <2>1. CASE dead
    BY <1>1, <2>1 DEF SpendOf, v
  <2>2. CASE ~dead
    BY Zenon, <2>2 DEF SpendOf, v, Plus
  <2> QED
    BY <2>1, <2>2
<1> QED
  BY ONLY Zenon, <1>4, <1>5, <1>6

\* KernelModeGuard and its end: the mode changes, and nothing else does.
LEMMA ChangesMode ==
  ASSUME NEW cs, NEW sp, NEW t, NEW cur, NEW dead, NEW mode, NEW pres,
         ClocksOK(cs, sp, t, cur, dead, mode, pres), cur \in pres, NEW m \in TaskMode
  PROVE  ClocksOK([cs EXCEPT ![cur] = set_mode(cs[cur], m, t)], sp, t, cur, dead, m, pres)
<1>1. /\ t \in Nat \ {0} /\ sp[cur] \in Usage
      /\ CurOK(cs[cur], sp[cur], t, dead, mode)
  BY Zenon, ClocksTypes
<1>2. CurOK(set_mode(cs[cur], m, t), sp[cur], t, dead, m)
  BY Zenon, <1>1, CurMode
<1> QED
  BY Zenon, <1>1, <1>2, WriteClock

\* The task on the processor is paused: it died, or idles.
LEMMA PausesCur ==
  ASSUME NEW cs, NEW sp, NEW t, NEW cur, NEW dead, NEW mode, NEW pres,
         ClocksOK(cs, sp, t, cur, dead, mode, pres), cur \in pres
  PROVE  ClocksOK([cs EXCEPT ![cur] = pause(cs[cur], t)], sp, t, cur, TRUE, mode, pres)
<1>1. /\ t \in Nat \ {0} /\ sp[cur] \in Usage /\ mode \in TaskMode
      /\ CurOK(cs[cur], sp[cur], t, dead, mode)
  BY Zenon, ClocksTypes
<1>2. CurOK(pause(cs[cur], t), sp[cur], t, TRUE, mode)
  BY Zenon, <1>1, CurPaused
<1> QED
  BY Zenon, <1>1, <1>2, WriteClock

\* While the task on the processor is paused no time counts; resume starts its
\* clock.
LEMMA ResumesCur ==
  ASSUME NEW cs, NEW sp, NEW t, NEW cur, NEW mode, NEW pres,
         ClocksOK(cs, sp, t, cur, TRUE, mode, pres), cur \in pres
  PROVE  ClocksOK([cs EXCEPT ![cur] = resume(cs[cur], t)], sp, t, cur, FALSE, mode, pres)
<1>1. /\ t \in Nat \ {0} /\ sp[cur] \in Usage /\ mode \in TaskMode
      /\ CurOK(cs[cur], sp[cur], t, TRUE, mode)
  BY Zenon, ClocksTypes
<1>2. CurOK(resume(cs[cur], t), sp[cur], t, FALSE, mode)
  BY Zenon, <1>1, ResumeGoes DEF CurOK
<1> QED
  BY Zenon, <1>1, <1>2, WriteClock

LEMMA IdlesCur ==
  ASSUME NEW cs, NEW sp, NEW t, NEW cur, NEW mode, NEW pres,
         ClocksOK(cs, sp, t, cur, TRUE, mode, pres), cur \in pres, NEW d \in Nat
  PROVE  ClocksOK(cs, sp, t + d, cur, TRUE, mode, pres)
<1>1. SpendOf(sp, cur, TRUE, mode, d) = sp
  BY Zenon DEF SpendOf
<1>2. ClocksOK(cs, SpendOf(sp, cur, TRUE, mode, d), t + d, cur, TRUE, mode, pres)
  BY Zenon, TimePasses
<1> QED
  BY ONLY Zenon, <1>1, <1>2

\* The processor goes from one task to another.
LEMMA SwitchesTo ==
  ASSUME NEW cs, NEW sp, NEW t, NEW old, NEW dead, NEW pres,
         ClocksOK(cs, sp, t, old, dead, "Kernel", pres), old \in pres,
         NEW new \in Pid \ {old}, NEW pres2, pres \subseteq pres2, new \in pres2
  PROVE  ClocksOK(SwitchClocks(cs, old, new, t), sp, t, new, FALSE, "Kernel", pres2)
<1> DEFINE c1 == [cs EXCEPT ![old] = pause(cs[old], t)]
<1>1. ClocksOK(c1, sp, t, old, TRUE, "Kernel", pres)
  BY Zenon, PausesCur
<1>2. SwitchClocks(cs, old, new, t) = [c1 EXCEPT ![new] = resume(c1[new], t)]
  BY Zenon DEF SwitchClocks
<1> HIDE DEF c1
<1>3. Settled(c1[old], sp[old]) /\ c1[old].mode = "Kernel"
  BY Zenon, <1>1 DEF ClocksOK, CurOK
<1>4. \A p \in Pid : Settled(c1[p], sp[p]) /\ c1[p].mode = "Kernel"
  BY Zenon, <1>1, <1>3 DEF ClocksOK
<1>5. CurOK(c1[new], sp[new], t, TRUE, "Kernel")
  BY Zenon, <1>4 DEF CurOK
<1>6. ClocksOK(c1, sp, t, new, TRUE, "Kernel", pres2)
  BY Zenon, <1>1, <1>4, <1>5 DEF ClocksOK
<1>7. ClocksOK([c1 EXCEPT ![new] = resume(c1[new], t)], sp, t, new, FALSE, "Kernel", pres2)
  BY Zenon, <1>6, ResumesCur
<1> QED
  BY ONLY Zenon, <1>2, <1>7

\* An interrupt handler: the time in it is kernel time, and the mode is restored.
LEMMA Interrupted ==
  ASSUME NEW cs, NEW sp, NEW t, NEW cur, NEW dead, NEW mode, NEW pres,
         ClocksOK(cs, sp, t, cur, dead, mode, pres), cur \in pres, NEW d \in Nat
  PROVE  ClocksOK([cs EXCEPT ![cur] = set_mode(set_mode(cs[cur], "Kernel", t),
                                               cs[cur].mode, t + d)],
                  SpendOf(sp, cur, dead, "Kernel", d), t + d, cur, dead, mode, pres)
<1> DEFINE v  == IF dead THEN sp[cur] ELSE Plus(sp[cur], "Kernel", d)
           c1 == set_mode(cs[cur], "Kernel", t)
<1>1. /\ cs \in [Pid -> Clock] /\ sp \in [Pid \union {None} -> Usage] /\ cur \in Pid
      /\ t \in Nat \ {0} /\ mode \in TaskMode
      /\ cs[cur] \in Clock /\ sp[cur] \in Usage
      /\ CurOK(cs[cur], sp[cur], t, dead, mode)
  BY Zenon, ClocksTypes
<1>2. t + d \in Nat \ {0} /\ "Kernel" \in TaskMode
  BY <1>1 DEF TaskMode
<1>3. CurOK(c1, sp[cur], t, dead, "Kernel")
  BY Zenon, <1>1, <1>2, CurMode
<1> HIDE DEF c1
<1>4. v \in Usage /\ CurOK(c1, v, t + d, dead, "Kernel")
  BY Zenon, <1>1, <1>3, CurGoesOn
<1>5. cs[cur].mode = mode
  BY Zenon, <1>1 DEF CurOK, Going
<1> HIDE DEF v
<1>6. CurOK(set_mode(c1, mode, t + d), v, t + d, dead, mode)
  BY Zenon, <1>1, <1>2, <1>4, CurMode
<1>7. ClocksOK([cs EXCEPT ![cur] = set_mode(c1, mode, t + d)], [sp EXCEPT ![cur] = v],
               t + d, cur, dead, mode, pres)
  BY Zenon, <1>1, <1>2, <1>4, <1>6, WriteCur
<1>8. SpendOf(sp, cur, dead, "Kernel", d) = [sp EXCEPT ![cur] = v]
  <2>1. CASE dead
    BY <1>1, <2>1 DEF SpendOf, v
  <2>2. CASE ~dead
    BY Zenon, <2>2 DEF SpendOf, v, Plus
  <2> QED
    BY <2>1, <2>2
<1> QED
  BY ONLY Zenon, <1>5, <1>7, <1>8 DEF c1

\* idle_until_interrupt: the halted time counts for nobody.
LEMMA IdlesUntil ==
  ASSUME NEW cs, NEW sp, NEW t, NEW pres,
         ClocksOK(cs, sp, t, onCpu, CurDead, "Kernel", pres), onCpu \in pres,
         NEW idle \in Nat
  PROVE  ClocksOK(IdleClocks(cs, onCpu, t, idle), sp, t + idle, onCpu, CurDead, "Kernel",
                  pres)
<1> DEFINE halted == [cs EXCEPT ![onCpu] = pause(cs[onCpu], t)]
           w2     == set_mode(set_mode(halted[onCpu], "Kernel", t + idle), "Kernel", t + idle)
           woken  == [halted EXCEPT ![onCpu] = w2]
<1>1. ClocksOK(halted, sp, t, onCpu, TRUE, "Kernel", pres)
  BY Zenon, PausesCur
<1>2. IdleClocks(cs, onCpu, t, idle)
        = IF CurDead THEN woken
          ELSE [woken EXCEPT ![onCpu] = resume(woken[onCpu], t + idle)]
  BY Zenon DEF IdleClocks, CurDead
<1> HIDE DEF halted
<1>3. ClocksOK(halted, sp, t + idle, onCpu, TRUE, "Kernel", pres)
  BY Zenon, <1>1, IdlesCur
<1>4. /\ t + idle \in Nat \ {0} /\ "Kernel" \in TaskMode /\ sp[onCpu] \in Usage
      /\ CurOK(halted[onCpu], sp[onCpu], t + idle, TRUE, "Kernel")
  BY Zenon, <1>3, ClocksTypes
<1>5. CurOK(set_mode(halted[onCpu], "Kernel", t + idle), sp[onCpu], t + idle, TRUE, "Kernel")
  BY Zenon, <1>4, CurMode
<1>6. CurOK(w2, sp[onCpu], t + idle, TRUE, "Kernel")
  BY Zenon, <1>4, <1>5, CurMode
<1> HIDE DEF w2
<1>7. ClocksOK(woken, sp, t + idle, onCpu, TRUE, "Kernel", pres)
  BY Zenon, <1>3, <1>4, <1>6, WriteClock
<1> HIDE DEF woken
<1>8. CASE CurDead
  BY Zenon, <1>2, <1>7, <1>8
<1>9. CASE ~CurDead
  <2>1. ClocksOK([woken EXCEPT ![onCpu] = resume(woken[onCpu], t + idle)], sp, t + idle,
                 onCpu, FALSE, "Kernel", pres)
    BY Zenon, <1>7, ResumesCur
  <2>2. CurDead = FALSE
    BY <1>9 DEF CurDead
  <2> QED
    BY ONLY Zenon, <1>2, <2>1, <2>2
<1> QED
  BY <1>8, <1>9

LEMMA AddType ==
  ASSUME NEW u \in Usage, NEW v \in Usage
  PROVE  Add(u, v) \in Usage
<1>1. \A m \in TaskMode : u[m] + v[m] \in Nat
  BY DEF Usage
<1> QED
  BY <1>1 DEF Add, Usage

\* CpuAccounting::reap adds to the children's time and leaves the task's own.
LEMMA CurReaps ==
  ASSUME NEW c, NEW u \in Usage, NEW t, NEW dead, NEW mode, CurOK(c, u, t, dead, mode),
         NEW k, NEW w \in Usage, Settled(k, w)
  PROVE  CurOK(reap(c, k, t), u, t, dead, mode)
<1> DEFINE ch == Add(Add(c.children, snapshot(k, t)), k.children)
           d  == [c EXCEPT !.children = ch]
<1>1. c \in Clock /\ k \in Clock /\ snapshot(k, t) = w
  BY Zenon, CurIsClock DEF Settled, snapshot
<1>2. ch \in Usage
  <2>1. c.children \in Usage /\ k.children \in Usage
    BY <1>1 DEF Clock
  <2> QED
    BY Zenon, <1>1, <2>1, AddType
<1>3. reap(c, k, t) = d
  BY Zenon DEF reap
<1> HIDE DEF ch
<1>4. /\ d \in Clock /\ d.usage = c.usage /\ d.mode = c.mode
      /\ d.running_since = c.running_since
  BY <1>1, <1>2 DEF Clock
<1> HIDE DEF d
<1>5. snapshot(d, t) = snapshot(c, t)
  BY ONLY Zenon, <1>4 DEF snapshot
<1>6. CurOK(d, u, t, dead, mode)
  <2>1. CASE dead
    BY Zenon, <1>4, <2>1 DEF CurOK, Settled
  <2>2. CASE ~dead
    BY Zenon, <1>4, <1>5, <2>2 DEF CurOK, Going
  <2> QED
    BY <2>1, <2>2
<1> QED
  BY ONLY Zenon, <1>3, <1>6

\* The clock of a reaped task is new, and its time is kept under None.
LEMMA ReapsClock ==
  ASSUME NEW cs, NEW sp, NEW t, NEW cur, NEW dead, NEW mode, NEW pres,
         ClocksOK(cs, sp, t, cur, dead, mode, pres), cur \in pres,
         NEW child \in Pid \ {cur}, NEW w \in Usage, NEW k, Settled(k, w)
  PROVE  ClocksOK([cs EXCEPT ![cur] = reap(cs[cur], k, t), ![child] = NewClock],
                  [sp EXCEPT ![None] = Add(sp[None], w), ![child] = NoUsage],
                  t, cur, dead, mode, pres \ {child})
<1> DEFINE c   == reap(cs[cur], k, t)
           cs2 == [cs EXCEPT ![cur] = c, ![child] = NewClock]
           s   == Add(sp[None], w)
           sp2 == [sp EXCEPT ![None] = s, ![child] = NoUsage]
<1>1. /\ cs \in [Pid -> Clock] /\ sp \in [Pid \union {None} -> Usage] /\ cur \in Pid
      /\ t \in Nat \ {0} /\ mode \in TaskMode
      /\ cs[cur] \in Clock /\ sp[cur] \in Usage
      /\ CurOK(cs[cur], sp[cur], t, dead, mode)
  BY Zenon, ClocksTypes
<1>2. CurOK(c, sp[cur], t, dead, mode)
  BY Zenon, <1>1, CurReaps
<1>3. c \in Clock
  BY Zenon, <1>2, CurIsClock
<1>4. NoUsage \in Usage /\ NewClock \in Clock /\ Settled(NewClock, NoUsage)
      /\ NewClock.mode = "Kernel" /\ None \notin Pid
  BY DEF NoUsage, NewClock, Clock, Settled, Usage, Stopped, TaskMode, None, Pid
<1>5. s \in Usage
  <2>1. sp[None] \in Usage
    BY <1>1
  <2> QED
    BY Zenon, <2>1, AddType
<1> HIDE DEF c, s
<1>6. /\ cs2 \in [Pid -> Clock] /\ cs2[cur] = c /\ cs2[child] = NewClock
      /\ \A p \in Pid \ {cur, child} : cs2[p] = cs[p]
  BY <1>1, <1>3, <1>4
<1>7. /\ sp2 \in [Pid \union {None} -> Usage] /\ sp2[child] = NoUsage
      /\ \A p \in Pid \ {child} : sp2[p] = sp[p]
  BY <1>1, <1>4, <1>5
<1> HIDE DEF cs2, sp2
<1>8. ASSUME NEW p \in Pid \ {cur}
      PROVE  Settled(cs2[p], sp2[p]) /\ cs2[p].mode = "Kernel"
  <2>1. CASE p = child
    BY Zenon, <1>4, <1>6, <1>7, <2>1
  <2>2. CASE p # child
    <3>1. cs2[p] = cs[p] /\ sp2[p] = sp[p]
      BY Zenon, <1>6, <1>7, <2>2
    <3> QED
      BY Zenon, <3>1 DEF ClocksOK
  <2> QED
    BY <2>1, <2>2
<1>9. ASSUME NEW p \in Pid \ (pres \ {child})
      PROVE  cs2[p] = NewClock /\ sp2[p] = NoUsage
  <2>1. CASE p = child
    BY Zenon, <1>6, <1>7, <2>1
  <2>2. CASE p # child
    <3>1. cs2[p] = cs[p] /\ sp2[p] = sp[p] /\ p \in Pid \ pres
      BY Zenon, <1>6, <1>7, <2>2
    <3> QED
      BY Zenon, <3>1 DEF ClocksOK
  <2> QED
    BY <2>1, <2>2
<1>10. CurOK(cs2[cur], sp2[cur], t, dead, mode)
  <2>1. cs2[cur] = c /\ sp2[cur] = sp[cur]
    BY Zenon, <1>1, <1>6, <1>7
  <2> QED
    BY ONLY Zenon, <1>2, <2>1
<1>11. ClocksOK(cs2, sp2, t, cur, dead, mode, pres \ {child})
  BY Zenon, <1>1, <1>6, <1>7, <1>8, <1>9, <1>10 DEF ClocksOK
<1> QED
  BY ONLY Zenon, <1>11 DEF cs2, sp2, c, s

-----------------------------------------------------------------------------
(* The steps.                                                               *)

\* What holds while the machine is up.
LEMMA UpClocks ==
  ASSUME TInv, machine = "up"
  PROVE  /\ IInv /\ sched.CURRENT_PID = onCpu /\ onCpu \in Present(sched) /\ onCpu \in Pid
         /\ Present(sched) \subseteq Pid
         /\ ClocksOK(cpu, spent, now, onCpu, CurDead, Mode, Present(sched))
  BY Zenon, UpFacts DEF TInv

\* The clocks and the history once the task on the processor has been in the
\* kernel for `time`.
LEMMA InKernelFor ==
  ASSUME TInv, machine = "up", NEW time \in Nat
  PROVE  ClocksOK(Entered, Spend("Kernel", time), now + time, onCpu, CurDead, "Kernel",
                  Present(sched))
<1>1. /\ sched.CURRENT_PID = onCpu /\ onCpu \in Present(sched)
      /\ ClocksOK(cpu, spent, now, onCpu, CurDead, Mode, Present(sched))
  BY Zenon, UpClocks
<1>2. ClocksOK([cpu EXCEPT ![onCpu] = set_mode(cpu[onCpu], "Kernel", now)], spent, now,
               onCpu, CurDead, "Kernel", Present(sched))
  BY Zenon, <1>1, Modes, ChangesMode
<1>3. Entered = [cpu EXCEPT ![onCpu] = set_mode(cpu[onCpu], "Kernel", now)]
  BY Zenon, <1>1 DEF Entered, Enter
<1>4. Spend("Kernel", time) = SpendOf(spent, onCpu, CurDead, "Kernel", time)
  BY Zenon DEF Spend, SpendOf, CurDead
<1>5. ClocksOK(Entered, spent, now, onCpu, CurDead, "Kernel", Present(sched))
  BY ONLY Zenon, <1>2, <1>3
<1>6. ClocksOK(Entered, SpendOf(spent, onCpu, CurDead, "Kernel", time), now + time, onCpu,
               CurDead, "Kernel", Present(sched))
  BY Zenon, <1>1, <1>5, TimePasses
<1> QED
  BY ONLY Zenon, <1>4, <1>6

\* The way back to the program, or to the kernel code that goes on.
LEMMA LeavesKernel ==
  ASSUME NEW cs, NEW t, cpu' = Leave(cs, onCpu', t), now' = t,
         onCpu' \in Present(sched'),
         ClocksOK(cs, spent', t, onCpu', CurDead', "Kernel", Present(sched'))
  PROVE  ClocksOK(cpu', spent', now', onCpu', CurDead', Mode', Present(sched'))
<1>1. CASE at'[onCpu'] = "user"
  <2>1. cpu' = [cs EXCEPT ![onCpu'] = set_mode(cs[onCpu'], "User", t)] /\ Mode' = "User"
    BY Zenon, <1>1 DEF Leave, Mode
  <2>2. ClocksOK([cs EXCEPT ![onCpu'] = set_mode(cs[onCpu'], "User", t)], spent', t, onCpu',
                 CurDead', "User", Present(sched'))
    BY Zenon, Modes, ChangesMode
  <2> QED
    BY ONLY Zenon, <2>1, <2>2, now' = t
<1>2. CASE at'[onCpu'] # "user"
  <2>1. cpu' = cs /\ Mode' = "Kernel"
    BY Zenon, <1>2 DEF Leave, Mode
  <2> QED
    BY Zenon, <2>1
<1> QED
  BY <1>1, <1>2

\* The invariant of the processes is kept, and the clocks follow.
LEMMA StepTInv ==
  ASSUME TInv, [Next]_vars,
         machine' = "up" =>
           ClocksOK(cpu', spent', now', onCpu', CurDead', Mode', Present(sched'))
  PROVE  TInv'
  BY Zenon, NextIInv DEF TInv

LEMMA KeptUp == ASSUME TInv, [Next]_vars, machine' = "up" PROVE onCpu' \in Present(sched')
<1>1. IInv'
  BY Zenon, NextIInv DEF TInv
<1> QED
  BY Zenon, <1>1 DEF IInv, Good, Believes

LEMMA InitTInv == TimeInit => TInv
<1> SUFFICES ASSUME TimeInit PROVE TInv
  OBVIOUS
<1>1. IInv /\ onCpu = 1 /\ 1 \in Pid /\ Present(sched) = {1, 2} /\ sched.state[1] = "Running"
  <2>1. Init
    BY DEF TimeInit
  <2>2. sched.tasks = <<1, 2>> /\ onCpu = 1 /\ 1 \in Pid
    BY <2>1, MaxPidAssumption DEF Init, ROOT_PID, KERNEL_IO_TASK_PID, Pid
  <2>3. sched.state[1] = "Running"
    BY <2>1, <2>2 DEF Init, ROOT_PID, KERNEL_IO_TASK_PID
  <2>4. Present(sched) = {1, 2}
    BY <2>2 DEF Present
  <2> QED
    BY <2>1, <2>2, <2>3, <2>4, InitIInv
<1>2. NoUsage \in Usage /\ NewClock \in Clock /\ Settled(NewClock, NoUsage)
      /\ NewClock.mode = "Kernel" /\ None \notin Pid
  BY DEF NoUsage, NewClock, Clock, Settled, Usage, Stopped, TaskMode, None, Pid
<1>3. now = 1 /\ Mode \in TaskMode /\ spent = [p \in Pid \union {None} |-> NoUsage]
  BY DEF TimeInit, Mode, TaskMode
<1> DEFINE c == [NewClock EXCEPT !.running_since = 1, !.mode = Mode]
<1>4. cpu = [p \in Pid |-> IF p # 1 THEN NewClock ELSE c]
  BY Zenon DEF TimeInit, ROOT_PID
<1>5. c \in Clock /\ c.usage = NoUsage /\ c.mode = Mode /\ c.running_since = 1
  BY Zenon, <1>2, <1>3 DEF NewClock, Clock
<1> HIDE DEF c
<1>6. Going(c, NoUsage, Mode, 1)
  <2>1. NoUsage[Mode] + (1 - 1) = NoUsage[Mode]
    BY <1>2, <1>3 DEF Usage
  <2>2. [NoUsage EXCEPT ![Mode] = @ + (1 - 1)] = NoUsage
    BY <1>2, <2>1 DEF Usage
  <2>3. snapshot(c, 1) = NoUsage
    BY <1>5, <2>2 DEF snapshot, Stopped
  <2> QED
    BY <1>5, <2>3 DEF Going
<1>7. cpu \in [Pid -> Clock] /\ cpu[1] = c /\ \A p \in Pid \ {1} : cpu[p] = NewClock
  BY <1>1, <1>2, <1>4, <1>5
<1>8. /\ spent \in [Pid \union {None} -> Usage]
      /\ \A p \in Pid : spent[p] = NoUsage
  BY <1>2, <1>3
<1>9. CurOK(cpu[1], spent[1], 1, CurDead, Mode)
  <2>1. CurDead = FALSE
    BY <1>1 DEF CurDead
  <2>2. cpu[1] = c /\ spent[1] = NoUsage
    BY <1>1, <1>7, <1>8
  <2> QED
    BY ONLY Zenon, <1>6, <2>1, <2>2 DEF CurOK
<1>10. \A p \in Pid \ {1} : Settled(cpu[p], spent[p]) /\ cpu[p].mode = "Kernel"
  BY Zenon, <1>2, <1>7, <1>8
<1>11. \A p \in Pid \ Present(sched) : cpu[p] = NewClock /\ spent[p] = NoUsage
  BY <1>1, <1>7, <1>8
<1>12. ClocksOK(cpu, spent, 1, 1, CurDead, Mode, Present(sched))
  BY <1>1, <1>3, <1>7, <1>8, <1>9, <1>10, <1>11 DEF ClocksOK
<1> QED
  BY ONLY Zenon, <1>1, <1>3, <1>12 DEF TInv

\* The task on the processor executes, in its program or in the kernel.
LEMMA ExecuteTInv == ASSUME TInv, Execute PROVE TInv'
<1>1. machine = "up" /\ UNCHANGED vars /\ cpu' = cpu /\ now' = now + 1 /\ spent' = Spend(Mode, 1)
  BY Zenon DEF Execute
<1>2. /\ onCpu \in Present(sched)
      /\ ClocksOK(cpu, spent, now, onCpu, CurDead, Mode, Present(sched))
  BY Zenon, <1>1, UpClocks
<1>3. Spend(Mode, 1) = SpendOf(spent, onCpu, CurDead, Mode, 1)
  BY Zenon DEF Spend, SpendOf, CurDead
<1>4. ClocksOK(cpu, SpendOf(spent, onCpu, CurDead, Mode, 1), now + 1, onCpu, CurDead, Mode,
               Present(sched))
  BY <1>2, TimePasses
<1>5. /\ onCpu' = onCpu /\ CurDead' = CurDead /\ Mode' = Mode
      /\ Present(sched') = Present(sched)
  BY Zenon, <1>1 DEF vars, CurDead, Mode, Present
<1>6. ClocksOK(cpu', spent', now', onCpu', CurDead', Mode', Present(sched'))
  BY ONLY Zenon, <1>1, <1>3, <1>4, <1>5
<1> QED
  BY Zenon, <1>1, <1>6, StepTInv

\* A timer interrupt.
LEMMA InterruptTInv ==
  ASSUME TInv, NEW time \in Nat, irq0_handler(time)
  PROVE  TInv'
<1>1. /\ machine = "up" /\ UNCHANGED vars /\ now' = now + time
      /\ cpu' = [cpu EXCEPT ![onCpu] = set_mode(set_mode(cpu[onCpu], "Kernel", now),
                                                cpu[onCpu].mode, now + time)]
      /\ spent' = Spend("Kernel", time)
  BY Zenon DEF irq0_handler
<1>2. /\ onCpu \in Present(sched)
      /\ ClocksOK(cpu, spent, now, onCpu, CurDead, Mode, Present(sched))
  BY Zenon, <1>1, UpClocks
<1>3. Spend("Kernel", time) = SpendOf(spent, onCpu, CurDead, "Kernel", time)
  BY Zenon DEF Spend, SpendOf, CurDead
<1>4. ClocksOK([cpu EXCEPT ![onCpu] = set_mode(set_mode(cpu[onCpu], "Kernel", now),
                                               cpu[onCpu].mode, now + time)],
               SpendOf(spent, onCpu, CurDead, "Kernel", time), now + time, onCpu, CurDead,
               Mode, Present(sched))
  BY Zenon, <1>2, Interrupted
<1>5. /\ onCpu' = onCpu /\ CurDead' = CurDead /\ Mode' = Mode
      /\ Present(sched') = Present(sched)
  BY Zenon, <1>1 DEF vars, CurDead, Mode, Present
<1>6. ClocksOK(cpu', spent', now', onCpu', CurDead', Mode', Present(sched'))
  BY ONLY Zenon, <1>1, <1>3, <1>4, <1>5
<1> QED
  BY Zenon, <1>1, <1>6, StepTInv

\* fork: the child's clock starts as the caller's stops.
LEMMA ForkTInv ==
  ASSUME TInv, NEW time \in Nat, Fork(time)
  PROVE  TInv'
<1> DEFINE child == NEXT_PID
           t     == now + time
           cs    == SwitchClocks(Entered, onCpu, child, t)
<1>1. machine = "up" /\ [Next]_vars
  BY Zenon DEF Fork, clone_from_syscall, fork_execve, Next, Work
<1>2. /\ IInv /\ sched.CURRENT_PID = onCpu /\ onCpu \in Present(sched) /\ onCpu \in Pid
      /\ Present(sched) \subseteq Pid
      /\ ClocksOK(cpu, spent, now, onCpu, CurDead, Mode, Present(sched))
  BY Zenon, <1>1, UpClocks
<1>3. /\ child \in Pid /\ child \notin Present(sched) /\ child # onCpu
      /\ onCpu' = child /\ Present(sched') = Present(sched) \union {child}
      /\ sched'.state[child] = "Running"
  <2>1. PICK cu \in BOOLEAN, ca \in {"user", "entry"}, pa \in {"user", "wait"},
               w \in {NEXT_PID, None} :
          w = (IF pa = "wait" THEN NEXT_PID ELSE None) /\ fork_current_task_with(cu, ca, pa, w)
    BY Zenon DEF Fork, clone_from_syscall, fork_execve
  <2> QED
    BY Zenon, <1>1, <1>2, <2>1, ForkEffect
<1>4. ClocksOK(Entered, Spend("Kernel", time), t, onCpu, CurDead, "Kernel", Present(sched))
  BY Zenon, <1>1, InKernelFor
<1>5. [Entered EXCEPT ![child] = NewClock] = Entered
  <2>1. Entered[child] = NewClock /\ Entered \in [Pid -> Clock]
    BY Zenon, <1>3, <1>4 DEF ClocksOK
  <2> HIDE DEF child
  <2> QED
    BY ONLY <2>1
<1>6. /\ cpu' = Leave(cs, onCpu', t) /\ now' = t /\ spent' = Spend("Kernel", time)
  <2>1. /\ cpu' = Leave(SwitchClocks([Entered EXCEPT ![child] = NewClock], onCpu, child, t),
                        onCpu', t)
        /\ now' = t /\ spent' = Spend("Kernel", time)
    BY Zenon, <1>2 DEF Fork, InKernel
  <2> QED
    BY ONLY Zenon, <1>5, <2>1
<1> HIDE DEF child, t
<1>7. ClocksOK(cs, Spend("Kernel", time), t, child, FALSE, "Kernel",
               Present(sched) \union {child})
  BY Zenon, <1>2, <1>3, <1>4, SwitchesTo
<1>8. CurDead' = FALSE
  BY <1>3 DEF CurDead
<1> HIDE DEF cs
<1>9. ClocksOK(cs, spent', t, onCpu', CurDead', "Kernel", Present(sched'))
  BY ONLY Zenon, <1>3, <1>6, <1>7, <1>8
<1>10. onCpu' \in Present(sched')
  BY Zenon, <1>3
<1>11. ClocksOK(cpu', spent', now', onCpu', CurDead', Mode', Present(sched'))
  BY Zenon, <1>6, <1>9, <1>10, LeavesKernel
<1> QED
  BY Zenon, <1>1, <1>11, StepTInv

\* A call that keeps the task list, the states and the processor.
LEMMA StaysTInv ==
  ASSUME TInv, machine = "up", [Next]_vars, NEW time \in Nat,
         sched' = sched, onCpu' = onCpu,
         cpu' = Leave(Entered, onCpu', now + time), now' = now + time,
         spent' = Spend("Kernel", time)
  PROVE  TInv'
<1>1. onCpu \in Present(sched)
  BY Zenon, UpClocks
<1>2. ClocksOK(Entered, Spend("Kernel", time), now + time, onCpu, CurDead, "Kernel",
               Present(sched))
  BY Zenon, InKernelFor
<1>3. CurDead' = CurDead /\ Present(sched') = Present(sched)
  BY Zenon DEF CurDead
<1>4. ClocksOK(Entered, spent', now + time, onCpu', CurDead', "Kernel", Present(sched'))
  BY ONLY Zenon, <1>2, <1>3, onCpu' = onCpu, spent' = Spend("Kernel", time)
<1>5. onCpu' \in Present(sched')
  BY Zenon, <1>1
<1>6. ClocksOK(cpu', spent', now', onCpu', CurDead', Mode', Present(sched'))
  BY Zenon, <1>4, <1>5, LeavesKernel
<1> QED
  BY Zenon, <1>6, StepTInv

\* execve.
LEMMA ExecTInv ==
  ASSUME TInv, NEW time \in Nat, Exec(time)
  PROVE  TInv'
<1>1. /\ machine = "up" /\ [Next]_vars /\ sched' = sched /\ onCpu' = onCpu
      /\ cpu' = Leave(Entered, onCpu', now + time) /\ now' = now + time
      /\ spent' = Spend("Kernel", time)
  BY Zenon DEF Exec, InKernel, execve_succeeds, Next, Work
<1> QED
  BY Zenon, <1>1, StaysTInv

\* Where the processor goes when a task dies and the machine goes on.
LEMMA DeathEffect ==
  ASSUME IInv, NEW s, NEW status, Dying(s, status), machine' = "up"
  PROVE  /\ onCpu' \in Pid \ {onCpu} /\ Present(sched') = Present(sched)
         /\ sched'.state[onCpu'] = "Running"
<1> DEFINE r == SwitchFromDead(s, parent[onCpu])
<1>1. /\ machine = "up"
      /\ ListOK(s) /\ Believes(s, onCpu) /\ Alone(s, onCpu)
      /\ s.state = [sched.state EXCEPT ![onCpu] = "Zombie"] /\ s.tasks = sched.tasks
      /\ sched' = r.sched /\ FollowPlan(r.plan)
  BY Zenon DEF Dying
<1>2. onCpu \in Pid /\ sched.state \in [Pid -> TaskState]
  BY Zenon, <1>1, UpFacts
<1>3. s.state[onCpu] = "Zombie"
  BY <1>1, <1>2
<1>4. /\ ListOK(r.sched) /\ r.sched.tasks = s.tasks
      /\ r.plan # None => /\ r.plan \in Present(s) /\ s.state[r.plan] \in Runnable
                          /\ r.sched.state = [s.state EXCEPT ![r.plan] = "Running"]
  <2>1. ListOK(s) /\ Believes(s, onCpu) /\ Alone(s, onCpu)
    BY Zenon, <1>1
  <2> QED
    BY ONLY Zenon, <1>3, <2>1, DeathSwitches DEF r
<1> HIDE DEF r
<1>5. r.plan # None /\ onCpu' = r.plan
  BY Zenon, <1>1 DEF FollowPlan
<1>6. Present(sched') = Present(sched) /\ Present(s) \subseteq Pid
  <2>1. sched'.tasks = sched.tasks
    BY Zenon, <1>1, <1>4
  <2>2. s.tasks \in Seq(Pid)
    BY <1>1 DEF ListOK, Schedulers
  <2> QED
    BY ONLY <2>1, <2>2 DEF Present
<1>7. r.plan # onCpu
  BY <1>3, <1>4, <1>5 DEF Runnable
<1>8. r.sched.state[r.plan] = "Running"
  <2>1. s.state \in [Pid -> TaskState] /\ r.plan \in Pid
    BY Zenon, <1>1, <1>4, <1>5, <1>6 DEF ListOK, Schedulers
  <2> QED
    BY <1>4, <1>5, <2>1
<1> QED
  BY Zenon, <1>1, <1>4, <1>5, <1>6, <1>7, <1>8

\* Death by exit or by a fault: the clock stops, and the next task's starts.
LEMMA DieTInv ==
  ASSUME TInv, NEW time \in Nat, Die(time)
  PROVE  TInv'
<1> DEFINE t       == now + time
           stopped == [Entered EXCEPT ![onCpu] = pause(Entered[onCpu], t)]
           cs      == SwitchClocks(stopped, onCpu, onCpu', t)
<1>1. machine = "up" /\ [Next]_vars
  BY Zenon DEF Die, page_fault_handler, sys_exit, Next, Work
<1> SUFFICES ASSUME machine' = "up"
             PROVE  ClocksOK(cpu', spent', now', onCpu', CurDead', Mode', Present(sched'))
  BY Zenon, <1>1, StepTInv
<1>2. /\ IInv /\ sched.CURRENT_PID = onCpu /\ onCpu \in Present(sched) /\ onCpu \in Pid
  BY Zenon, <1>1, UpClocks
<1>3. /\ onCpu' \in Pid \ {onCpu} /\ Present(sched') = Present(sched)
      /\ sched'.state[onCpu'] = "Running"
  <2>1. ~PowerOff
    BY DEF PowerOff
  <2>2. \E status \in ExitStatus : \E s : Dying(s, status)
    BY <1>2, <2>1, ExitDies, FaultDies DEF Die, ExitStatus
  <2> QED
    BY Zenon, <1>2, <2>2, DeathEffect
<1>4. ClocksOK(Entered, Spend("Kernel", time), t, onCpu, CurDead, "Kernel", Present(sched))
  BY Zenon, <1>1, InKernelFor
<1>5. /\ cpu' = Leave(cs, onCpu', t) /\ now' = t /\ spent' = Spend("Kernel", time)
  BY Zenon, <1>2 DEF Die, InKernel
<1>6. ClocksOK(stopped, Spend("Kernel", time), t, onCpu, TRUE, "Kernel", Present(sched))
  BY Zenon, <1>2, <1>4, PausesCur
<1> HIDE DEF stopped, t
<1>7. onCpu' \in Present(sched')
  BY Zenon, <1>1, KeptUp
<1>8. onCpu' \in Present(sched)
  BY ONLY Zenon, <1>3, <1>7
<1>9. ClocksOK(cs, Spend("Kernel", time), t, onCpu', FALSE, "Kernel", Present(sched))
  BY Zenon, <1>2, <1>3, <1>6, <1>8, SwitchesTo
<1>10. CurDead' = FALSE
  BY <1>3 DEF CurDead
<1> HIDE DEF cs
<1>11. ClocksOK(cs, spent', t, onCpu', CurDead', "Kernel", Present(sched'))
  BY ONLY Zenon, <1>3, <1>5, <1>9, <1>10
<1> QED
  BY Zenon, <1>5, <1>7, <1>11, LeavesKernel

\* Pausing the clock of a task that is not on the processor changes nothing.
LEMMA PausesOther ==
  ASSUME NEW cs, NEW sp, NEW t, NEW cur, NEW dead, NEW mode, NEW pres,
         ClocksOK(cs, sp, t, cur, dead, mode, pres), NEW p \in Pid \ {cur}
  PROVE  [cs EXCEPT ![p] = pause(cs[p], t)] = cs
<1>1. cs \in [Pid -> Clock] /\ cs[p] \in Clock /\ cs[p].running_since = Stopped
  BY Zenon DEF ClocksOK, Settled
<1>2. snapshot(cs[p], t) = cs[p].usage
  BY Zenon, <1>1 DEF snapshot
<1>3. pause(cs[p], t) = cs[p]
  <2> DEFINE c == cs[p]
             d == [c EXCEPT !.usage = c.usage, !.running_since = c.running_since]
  <2>1. pause(c, t) = d
    BY Zenon, <1>1, <1>2 DEF pause
  <2>2. d = c
    BY Zenon, <1>1 DEF Clock
  <2> QED
    BY ONLY Zenon, <2>1, <2>2
<1> QED
  BY ONLY <1>1, <1>3

\* A fatal signal, to the task itself or to another.
LEMMA KillTInv ==
  ASSUME TInv, NEW time \in Nat, Kill(time)
  PROVE  TInv'
<1> DEFINE t == now + time
<1>1. PICK target \in Pid :
        /\ sys_kill(target) \/ (ctrl_c /\ target = sched.CURRENT_PID)
        /\ InKernel(time, [Entered EXCEPT ![target] = pause(Entered[target], t)])
  BY Zenon DEF Kill
<1> DEFINE cs == [Entered EXCEPT ![target] = pause(Entered[target], t)]
<1>2. machine = "up" /\ [Next]_vars /\ deliver_signal(target)
  BY Zenon, <1>1 DEF sys_kill, ctrl_c, Next, Signals
<1> SUFFICES ASSUME machine' = "up"
             PROVE  ClocksOK(cpu', spent', now', onCpu', CurDead', Mode', Present(sched'))
  BY Zenon, <1>2, StepTInv
<1>3. /\ IInv /\ sched.CURRENT_PID = onCpu /\ onCpu \in Present(sched) /\ onCpu \in Pid
      /\ sched \in Schedulers
  BY Zenon, <1>2, UpClocks DEF IInv, ListOK
<1>4. /\ onCpu' = onCpu /\ sched'.tasks = sched.tasks
      /\ sched'.state = [sched.state EXCEPT ![target] = "Zombie"]
  <2>1. /\ sched' = [sched EXCEPT !.state = [sched.state EXCEPT ![target] = "Zombie"],
                                  !.running = sched.running \ {target}]
        /\ onCpu' = onCpu
    BY Zenon, <1>2 DEF deliver_signal, PowerOff
  <2> QED
    BY Zenon, <1>3, <2>1 DEF Schedulers
<1>5. /\ cpu' = Leave(cs, onCpu', t) /\ now' = t /\ spent' = Spend("Kernel", time)
  BY Zenon, <1>1 DEF Kill, InKernel
<1>6. ClocksOK(Entered, Spend("Kernel", time), t, onCpu, CurDead, "Kernel", Present(sched))
  BY Zenon, <1>2, InKernelFor
<1>7. Present(sched') = Present(sched)
  BY Zenon, <1>4 DEF Present
<1>8. ClocksOK(cs, Spend("Kernel", time), t, onCpu, CurDead', "Kernel", Present(sched))
  <2>1. CASE target = onCpu
    <3>1. ClocksOK([Entered EXCEPT ![onCpu] = pause(Entered[onCpu], t)],
                   Spend("Kernel", time), t, onCpu, TRUE, "Kernel", Present(sched))
      BY Zenon, <1>3, <1>6, PausesCur
    <3>2. CurDead' = TRUE
      BY <1>3, <1>4, <2>1 DEF CurDead, Schedulers
    <3> QED
      BY ONLY Zenon, <2>1, <3>1, <3>2
  <2>2. CASE target # onCpu
    <3>1. cs = Entered
      <4>1. target \in Pid \ {onCpu}
        BY Zenon, <1>1, <2>2
      <4> QED
        BY ONLY Zenon, <1>6, <4>1, PausesOther DEF cs
    <3>2. CurDead' = CurDead
      BY <1>3, <1>4, <2>2 DEF CurDead, Schedulers
    <3> QED
      BY ONLY Zenon, <1>6, <3>1, <3>2
  <2> QED
    BY <2>1, <2>2
<1> HIDE DEF cs, t
<1>9. onCpu' \in Present(sched')
  BY Zenon, <1>3, <1>4, <1>7
<1>10. ClocksOK(cs, spent', t, onCpu', CurDead', "Kernel", Present(sched'))
  BY ONLY Zenon, <1>4, <1>5, <1>7, <1>8
<1> QED
  BY Zenon, <1>5, <1>9, <1>10, LeavesKernel

\* A step in which the task on the processor idles until an interrupt.
LEMMA IdlesTInv ==
  ASSUME TInv, machine = "up", [Next]_vars, NEW time \in Nat, NEW idle \in Nat,
         sched' = sched, onCpu' = onCpu,
         cpu' = Leave(IdleClocks(Entered, onCpu, now + time, idle), onCpu, now + time + idle),
         now' = now + time + idle, spent' = Spend("Kernel", time)
  PROVE  TInv'
<1> DEFINE cs == IdleClocks(Entered, onCpu, now + time, idle)
           t  == now + time + idle
<1>1. onCpu \in Present(sched)
  BY Zenon, UpClocks
<1>2. ClocksOK(Entered, Spend("Kernel", time), now + time, onCpu, CurDead, "Kernel",
               Present(sched))
  BY Zenon, InKernelFor
<1>3. ClocksOK(cs, Spend("Kernel", time), t, onCpu, CurDead, "Kernel", Present(sched))
  BY Zenon, <1>1, <1>2, IdlesUntil
<1>4. /\ cpu' = Leave(cs, onCpu', t) /\ now' = t
  BY Zenon
<1> HIDE DEF cs, t
<1>5. CurDead' = CurDead /\ Present(sched') = Present(sched)
  BY Zenon DEF CurDead
<1>6. ClocksOK(cs, spent', t, onCpu', CurDead', "Kernel", Present(sched'))
  BY ONLY Zenon, <1>3, <1>5, onCpu' = onCpu, spent' = Spend("Kernel", time)
<1>7. onCpu' \in Present(sched')
  BY Zenon, <1>1
<1>8. ClocksOK(cpu', spent', now', onCpu', CurDead', Mode', Present(sched'))
  BY Zenon, <1>4, <1>6, <1>7, LeavesKernel
<1> QED
  BY Zenon, <1>8, StepTInv

\* A read of the terminal that idles.
LEMMA IdleTInv ==
  ASSUME TInv, NEW time \in Nat, NEW idle \in Nat, Idle(time, idle)
  PROVE  TInv'
<1>1. machine = "up" /\ [Next]_vars
  BY Zenon DEF Idle, terminal_read_idles, Next, Work
<1>2. IInv /\ sched.CURRENT_PID = onCpu /\ Good(sched, onCpu)
  BY Zenon, <1>1, UpClocks DEF IInv
<1>3. sched' = sched /\ onCpu' = onCpu
  BY Zenon, <1>2, IdleChangesNothing DEF Idle, terminal_read_idles
<1>4. /\ cpu' = Leave(IdleClocks(Entered, onCpu, now + time, idle), onCpu,
                      now + time + idle)
      /\ now' = now + time + idle /\ spent' = Spend("Kernel", time)
  BY Zenon, <1>2 DEF Idle
<1> QED
  BY Zenon, <1>1, <1>3, <1>4, IdlesTInv

\* wait4 reaps a child: its clock is gone from the list, the parent's own clock
\* goes on.
LEMMA ReapTInv ==
  ASSUME TInv, machine = "up", [Next]_vars, NEW time \in Nat, NEW idle \in Nat,
         Wait(time, idle), NEW child \in Present(sched) \ {onCpu}, Reaped(child)
  PROVE  TInv'
<1> DEFINE t  == now + time
           cs == [Entered EXCEPT ![onCpu] = reap(Entered[onCpu], cpu[child], t),
                                 ![child] = NewClock]
           S  == Spend("Kernel", time)
           sp == [S EXCEPT ![None] = Add(S[None], spent[child]), ![child] = NoUsage]
<1>1. /\ IInv /\ sched.CURRENT_PID = onCpu /\ onCpu \in Present(sched) /\ onCpu \in Pid
      /\ Present(sched) \subseteq Pid
      /\ ClocksOK(cpu, spent, now, onCpu, CurDead, Mode, Present(sched))
  BY Zenon, UpClocks
<1>2. /\ Present(sched') = Present(sched) \ {child} /\ onCpu' = onCpu
      /\ sched'.state = [sched.state EXCEPT ![child] = "Free"]
  BY Zenon DEF Reaped
<1>3. Present(sched) \ Present(sched') = {child}
  BY Zenon, <1>2
<1>4. Max({child}) = child
  <2>1. child \in Nat
    BY <1>1 DEF Pid
  <2> QED
    BY <2>1 DEF Max
<1>5. cpu' = Leave(cs, onCpu', t) /\ now' = t /\ spent' = sp
  <2>1. /\ InKernel(time, [Entered EXCEPT ![sched.CURRENT_PID] = reap(@, cpu[Max({child})], t),
                                          ![Max({child})] = NewClock])
        /\ spent' = [S EXCEPT ![None] = Add(@, spent[Max({child})]), ![Max({child})] = NoUsage]
    BY Zenon, <1>3 DEF Wait
  <2> QED
    BY Zenon, <1>1, <1>4, <2>1 DEF InKernel
<1>6. ClocksOK(Entered, S, t, onCpu, CurDead, "Kernel", Present(sched))
  BY Zenon, InKernelFor
<1>7. Settled(cpu[child], spent[child]) /\ child \in Pid \ {onCpu} /\ spent[child] \in Usage
  <2>1. child \in Pid \ {onCpu}
    BY Zenon, <1>1
  <2>2. Settled(cpu[child], spent[child]) /\ spent \in [Pid \union {None} -> Usage]
    BY Zenon, <1>1, <2>1 DEF ClocksOK
  <2> QED
    BY <2>1, <2>2
<1> HIDE DEF S, t
<1>8. ClocksOK(cs, sp, t, onCpu, CurDead, "Kernel", Present(sched) \ {child})
  BY Zenon, <1>1, <1>6, <1>7, ReapsClock
<1>9. CurDead' = CurDead
  <2>1. sched.state \in [Pid -> TaskState]
    BY Zenon, UpFacts, <1>1
  <2>2. sched'.state[onCpu] = sched.state[onCpu]
    BY <1>1, <1>2, <2>1
  <2> QED
    BY Zenon, <1>2, <2>2 DEF CurDead
<1> HIDE DEF cs, sp
<1>10. ClocksOK(cs, spent', t, onCpu', CurDead', "Kernel", Present(sched'))
  BY ONLY Zenon, <1>2, <1>5, <1>8, <1>9
<1>11. onCpu' \in Present(sched')
  BY Zenon, <1>1, <1>2
<1>12. ClocksOK(cpu', spent', now', onCpu', CurDead', Mode', Present(sched'))
  BY Zenon, <1>5, <1>10, <1>11, LeavesKernel
<1> QED
  BY Zenon, <1>12, StepTInv

\* One iteration of wait4.
LEMMA WaitTInv ==
  ASSUME TInv, NEW time \in Nat, NEW idle \in Nat, Wait(time, idle)
  PROVE  TInv'
<1>1. PICK want \in Pid \union {None} : wait_for_child(want)
  BY Zenon DEF Wait
<1>2. machine = "up" /\ [Next]_vars
  BY Zenon, <1>1 DEF wait_for_child, Next, Work
<1>3. IInv /\ sched.CURRENT_PID = onCpu /\ Good(sched, onCpu) /\ now \in Nat
  <2>1. IInv /\ sched.CURRENT_PID = onCpu /\ Good(sched, onCpu) /\ now \in Nat \ {0}
    BY Zenon, <1>2, UpClocks DEF IInv, ClocksOK
  <2> QED
    BY <2>1
<1>4. CASE WaitReaps(want)
  BY Zenon, <1>2, <1>3, <1>4, ReapEffect, ReapTInv
<1>5. CASE WaitHasNoChild(want) \/ WaitIdles(want)
  <2>1. sched' = sched /\ onCpu' = onCpu
    BY Zenon, <1>3, <1>5, IdleChangesNothing DEF WaitHasNoChild, WaitIdles
  <2>2. Present(sched) \ Present(sched') = {}
    BY Zenon, <2>1
  <2>3. /\ now' = now + time + idle
        /\ cpu' = Leave(IF at'[onCpu] = "wait" THEN IdleClocks(Entered, onCpu, now + time, idle)
                        ELSE Entered, onCpu, now + time + idle)
        /\ at'[onCpu] # "wait" => idle = 0
        /\ spent' = Spend("Kernel", time)
    BY Zenon, <1>3, <2>2 DEF Wait
  <2>4. CASE at'[onCpu] = "wait"
    <3>1. cpu' = Leave(IdleClocks(Entered, onCpu, now + time, idle), onCpu,
                       now + time + idle)
      BY Zenon, <2>3, <2>4
    <3> QED
      BY Zenon, <1>2, <2>1, <2>3, <3>1, IdlesTInv
  <2>5. CASE at'[onCpu] # "wait"
    <3>1. now + time + idle = now + time
      BY <1>3, <2>3, <2>5
    <3>2. cpu' = Leave(Entered, onCpu, now + time + idle)
      BY Zenon, <2>3, <2>5
    <3>3. cpu' = Leave(Entered, onCpu', now + time) /\ now' = now + time
      BY ONLY Zenon, <2>1, <2>3, <3>1, <3>2
    <3> QED
      BY Zenon, <1>2, <2>1, <2>3, <3>3, StaysTInv
  <2> QED
    BY <2>4, <2>5
<1> QED
  BY Zenon, <1>1, <1>4, <1>5 DEF wait_for_child

\* Every step of the clocks is a step of the processes, or none.
LEMMA TimeStep == [TimeNext]_timeVars => [Next]_vars
<1> SUFFICES ASSUME [TimeNext]_timeVars PROVE [Next]_vars
  OBVIOUS
<1>1. CASE UNCHANGED timeVars
  BY Zenon, <1>1 DEF timeVars, vars
<1>2. CASE Execute
  BY Zenon, <1>2 DEF Execute
<1>3. CASE End
  BY Zenon, <1>3 DEF End, Next, Work
<1>4. ASSUME NEW time \in 0 .. 1, irq0_handler(time) PROVE [Next]_vars
  BY Zenon, <1>4 DEF irq0_handler
<1>5. ASSUME NEW time \in 0 .. 1, Fork(time) \/ Exec(time) \/ Die(time) PROVE [Next]_vars
  BY Zenon, <1>5 DEF Fork, Exec, Die, Next, Work
<1>6. ASSUME NEW time \in 0 .. 1, Kill(time) PROVE [Next]_vars
  BY Zenon, <1>6 DEF Kill, Next, Signals
<1>7. ASSUME NEW time \in 0 .. 1, NEW idle \in 0 .. 1, Idle(time, idle) \/ Wait(time, idle)
      PROVE  [Next]_vars
  BY Zenon, <1>7 DEF Idle, Wait, Next, Work
<1> QED
  BY Zenon, <1>1, <1>2, <1>3, <1>4, <1>5, <1>6, <1>7 DEF TimeNext

\* Power goes off, or is off.
LEMMA EndTInv == ASSUME TInv, End PROVE TInv'
<1>1. machine' # "up"
  BY Zenon DEF End, terminate_root_process, sys_shutdown, PowerOff, Off, vars
<1>2. [Next]_vars
  BY Zenon DEF End, Next, Work
<1> QED
  BY Zenon, <1>1, <1>2, StepTInv

\* Every step keeps the invariant.
LEMMA NextTInv == TInv /\ [TimeNext]_timeVars => TInv'
<1> SUFFICES ASSUME TInv, [TimeNext]_timeVars PROVE TInv'
  OBVIOUS
<1>1. CASE UNCHANGED timeVars
  <2>1. /\ cpu' = cpu /\ spent' = spent /\ now' = now /\ onCpu' = onCpu
        /\ machine' = machine /\ CurDead' = CurDead /\ Mode' = Mode
        /\ Present(sched') = Present(sched)
    BY Zenon, <1>1 DEF timeVars, CurDead, Mode, Present
  <2>2. machine' = "up" =>
          ClocksOK(cpu', spent', now', onCpu', CurDead', Mode', Present(sched'))
    BY Zenon, <2>1 DEF TInv
  <2>3. [Next]_vars
    BY Zenon, TimeStep
  <2> QED
    BY Zenon, <2>2, <2>3, StepTInv
<1>2. CASE Execute
  BY Zenon, <1>2, ExecuteTInv
<1>3. CASE End
  BY Zenon, <1>3, EndTInv
<1>4. ASSUME NEW time \in 0 .. 1,
             irq0_handler(time) \/ Fork(time) \/ Exec(time) \/ Die(time) \/ Kill(time)
      PROVE  TInv'
  <2>1. time \in Nat
    OBVIOUS
  <2> QED
    BY Zenon, <1>4, <2>1, InterruptTInv, ForkTInv, ExecTInv, DieTInv, KillTInv
<1>5. ASSUME NEW time \in 0 .. 1, NEW idle \in 0 .. 1, Idle(time, idle) \/ Wait(time, idle)
      PROVE  TInv'
  <2>1. time \in Nat /\ idle \in Nat
    OBVIOUS
  <2> QED
    BY Zenon, <1>5, <2>1, IdleTInv, WaitTInv
<1> QED
  BY Zenon, <1>1, <1>2, <1>3, <1>4, <1>5 DEF TimeNext

\* The invariant implies the property.
LEMMA TInvShows == TInv => ShowsWhatWasSpent
<1> SUFFICES ASSUME TInv, machine = "up", NEW p \in Present(sched)
             PROVE  Shown[p] = spent[p]
  BY Zenon DEF ShowsWhatWasSpent
<1>1. /\ p \in Pid /\ onCpu \in Pid
      /\ ClocksOK(cpu, spent, now, onCpu, CurDead, Mode, Present(sched))
  BY Zenon, UpClocks
<1>2. Shown[p] = snapshot(cpu[p], now)
  BY <1>1 DEF Shown
<1>3. CASE p = onCpu
  BY Zenon, <1>1, <1>2, <1>3 DEF ClocksOK, CurOK, Going, Settled, snapshot
<1>4. CASE p # onCpu
  <2>1. Settled(cpu[p], spent[p])
    BY Zenon, <1>1, <1>4 DEF ClocksOK
  <2> QED
    BY Zenon, <1>2, <2>1 DEF Settled, snapshot
<1> QED
  BY <1>3, <1>4

-----------------------------------------------------------------------------
\* CpuAccounting only watches: the system with clocks behaves as the one
\* without, so whatever is proved of the processes holds of it too.
THEOREM ClocksOnlyWatch == TimeSpec => Spec
<1>1. TimeInit => Init
  BY DEF TimeInit
<1> QED
  BY <1>1, TimeStep, PTL DEF TimeSpec, Spec

\* snapshot shows for every task in the list, at every moment, exactly the time
\* it executed in each mode, across calls, interrupts, switches, idle waits,
\* deaths and reaps.
THEOREM SnapshotsAreExact == TimeSpec => []ShowsWhatWasSpent
<1>1. TimeSpec => []TInv
  BY InitTInv, NextTInv, PTL DEF TimeSpec
<1> QED
  BY <1>1, TInvShows, PTL

==============================================================================
