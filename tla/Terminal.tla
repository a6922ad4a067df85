------------------------------ MODULE Terminal ------------------------------
(***************************************************************************)
(* Terminals: the line discipline (drivers/char/ldisc.rs), the virtual     *)
(* consoles that share one keyboard and one serial line                    *)
(* (drivers/tty/mod.rs), that serial port with a discipline of its own     *)
(* (drivers/char/serial.rs) and a pseudo-terminal (drivers/char/pty.rs).   *)
(*                                                                         *)
(* One task runs at a time, and whoever polls moves the input of all       *)
(* consoles: a reader of any of them, a change of settings that flushes,   *)
(* the kernel I/O task.  "job" is what the running task is in the middle   *)
(* of; keys and bytes arrive at any moment.                                *)
(***************************************************************************)
EXTENDS Integers, Sequences, SequencesExt

CONSTANTS
  Console,         \* virtual consoles
  Key,             \* bytes that can be typed
  Script,          \* what users and programs do: sequences of events
  Settings,        \* terminal settings: [icanon, echo, isig, icrnl, onlcr]
  Default,         \* the settings a terminal starts with
  ReadSize,        \* sizes of the buffers that programs read into
  CANON_BUF_MAX, PTY_BUF_SIZE,
  MaxChanges       \* bound: changes of settings

VARIABLES
  ldisc,     \* line discipline of each terminal: [settings, canon_buf, read_queue]
  active,    \* console that gets the input
  held,      \* modifier keys that are down
  keyboard,  \* PS/2 events not yet taken
  wire,      \* bytes in the receiver of the serial port
  job,       \* [kind, term, pc, ...] of the running task
  echo,      \* pty: echo_to_mgr
  output,    \* pty: sub_to_mgr
  fed,       \* history: the bytes that each discipline was given
  taken,     \* history: what was read from each terminal
  left,      \* what is still going to happen
  changes,   \* changes of settings so far
  written,   \* history: what was written to each queue of the pseudo-terminal
  seen       \* history: what its manager read from each

console == <<active, held>>
pty == <<echo, output, written, seen>>
env == <<left, changes>>
vars == <<ldisc, console, keyboard, wire, job, pty, fed, taken, env>>

Port == "ttyS0"   \* the serial device that is also wired into the console layer
Pty == "pty"
Term == Console \cup {Port, Pty}
None == [kind |-> "none"]

-----------------------------------------------------------------------------
(* ldisc.rs                                                                  *)

EraseEcho == <<"left", "space", "left">>

\* What a byte does to a discipline, and what it gives to echo.
process_input(l, raw) ==
  LET s == l.settings
      byte == IF s.icrnl /\ raw = "cr" THEN "nl" ELSE raw
      result(canon, queue, shown) ==
        [ldisc |-> [l EXCEPT !.canon_buf = canon, !.read_queue = queue],
         echo |-> IF s.echo THEN shown ELSE <<>>]
  IN  IF ~s.icanon THEN result(l.canon_buf, Append(l.read_queue, byte), <<byte>>)
      ELSE CASE byte = "hist" -> result(l.canon_buf, Append(l.read_queue, byte), <<>>)
             [] byte = "del" ->
                  IF l.canon_buf = <<>> THEN result(<<>>, l.read_queue, <<>>)
                  ELSE result(Front(l.canon_buf), l.read_queue, EraseEcho)
             [] byte = "intr" /\ s.isig -> result(<<>>, l.read_queue, <<"^C", "nl">>)
             [] byte = "kill" ->
                  result(<<>>, l.read_queue, IF l.canon_buf = <<>> THEN <<>> ELSE <<"^U", "nl">>)
             [] byte = "nl" -> result(<<>>, Append(l.read_queue \o l.canon_buf, "nl"), <<"nl">>)
             [] OTHER -> result(IF Len(l.canon_buf) < CANON_BUF_MAX THEN Append(l.canon_buf, byte)
                                ELSE l.canon_buf, l.read_queue, <<byte>>)

\* Mutant of set_terminal_settings: the unfinished line stays where it is.
SettingsOnly(l, s, flush) ==
  IF flush THEN [settings |-> s, canon_buf |-> <<>>, read_queue |-> <<>>]
  ELSE [l EXCEPT !.settings = s]

set_terminal_settings(l, s, flush) ==
  IF flush THEN [settings |-> s, canon_buf |-> <<>>, read_queue |-> <<>>]
  ELSE IF l.settings.icanon /\ ~s.icanon
  THEN [settings |-> s, canon_buf |-> <<>>, read_queue |-> l.read_queue \o l.canon_buf]
  ELSE [l EXCEPT !.settings = s]

process_output(l, bytes) ==
  FlattenSeq([i \in DOMAIN bytes |->
                IF l.settings.onlcr /\ bytes[i] = "nl" THEN <<"cr", "nl">> ELSE <<bytes[i]>>])

\* LineDiscipline::read by a task that asks for n bytes.
Take(t, n) ==
  LET k == Min({n, Len(ldisc[t].read_queue)})
  IN  /\ taken' = [taken EXCEPT ![t] = @ \o SubSeq(ldisc[t].read_queue, 1, k)]
      /\ ldisc' = [ldisc EXCEPT ![t].read_queue = SubSeq(@, k + 1, Len(@))]

\* One byte for terminal t.  The echo of a console goes to the screen.  When it is
\* that of Ctrl-C the running task is made a zombie, and goes on with its call.
Feed(t, byte) ==
  /\ ldisc' = [ldisc EXCEPT ![t] = process_input(@, byte).ldisc]
  /\ fed' = [fed EXCEPT ![t] = Append(@, byte)]

-----------------------------------------------------------------------------
(* What arrives: events of the keyboard, bytes on the serial line.           *)

\* [type |-> "char", byte], [type |-> "down" or "up", key], [type |-> "function", to]:
\* a key; [type |-> "serial", byte]: a byte on the line; [type |-> "manager", byte] and
\* [type |-> "output", bytes]: writes to the two ends of the pseudo-terminal.
Arrival ==
  /\ left # <<>> /\ left' = Tail(left)
  /\ LET e == Head(left)
     IN  \/ /\ e.type \in {"char", "down", "up", "function"}
            /\ keyboard' = Append(keyboard, e) /\ UNCHANGED wire
         \/ /\ e.type = "serial"
            /\ wire' = Append(wire, e.byte) /\ UNCHANGED keyboard
  /\ UNCHANGED <<ldisc, console, job, pty, fed, taken, changes>>

-----------------------------------------------------------------------------
(* tty/mod.rs and serial.rs: the running task.                               *)

\* queue_input_for_active.
QueueInput(byte) == Feed(active, byte)

\* poll_input: what the serial port has received, and then the keyboard.
PollSerial ==
  /\ job.kind # "none" /\ job.term # Port /\ job.pc = "serial"
  /\ IF wire # <<>>
     THEN QueueInput(Head(wire)) /\ wire' = Tail(wire) /\ UNCHANGED job
     ELSE job' = [job EXCEPT !.pc = "keys"] /\ UNCHANGED <<wire, ldisc, fed>>
  /\ UNCHANGED <<console, keyboard, pty, taken, env>>

\* maybe_switch_from_key.
Switches(e) == e.type = "function" /\ held = {"ctrl", "alt"}

PollKey ==
  /\ job.kind # "none" /\ job.pc = "keys"
  /\ IF keyboard = <<>>
     THEN job' = [job EXCEPT !.pc = "act"] /\ UNCHANGED <<console, keyboard, ldisc, fed>>
     ELSE LET e == Head(keyboard)
          IN  /\ keyboard' = Tail(keyboard)
              /\ held' = CASE e.type = "down" -> held \cup {e.key}
                           [] e.type = "up"   -> held \ {e.key}
                           [] OTHER           -> held
              /\ active' = IF Switches(e) THEN e.to ELSE active
              /\ IF e.type = "char" THEN QueueInput(e.byte) ELSE UNCHANGED <<ldisc, fed>>
              /\ UNCHANGED job
  /\ UNCHANGED <<wire, pty, taken, env>>

\* A call starts.  Reads of the pseudo-terminal do not wait and are below.
Begin ==
  /\ job = None
  /\ \/ \E t \in Console \cup {Port}, n \in ReadSize :
          job' = [kind |-> "read", term |-> t, size |-> n, pc |-> "serial"] /\ UNCHANGED changes
     \/ /\ changes < MaxChanges /\ changes' = changes + 1
        /\ \E t \in Console \cup {Port}, s \in Settings :
             job' = [kind |-> "flush", term |-> t, settings |-> s, pc |-> "serial"]
     \/ job' = [kind |-> "poll", term |-> "none", pc |-> "serial"]   \* kernel_io_task_entry
        /\ UNCHANGED changes
  /\ UNCHANGED <<ldisc, console, keyboard, wire, pty, fed, taken, left>>

\* Mutant of Idle: the task waits for the queue without polling again.
IdleOnly == job.pc

\* idle_until_interrupt, and the loop starts over.
Idle == "serial"

\* tty_read after poll_input; read_cooked after the receiver is drained.
FinishRead ==
  /\ job.kind = "read" /\ job.pc = "act"
  /\ IF ldisc[job.term].read_queue # <<>>
     THEN Take(job.term, job.size) /\ job' = None
     ELSE job' = [job EXCEPT !.pc = Idle] /\ UNCHANGED <<ldisc, taken>>
  /\ UNCHANGED <<console, keyboard, wire, pty, fed, env>>

\* read_cooked: the bytes received go to the discipline of the port.
CookedInput ==
  /\ job.kind = "read" /\ job.term = Port /\ job.pc = "serial"
  /\ IF wire # <<>>
     THEN Feed(Port, Head(wire)) /\ wire' = Tail(wire) /\ UNCHANGED job
     ELSE job' = [job EXCEPT !.pc = "act"] /\ UNCHANGED <<wire, ldisc, fed>>
  /\ UNCHANGED <<console, keyboard, pty, taken, env>>

\* set_terminal_settings with flush: a console polls first, the serial port
\* throws away what it has received.
FinishFlush ==
  /\ job.kind = "flush" /\ (job.term = Port \/ job.pc = "act")
  /\ wire' = IF job.term = Port THEN <<>> ELSE wire
  /\ ldisc' = [ldisc EXCEPT ![job.term] = set_terminal_settings(@, job.settings, TRUE)]
  /\ job' = None
  /\ UNCHANGED <<console, keyboard, pty, fed, taken, env>>

FinishPoll ==
  /\ job.kind = "poll" /\ job.pc = "act"
  /\ job' = None
  /\ UNCHANGED <<ldisc, console, keyboard, wire, pty, fed, taken, env>>

\* set_terminal_settings without flush, on any terminal.
ChangeSettings ==
  /\ job = None /\ changes < MaxChanges /\ changes' = changes + 1
  /\ \E t \in Term, s \in Settings :
       /\ s # ldisc[t].settings
       /\ ldisc' = [ldisc EXCEPT ![t] = set_terminal_settings(@, s, FALSE)]
  /\ UNCHANGED <<console, keyboard, wire, job, pty, fed, taken, left>>

-----------------------------------------------------------------------------
(* pty.rs                                                                    *)

Fitting(s) == SubSeq(s, 1, Min({Len(s), PTY_BUF_SIZE}))

\* The manager types: no signal is delivered, and echo beyond the buffer is lost.
ManagerWrite ==
  /\ job = None
  /\ left # <<>> /\ Head(left).type = "manager" /\ left' = Tail(left)
  /\ Feed(Pty, Head(left).byte)
  /\ LET shown == process_input(ldisc[Pty], Head(left).byte).echo
     IN  /\ echo' = Fitting(echo \o shown)
         /\ written' = [written EXCEPT !.echo = Append(@, shown)]
  /\ UNCHANGED <<console, keyboard, wire, job, output, seen, taken, changes>>

\* Mutant of Drain: bytes leave the queues although they do not fit the buffer.
DrainMore(n) == [echo |-> Min({n, Len(echo)}), output |-> Min({n, Len(output)})]

\* How much a read of n bytes takes from each queue: echo first.
Drain(n) ==
  LET e == Min({n, Len(echo)})
  IN  [echo |-> e, output |-> Min({n - e, Len(output)})]

ManagerRead ==
  /\ job = None
  /\ \E n \in ReadSize :
       LET d == Drain(n)
           shown == SubSeq(echo, 1, d.echo)
           rest == SubSeq(output, 1, Min({n - d.echo, d.output}))
       IN  /\ d.echo + d.output > 0
           /\ echo' = SubSeq(echo, d.echo + 1, Len(echo))
           /\ output' = SubSeq(output, d.output + 1, Len(output))
           /\ seen' = [echo |-> seen.echo \o shown, output |-> seen.output \o rest]
  /\ UNCHANGED <<ldisc, console, keyboard, wire, job, written, fed, taken, env>>

SubsidiaryRead ==
  /\ job = None
  /\ ldisc[Pty].read_queue # <<>>
  /\ \E n \in ReadSize : Take(Pty, n)
  /\ UNCHANGED <<console, keyboard, wire, job, pty, fed, env>>

\* The subsidiary writes: what does not fit is lost, and the caller is not told.
SubsidiaryWrite ==
  /\ job = None
  /\ left # <<>> /\ Head(left).type = "output" /\ left' = Tail(left)
  /\ LET processed == process_output(ldisc[Pty], Head(left).bytes)
     IN  /\ output' = Fitting(output \o processed)
         /\ written' = [written EXCEPT !.output = Append(@, processed)]
  /\ UNCHANGED <<ldisc, console, keyboard, wire, job, echo, seen, fed, taken, changes>>

-----------------------------------------------------------------------------
Fresh == [settings |-> Default, canon_buf |-> <<>>, read_queue |-> <<>>]

Init ==
  /\ ldisc = [t \in Term |-> Fresh]
  /\ active \in Console /\ held = {}
  /\ keyboard = <<>> /\ wire = <<>> /\ job = None
  /\ echo = <<>> /\ output = <<>>
  /\ written = [echo |-> <<>>, output |-> <<>>] /\ seen = [echo |-> <<>>, output |-> <<>>]
  /\ fed = [t \in Term |-> <<>>] /\ taken = [t \in Term |-> <<>>] /\ left \in Script /\ changes = 0

\* The steps of the running task inside a call.
Step == PollSerial \/ PollKey \/ CookedInput \/ FinishRead \/ FinishFlush \/ FinishPoll

PtyNext == ManagerWrite \/ ManagerRead \/ SubsidiaryRead \/ SubsidiaryWrite

Next == Arrival \/ Begin \/ Step \/ ChangeSettings \/ PtyNext

\* The running task goes on with the call it is in: nothing preempts it.
Spec == Init /\ [][Next]_vars /\ WF_vars(Step)

-----------------------------------------------------------------------------
Editor(t) == INSTANCE LineEditor WITH
  Byte <- Key, Limit <- CANON_BUF_MAX, Mode <- Settings,
  text <- taken[t] \o ldisc[t].read_queue \o ldisc[t].canon_buf,
  ready <- Len(taken[t]) + Len(ldisc[t].read_queue),
  taken <- Len(taken[t]),
  mode <- ldisc[t].settings,
  typed <- fed[t]

\* Every terminal is a line editor for the bytes typed on it: whoever polls,
\* whichever console is active in between and whenever the settings change, the
\* lines arrive whole, edited and in order.  Each byte a discipline is given has
\* its effect: one is dropped only where the line has CANON_BUF_MAX bytes
\* already (process_input), and what was typed is thrown away only by a flush.
EditorImplemented ==
  /\ \A t \in Term : Editor(t)!Init
  /\ [][\A t \in Term : Editor(t)!Next \/ UNCHANGED Editor(t)!vars]_vars

\* The console that is active, and the keys held, after the first i events.
RECURSIVE After(_)
After(i) ==
  IF i = 0 THEN [active |-> active, held |-> held]
  ELSE LET before == After(i - 1)
           e == keyboard[i]
       IN  [active |-> IF e.type = "function" /\ before.held = {"ctrl", "alt"} THEN e.to
                       ELSE before.active,
            held |-> CASE e.type = "down" -> before.held \cup {e.key}
                       [] e.type = "up"   -> before.held \ {e.key}
                       [] OTHER           -> before.held]

\* A new line for console t is on its way.
Coming(t) ==
  \E i \in DOMAIN keyboard :
    keyboard[i] = [type |-> "char", byte |-> "nl"] /\ After(i - 1).active = t

\* A task that reads from a console gets the line that is typed there, even when
\* the consoles are switched back and forth meanwhile.
LineArrives ==
  \A t \in Console : (job.kind = "read" /\ job.term = t /\ Coming(t)) ~> (job = None)

\* A queue gave out, and still holds, the pieces written to it, in order, with
\* nothing missing but the end of pieces, and not before it was full once.
InOrder(pieces, passed) ==
  \E cut \in [DOMAIN pieces -> 0 .. PTY_BUF_SIZE] :
    LET kept(n) == FlattenSeq([i \in 1 .. n |-> SubSeq(pieces[i], 1, cut[i])])
    IN  /\ \A i \in DOMAIN pieces :
             /\ cut[i] <= Len(pieces[i])
             /\ cut[i] < Len(pieces[i]) => Len(kept(i)) >= PTY_BUF_SIZE
        /\ passed = kept(Len(pieces))

\* What the manager of a pseudo-terminal reads is the echo of what it typed and
\* what was written to the other end, each in order, where only the end of a
\* write or of an echo can be missing, also when a read makes room for later ones
\* after a loss (PtyManagerDevice::read and write, PtySubsidiaryDevice::write).
PtyKeepsOrder ==
  /\ InOrder(written.output, seen.output \o output)
  /\ InOrder(written.echo, seen.echo \o echo)
=============================================================================
