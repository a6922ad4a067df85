----------------------------- MODULE LineEditor -----------------------------
(***************************************************************************)
(* What a terminal promises a program that reads from it: one text, the    *)
(* bytes in the order they were typed, of which the first "ready" may be   *)
(* read.  Editing changes only what is behind that mark, and a new line    *)
(* moves the mark to the end.  No key is overlooked: typed has them all,   *)
(* and one without effect is one beyond the longest line, or one that      *)
(* erases where there is nothing.                                          *)
(***************************************************************************)
EXTENDS Integers, Sequences

CONSTANTS
  Byte,       \* what can be typed
  Limit,      \* longest line that is kept
  Mode        \* settings: records with at least icanon, isig and icrnl

VARIABLES text, ready, taken, mode, typed

vars == <<text, ready, taken, mode, typed>>

Done == SubSeq(text, 1, ready)
Line == SubSeq(text, ready + 1, Len(text))

Edited(b) ==
  \/ /\ b = "nl" \/ ~mode.icanon
     /\ text' = Append(text, b) /\ ready' = Len(text')
  \/ /\ b = "hist" /\ mode.icanon
     /\ text' = Append(Done, b) \o Line /\ ready' = ready + 1
  \/ /\ b = "del" /\ mode.icanon
     /\ text' = Done \o SubSeq(Line, 1, Len(Line) - 1) /\ UNCHANGED ready
  \/ /\ b = "kill" \/ (b = "intr" /\ mode.isig)
     /\ mode.icanon
     /\ text' = Done /\ UNCHANGED ready
  \/ /\ b \notin {"nl", "hist", "del", "kill"} /\ ~(b = "intr" /\ mode.isig) /\ mode.icanon
     /\ text' = IF Len(Line) < Limit THEN Append(text, b) ELSE text
     /\ UNCHANGED ready

Type(b) ==
  /\ Edited(IF b = "cr" /\ mode.icrnl THEN "nl" ELSE b)
  /\ typed' = Append(typed, b)
  /\ UNCHANGED <<taken, mode>>

Read(n) ==
  /\ taken + n <= ready
  /\ taken' = taken + n
  /\ UNCHANGED <<text, ready, mode, typed>>

\* A change of settings keeps what was typed; leaving line mode makes it
\* readable.  Only a change that asks for it throws unread input away.
Change(m) ==
  /\ mode' = m
  /\ ready' = IF m.icanon THEN ready ELSE Len(text)
  /\ UNCHANGED <<text, taken, typed>>

Flush(m) ==
  /\ mode' = m
  /\ text' = SubSeq(text, 1, taken) /\ ready' = taken
  /\ UNCHANGED <<taken, typed>>

Init == text = <<>> /\ ready = 0 /\ taken = 0 /\ mode \in Mode /\ typed = <<>>

Next ==
  \/ \E b \in Byte : Type(b)
  \/ \E n \in 1 .. ready - taken : Read(n)
  \/ \E m \in Mode : Change(m) \/ Flush(m)

Spec == Init /\ [][Next]_vars
=============================================================================
