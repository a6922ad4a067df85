---------------------------- MODULE PrivateMemory ----------------------------
(***************************************************************************)
(* What user memory promises: every task has a memory of its own.  A store *)
(* changes one page of one task, new pages are zero, fork copies all of    *)
(* it, exec replaces all of it.                                            *)
(***************************************************************************)
CONSTANTS Pid, Page, Value, Zero, Unmapped, ImageView

VARIABLE view    \* what each task sees in each of its pages

NoMemory == [pg \in Page |-> Unmapped]

Init == view = [p \in Pid |-> NoMemory]

Store(p, pg, v) ==
  /\ view[p][pg] # Unmapped
  /\ view' = [view EXCEPT ![p][pg] = v]

Grow(p, pg) == view' = [view EXCEPT ![p][pg] = Zero]

Fork(p, c) == view[c] = NoMemory /\ view' = [view EXCEPT ![c] = view[p]]

Exec(p) == view' = [view EXCEPT ![p] = ImageView]

Reap(p) == view' = [view EXCEPT ![p] = NoMemory]

Next == \E p \in Pid :
  \/ Exec(p) \/ Reap(p)
  \/ \E c \in Pid : Fork(p, c)
  \/ \E pg \in Page : Grow(p, pg) \/ \E v \in Value : Store(p, pg, v)

Spec == Init /\ [][Next]_view
=============================================================================
