---------------------------- MODULE OrderedTask ----------------------------
(***************************************************************************)
(* What a message task promises its clients: messages are handled one at a *)
(* time, in the order in which they were accepted, each at most once; none *)
(* is thrown away while nobody has closed the task.                        *)
(***************************************************************************)
EXTENDS Sequences

CONSTANT Message

VARIABLES
  inbox,    \* accepted and not yet handled, oldest first
  done,     \* handled, in order
  closed    \* the owner has closed the task

Init == inbox = <<>> /\ done = <<>> /\ closed = FALSE

Accept ==
  /\ ~closed
  /\ \E m \in Message : inbox' = Append(inbox, m)
  /\ UNCHANGED <<done, closed>>

Complete ==
  /\ inbox # <<>>
  /\ done' = Append(done, Head(inbox))
  /\ inbox' = Tail(inbox)
  /\ UNCHANGED closed

Close ==
  /\ closed' = TRUE
  /\ UNCHANGED <<inbox, done>>

Discard ==
  /\ closed
  /\ inbox' = <<>>
  /\ UNCHANGED <<done, closed>>

Next == Accept \/ Complete \/ Close \/ Discard

Spec == Init /\ [][Next]_<<inbox, done, closed>>
============================================================================
