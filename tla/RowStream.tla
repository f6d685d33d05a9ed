------------------------------ MODULE RowStream ------------------------------
(***************************************************************************)
(* What a group's output promises the UDF: rows enter a queue in the order *)
(* they are emitted, the queue goes out whole and in that order, only a    *)
(* send that fails loses rows, the ones it was sending, and the group is   *)
(* over only with its queue empty.                                         *)
(***************************************************************************)
EXTENDS Sequences, Naturals

VARIABLES
  given,    \* rows the UDF has emitted
  queue,    \* the ones of them not sent yet
  out,      \* rows the database has received
  over      \* the group has ended

vars == <<given, queue, out, over>>

Init == given = <<>> /\ queue = <<>> /\ out = <<>> /\ over = FALSE

Put ==
  /\ Len(given') > Len(given)
  /\ SubSeq(given', 1, Len(given)) = given
  /\ queue' = queue \o SubSeq(given', Len(given) + 1, Len(given'))
  /\ UNCHANGED <<out, over>>

\* The queue goes out, for the last time or not.
Send ==
  /\ queue # <<>>
  /\ out' = out \o queue
  /\ queue' = <<>>
  /\ over' \in BOOLEAN
  /\ UNCHANGED given

Drop ==
  /\ queue # <<>>
  /\ queue' = <<>>
  /\ over' \in BOOLEAN
  /\ UNCHANGED <<given, out>>

End ==
  /\ queue = <<>>
  /\ over' = TRUE
  /\ UNCHANGED <<given, queue, out>>

Next == ~over /\ (Put \/ Send \/ Drop \/ End)

Spec == Init /\ [][Next]_vars
=============================================================================
