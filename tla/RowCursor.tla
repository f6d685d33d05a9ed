------------------------------ MODULE RowCursor ------------------------------
(***************************************************************************)
(* What a group's input promises the UDF: the rows the database hands over *)
(* reach it one at a time, each with its own values and number, in order,  *)
(* and it is told that the input is over only when it has seen them all.   *)
(***************************************************************************)
EXTENDS Sequences, Naturals

VARIABLES
  stream,   \* rows handed over
  seen,     \* rows presented
  over      \* the input is over

vars == <<stream, seen, over>>

Init == stream = <<>> /\ seen = <<>> /\ over = FALSE

(* Rows arrive once the earlier ones have been seen, and the first of them  *)
(* may be presented with their arrival.                                     *)
Arrive ==
  /\ seen = stream
  /\ Len(stream') > Len(stream) /\ SubSeq(stream', 1, Len(stream)) = stream
  /\ seen' \in {seen, SubSeq(stream', 1, Len(seen) + 1)}
  /\ UNCHANGED over

Present ==
  /\ Len(seen) < Len(stream)
  /\ seen' = SubSeq(stream, 1, Len(seen) + 1)
  /\ UNCHANGED <<stream, over>>

End == seen = stream /\ over' = TRUE /\ UNCHANGED <<stream, seen>>

Next == Arrive \/ Present \/ End

Spec == Init /\ [][Next]_vars
=============================================================================
