------------------------------- MODULE LockStep -------------------------------
(***************************************************************************)
(* What the transport offers the code above it, and Wire takes for        *)
(* granted: a request is asked, then answered, then its answer is taken,   *)
(* one at a time.  A receive that gives up leaves the socket stuck for     *)
(* good.                                                                   *)
(***************************************************************************)
VARIABLE sock   \* "idle", "asked", "answered", "stuck"

Init == sock = "idle"

Ask    == sock = "idle" /\ sock' = "asked"
Answer == sock = "asked" /\ sock' = "answered"
Take   == sock = "answered" /\ sock' = "idle"
Echo   == sock = "answered" /\ sock' = "asked"     \* take a ping and ask again
GiveUp == sock \in {"asked", "answered"} /\ sock' = "stuck"

Next == Ask \/ Answer \/ Take \/ Echo \/ GiveUp

Spec == Init /\ [][Next]_sock
=============================================================================
