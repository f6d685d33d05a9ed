--------------------------- MODULE SessionContract ---------------------------
(***************************************************************************)
(* What Runtime::run promises about a session, without saying how the      *)
(* exchanges are made.  Dispatch may be refused before it starts; once it  *)
(* has started, the cleanup hook runs exactly once, after dispatch and     *)
(* before the session is over; only a session in which nothing went wrong  *)
(* has finished; and the first thing that went wrong is never replaced by  *)
(* a later one.                                                            *)
(***************************************************************************)
EXTENDS Naturals

VARIABLES
  stage,     \* "opening", "dispatching", "cleaning", "over"
  hooks,     \* invocations of the cleanup hook
  verdict,   \* how the database saw it end: "none" until it is over
  cause      \* the first thing that went wrong, "none" before

vars == <<stage, hooks, verdict, cause>>

Init == stage = "opening" /\ hooks = 0 /\ verdict = "none" /\ cause = "none"

FirstStays == cause # "none" => cause' = cause

\* Something goes wrong: in dispatch, or when the session is being finished.
Fail ==
  /\ stage # "over"
  /\ cause = "none" /\ cause' # "none"
  /\ UNCHANGED <<stage, hooks, verdict>>

\* The handshake, the artifact or the schema is refused: the hook is skipped.
Refuse ==
  /\ stage = "opening"
  /\ stage' = "over"
  /\ verdict' \in {"closed", "lost"}
  /\ cause' # "none" /\ FirstStays
  /\ UNCHANGED hooks

Dispatch ==
  /\ stage = "opening" /\ cause = "none"
  /\ stage' = "dispatching"
  /\ UNCHANGED <<hooks, verdict, cause>>

\* The hook runs whatever dispatch came to, and may fail itself.
Clean ==
  /\ stage = "dispatching"
  /\ stage' = "cleaning"
  /\ hooks' = hooks + 1
  /\ FirstStays
  /\ UNCHANGED verdict

\* "lost": the client could tell the database nothing any more.
Finish ==
  /\ stage = "cleaning"
  /\ stage' = "over"
  /\ verdict' \in IF cause = "none" THEN {"finished"} ELSE {"closed", "lost"}
  /\ UNCHANGED <<hooks, cause>>

Next == Fail \/ Refuse \/ Dispatch \/ Clean \/ Finish

Spec == Init /\ [][Next]_vars
=============================================================================
