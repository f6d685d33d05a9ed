------------------------------- MODULE Database -------------------------------
(***************************************************************************)
(* The database side of the exchange.  The engine is not in the repository *)
(* (an external system); what it may answer follows docs/protocol.md and   *)
(* the REP peer of exa-mock-db, widened by the answers the client's own    *)
(* handlers name.  It numbers the input rows of a group 1, 2, ... in the   *)
(* order it hands them out, and keeps the output rows it has acknowledged. *)
(***************************************************************************)
EXTENDS Wire

CONSTANTS
  MayAnswer,    \* request type -> response types the database may use
  Bodies,       \* response type -> payloads it may carry
  MaxGroups,    \* bound: input groups (or single calls) of the session
  MaxRows,      \* bound: input rows of one group
  MaxBatch,     \* bound: input rows of one MT_NEXT
  MaxStalls,    \* bound: replies that move nothing (ping, try-again, zero-row batch)
  StallsRepeat, \* ... unless it may stall for ever: stalls is then counted in a circle
  RefusesAfterEnd   \* the database keeps docs/protocol.md:92 after its terminal message

ASSUME DatabaseAssumption ==
  /\ MayAnswer \in [RequestTypes -> SUBSET ResponseTypes]
  /\ \A t \in ResponseTypes : Bodies[t] \subseteq Payloads(t)
  /\ ConnIds \subseteq Nat
  /\ {MaxGroups, MaxRows, MaxBatch, MaxStalls} \subseteq Nat
  /\ StallsRepeat \in BOOLEAN /\ RefusesAfterEnd \in BOOLEAN

VARIABLES
  groups,      \* groups (or single calls) opened so far
  handed,      \* input rows handed out in the current group
  delivered,   \* output rows acknowledged in the current group, by input row number
  stalls,      \* replies so far that moved nothing
  settled,     \* calls whose reply the database echoed back in kind
  said,        \* the first terminal message of the database: "none", "cleanup", "close"
  ended,       \* all its terminal messages so far: MT_CLEANUP, MT_CLOSE
  endedAt      \* the request its first terminal message answered, "none" before

dbVars == <<groups, handed, delivered, stalls, settled, said, ended, endedAt>>

TerminalTypes == {"MT_CLEANUP", "MT_CLOSE"}

DatabaseInit ==
  /\ groups = 0
  /\ handed = 0
  /\ delivered = <<>>
  /\ stalls = 0
  /\ settled = 0
  /\ said = "none"
  /\ ended = {}
  /\ endedAt = "none"

\* The n rows after the ones already handed out.
NextRows(n) == [i \in 1..n |-> handed + i]

\* The answers that move the exchange on; anything else stalls it.
Regular(type) ==
  CASE type = "MT_CLIENT" -> {"MT_INFO"}
    [] type = "MT_RUN"    -> {"MT_RUN", "MT_CALL"}
    [] type = "MT_NEXT"   -> {"MT_NEXT", "MT_DONE"}
    [] OTHER              -> {type}

Idles(r) ==
  \/ r.type \notin Regular(req.type) \cup TerminalTypes
  \/ r.type = "MT_NEXT" /\ r.rows = <<>>

Opens(r) == r.type = "MT_CALL" \/ (r.type = "MT_RUN" /\ req.type = "MT_RUN")

(* A database that has ended the session accepts only MT_FINISHED or       *)
(* MT_CLOSE (docs/protocol.md:92) and refuses anything else with MT_CLOSE. *)
(* The client has no such rule for what it receives, so that a database    *)
(* without it (~RefusesAfterEnd) may go on as if nothing had ended.        *)
Refuses(q) == RefusesAfterEnd /\ said # "none" /\ q.type # "MT_FINISHED"

Allowed(q) == IF Refuses(q) THEN {"MT_CLOSE"} ELSE MayAnswer[q.type]

Responses ==
  UNION {[type : {t}, body : Bodies[t], conn : ConnIds,
          rows : IF t = "MT_NEXT" THEN {NextRows(n) : n \in 0..MaxBatch} ELSE {<<>>}]
         : t \in Allowed(req)}

Answer(r) ==
  /\ Idles(r) => stalls < MaxStalls \/ StallsRepeat
  /\ Opens(r) => groups < MaxGroups
  /\ r.type = "MT_NEXT" => handed + Len(r.rows) <= MaxRows
  /\ wire' = "answered"
  /\ resp' = r
  /\ stalls' = IF Idles(r) THEN (stalls + 1) % (MaxStalls + 1) ELSE stalls
  /\ groups' = IF Opens(r) THEN groups + 1 ELSE groups
  /\ handed' = IF Opens(r) THEN 0 ELSE handed + Len(r.rows)
  /\ delivered' = IF Opens(r) THEN <<>>
                  ELSE IF req.type = "MT_EMIT" /\ r.type = "MT_EMIT"
                       THEN delivered \o req.rows ELSE delivered
  /\ settled' = IF r.type = req.type /\ r.type \in {"MT_RETURN", "MT_UNDEFINED_CALL"}
                THEN settled + 1 ELSE settled
  /\ said' = IF said = "none" /\ r.type \in TerminalTypes
             THEN IF r.type = "MT_CLOSE" THEN "close" ELSE "cleanup"
             ELSE said
  /\ ended' = ended \cup ({r.type} \cap TerminalTypes)
  /\ endedAt' = IF said = "none" /\ r.type \in TerminalTypes THEN req.type ELSE endedAt
  /\ UNCHANGED <<proto, req>>

(* The database answers the request it holds.                              *)
Answers == wire = "asked" /\ \E r \in Responses : Answer(r)

DatabaseTypeOK ==
  /\ groups \in Nat /\ handed \in Nat /\ stalls \in Nat /\ settled \in Nat
  /\ delivered \in Seq(Nat)
  /\ said \in {"none", "cleanup", "close"}
  /\ ended \subseteq TerminalTypes
  /\ endedAt \in RequestTypes \cup {"none"}
=============================================================================
