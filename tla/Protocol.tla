------------------------------- MODULE Protocol -------------------------------
(***************************************************************************)
(* The protocol state machine on its own, fed every response in any order: *)
(* "Pure: performs no I/O" (loop_.rs:38).  The database is not assumed to  *)
(* be well behaved here.                                                   *)
(***************************************************************************)
EXTENDS ProtocolStep

VARIABLES
  proto,       \* the Protocol struct
  event,       \* the event the last response was classified into
  infos,       \* history: MT_INFO responses accepted since the last MT_META
  metas,       \* history: Meta events so far
  ended        \* history: a terminal message has been consumed

vars == <<proto, event, infos, metas, ended>>

CONSTANT MaxInfos   \* bound on the MT_INFO responses counted

Responses == UNION {[type : {t}, body : Payloads(t), conn : ConnIds] : t \in ResponseTypes}

Init ==
  /\ proto = NewProtocol
  /\ event = "Pending"
  /\ infos = 0
  /\ metas = 0
  /\ ended = FALSE

(* Protocol::step: consume one response.                                   *)
Step(r) ==
  /\ r.type = "MT_INFO" => infos < MaxInfos
  /\ proto' = After(proto, r)
  /\ event' = Event(proto, r)
  /\ infos' = IF event' = "Pending" THEN infos + 1 ELSE infos
  /\ metas' = IF event' = "Meta" THEN metas + 1 ELSE metas
  /\ ended' = (ended \/ event' \in FinalEvents)

Next == \E r \in Responses : Step(r)

Spec == Init /\ [][Next]_vars

-----------------------------------------------------------------------------
(* Type invariant.                                                         *)
TypeOK ==
  /\ proto \in ProtocolStates
  /\ event \in Events
  /\ infos \in Nat
  /\ metas \in Nat
  /\ ended \in BOOLEAN

(* Once the database has sent a terminal message (MT_CLEANUP, MT_FINISHED  *)
(* or MT_CLOSE, whatever came between) no run action is accepted again:    *)
(* specs/protocol/run-dispatch "a terminal phase that rejects further run  *)
(* actions".  Later terminal messages still move the phase, Done even back *)
(* to Cleanup, so this is about the whole history and not one transition.  *)
TerminalRejectsRun == [][ended => event' \notin RunEvents]_vars

(* The UDF's metadata is delivered at most once, and only from an MT_INFO  *)
(* the database sent before it (pending_info.take()).                      *)
MetaOnceFromInfo == metas <= 1 /\ metas <= infos

(* Single-call traffic is admitted only in a session whose MT_META         *)
(* announced single-call mode, and the mode never changes once announced.  *)
SingleCallAnnounced ==
  [][ /\ event' \in {"SingleCall", "SingleCallAck", "UndefinedCallAck"}
           => metas = 1 /\ proto.single
      /\ metas = 1 => proto'.single = proto.single ]_vars
=============================================================================
