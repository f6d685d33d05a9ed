---------------------------- MODULE ProtocolStep ----------------------------
(***************************************************************************)
(* The pure protocol state machine of crates/exa-zmq-protocol/src/loop_.rs *)
(* as two operators: Event classifies one decoded response, After gives    *)
(* the state the machine is in once it has consumed it.  Everything that   *)
(* talks to the database (Wire, Dispatch, SingleCall, Session) is built on *)
(* these two.                                                              *)
(*                                                                         *)
(* A response is abstracted to what decides control flow: its type, its    *)
(* connection id, one word for its payload (body) and, for a row batch,    *)
(* the numbers of the rows it carries.                                     *)
(***************************************************************************)
EXTENDS Naturals, Sequences

CONSTANTS
  ConnIds      \* the connection ids the database uses

Phases == {"Handshake", "Run", "Cleanup", "Done"}

\* Events a response is classified into; "Error" stands for a ProtocolError.
RunEvent  == [MT_RUN |-> "Run", MT_EMIT |-> "EmitAck", MT_NEXT |-> "NextData",
              MT_DONE |-> "Done", MT_RESET |-> "Reset"]
CallEvent == [MT_CALL |-> "SingleCall", MT_RETURN |-> "SingleCallAck",
              MT_UNDEFINED_CALL |-> "UndefinedCallAck"]
AnyPhaseEvent == [MT_CLEANUP |-> "Cleanup", MT_FINISHED |-> "Finished",
                  MT_CLOSE |-> "Close", MT_PING_PONG |-> "Ping",
                  MT_TRY_AGAIN |-> "TryAgain"]
ImportEvent == [conn |-> "ConnInfo", nokind |-> "ConnInfo", refused |-> "ImportRefused"]

RunEvents   == {"Run", "EmitAck", "NextData", "Done", "Reset",
                "SingleCall", "SingleCallAck", "UndefinedCallAck"}
FinalEvents == {"Cleanup", "Finished", "Close"}
Events == RunEvents \cup FinalEvents \cup
          {"Pending", "Meta", "ConnInfo", "ImportRefused", "Ping", "TryAgain", "Error"}

ResponseTypes == {"MT_INFO", "MT_META", "MT_IMPORT"} \cup DOMAIN RunEvent
                   \cup DOMAIN CallEvent \cup DOMAIN AnyPhaseEvent

\* What the payload of a response can be.  "absent": the field its type
\* requires is missing.  MT_META says whether the session is single-call.
\* A "badcell" table decodes as protobuf and fails as a row set.
Payloads(type) ==
  CASE type = "MT_INFO"   -> {"info", "absent"}
    [] type = "MT_META"   -> {"data", "single", "absent"}
    [] type = "MT_NEXT"   -> {"table", "badcell", "absent"}
    [] type = "MT_IMPORT" -> {"conn", "nokind", "refused", "neither", "absent"}
    [] type = "MT_CALL"   -> {"columns", "adapter", "import", "export",
                              "import_nospec", "export_nospec", "nil", "absent"}
    [] OTHER              -> {"none"}

\* Every payload there is.
PayloadKinds == {"info", "absent", "data", "single", "table", "badcell", "conn", "nokind",
                 "refused", "neither", "columns", "adapter", "import", "export",
                 "import_nospec", "export_nospec", "nil", "none"}

\* The state machine's own state: pending_info is Some, single_call_mode.
ProtocolStates == [phase : Phases, info : BOOLEAN, single : BOOLEAN, conn : ConnIds \cup {0}]

NewProtocol == [phase |-> "Handshake", info |-> FALSE, single |-> FALSE, conn |-> 0]

-----------------------------------------------------------------------------
\* Mutant: a state machine that looks at the payload and never at its own state.
AcceptsAnywhere(p, r) ==
  \/ r.type = "MT_IMPORT" /\ r.body \in DOMAIN ImportEvent
  \/ r.type \in ResponseTypes \ {"MT_IMPORT"} /\ r.body # "absent"

(* The arm of the match that takes response r in state p, and finds the    *)
(* field it needs.  Without one the step is an error.                      *)
Accepts(p, r) ==
  \/ r.type \in DOMAIN AnyPhaseEvent
  \/ r.type = "MT_IMPORT" /\ r.body \in DOMAIN ImportEvent
  \/ p.phase = "Handshake" /\ r.type = "MT_INFO" /\ r.body # "absent"
  \/ p.phase = "Handshake" /\ r.type = "MT_META" /\ r.body # "absent" /\ p.info
  \/ p.phase = "Run" /\ r.type \in DOMAIN RunEvent /\ r.body # "absent"
  \/ p.phase = "Run" /\ p.single /\ r.type \in DOMAIN CallEvent /\ r.body # "absent"

Event(p, r) ==
  IF ~Accepts(p, r) THEN "Error"
  ELSE CASE r.type = "MT_INFO"              -> "Pending"
         [] r.type = "MT_META"              -> "Meta"
         [] r.type = "MT_IMPORT"            -> ImportEvent[r.body]
         [] r.type \in DOMAIN RunEvent      -> RunEvent[r.type]
         [] r.type \in DOMAIN CallEvent     -> CallEvent[r.type]
         [] r.type \in DOMAIN AnyPhaseEvent -> AnyPhaseEvent[r.type]

\* Mutant: a phase of its own for a reply that is to be asked again.
PhaseAfterRetry(p, r) ==
  CASE r.type = "MT_TRY_AGAIN" -> "Retry"
    [] r.type = "MT_CLEANUP"   -> "Cleanup"
    [] r.type \in {"MT_FINISHED", "MT_CLOSE"} -> "Done"
    [] OTHER                   -> "Run"

(* A present MT_META takes the pending MT_INFO even when there is none.    *)
(* The connection id is adopted before anything is checked.                *)
PhaseAfter(p, r) ==
  CASE r.type = "MT_META" /\ Accepts(p, r)   -> "Run"
    [] r.type = "MT_CLEANUP"                 -> "Cleanup"
    [] r.type \in {"MT_FINISHED", "MT_CLOSE"} -> "Done"
    [] OTHER                                 -> p.phase

After(p, r) ==
  [phase  |-> PhaseAfter(p, r),
   info   |-> \/ p.phase = "Handshake" /\ r.type = "MT_INFO" /\ r.body # "absent"
              \/ p.info /\ ~(p.phase = "Handshake" /\ r.type = "MT_META" /\ r.body # "absent"),
   single |-> IF r.type = "MT_META" /\ Accepts(p, r) THEN r.body = "single" ELSE p.single,
   conn   |-> r.conn]
=============================================================================
