-------------------------- MODULE ProtocolStepProofs --------------------------
(***************************************************************************)
(* Lemmas about Event and After: how one response is classified and where  *)
(* it leaves the protocol state machine.                                   *)
(***************************************************************************)
EXTENDS ProtocolStep, TLAPS

(* The types each table of responses covers, and the events it names.        *)
LEMMA Tables ==
  /\ DOMAIN RunEvent = {"MT_RUN", "MT_EMIT", "MT_NEXT", "MT_DONE", "MT_RESET"}
  /\ DOMAIN CallEvent = {"MT_CALL", "MT_RETURN", "MT_UNDEFINED_CALL"}
  /\ DOMAIN AnyPhaseEvent = {"MT_CLEANUP", "MT_FINISHED", "MT_CLOSE", "MT_PING_PONG", "MT_TRY_AGAIN"}
  /\ DOMAIN ImportEvent = {"conn", "nokind", "refused"}
  /\ \A t \in DOMAIN RunEvent : RunEvent[t] \in RunEvents
  /\ \A t \in DOMAIN CallEvent : CallEvent[t] \in RunEvents
  /\ \A t \in {"MT_CLEANUP", "MT_FINISHED", "MT_CLOSE"} : AnyPhaseEvent[t] \in FinalEvents
  /\ \A t \in {"MT_PING_PONG", "MT_TRY_AGAIN"} : AnyPhaseEvent[t] \in {"Ping", "TryAgain"}
  /\ \A b \in DOMAIN ImportEvent : ImportEvent[b] \in {"ConnInfo", "ImportRefused"}
  BY DEF RunEvent, CallEvent, AnyPhaseEvent, ImportEvent, RunEvents, FinalEvents

(* What each type of response can be classified into, and where.             *)
LEMMA EventByType ==
  ASSUME NEW p, NEW r
  PROVE  \/ Event(p, r) = "Error"
         \/ r.type = "MT_INFO" /\ p.phase = "Handshake" /\ Event(p, r) = "Pending"
         \/ r.type = "MT_META" /\ p.phase = "Handshake" /\ p.info /\ Accepts(p, r)
              /\ Event(p, r) = "Meta"
         \/ r.type = "MT_IMPORT" /\ Event(p, r) \in {"ConnInfo", "ImportRefused"}
         \/ p.phase = "Run" /\ Event(p, r) \in RunEvents
         \/ r.type \in {"MT_CLEANUP", "MT_FINISHED", "MT_CLOSE"} /\ Event(p, r) \in FinalEvents
         \/ r.type \in {"MT_PING_PONG", "MT_TRY_AGAIN"} /\ Event(p, r) \in {"Ping", "TryAgain"}
<1>1. CASE ~Accepts(p, r)
  BY <1>1 DEF Event
<1>2. CASE Accepts(p, r) /\ r.type = "MT_INFO"
  BY <1>2, Tables DEF Event, Accepts
<1>3. CASE Accepts(p, r) /\ r.type = "MT_META"
  BY <1>3, Tables DEF Event, Accepts
<1>4. CASE Accepts(p, r) /\ r.type = "MT_IMPORT"
  <2>1. Event(p, r) = ImportEvent[r.body]
    BY <1>4, Tables DEF Event
  <2>2. r.body \in DOMAIN ImportEvent
    BY <1>4, Tables DEF Accepts
  <2>3. QED BY <1>4, <2>1, <2>2, Tables
<1>5. CASE Accepts(p, r) /\ r.type \in DOMAIN RunEvent
  <2>1. Event(p, r) = RunEvent[r.type]
    BY <1>5, Tables DEF Event
  <2>2. p.phase = "Run"
    BY <1>5, Tables DEF Accepts
  <2>3. QED BY <1>5, <2>1, <2>2, Tables
<1>6. CASE Accepts(p, r) /\ r.type \in DOMAIN CallEvent
  <2>1. Event(p, r) = CallEvent[r.type]
    BY <1>6, Tables DEF Event
  <2>2. p.phase = "Run"
    BY <1>6, Tables DEF Accepts
  <2>3. QED BY <1>6, <2>1, <2>2, Tables
<1>7. CASE Accepts(p, r) /\ r.type \in DOMAIN AnyPhaseEvent
  <2>1. Event(p, r) = AnyPhaseEvent[r.type]
    BY <1>7, Tables DEF Event
  <2>2. QED BY <1>7, <2>1, Tables
<1>8. QED
  BY <1>1, <1>2, <1>3, <1>4, <1>5, <1>6, <1>7 DEF Accepts

(* The events that decide how a session goes on each come from one type of  *)
(* response, which had the payload its type requires.                        *)
LEMMA EventSource ==
  ASSUME NEW p, NEW r
  PROVE  /\ Event(p, r) = "Cleanup" <=> r.type = "MT_CLEANUP"
         /\ Event(p, r) = "Close" <=> r.type = "MT_CLOSE"
         /\ Event(p, r) = "SingleCall" => r.type = "MT_CALL" /\ r.body # "absent"
         /\ Event(p, r) = "NextData" => r.type = "MT_NEXT" /\ r.body # "absent"
         /\ Event(p, r) = "Done" => r.type = "MT_DONE"
         /\ Event(p, r) = "SingleCallAck" => r.type = "MT_RETURN"
         /\ Event(p, r) = "UndefinedCallAck" => r.type = "MT_UNDEFINED_CALL"
         /\ Event(p, r) = "Ping" => r.type = "MT_PING_PONG"
<1>1. CASE ~Accepts(p, r)
  BY <1>1, Tables DEF Event, Accepts
<1>2. CASE Accepts(p, r) /\ r.type \in {"MT_INFO", "MT_META"}
  BY <1>2, Tables DEF Event
<1>3. CASE Accepts(p, r) /\ r.type = "MT_IMPORT"
  <2>1. Event(p, r) = ImportEvent[r.body] /\ r.body \in DOMAIN ImportEvent
    BY <1>3, Tables DEF Event, Accepts
  <2>2. Event(p, r) \in {"ConnInfo", "ImportRefused"}
    BY <2>1, Tables
  <2>3. QED BY <1>3, <2>2
<1>4. CASE Accepts(p, r) /\ r.type \in DOMAIN RunEvent
  <2>1. Event(p, r) = RunEvent[r.type] /\ r.body # "absent"
    BY <1>4, Tables DEF Event, Accepts
  <2>2. QED BY <1>4, <2>1 DEF RunEvent
<1>5. CASE Accepts(p, r) /\ r.type \in DOMAIN CallEvent
  <2>1. Event(p, r) = CallEvent[r.type] /\ r.body # "absent"
    BY <1>5, Tables DEF Event, Accepts
  <2>2. QED BY <1>5, <2>1 DEF CallEvent
<1>6. CASE Accepts(p, r) /\ r.type \in DOMAIN AnyPhaseEvent
  <2>1. Event(p, r) = AnyPhaseEvent[r.type]
    BY <1>6, Tables DEF Event
  <2>2. QED BY <1>6, <2>1 DEF AnyPhaseEvent
<1>7. QED
  BY <1>1, <1>2, <1>3, <1>4, <1>5, <1>6 DEF Accepts

(* The kinds of events do not overlap.                                       *)
LEMMA EventKinds ==
  /\ RunEvents \cap (FinalEvents \cup {"Pending", "Meta", "ConnInfo", "ImportRefused",
                                       "Ping", "TryAgain", "Error"}) = {}
  /\ FinalEvents \cap {"Pending", "Meta", "ConnInfo", "ImportRefused",
                       "Ping", "TryAgain", "Error"} = {}
  BY DEF RunEvents, FinalEvents

(* Every response is classified into an event, in every state.               *)
LEMMA EventType == \A p, r : Event(p, r) \in Events
  BY EventByType DEF Events

(* A response leaves the state machine in one of its states.                 *)
LEMMA AfterType ==
  ASSUME NEW p \in ProtocolStates, NEW r, r.conn \in ConnIds \cup {0}
  PROVE  After(p, r) \in ProtocolStates
<1>1. PhaseAfter(p, r) \in Phases
  BY DEF PhaseAfter, Phases, ProtocolStates
<1>2. p.single \in BOOLEAN
  BY DEF ProtocolStates
<1>3. QED BY <1>1, <1>2 DEF After, ProtocolStates

-----------------------------------------------------------------------------
(* Run actions are accepted in the Run phase only.                           *)
LEMMA RunEventNeedsRunPhase ==
  \A p, r : Event(p, r) \in RunEvents => p.phase = "Run"
  BY EventByType, EventKinds

(* A terminal message leaves the machine in a terminal phase.                *)
LEMMA FinalEventPhase ==
  \A p, r : Event(p, r) \in FinalEvents => PhaseAfter(p, r) \in {"Cleanup", "Done"}
<1> SUFFICES ASSUME NEW p, NEW r, Event(p, r) \in FinalEvents
             PROVE  PhaseAfter(p, r) \in {"Cleanup", "Done"}
  OBVIOUS
<1>1. r.type \in {"MT_CLEANUP", "MT_FINISHED", "MT_CLOSE"}
  BY EventByType, EventKinds
<1>2. QED BY <1>1 DEF PhaseAfter

(* A terminal phase is left for another terminal phase only.                 *)
LEMMA TerminalStays ==
  \A p, r : p.phase \in {"Cleanup", "Done"} => PhaseAfter(p, r) \in {"Cleanup", "Done"}
  BY DEF PhaseAfter, Accepts, RunEvent, CallEvent, AnyPhaseEvent

-----------------------------------------------------------------------------
(* Metadata is delivered in the Handshake phase, which it ends, and only     *)
(* with an MT_INFO pending.                                                  *)
LEMMA MetaAccepted ==
  \A p, r : Event(p, r) = "Meta" =>
    p.phase = "Handshake" /\ p.info /\ PhaseAfter(p, r) = "Run"
<1> SUFFICES ASSUME NEW p, NEW r, Event(p, r) = "Meta"
             PROVE  p.phase = "Handshake" /\ p.info /\ PhaseAfter(p, r) = "Run"
  OBVIOUS
<1>1. r.type = "MT_META" /\ p.phase = "Handshake" /\ p.info /\ Accepts(p, r)
  BY EventByType, EventKinds
<1>2. QED BY <1>1 DEF PhaseAfter

(* The mode is set in the Handshake phase only.                               *)
LEMMA ModeKept ==
  \A p, r : p.phase # "Handshake" => After(p, r).single = p.single
  BY Tables DEF After, Accepts

(* Only an accepted MT_META opens the Run phase.                             *)
LEMMA RunEntered ==
  \A p, r : PhaseAfter(p, r) = "Run" => p.phase = "Run" \/ Event(p, r) = "Meta"
<1> SUFFICES ASSUME NEW p, NEW r, PhaseAfter(p, r) = "Run", p.phase # "Run"
             PROVE  Event(p, r) = "Meta"
  OBVIOUS
<1>1. r.type = "MT_META" /\ Accepts(p, r)
  BY DEF PhaseAfter
<1>2. QED BY <1>1, Tables DEF Event

(* Single-call traffic is accepted in the Run phase of a single-call session.*)
LEMMA CallAccepted ==
  \A p, r : Event(p, r) \in {"SingleCall", "SingleCallAck", "UndefinedCallAck"}
              => p.phase = "Run" /\ p.single
<1> SUFFICES ASSUME NEW p, NEW r,
                    Event(p, r) \in {"SingleCall", "SingleCallAck", "UndefinedCallAck"}
             PROVE  p.phase = "Run" /\ p.single
  OBVIOUS
<1>1. r.type \in DOMAIN CallEvent
  BY EventSource, Tables
<1>2. Accepts(p, r)
  BY DEF Event
<1>3. QED BY <1>1, <1>2, Tables DEF Accepts

(* The Handshake phase is never come back to.                                *)
LEMMA HandshakeNotReentered ==
  \A p, r : PhaseAfter(p, r) = "Handshake" => p.phase = "Handshake"
  BY DEF PhaseAfter

(* Only an accepted MT_INFO makes one pending.                               *)
LEMMA PendingInfo ==
  \A p, r : After(p, r).info => p.info \/ Event(p, r) = "Pending"
<1> SUFFICES ASSUME NEW p, NEW r, After(p, r).info, ~p.info
             PROVE  Event(p, r) = "Pending"
  OBVIOUS
<1>1. p.phase = "Handshake" /\ r.type = "MT_INFO" /\ r.body # "absent"
  BY DEF After
<1>2. QED BY <1>1, Tables DEF Event, Accepts
=============================================================================
