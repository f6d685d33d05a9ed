---------------------------- MODULE ProtocolProofs ----------------------------
(***************************************************************************)
(* What the protocol state machine does for every set of connection ids    *)
(* and every sequence of responses.                                        *)
(***************************************************************************)
EXTENDS Protocol, ProtocolStepProofs

(* Type correctness of the protocol state machine.                           *)
THEOREM TypeCorrect == Spec => []TypeOK
<1>1. Init => TypeOK
  <2>1. NewProtocol \in ProtocolStates
    BY DEF NewProtocol, ProtocolStates, Phases
  <2>2. "Pending" \in Events
    BY DEF Events
  <2>3. 0 \in Nat
    OBVIOUS
  <2>4. QED BY <2>1, <2>2, <2>3, Zenon DEF Init, TypeOK
<1>2. TypeOK /\ [Next]_vars => TypeOK'
  <2> SUFFICES ASSUME TypeOK, [Next]_vars PROVE TypeOK'
    OBVIOUS
  <2>1. ASSUME NEW r \in Responses, Step(r) PROVE TypeOK'
    <3>1. r.conn \in ConnIds \cup {0}
      BY DEF Responses
    <3>2. proto' \in ProtocolStates
      BY <2>1, <3>1, AfterType DEF Step, TypeOK
    <3>3. event' \in Events
      BY <2>1, EventType DEF Step
    <3>4. QED BY <2>1, <3>2, <3>3 DEF Step, TypeOK
  <2>2. CASE UNCHANGED vars
    BY <2>2 DEF vars, TypeOK
  <2>3. QED BY <2>1, <2>2 DEF Next
<1>3. QED BY <1>1, <1>2, PTL DEF Spec

-----------------------------------------------------------------------------
(* A terminal message leaves the machine in a terminal phase, and no later   *)
(* message brings it back to Run.                                            *)
TerminalPhase == ended => proto.phase \in {"Cleanup", "Done"}

(* The terminal phases are absorbing. *)
LEMMA TerminalPhaseInductive == TerminalPhase /\ [Next]_vars => TerminalPhase'
<1> SUFFICES ASSUME TerminalPhase, [Next]_vars PROVE TerminalPhase'
  OBVIOUS
<1>1. ASSUME NEW r \in Responses, Step(r) PROVE TerminalPhase'
  <2>1. proto'.phase = PhaseAfter(proto, r) /\ event' = Event(proto, r)
    BY <1>1 DEF Step, After
  <2>2. ended' => ended \/ event' \in FinalEvents
    BY <1>1 DEF Step
  <2>3. QED BY <2>1, <2>2, FinalEventPhase, TerminalStays DEF TerminalPhase
<1>2. CASE UNCHANGED vars
  BY <1>2 DEF vars, TerminalPhase
<1>3. QED BY <1>1, <1>2 DEF Next

(* Once the database has sent a terminal message no run action is ever       *)
(* accepted again, whatever it sends in between.                             *)
THEOREM TerminalIsFinal == Spec => TerminalRejectsRun
<1>1. Init => TerminalPhase
  BY DEF Init, TerminalPhase
<1>2. TerminalPhase /\ [Next]_vars => [ended => event' \notin RunEvents]_vars
  <2> SUFFICES ASSUME TerminalPhase, NEW r \in Responses, Step(r), ended
               PROVE  event' \notin RunEvents
    BY DEF Next
  <2>1. event' = Event(proto, r)
    BY DEF Step
  <2>2. QED BY <2>1, RunEventNeedsRunPhase DEF TerminalPhase
<1>3. QED
  BY <1>1, <1>2, TerminalPhaseInductive, PTL DEF Spec, TerminalRejectsRun

-----------------------------------------------------------------------------
(* Metadata is delivered at most once: MT_META ends the Handshake phase for  *)
(* good, and it needs an MT_INFO that has been accepted and not taken yet.   *)
MetaInv ==
  /\ infos \in Nat /\ metas \in Nat
  /\ proto.phase = "Handshake" => metas = 0
  /\ proto.info => infos >= 1
  /\ MetaOnceFromInfo

(* It holds in every reachable state.                                        *)
LEMMA MetaInvariant == Spec => []MetaInv
<1>1. Init => MetaInv
  BY DEF Init, MetaInv, MetaOnceFromInfo, NewProtocol
<1>2. MetaInv /\ [Next]_vars => MetaInv'
  <2> SUFFICES ASSUME MetaInv, [Next]_vars PROVE MetaInv'
    OBVIOUS
  <2>1. ASSUME NEW r \in Responses, Step(r) PROVE MetaInv'
    <3>1. /\ proto'.phase = PhaseAfter(proto, r)
          /\ proto' = After(proto, r)
          /\ event' = Event(proto, r)
          /\ infos' = IF event' = "Pending" THEN infos + 1 ELSE infos
          /\ metas' = IF event' = "Meta" THEN metas + 1 ELSE metas
      BY <2>1 DEF Step, After
    <3>2. CASE event' = "Meta"
      <4>1. proto.phase = "Handshake" /\ proto.info /\ proto'.phase = "Run"
        BY <3>1, <3>2, MetaAccepted
      <4>2. infos >= 1 /\ metas = 0 /\ infos' = infos /\ metas' = 1
        BY <3>1, <3>2, <4>1 DEF MetaInv
      <4>3. QED BY <4>1, <4>2 DEF MetaInv, MetaOnceFromInfo
    <3>3. CASE event' # "Meta"
      BY <3>1, <3>3, HandshakeNotReentered, PendingInfo DEF MetaInv, MetaOnceFromInfo
    <3>4. QED BY <3>2, <3>3
  <2>2. CASE UNCHANGED vars
    BY <2>2 DEF vars, MetaInv, MetaOnceFromInfo
  <2>3. QED BY <2>1, <2>2 DEF Next
<1>3. QED BY <1>1, <1>2, PTL DEF Spec

(* The metadata reaches the runtime at most once per session.                *)
THEOREM MetaOnce == Spec => []MetaOnceFromInfo
<1>1. MetaInv => MetaOnceFromInfo
  BY DEF MetaInv
<1>2. QED BY <1>1, MetaInvariant, PTL

-----------------------------------------------------------------------------
(* The Run phase is entered by the one MT_META.                              *)
RunAfterMeta == proto.phase = "Run" => metas = 1

(* Every step keeps that: MT_META is accepted in the Handshake phase alone.  *)
LEMMA RunAfterMetaInductive == MetaInv /\ RunAfterMeta /\ [Next]_vars => RunAfterMeta'
<1> SUFFICES ASSUME MetaInv, RunAfterMeta, [Next]_vars PROVE RunAfterMeta'
  OBVIOUS
<1>1. ASSUME NEW r \in Responses, Step(r) PROVE RunAfterMeta'
  <2>1. /\ proto'.phase = PhaseAfter(proto, r)
        /\ metas' = IF Event(proto, r) = "Meta" THEN metas + 1 ELSE metas
    BY <1>1 DEF Step, After
  <2>2. CASE Event(proto, r) = "Meta"
    BY <2>1, <2>2, MetaAccepted DEF MetaInv, RunAfterMeta
  <2>3. CASE Event(proto, r) # "Meta"
    BY <2>1, <2>3, RunEntered DEF RunAfterMeta
  <2>4. QED BY <2>2, <2>3
<1>2. CASE UNCHANGED vars
  BY <1>2 DEF vars, RunAfterMeta
<1>3. QED BY <1>1, <1>2 DEF Next

(* Single-call traffic is admitted only where MT_META announced that mode,   *)
(* and no later message changes the mode (loop_.rs Protocol::step,           *)
(* single_call_mode): for every sequence of responses.                       *)
THEOREM SingleCallsAnnounced == Spec => SingleCallAnnounced
<1>1. Init => RunAfterMeta
  BY DEF Init, RunAfterMeta, NewProtocol
<1>2. MetaInv /\ RunAfterMeta /\ [Next]_vars
        => [ /\ event' \in {"SingleCall", "SingleCallAck", "UndefinedCallAck"}
                  => metas = 1 /\ proto.single
             /\ metas = 1 => proto'.single = proto.single ]_vars
  <2> SUFFICES ASSUME MetaInv, RunAfterMeta, NEW r \in Responses, Step(r)
               PROVE  /\ event' \in {"SingleCall", "SingleCallAck", "UndefinedCallAck"}
                           => metas = 1 /\ proto.single
                      /\ metas = 1 => proto'.single = proto.single
    BY DEF Next
  <2>1. event' = Event(proto, r) /\ proto' = After(proto, r)
    BY DEF Step
  <2>2. metas = 1 => proto'.single = proto.single
    BY <2>1, ModeKept DEF MetaInv
  <2>3. event' \in {"SingleCall", "SingleCallAck", "UndefinedCallAck"}
          => metas = 1 /\ proto.single
    BY <2>1, CallAccepted DEF RunAfterMeta
  <2>4. QED BY <2>2, <2>3
<1>3. QED
  BY <1>1, <1>2, MetaInvariant, RunAfterMetaInductive, PTL DEF Spec, SingleCallAnnounced
=============================================================================
