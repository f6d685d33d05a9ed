--------------------------------- MODULE Wire ---------------------------------
(***************************************************************************)
(* One lockstep exchange with the database: wire.rs `request` over a ZMQ   *)
(* REQ socket.  The client sends one request, the database answers it, the *)
(* reply is fed to the protocol state machine, a ping is echoed and the    *)
(* exchange goes on, and whatever event comes out is returned to the       *)
(* caller.  Dispatchers are written as handlers of Outcome(e): the value   *)
(* `request` returns, e = "Error" being its Err.                           *)
(*                                                                         *)
(* Transport.tla opens up the polling inside a send and a receive.  The    *)
(* steps wire takes here are those of LockStep, which Transport implements *)
(* (asked, answered, taken, echoed, given up): that is what this module    *)
(* takes for granted of the socket.                                        *)
(***************************************************************************)
EXTENDS ProtocolStep

CONSTANTS
  ReceiveMayTimeOut,   \* a reply may take longer than MAX_TOTAL_WAIT
  SendMayFail          \* a send may fail while the socket stays usable

ASSUME WireAssumption == ReceiveMayTimeOut \in BOOLEAN /\ SendMayFail \in BOOLEAN

VARIABLES
  proto,   \* the Protocol struct
  wire,    \* the REQ socket, see WireStates
  req,     \* the request of the exchange under way
  resp     \* the reply waiting in the socket

wireVars == <<proto, wire, req, resp>>

(* "idle": the socket may send.  "asked": the request is with the database. *)
(* "answered": its reply has arrived.  "stuck": a receive gave up, so the   *)
(* REQ socket still owes a receive and refuses every later send (EFSM).     *)
WireStates == {"idle", "asked", "answered", "stuck"}

RequestTypes == {"MT_CLIENT", "MT_META", "MT_RUN", "MT_NEXT", "MT_EMIT", "MT_DONE",
                 "MT_IMPORT", "MT_RETURN", "MT_UNDEFINED_CALL", "MT_FINISHED", "MT_CLOSE"}

\* A request: its type and, for MT_EMIT, the input row number of every row it carries.
Request(type, rows) == [type |-> type, rows |-> rows]
NoRequest  == Request("none", <<>>)
NoResponse == [type |-> "none", body |-> "none", conn |-> 0, rows |-> <<>>]

WireInit ==
  /\ proto = NewProtocol
  /\ wire = "idle"
  /\ req = NoRequest
  /\ resp = NoResponse

(* transport.send in request: the frame is handed to the socket.           *)
Send(q) ==
  /\ wire = "idle"
  /\ wire' = "asked"
  /\ req' = q
  /\ UNCHANGED <<proto, resp>>

(* HostAction::PingReply in request: the echo is itself a request, and the *)
(* answer to it becomes the outcome of the original one.                   *)
PingReply ==
  /\ wire = "answered"
  /\ Event(proto, resp) = "Ping"
  /\ wire' = "asked"
  /\ proto' = After(proto, resp)
  /\ resp' = NoResponse
  /\ UNCHANGED req

-----------------------------------------------------------------------------
(* What request returns.                                                   *)

\* The reply was received and stepped; a reply the machine refuses is an Err.
Received(e) ==
  /\ wire = "answered"
  /\ e = Event(proto, resp)
  /\ e # "Ping"
  /\ wire' = "idle"
  /\ proto' = After(proto, resp)

\* The echo of a ping could not be sent.
EchoFailed(e) ==
  /\ SendMayFail
  /\ wire = "answered"
  /\ Event(proto, resp) = "Ping"
  /\ e = "Error"
  /\ wire' = "idle"
  /\ proto' = After(proto, resp)

\* Mutant: a receive that gave up leaves the socket ready for the next request.
TimedOutReady(e) ==
  /\ ReceiveMayTimeOut
  /\ wire = "asked"
  /\ e = "Error"
  /\ wire' = "idle"
  /\ UNCHANGED proto

\* recv gave up: the socket is left waiting for a reply nobody will read.
TimedOut(e) ==
  /\ ReceiveMayTimeOut
  /\ wire = "asked"
  /\ e = "Error"
  /\ wire' = "stuck"
  /\ UNCHANGED proto

\* The request was never queued: EFSM after an earlier timeout, or a failed send.
NotSent(e) ==
  /\ wire = "stuck" \/ (wire = "idle" /\ SendMayFail)
  /\ e = "Error"
  /\ UNCHANGED <<proto, wire>>

Outcome(e) ==
  /\ Received(e) \/ EchoFailed(e) \/ TimedOut(e) \/ NotSent(e)
  /\ req' = NoRequest
  /\ resp' = NoResponse

WireTypeOK ==
  /\ proto \in ProtocolStates
  /\ wire \in WireStates
  /\ req \in [type : RequestTypes \cup {"none"}, rows : Seq(Nat)]
  /\ resp \in [type : ResponseTypes \cup {"none"}, body : PayloadKinds,
               conn : ConnIds \cup {0}, rows : Seq(Nat)]
=============================================================================
