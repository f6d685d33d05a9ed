------------------------------- MODULE Transport -------------------------------
(***************************************************************************)
(* transport.rs: a blocking send and a blocking receive over a ZMQ REQ     *)
(* socket, each a loop that polls through EAGAIN until the operation       *)
(* succeeds, the socket fails, or MAX_TOTAL_WAIT has passed.  The caller   *)
(* is wire.rs `request`: a send, and when it succeeded a receive.  The     *)
(* peer (the database) answers as late as it likes, or never.              *)
(***************************************************************************)
EXTENDS Integers

CONSTANTS
  MaxWait,       \* MAX_TOTAL_WAIT, in poll intervals (120 in the code)
  MaxSends       \* bound: send calls of the session

ASSUME TransportAssumption == MaxWait \in Nat \ {0} /\ MaxSends \in Nat

VARIABLES
  call,      \* the call under way: "none", "send", "recv"
  elapsed,   \* poll intervals since it started
  result,    \* what the last call returned: "ok", "timeout", "error"
  state,     \* the REQ socket: "send" (may send), "recv" (must receive)
  sends,     \* send calls so far; each frame carries this number
  request,   \* the frame the peer holds, 0 if none
  inbox,     \* the answer waiting in the socket, 0 if none
  taken      \* the answer the last receive returned, 0 before the first

vars == <<call, elapsed, result, state, sends, request, inbox, taken>>

Init ==
  /\ call = "none" /\ elapsed = 0 /\ result = "ok"
  /\ state = "send"
  /\ sends = 0 /\ request = 0 /\ inbox = 0 /\ taken = 0

-----------------------------------------------------------------------------
(* retry_transient.                                                        *)
Start(what) == call' = what /\ elapsed' = 0

Return(outcome) == call' = "none" /\ elapsed' = 0 /\ result' = outcome

\* Mutants: EAGAIN is an error like any other; the clock starts over and over; one poll
\* too many.
PollOnce == Return("timeout")

PollForever == elapsed' = (elapsed + 1) % MaxWait /\ UNCHANGED <<call, result>>

PollPastLimit ==
  \E waited \in 1..2 :
    IF elapsed + waited > MaxWait
    THEN Return("timeout")
    ELSE elapsed' = elapsed + waited /\ UNCHANGED <<call, result>>

(* EAGAIN: a poll interval or more has passed, polled again until the total *)
(* wait is reached.                                                        *)
Poll ==
  \E waited \in 1..2 :
    IF elapsed + waited >= MaxWait
    THEN Return("timeout")
    ELSE elapsed' = elapsed + waited /\ UNCHANGED <<call, result>>

-----------------------------------------------------------------------------
(* send.                                                                   *)
SendCall ==
  /\ call = "none"
  /\ sends < MaxSends
  /\ state = "recv" => result # "ok"      \* what was sent is received first
  /\ sends' = sends + 1
  /\ Start("send")
  /\ UNCHANGED <<result, state, request, inbox, taken>>

\* Mutant: a socket that may send again without having received (ZMQ_REQ_RELAXED).
Relaxed == TRUE

\* EFSM: a REQ socket refuses a send while it owes a receive.
MaySend == state = "send"

TrySend ==
  /\ call = "send"
  /\ IF MaySend
     THEN \/ state' = "recv" /\ request' = sends /\ Return("ok")
          \/ Poll /\ UNCHANGED <<state, request>>
          \/ Return("error") /\ UNCHANGED <<state, request>>
     ELSE Return("error") /\ UNCHANGED <<state, request>>
  /\ UNCHANGED <<sends, inbox, taken>>

-----------------------------------------------------------------------------
(* recv.                                                                   *)

\* A receive that failed is not repeated: request returned its Err.
RecvCall ==
  /\ call = "none"
  /\ result = "ok"
  /\ state = "recv"
  /\ Start("recv")
  /\ UNCHANGED <<result, state, sends, request, inbox, taken>>

TryRecv ==
  /\ call = "recv"
  /\ \/ /\ inbox # 0
        /\ taken' = inbox
        /\ inbox' = 0
        /\ state' = "send"
        /\ Return("ok") \/ Return("error")       \* or the frame does not decode
     \/ inbox = 0 /\ Poll /\ UNCHANGED <<state, inbox, taken>>
     \/ Return("error") /\ UNCHANGED <<state, inbox, taken>>
  /\ UNCHANGED <<sends, request>>

-----------------------------------------------------------------------------
(* The peer answers the request it holds, if ever.                         *)
PeerAnswers ==
  /\ request # 0
  /\ inbox' = request
  /\ request' = 0
  /\ UNCHANGED <<call, elapsed, result, state, sends, taken>>

Over == call = "none" /\ sends = MaxSends /\ UNCHANGED vars

Step == SendCall \/ TrySend \/ RecvCall \/ TryRecv
Next == Step \/ PeerAnswers \/ Over

Spec == Init /\ [][Next]_vars

\* The client thread polls on; the peer need not answer.
FairSpec == Spec /\ WF_vars(TrySend) /\ WF_vars(TryRecv)

-----------------------------------------------------------------------------
\* Type invariant.
TypeOK ==
  /\ call \in {"none", "send", "recv"}
  /\ elapsed \in 0..(MaxWait - 1)
  /\ result \in {"ok", "timeout", "error"}
  /\ state \in {"send", "recv"}
  /\ sends \in Nat /\ request \in Nat /\ inbox \in Nat /\ taken \in Nat

(* The answer a receive returns answers the request sent last, never one    *)
(* given up before: the peer may answer late, the socket then refuses every *)
(* further send (ZmqTransport::send, recv).                                 *)
OwnAnswer == [][taken' # taken => taken' = sends]_vars

(* A receive gives up only after the whole of MAX_TOTAL_WAIT, and never     *)
(* with the answer already there: an answer slower than a poll interval is  *)
(* not an error (transport.rs MAX_TOTAL_WAIT).                              *)
SlowAnswerTaken ==
  [][call = "recv" /\ call' = "none" /\ result' = "timeout"
       => inbox = 0 /\ elapsed + 2 >= MaxWait]_vars

(* Every call returns, also when the peer is silent for ever.               *)
CallsReturn == \A what \in {"send", "recv"} : call = what ~> call = "none"

GaveUp == state = "recv" /\ call # "recv" /\ (result # "ok" \/ call = "send")

Exchange ==
  IF state = "send" THEN "idle"
  ELSE IF GaveUp THEN "stuck" ELSE IF inbox # 0 THEN "answered" ELSE "asked"

(* The transport offers wire.rs one exchange after the other (LockStep).    *)
Lock == INSTANCE LockStep WITH sock <- Exchange
ImplementsLockStep == Lock!Spec
=============================================================================
