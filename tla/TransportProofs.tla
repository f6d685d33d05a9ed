---------------------------- MODULE TransportProofs ----------------------------
(***************************************************************************)
(* The transport for every MAX_TOTAL_WAIT and every number of calls: its   *)
(* types, that no answer is taken for another request's, and that it       *)
(* implements LockStep.                                                    *)
(***************************************************************************)
EXTENDS Transport, TLAPS

(* What the socket holds belongs to the exchange under way: a socket that   *)
(* may send holds nothing, and until a receive gives up what it holds is    *)
(* the request sent last, or its answer.                                    *)
SocketInv ==
  /\ state = "send" => request = 0 /\ inbox = 0
  /\ request = 0 \/ inbox = 0
  /\ call = "recv" => state = "recv"
  /\ state = "recv" /\ ~GaveUp => request \in {0, sends} /\ inbox \in {0, sends}

TransportInv == TypeOK /\ SocketInv

(* A poll ends the call in time or leaves its clock below the limit.        *)
LEMMA PollType ==
  ASSUME TypeOK, Poll
  PROVE  /\ call' \in {call, "none"} /\ result' \in {result, "timeout"}
         /\ elapsed' \in 0..(MaxWait - 1)
         /\ \/ call' = call /\ result' = result
            \/ call' = "none" /\ result' = "timeout" /\ elapsed + 2 >= MaxWait
BY TransportAssumption DEF Poll, Return, TypeOK

LEMMA TransportInit == Init => TransportInv
BY TransportAssumption DEF Init, TransportInv, TypeOK, SocketInv

LEMMA TransportStep == TransportInv /\ [Next]_vars => TransportInv'
<1> SUFFICES ASSUME TransportInv, [Next]_vars PROVE TransportInv'
  OBVIOUS
<1> USE TransportAssumption DEF TransportInv
<1>1. CASE SendCall
  BY <1>1 DEF SendCall, Start, TypeOK, SocketInv, GaveUp
<1>2. CASE TrySend
  <2>1. CASE MaySend /\ state' = "recv" /\ request' = sends /\ Return("ok")
    BY <1>2, <2>1 DEF TrySend, MaySend, Return, TypeOK, SocketInv, GaveUp
  <2>2. CASE MaySend /\ Poll /\ UNCHANGED <<state, request>>
    BY <1>2, <2>2, PollType DEF TrySend, MaySend, TypeOK, SocketInv, GaveUp
  <2>3. CASE Return("error") /\ UNCHANGED <<state, request>>
    BY <1>2, <2>3 DEF TrySend, Return, TypeOK, SocketInv, GaveUp
  <2>4. QED BY <1>2, <2>1, <2>2, <2>3 DEF TrySend
<1>3. CASE RecvCall
  BY <1>3 DEF RecvCall, Start, TypeOK, SocketInv, GaveUp
<1>4. CASE TryRecv
  <2>1. CASE inbox # 0 /\ taken' = inbox /\ inbox' = 0 /\ state' = "send"
              /\ (Return("ok") \/ Return("error"))
    BY <1>4, <2>1 DEF TryRecv, Return, TypeOK, SocketInv, GaveUp
  <2>2. CASE inbox = 0 /\ Poll /\ UNCHANGED <<state, inbox, taken>>
    BY <1>4, <2>2, PollType DEF TryRecv, TypeOK, SocketInv, GaveUp
  <2>3. CASE Return("error") /\ UNCHANGED <<state, inbox, taken>>
    BY <1>4, <2>3 DEF TryRecv, Return, TypeOK, SocketInv, GaveUp
  <2>4. QED BY <1>4, <2>1, <2>2, <2>3 DEF TryRecv
<1>5. CASE PeerAnswers
  BY <1>5 DEF PeerAnswers, TypeOK, SocketInv, GaveUp
<1>6. CASE Over \/ UNCHANGED vars
  BY <1>6 DEF Over, vars, TypeOK, SocketInv, GaveUp
<1>7. QED BY <1>1, <1>2, <1>3, <1>4, <1>5, <1>6 DEF Next, Step

(* Type correctness: the clock of a call never reaches the limit.            *)
THEOREM TransportTypeCorrect == Spec => []TypeOK
<1>1. TransportInv => TypeOK
  BY DEF TransportInv
<1>2. QED BY <1>1, TransportInit, TransportStep, PTL DEF Spec

-----------------------------------------------------------------------------
(* Whatever a receive returns answers the request sent last, however late    *)
(* the peer answers (ZmqTransport::recv).                                    *)
THEOREM TakesOwnAnswer == Spec => OwnAnswer
<1>1. TransportInv /\ [Next]_vars => [taken' # taken => taken' = sends]_vars
  <2> SUFFICES ASSUME TransportInv, Next, taken' # taken PROVE taken' = sends
    OBVIOUS
  <2>1. TryRecv
    BY DEF Next, Step, SendCall, TrySend, RecvCall, PeerAnswers, Over, vars
  <2>2. call = "recv" /\ taken' = inbox /\ inbox # 0
    BY <2>1 DEF TryRecv
  <2>3. QED BY <2>2 DEF TransportInv, SocketInv, GaveUp
<1>2. QED BY <1>1, TransportInit, TransportStep, PTL DEF Spec, OwnAnswer

(* A receive gives up only with no answer there and the whole wait over.     *)
THEOREM WaitsForSlowAnswer == Spec => SlowAnswerTaken
<1>1. TransportInv /\ [Next]_vars =>
        [call = "recv" /\ call' = "none" /\ result' = "timeout"
           => inbox = 0 /\ elapsed + 2 >= MaxWait]_vars
  <2> SUFFICES ASSUME TransportInv, Next, call = "recv", call' = "none", result' = "timeout"
               PROVE  inbox = 0 /\ elapsed + 2 >= MaxWait
    OBVIOUS
  <2>1. TryRecv
    BY DEF Next, Step, SendCall, TrySend, RecvCall, PeerAnswers, Over, vars
  <2>2. inbox = 0 /\ Poll
    BY <2>1 DEF TryRecv, Return
  <2>3. QED BY <2>2, PollType DEF TransportInv
<1>2. QED BY <1>1, TransportInit, TransportStep, PTL DEF Spec, SlowAnswerTaken

-----------------------------------------------------------------------------
(* Every step of the transport is a step of LockStep under the mapping of    *)
(* Exchange, or leaves it alone.                                             *)
LEMMA LockInit == Init => Lock!Init
BY DEF Init, Lock!Init, Exchange

LEMMA LockStepStep == TransportInv /\ [Next]_vars => [Lock!Next]_Exchange
<1> SUFFICES ASSUME TransportInv, [Next]_vars PROVE [Lock!Next]_Exchange
  OBVIOUS
<1> USE DEF TransportInv, SocketInv, Exchange, GaveUp, TypeOK
<1>1. CASE SendCall
  BY <1>1 DEF SendCall, Start
<1>2. CASE TrySend
  <2>1. CASE MaySend /\ state' = "recv" /\ request' = sends /\ Return("ok")
    <3>1. Exchange = "idle" /\ Exchange' = "asked"
      BY <1>2, <2>1 DEF TrySend, MaySend, Return
    <3>2. QED BY <3>1 DEF Lock!Next, Lock!Ask
  <2>2. CASE MaySend /\ Poll /\ UNCHANGED <<state, request>>
    BY <1>2, <2>2 DEF TrySend, MaySend
  <2>3. CASE Return("error") /\ UNCHANGED <<state, request>>
    BY <1>2, <2>3 DEF TrySend, Return
  <2>4. QED BY <1>2, <2>1, <2>2, <2>3 DEF TrySend
<1>3. CASE RecvCall
  BY <1>3 DEF RecvCall, Start
<1>4. CASE TryRecv
  <2>1. CASE inbox # 0 /\ state' = "send"
    <3>1. Exchange = "answered" /\ Exchange' = "idle"
      BY <1>4, <2>1 DEF TryRecv
    <3>2. QED BY <3>1 DEF Lock!Next, Lock!Take
  <2>2. CASE call' = "none" /\ result' # "ok" /\ UNCHANGED <<state, inbox>>
    <3>1. Exchange \in {"asked", "answered"} /\ Exchange' = "stuck"
      BY <1>4, <2>2 DEF TryRecv
    <3>2. QED BY <3>1 DEF Lock!Next, Lock!GiveUp
  <2>3. CASE UNCHANGED <<call, state, inbox>>
    BY <1>4, <2>3 DEF TryRecv
  <2>4. QED BY <1>4, <2>1, <2>2, <2>3, PollType DEF TryRecv, Return
<1>5. CASE PeerAnswers
  <2>1. CASE GaveUp
    BY <1>5, <2>1 DEF PeerAnswers
  <2>2. CASE ~GaveUp
    <3>1. Exchange = "asked" /\ Exchange' = "answered"
      BY <1>5, <2>2 DEF PeerAnswers
    <3>2. QED BY <3>1 DEF Lock!Next, Lock!Answer
  <2>3. QED BY <2>1, <2>2
<1>6. CASE Over \/ UNCHANGED vars
  BY <1>6 DEF Over, vars
<1>7. QED BY <1>1, <1>2, <1>3, <1>4, <1>5, <1>6 DEF Next, Step

(* The transport implements LockStep: one exchange after the other, and      *)
(* nothing more once a receive has given up.                                 *)
THEOREM TransportImplementsLockStep == Spec => ImplementsLockStep
BY TransportInit, TransportStep, LockInit, LockStepStep, PTL
   DEF Spec, ImplementsLockStep, Lock!Spec
=============================================================================
