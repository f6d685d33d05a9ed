---------------------------- MODULE SessionProofs ----------------------------
(***************************************************************************)
(* A session implements SessionContract whatever the database answers,     *)
(* whatever the UDF does with its context and whatever the socket loses:   *)
(* the argument needs where the client stands (pc), how often the hook     *)
(* ran, which errors there are to report, and the types of the state,      *)
(* proved one part after the other: the wire, the database, the            *)
(* dispatchers, the end of the session.  Then its safety: the emit buffer  *)
(* and the recorded error, what MT_FINISHED means, the numbers of scalar   *)
(* rows, what is under way on the wire, what follows a terminal message,   *)
(* the final message, and single calls.  Then its rows: input rows shown   *)
(* once and in order, output rows delivered as they were accepted.  Last   *)
(* the mock engine: it is a database of a session, and collects every      *)
(* row.                                                                    *)
(***************************************************************************)
EXTENDS MockDb, ProtocolStepProofs, SequenceTheorems, WellFoundedInduction

(* Where the hook has run, and where there must be an error.  The hook runs *)
(* at one location only, which is never come back to.                       *)
ControlInv ==
  /\ pc \in Locations
  /\ hooks \in {0, 1}
  /\ hooks = 1 => pc \in {"Finish", "ErrorClose", "Exited"}
  /\ pc \in SetupLocations \cup DataLocations \cup CallLocations => errors = <<>>
  /\ pc = "Finish" => hooks = 1 /\ errors = <<>>
  /\ pc = "ErrorClose" => errors # <<>>
  /\ pc = "Exited" /\ hooks = 0 => errors # <<>>

USE DEF GoTo, EndDispatch

(* A step of the streaming dispatcher or of the UDF stays in dispatch, or    *)
(* ends it at the cleanup hook.                                             *)
LEMMA StreamingStaysInDispatch ==
  StreamingStep => /\ pc \in DataLocations
                   /\ pc' \in DataLocations \cup {"Hook"}
                   /\ pc' # "Hook" => errors' = errors
                   /\ UNCHANGED <<hooks, finals>>
<1> DEFINE Stays == /\ pc \in DataLocations
                    /\ pc' \in DataLocations \cup {"Hook"}
                    /\ pc' # "Hook" => errors' = errors
<1> SUFFICES ASSUME StreamingStep
             PROVE  Stays
  BY DEF StreamingStep
<1> USE DEF DataLocations
<1>1. CASE GroupOpenReply
  BY <1>1 DEF GroupOpenReply, EndsSession
<1>2. CASE FirstBatchReply
  BY <1>2 DEF FirstBatchReply
<1>3. CASE RunOnce
  BY <1>3 DEF RunOnce
<1>4. CASE FlushReply
  BY <1>4 DEF FlushReply, UdfSeesError
<1>5. CASE NextReply
  BY <1>5 DEF NextReply, UdfSeesError
<1>6. CASE ImportReply
  BY <1>6 DEF ImportReply, UdfSeesError
<1>7. CASE AdvanceReply
  BY <1>7 DEF AdvanceReply
<1>8. CASE GroupEnd
  BY <1>8 DEF GroupEnd
<1>9. CASE TailFlushReply
  BY <1>9 DEF TailFlushReply
<1>10. CASE GroupDoneReply
  BY <1>10 DEF GroupDoneReply, EndsSession
<1>11. ASSUME NEW c \in RowCosts, UdfEmit(c) \/ UdfSetReturn(c)
       PROVE  Stays
  BY <1>11 DEF UdfEmit, UdfSetReturn, ContextCall, PushOutputRow
<1>12. CASE UdfNext
  BY <1>12 DEF UdfNext, ContextCall
<1>13. CASE UdfConnection
  BY <1>13 DEF UdfConnection, ContextCall
<1>14. CASE UdfConnectBackFails
  BY <1>14 DEF UdfConnectBackFails, ContextCall, UdfSeesError
<1>15. CASE UdfReturnsOk
  BY <1>15 DEF UdfReturnsOk
<1>16. CASE UdfFails
  BY <1>16 DEF UdfFails
<1>17. QED
  BY <1>1, <1>2, <1>3, <1>4, <1>5, <1>6, <1>7, <1>8, <1>9, <1>10, <1>11, <1>12, <1>13,
     <1>14, <1>15, <1>16 DEF StreamingStep, UdfStep, DispatchStep

(* So does a step of the single-call dispatcher.                            *)
LEMMA SingleCallStaysInDispatch ==
  SingleCallStep => /\ pc \in CallLocations
                    /\ pc' \in CallLocations \cup {"Hook"}
                    /\ pc' # "Hook" => errors' = errors
                    /\ UNCHANGED <<hooks, finals>>
<1> SUFFICES ASSUME SingleCallStep
             PROVE  /\ pc \in CallLocations
                    /\ pc' \in CallLocations \cup {"Hook"}
                    /\ pc' # "Hook" => errors' = errors
  BY DEF SingleCallStep
<1> USE DEF CallLocations
<1>1. CASE CallOpenReply
  BY <1>1 DEF CallOpenReply, EndsSession, Unexpected
<1>2. CASE HookConnection
  BY <1>2 DEF HookConnection
<1>3. CASE HookImportReply
  BY <1>3 DEF HookImportReply
<1>4. CASE HookReturns
  BY <1>4 DEF HookReturns
<1>5. CASE HookFails
  BY <1>5 DEF HookFails
<1>6. CASE CallReplyReply
  BY <1>6 DEF CallReplyReply, EndsSession, Unexpected
<1>7. CASE CallDoneReply
  BY <1>7 DEF CallDoneReply, EndsSession, Unexpected
<1>8. QED
  BY <1>1, <1>2, <1>3, <1>4, <1>5, <1>6, <1>7 DEF SingleCallStep, CallStep

\* Either dispatcher.
Dispatching == DataLocations \cup CallLocations

(* Either way the session stays in dispatch, or ends it at the hook.        *)
LEMMA DispatchStays ==
  StreamingStep \/ SingleCallStep =>
    /\ pc \in Dispatching
    /\ pc' \in Dispatching \cup {"Hook"}
    /\ pc' # "Hook" => errors' = errors
    /\ UNCHANGED <<hooks, finals>>
  BY StreamingStaysInDispatch, SingleCallStaysInDispatch DEF Dispatching

(* Exchanges with the wire and the database leave the client where it is.   *)
LEMMA WireLeavesClient ==
  SendRequest \/ EchoPing \/ DatabaseStep => UNCHANGED <<pc, errors, hooks>>
  BY DEF SendRequest, EchoPing, DatabaseStep, runtimeVars, endVars

(* The locations of the dispatchers and those of Runtime::run are distinct. *)
LEMMA Places ==
  /\ Dispatching \subseteq Locations
  /\ Dispatching \cap (SetupLocations \cup EndLocations) = {}
  /\ SetupLocations = {"Client", "Meta", "Prepare"}
  /\ EndLocations = {"Hook", "Finish", "ErrorClose", "Exited"}
  /\ SetupLocations \cup EndLocations \subseteq Locations
  BY DEF Dispatching, Locations, DataLocations, CallLocations, SetupLocations, EndLocations

(* The locations, by the part of the runtime they belong to.                *)
LEMMA PlaceTypes ==
  /\ DataLocations \cup CallLocations \cup SetupLocations \cup EndLocations = Locations
  /\ DataLocations = {"GroupOpen", "FirstBatch", "RunOnce", "InUdf", "Flush", "Next", "Import",
                      "Advance", "GroupEnd", "TailFlush", "GroupDone"}
  /\ CallLocations = {"CallOpen", "InHook", "HookImport", "CallReply", "CallDone"}
  /\ SetupLocations = {"Client", "Meta", "Prepare"}
  /\ EndLocations = {"Hook", "Finish", "ErrorClose", "Exited"}
  BY DEF Locations, DataLocations, CallLocations, SetupLocations, EndLocations

(* A new session has run no hook.                                           *)
LEMMA ControlInit == Init => ControlInv
  BY Places, PlaceTypes DEF Init, ControlInv

(* Every step keeps the control invariant.                                  *)
LEMMA ControlStep == ControlInv /\ [Next]_vars => ControlInv'
<1> SUFFICES ASSUME ControlInv, [Next]_vars PROVE ControlInv'
  OBVIOUS
<1> USE Places DEF ControlInv, Dispatching
<1>1. CASE SendRequest \/ EchoPing \/ DatabaseStep
  BY <1>1, WireLeavesClient
<1>2. CASE HandshakeReply
  BY <1>2 DEF HandshakeReply, endVars
<1>3. CASE Prepare
  <2>1. "CallOpen" \in Locations /\ "GroupOpen" \in Locations
    BY DEF Locations, CallLocations, DataLocations
  <2>2. pc = "Prepare" /\ UNCHANGED hooks
    BY <1>3 DEF Prepare, endVars
  <2>3. \/ pc' \in {"CallOpen", "GroupOpen"} /\ errors' = errors
        \/ pc' = "ErrorClose" /\ errors' = <<"invalid">>
    BY <1>3 DEF Prepare
  <2>5. errors = <<>>
    BY <2>2
  <2>4. QED BY <2>1, <2>2, <2>3, <2>5
<1>4. CASE StreamingStep \/ SingleCallStep
  BY <1>4, DispatchStays
<1>5. CASE RunHook
  <2>1. pc = "Hook" /\ hooks' = 1
    BY <1>5 DEF RunHook
  <2>2. \/ pc' = "Finish" /\ errors' = <<>>
        \/ pc' = "ErrorClose" /\ errors' = errors /\ errors # <<>>
        \/ pc' = "ErrorClose" /\ errors' = Append(errors, "hook")
    BY <1>5 DEF RunHook
  <2>3. Append(errors, "hook") # <<>>
    OBVIOUS
  <2>4. QED BY <2>1, <2>2, <2>3
<1>6. CASE FinishReply
  BY <1>6 DEF FinishReply, endVars
<1>7. CASE SendClose
  BY <1>7 DEF SendClose
<1>8. CASE Exited \/ UNCHANGED vars
  BY <1>8 DEF Exited, vars, runtimeVars, endVars
<1>9. QED
  BY <1>1, <1>2, <1>3, <1>4, <1>5, <1>6, <1>7, <1>8 DEF Next, ClientStep

-----------------------------------------------------------------------------
(* An exchange under way has a request, and a reply that has arrived has a  *)
(* payload of its type.                                                     *)
ExchangeInv ==
  /\ wire \in {"asked", "answered"} => req.type \in RequestTypes
  /\ wire = "answered" => resp.type \in ResponseTypes /\ resp.body \in Payloads(resp.type)

(* Payloads are words.                                                      *)
LEMMA PayloadType == \A t \in ResponseTypes : Payloads(t) \subseteq PayloadKinds
  BY DEF Payloads, PayloadKinds

(* The next rows of a group are a sequence of row numbers.                  *)
LEMMA NextRowsType ==
  ASSUME handed \in Nat, NEW n \in Nat
  PROVE  NextRows(n) \in Seq(Nat) /\ Len(NextRows(n)) = n
<1>1. NextRows(n) = [i \in 1..n |-> handed + i]
  BY DEF NextRows
<1>2. \A i \in 1..n : handed + i \in Nat
  OBVIOUS
<1>3. QED BY <1>1, <1>2

(* What the database may answer is a reply.                                 *)
LEMMA ResponseType ==
  ASSUME handed \in Nat, req.type \in RequestTypes, NEW r \in Responses
  PROVE  /\ r \in [type : ResponseTypes, body : PayloadKinds, conn : ConnIds, rows : Seq(Nat)]
         /\ r.type \in Allowed(req)
         /\ r.body \in Bodies[r.type] \cap Payloads(r.type)
<1>1. PICK t \in Allowed(req) :
        r \in [type : {t}, body : Bodies[t], conn : ConnIds,
               rows : IF t = "MT_NEXT" THEN {NextRows(n) : n \in 0..MaxBatch} ELSE {<<>>}]
  BY DEF Responses
<1>2. Allowed(req) \subseteq ResponseTypes
  BY DatabaseAssumption, Tables DEF Allowed, Refuses, ResponseTypes
<1>3. Bodies[t] \subseteq PayloadKinds
  BY <1>2, DatabaseAssumption, PayloadType
<1>4. \A n \in 0..MaxBatch : NextRows(n) \in Seq(Nat)
  BY NextRowsType, DatabaseAssumption
<1>5. r.rows \in Seq(Nat)
  <2>1. CASE t = "MT_NEXT"
    <3>1. r.rows \in {NextRows(n) : n \in 0..MaxBatch}
      BY <1>1, <2>1
    <3>2. PICK n \in 0..MaxBatch : r.rows = NextRows(n)
      BY <3>1
    <3>3. QED BY <3>2, <1>4
  <2>2. CASE t # "MT_NEXT"
    <3>1. r.rows = <<>>
      BY <1>1, <2>2
    <3>2. QED BY <3>1
  <2>3. QED BY <2>1, <2>2
<1>6. r.type = t /\ r.body \in PayloadKinds /\ r.conn \in ConnIds
  BY <1>1, <1>3
<1>7. r = [type |-> r.type, body |-> r.body, conn |-> r.conn, rows |-> r.rows]
  BY <1>1
<1>8. r.body \in Bodies[r.type] \cap Payloads(r.type)
  BY <1>1, <1>2, DatabaseAssumption
<1>9. QED BY <1>1, <1>2, <1>5, <1>6, <1>7, <1>8

(* The wire keeps its type through a request's outcome.                     *)
LEMMA OutcomeType ==
  ASSUME WireTypeOK, NEW e, Outcome(e)
  PROVE  WireTypeOK' /\ ExchangeInv'
<1>1. proto' \in ProtocolStates
  <2>1. proto' = After(proto, resp) \/ proto' = proto
    BY DEF Outcome, Received, EchoFailed, TimedOut, NotSent
  <2>2. resp.conn \in ConnIds \cup {0} /\ proto \in ProtocolStates
    BY DEF WireTypeOK
  <2>3. QED BY <2>1, <2>2, AfterType
<1>2. wire' \in WireStates
  BY DEF Outcome, Received, EchoFailed, TimedOut, NotSent, WireStates, WireTypeOK
<1>3. req' \in [type : RequestTypes \cup {"none"}, rows : Seq(Nat)]
  BY DEF Outcome, NoRequest, Request
<1>4. resp' \in [type : ResponseTypes \cup {"none"}, body : PayloadKinds,
                 conn : ConnIds \cup {0}, rows : Seq(Nat)]
  BY DEF Outcome, NoResponse, PayloadKinds
<1>5. ExchangeInv'
  BY DEF Outcome, Received, EchoFailed, TimedOut, NotSent, ExchangeInv
<1>6. QED BY <1>1, <1>2, <1>3, <1>4, <1>5 DEF WireTypeOK

(* Sending, echoing and answering keep the type of the wire.                *)
LEMMA RequestType ==
  ASSUME DispatchTypeOK, SingleCallTypeOK, pc \in DOMAIN Asks \cup {"CallReply"},
         pc = "CallReply" => reply # "none"
  PROVE  RequestAt \in [type : RequestTypes, rows : Seq(Nat)]
<1>1. CASE pc = "CallReply"
  BY <1>1 DEF RequestAt, Request, SingleCallTypeOK, RequestTypes
<1>2. CASE pc \in {"Flush", "TailFlush"}
  BY <1>2 DEF RequestAt, Request, DispatchTypeOK, RequestTypes
<1>3. CASE pc \notin {"CallReply", "Flush", "TailFlush"}
  <2>1. Asks[pc] \in RequestTypes
    BY <1>3 DEF Asks, RequestTypes
  <2>2. QED BY <1>3, <2>1 DEF RequestAt, Request
<1>4. QED BY <1>1, <1>2, <1>3

(* An answer of the database keeps the type of both sides.                  *)
LEMMA AnswersType ==
  ASSUME WireTypeOK, DatabaseTypeOK, ExchangeInv, Answers
  PROVE  WireTypeOK' /\ DatabaseTypeOK' /\ ExchangeInv'
<1>1. PICK r \in Responses : Answer(r)
  BY DEF Answers
<1>2. handed \in Nat /\ req.type \in RequestTypes /\ req.rows \in Seq(Nat)
  BY DEF DatabaseTypeOK, WireTypeOK, ExchangeInv, Answers, WireStates
<1>3. r \in [type : ResponseTypes, body : PayloadKinds, conn : ConnIds, rows : Seq(Nat)]
       /\ r.body \in Payloads(r.type)
  BY <1>2, ResponseType
<1>4. WireTypeOK'
  BY <1>1, <1>3 DEF Answer, WireTypeOK, WireStates
<1>5. delivered' \in Seq(Nat)
  BY <1>1, <1>2 DEF Answer, DatabaseTypeOK
<1>6. ExchangeInv'
  BY <1>1, <1>2, <1>3 DEF Answer, ExchangeInv
<1>7. stalls' \in Nat
  <2>1. /\ stalls \in Nat /\ MaxStalls \in Nat
        /\ stalls' = stalls \/ stalls' = (stalls + 1) % (MaxStalls + 1)
    BY <1>1, DatabaseAssumption DEF Answer, DatabaseTypeOK
  <2>2. QED BY <2>1
<1>8. ended' \subseteq TerminalTypes
  BY <1>1 DEF Answer, DatabaseTypeOK
<1>9. said' \in {"none", "cleanup", "close"}
  BY <1>1 DEF Answer, DatabaseTypeOK
<1>10. groups' \in Nat /\ settled' \in Nat /\ handed' \in Nat
  BY <1>1, <1>2, <1>3 DEF Answer, DatabaseTypeOK
<1>11. endedAt' \in RequestTypes \cup {"none"}
  BY <1>1, <1>2 DEF Answer, DatabaseTypeOK
<1>12. QED
  BY <1>4, <1>5, <1>6, <1>7, <1>8, <1>9, <1>10, <1>11 DEF DatabaseTypeOK

(* So does the echo of a ping.                                              *)
LEMMA PingType ==
  ASSUME WireTypeOK, ExchangeInv, PingReply
  PROVE  WireTypeOK' /\ ExchangeInv'
<1>1. resp.conn \in ConnIds \cup {0} /\ proto \in ProtocolStates
  BY DEF WireTypeOK
<1>2. proto' \in ProtocolStates
  BY <1>1, AfterType DEF PingReply
<1>3. resp' \in [type : ResponseTypes \cup {"none"}, body : PayloadKinds,
                 conn : ConnIds \cup {0}, rows : Seq(Nat)]
  BY DEF PingReply, NoResponse, PayloadKinds
<1>4. QED BY <1>2, <1>3 DEF PingReply, WireTypeOK, WireStates, ExchangeInv
-----------------------------------------------------------------------------
(* What types alone do not say: the cursor sits on a row whenever there is  *)
(* one, a row runs only when there is one, a flush has a row to confirm,    *)
(* and an exchange under way has a request.                                 *)
CursorInv ==
  /\ rows # <<>> => cur \in DOMAIN rows
  /\ pc = "RunOnce" => rows # <<>>
  /\ pc = "Flush" => buffer # <<>>

ReplyInv == pc = "CallReply" => reply # "none"

(* The lists of errors that the steps set.                                   *)
LEMMA ErrorSeqs ==
  /\ <<>> \in Seq(ErrorKinds)
  /\ \A k \in ErrorKinds : <<k>> \in Seq(ErrorKinds)
  /\ {"handshake", "invalid", "wire", "udf", "dbclose", "unexpected", "hook"} = ErrorKinds
  BY DEF ErrorKinds

(* An input batch that has just been loaded.                                *)
LEMMA LoadBatchType ==
  ASSUME WireTypeOK, LoadBatch
  PROVE  rows' \in Seq(Nat) /\ cur' \in Nat \ {0} /\ (rows' # <<>> => cur' \in DOMAIN rows')
         /\ (rows' # <<>> => rows'[1] \in Nat)
<1>1. rows' \in Seq(Nat) /\ cur' = 1
  BY DEF LoadBatch, WireTypeOK
<1>2. rows' # <<>> => 1 \in DOMAIN rows'
  BY <1>1
<1>3. QED BY <1>1, <1>2

(* The dispatchers leave the client at a known place with known errors.      *)
ControlStepType ==
  /\ pc' \in Locations
  /\ shape' = shape
  /\ errors' \in {errors, <<>>, <<"udf">>, <<"wire">>, <<"dbclose">>, <<"unexpected">>}
  /\ calls' \in {calls, calls + 1, 0}

(* Such a step keeps the type of the control state.                          *)
LEMMA RuntimeStepType ==
  ASSUME RuntimeTypeOK, ControlStepType
  PROVE  RuntimeTypeOK'
<1>1. errors' \in Seq(ErrorKinds)
  BY ErrorSeqs DEF ControlStepType, RuntimeTypeOK
<1>2. QED BY <1>1 DEF ControlStepType, RuntimeTypeOK

(* Every step of the streaming dispatcher and of its UDF is one.             *)
LEMMA DispatchControlType ==
  ASSUME RuntimeTypeOK, DispatchStep \/ UdfStep
  PROVE  ControlStepType
<1> USE PlaceTypes DEF ControlStepType, RuntimeTypeOK
<1>1. CASE GroupOpenReply
  BY <1>1 DEF GroupOpenReply, EndsSession
<1>2. CASE FirstBatchReply
  BY <1>2 DEF FirstBatchReply
<1>3. CASE RunOnce
  BY <1>3 DEF RunOnce
<1>4. CASE FlushReply
  BY <1>4 DEF FlushReply, UdfSeesError
<1>5. CASE NextReply
  BY <1>5 DEF NextReply, UdfSeesError
<1>6. CASE ImportReply
  BY <1>6 DEF ImportReply, UdfSeesError
<1>7. CASE AdvanceReply
  BY <1>7 DEF AdvanceReply
<1>8. CASE GroupEnd
  BY <1>8 DEF GroupEnd
<1>9. CASE TailFlushReply
  BY <1>9 DEF TailFlushReply
<1>10. CASE GroupDoneReply
  BY <1>10 DEF GroupDoneReply, EndsSession
<1>11. ASSUME NEW c \in RowCosts, UdfEmit(c) \/ UdfSetReturn(c)
       PROVE  ControlStepType
  BY <1>11 DEF UdfEmit, UdfSetReturn, ContextCall, PushOutputRow
<1>12. CASE UdfNext
  BY <1>12 DEF UdfNext, ContextCall
<1>13. CASE UdfConnection
  BY <1>13 DEF UdfConnection, ContextCall
<1>14. CASE UdfConnectBackFails
  BY <1>14 DEF UdfConnectBackFails, ContextCall, UdfSeesError
<1>15. CASE UdfReturnsOk
  BY <1>15 DEF UdfReturnsOk
<1>16. CASE UdfFails
  BY <1>16 DEF UdfFails
<1>17. QED
  BY <1>1, <1>2, <1>3, <1>4, <1>5, <1>6, <1>7, <1>8, <1>9, <1>10, <1>11, <1>12, <1>13,
     <1>14, <1>15, <1>16 DEF UdfStep, DispatchStep

(* So is every step of the single-call dispatcher.                           *)
LEMMA CallControlType ==
  ASSUME RuntimeTypeOK, CallStep
  PROVE  ControlStepType
<1> USE PlaceTypes DEF ControlStepType, RuntimeTypeOK
<1>1. CASE CallOpenReply
  BY <1>1 DEF CallOpenReply, EndsSession, Unexpected
<1>2. CASE HookConnection
  BY <1>2 DEF HookConnection
<1>3. CASE HookImportReply
  BY <1>3 DEF HookImportReply
<1>4. CASE HookReturns
  BY <1>4 DEF HookReturns
<1>5. CASE HookFails
  BY <1>5 DEF HookFails
<1>6. CASE CallReplyReply
  BY <1>6 DEF CallReplyReply, EndsSession, Unexpected
<1>7. CASE CallDoneReply
  BY <1>7 DEF CallDoneReply, EndsSession, Unexpected
<1>8. QED
  BY <1>1, <1>2, <1>3, <1>4, <1>5, <1>6, <1>7 DEF CallStep

(* Row numbers appended to row numbers.                                      *)
LEMMA AppendType == \A s \in Seq(Nat) : \A n \in Nat : Append(s, n) \in Seq(Nat)
  OBVIOUS

\* The data of the streaming dispatcher.
DataInv == DispatchTypeOK /\ CursorInv

(* They keep their type, and the cursor its place, when a reply is handled. *)
LEMMA DispatchStepType ==
  ASSUME WireTypeOK, DataInv, DispatchStep
  PROVE  DataInv'
<1> USE DEF DataInv, DispatchTypeOK, CursorInv, dispatchVars, inputVars, outputVars, historyVars
<1>1. CASE GroupOpenReply
  <2>1. CASE OpenGroup /\ pc' = "FirstBatch"
    <3>1. <<>> \in Seq(Nat)
      OBVIOUS
    <3>2. started' \in BOOLEAN /\ returned' \in BOOLEAN
      BY <2>1, Zenon DEF OpenGroup
    <3>3. /\ rows' = <<>> /\ cur' = 1 /\ buffer' = <<>> /\ cost' = 0 /\ exit' = "none"
          /\ recorded' = 0 /\ runs' = 0 /\ visited' = <<>> /\ accepted' = <<>>
      BY <2>1 DEF OpenGroup
    <3>4. DispatchTypeOK'
      BY <3>1, <3>2, <3>3
    <3>5. QED BY <2>1, <3>3, <3>4
  <2>2. CASE UNCHANGED dispatchVars /\ pc' = "Hook"
    BY <2>2
  <2>3. QED BY <1>1, <2>1, <2>2 DEF GroupOpenReply, EndsSession
<1>2. CASE FirstBatchReply
  BY <1>2, LoadBatchType DEF FirstBatchReply, NoteExit
<1>3. CASE RunOnce
  <2>1. rows[cur] \in Nat
    BY <1>3 DEF RunOnce
  <2>2. visited' \in Seq(Nat)
    BY <1>3, <2>1, AppendType DEF RunOnce
  <2>3. UNCHANGED <<rows, cur, started, buffer, cost, exit, accepted>> /\ pc' = "InUdf"
        /\ recorded' = 0 /\ returned' = FALSE /\ runs' = runs + 1
    BY <1>3 DEF RunOnce
  <2>4. returned' \in BOOLEAN
    BY <2>3, Zenon
  <2>5. QED BY <2>2, <2>3, <2>4
<1>4. CASE FlushReply
  <2>1. accepted' \in Seq(Nat)
    <3>1. buffer[Len(buffer)] \in Nat
      BY <1>4 DEF FlushReply
    <3>2. accepted' = accepted \/ accepted' = Append(accepted, buffer[Len(buffer)])
      BY <1>4 DEF FlushReply
    <3>3. accepted \in Seq(Nat)
      OBVIOUS
    <3>4. QED BY <3>1, <3>2, <3>3, AppendType
  <2>2. pc' \in {"InUdf", "Hook"} /\ buffer' = <<>> /\ cost' = 0
    BY <1>4 DEF FlushReply, UdfSeesError
  <2>3. UNCHANGED <<rows, cur, started, exit, returned, recorded, runs, visited>>
    BY <1>4 DEF FlushReply
  <2>4. QED BY <2>1, <2>2, <2>3
<1>5. CASE NextReply
  <2>1. UNCHANGED <<started, buffer, cost, returned, recorded, runs, accepted>>
        /\ pc' \in {"InUdf", "Next", "Hook"} /\ exit' \in {exit, "session", "closed"}
    BY <1>5 DEF NextReply, UdfSeesError, NoteExit
  <2>2. \/ UNCHANGED <<rows, cur, visited>>
        \/ LoadBatch /\ UNCHANGED visited
        \/ LoadBatch /\ rows' # <<>> /\ visited' = Append(visited, rows'[1])
    BY <1>5 DEF NextReply
  <2>3. visited' \in Seq(Nat)
    <3>1. visited \in Seq(Nat)
      OBVIOUS
    <3>2. visited' = visited \/ (visited' = Append(visited, rows'[1]) /\ rows'[1] \in Nat)
      BY <2>2, LoadBatchType
    <3>3. QED BY <3>1, <3>2, AppendType
  <2>4. rows' \in Seq(Nat) /\ cur' \in Nat \ {0} /\ (rows' # <<>> => cur' \in DOMAIN rows')
    BY <2>2, LoadBatchType
  <2>5. QED BY <2>1, <2>3, <2>4
<1>6. CASE ImportReply
  BY <1>6 DEF ImportReply, UdfSeesError
<1>7. CASE AdvanceReply
  BY <1>7, LoadBatchType DEF AdvanceReply, NoteExit
<1>8. CASE GroupEnd
  BY <1>8 DEF GroupEnd
<1>9. CASE TailFlushReply
  <2>1. buffer' = <<>> /\ cost' = 0 /\ pc' \in {"GroupDone", "Hook"}
    BY <1>9 DEF TailFlushReply
  <2>2. UNCHANGED <<inputVars, exit, returned, recorded, historyVars>>
    BY <1>9 DEF TailFlushReply
  <2>3. QED BY <2>1, <2>2
<1>10. CASE GroupDoneReply
  BY <1>10 DEF GroupDoneReply, EndsSession
<1>11. QED
  BY <1>1, <1>2, <1>3, <1>4, <1>5, <1>6, <1>7, <1>8, <1>9, <1>10 DEF DispatchStep

(* An emitted row carries a number and costs something.                     *)
LEMMA PushType ==
  ASSUME DispatchTypeOK, NEW c \in RowCosts, PushOutputRow(c)
  PROVE  /\ buffer' \in Seq(Nat) /\ buffer' # <<>>
         /\ cost' \in Nat
         /\ accepted' \in Seq(Nat)
         /\ pc' \in {"Flush", pc}
<1>1. CurrentRowNumber \in Nat
  <2>1. rows \in Seq(Nat)
    BY DEF DispatchTypeOK
  <2>2. QED BY <2>1 DEF CurrentRowNumber
<1>2. buffer \in Seq(Nat) /\ accepted \in Seq(Nat) /\ cost \in Nat /\ c \in Nat
  BY DispatchAssumption DEF DispatchTypeOK
<1>3. buffer' = Append(buffer, CurrentRowNumber) /\ cost' = cost + c
  BY DEF PushOutputRow
<1>4. accepted' = accepted \/ accepted' = Append(accepted, CurrentRowNumber)
  BY DEF PushOutputRow
<1>5. buffer' \in Seq(Nat) /\ buffer' # <<>>
  BY <1>1, <1>2, <1>3
<1>6. accepted' \in Seq(Nat)
  BY <1>1, <1>2, <1>4, AppendType
<1>7. QED BY <1>2, <1>3, <1>5, <1>6 DEF PushOutputRow

(* The same while the UDF runs.                                             *)
LEMMA UdfStepType ==
  ASSUME DataInv, UdfStep
  PROVE  DataInv'
<1> USE DEF DataInv, DispatchTypeOK, CursorInv, dispatchVars, inputVars, outputVars, historyVars
<1>1. ASSUME NEW c \in RowCosts, UdfEmit(c)
      PROVE  DataInv'
  <2>1. PushOutputRow(c) /\ pc = "InUdf"
        /\ UNCHANGED <<rows, cur, started, exit, returned, recorded, runs, visited>>
    BY <1>1 DEF UdfEmit, ContextCall
  <2>2. QED BY <2>1, PushType
<1>2. ASSUME NEW c \in RowCosts, UdfSetReturn(c)
      PROVE  DataInv'
  <2>1. PushOutputRow(c) /\ pc = "InUdf" /\ returned' = TRUE
        /\ UNCHANGED <<rows, cur, started, exit, recorded, runs, visited>>
    BY <1>2 DEF UdfSetReturn
  <2>2. returned' \in BOOLEAN
    BY <2>1, Zenon
  <2>3. QED BY <2>1, <2>2, PushType
<1>3. CASE UdfNext
  <2>1. pc = "InUdf" /\ started' = TRUE /\ pc' \in {"InUdf", "Next"}
        /\ UNCHANGED <<rows, buffer, cost, exit, returned, recorded, runs, accepted>>
    BY <1>3 DEF UdfNext, ContextCall
  <2>2. started' \in BOOLEAN
    BY <2>1, Zenon
  <2>3. \/ rows # <<>> /\ cur' = cur /\ visited' = Append(visited, rows[cur])
        \/ cur < Len(rows) /\ cur' = cur + 1 /\ visited' = Append(visited, rows[cur + 1])
        \/ UNCHANGED <<cur, visited>>
    BY <1>3 DEF UdfNext, PresentsCurrent, CanAdvance
  <2>4. cur' \in Nat \ {0} /\ (rows # <<>> => cur' \in DOMAIN rows)
        /\ (visited' = visited \/ (cur' \in DOMAIN rows /\ visited' = Append(visited, rows[cur'])))
    BY <2>3
  <2>5. visited' \in Seq(Nat)
    <3>1. rows \in Seq(Nat) /\ visited \in Seq(Nat)
      OBVIOUS
    <3>2. cur' \in DOMAIN rows => rows[cur'] \in Nat
      BY <3>1
    <3>3. QED BY <2>4, <3>1, <3>2, AppendType
  <2>6. QED BY <2>1, <2>2, <2>4, <2>5
<1>4. CASE UdfConnection
  BY <1>4 DEF UdfConnection, ContextCall
<1>5. CASE UdfConnectBackFails
  BY <1>5 DEF UdfConnectBackFails, ContextCall, UdfSeesError
<1>6. CASE UdfReturnsOk
  <2>1. UNCHANGED <<rows, started, buffer, cost, exit, returned, recorded, runs, visited, accepted>>
    BY <1>6 DEF UdfReturnsOk
  <2>2. \/ pc' \in {"GroupEnd", "Advance"} /\ cur' = cur
        \/ pc' = "RunOnce" /\ cur < Len(rows) /\ cur' = cur + 1
    BY <1>6 DEF UdfReturnsOk, CanAdvance
  <2>3. rows \in Seq(Nat) /\ cur \in Nat \ {0}
    OBVIOUS
  <2>4. /\ cur' \in Nat \ {0}
        /\ rows # <<>> => cur' \in DOMAIN rows
        /\ pc' = "RunOnce" => rows # <<>>
        /\ pc' # "Flush"
    BY <2>2, <2>3
  <2>5. QED BY <2>1, <2>4
<1>7. CASE UdfFails
  BY <1>7 DEF UdfFails
<1>8. QED
  BY <1>1, <1>2, <1>3, <1>4, <1>5, <1>6, <1>7 DEF UdfStep

-----------------------------------------------------------------------------
(* A single call under way names a hook, and a reply once there is one.     *)
LEMMA CallStepType ==
  ASSUME SingleCallTypeOK, ExchangeInv, ReplyInv, CallStep
  PROVE  SingleCallTypeOK' /\ ReplyInv'
<1> USE DEF SingleCallTypeOK, ReplyInv, callVars
<1>1. CASE CallOpenReply
  <2>1. PICK e \in Events :
          /\ Outcome(e)
          /\ \/ /\ e = "SingleCall"
                /\ hook' = HookOf(resp.body) /\ reply' = "MT_UNDEFINED_CALL"
             \/ /\ e = "SingleCall"
                /\ resp.body \in Implemented
                /\ hook' = resp.body /\ reply' = reply /\ pc' = "InHook"
             \/ UNCHANGED callVars /\ pc' = "Hook"
    BY <1>1 DEF CallOpenReply, EndsSession, Unexpected
  <2>2. CASE e = "SingleCall"
    <3>1. Received(e)
      BY <2>1, <2>2 DEF Outcome, EchoFailed, TimedOut, NotSent
    <3>2. resp.type = "MT_CALL" /\ resp.body # "absent"
      BY <2>2, <3>1, EventSource DEF Received
    <3>3. resp.body \in {"columns", "adapter", "import", "export", "import_nospec",
                         "export_nospec", "nil"}
      BY <3>1, <3>2 DEF Received, ExchangeInv, Payloads
    <3>4. HookOf(resp.body) \in Hooks \cup {"nil"}
      BY <3>3 DEF HookOf, Unspecified, Hooks
    <3>5. QED BY <2>1, <3>4, SingleCallAssumption
  <2>3. QED BY <2>1, <2>2
<1>2. CASE HookConnection
  BY <1>2 DEF HookConnection
<1>3. CASE HookImportReply
  BY <1>3 DEF HookImportReply
<1>4. CASE HookReturns
  BY <1>4 DEF HookReturns
<1>5. CASE HookFails
  BY <1>5 DEF HookFails
<1>6. CASE CallReplyReply
  BY <1>6 DEF CallReplyReply, EndsSession, Unexpected
<1>7. CASE CallDoneReply
  BY <1>7 DEF CallDoneReply, EndsSession, Unexpected
<1>8. QED
  BY <1>1, <1>2, <1>3, <1>4, <1>5, <1>6, <1>7 DEF CallStep

-----------------------------------------------------------------------------
(* A step of the streaming dispatcher or of its UDF handles an outcome of   *)
(* the wire or leaves the wire alone.                                       *)
LEMMA StreamingWire ==
  ASSUME StreamingStep
  PROVE  (\E e \in Events : Outcome(e)) \/ UNCHANGED wireVars
<1>1. CASE DispatchStep
  BY <1>1 DEF DispatchStep, GroupOpenReply, FirstBatchReply, RunOnce, FlushReply, NextReply,
     ImportReply, AdvanceReply, GroupEnd, TailFlushReply, GroupDoneReply
<1>2. CASE UdfStep
  BY <1>2 DEF UdfStep, UdfEmit, UdfSetReturn, UdfNext, UdfConnection, UdfConnectBackFails,
     UdfReturnsOk, UdfFails
<1>3. QED BY <1>1, <1>2 DEF StreamingStep

(* So does a step of the single-call dispatcher.                            *)
LEMMA CallWire ==
  ASSUME SingleCallStep
  PROVE  (\E e \in Events : Outcome(e)) \/ UNCHANGED wireVars
  BY DEF SingleCallStep, CallStep, CallOpenReply, HookConnection, HookImportReply, HookReturns,
     HookFails, CallReplyReply, CallDoneReply

(* Every part of the state keeps its type, with what that rests on.         *)
TypeInv ==
  /\ WireTypeOK /\ ExchangeInv
  /\ DatabaseTypeOK
  /\ RuntimeTypeOK
  /\ DataInv
  /\ SingleCallTypeOK /\ ReplyInv
  /\ hooks \in Nat
  /\ finals \subseteq {"MT_FINISHED", "MT_CLOSE"}
  /\ failed \in BOOLEAN

(* A wire left alone keeps its type.                                        *)
LEMMA WireFrame ==
  ASSUME WireTypeOK, ExchangeInv, (\E e \in Events : Outcome(e)) \/ UNCHANGED wireVars
  PROVE  WireTypeOK' /\ ExchangeInv'
<1>1. CASE UNCHANGED wireVars
  BY <1>1 DEF wireVars, WireTypeOK, ExchangeInv
<1>2. CASE \E e \in Events : Outcome(e)
  BY <1>2, OutcomeType
<1>3. QED BY <1>1, <1>2

(* So does the database.                                                    *)
LEMMA DatabaseFrame ==
  ASSUME DatabaseTypeOK, UNCHANGED dbVars
  PROVE  DatabaseTypeOK'
  BY DEF DatabaseTypeOK, dbVars

(* And the state of a dispatcher that is not running.                       *)
LEMMA DataFrame ==
  ASSUME DataInv, UNCHANGED dispatchVars, pc' \notin {"RunOnce", "Flush"} \/ pc' = pc
  PROVE  DataInv'
  BY DEF DataInv, DispatchTypeOK, CursorInv, dispatchVars, inputVars, outputVars, historyVars

(* And of a single-call dispatcher that is not running.                      *)
LEMMA CallFrame ==
  ASSUME SingleCallTypeOK, ReplyInv, UNCHANGED callVars, pc' # "CallReply" \/ pc' = pc
  PROVE  SingleCallTypeOK' /\ ReplyInv'
  BY DEF SingleCallTypeOK, ReplyInv, callVars

(* Every step keeps the types.                                               *)
LEMMA TypeStep == TypeInv /\ [Next]_vars => TypeInv'
<1> SUFFICES ASSUME TypeInv, [Next]_vars PROVE TypeInv'
  OBVIOUS
<1> USE DEF TypeInv
<1>1. CASE SendRequest
  <2>1. RequestAt \in [type : RequestTypes, rows : Seq(Nat)]
    BY <1>1, RequestType DEF SendRequest, ReplyInv, DataInv
  <2>2. Send(RequestAt) /\ UNCHANGED <<dbVars, runtimeVars, dispatchVars, callVars, hooks, failed>>
        /\ finals' \in {finals, finals \cup {"MT_FINISHED"}}
    BY <1>1 DEF SendRequest
  <2>3. WireTypeOK' /\ ExchangeInv'
    BY <2>1, <2>2 DEF Send, WireTypeOK, WireStates, ExchangeInv
  <2>4. RuntimeTypeOK' /\ pc' = pc
    BY <2>2 DEF runtimeVars, RuntimeTypeOK
  <2>5. QED BY <2>2, <2>3, <2>4, DatabaseFrame, DataFrame, CallFrame
<1>2. CASE EchoPing
  <2>1. RuntimeTypeOK' /\ pc' = pc
    BY <1>2 DEF EchoPing, runtimeVars, RuntimeTypeOK
  <2>2. QED BY <1>2, <2>1, PingType, DatabaseFrame, DataFrame, CallFrame DEF EchoPing, endVars
<1>3. CASE DatabaseStep
  <2>1. RuntimeTypeOK' /\ pc' = pc
    BY <1>3 DEF DatabaseStep, runtimeVars, RuntimeTypeOK
  <2>2. QED BY <1>3, <2>1, AnswersType, DataFrame, CallFrame DEF DatabaseStep, endVars
<1>4. CASE StreamingStep
  <2>1. RuntimeTypeOK'
    BY <1>4, DispatchControlType, RuntimeStepType DEF StreamingStep
  <2>2. DataInv'
    BY <1>4, DispatchStepType, UdfStepType DEF StreamingStep
  <2>3. pc' # "CallReply"
    BY <1>4, StreamingStaysInDispatch DEF DataLocations
  <2>4. UNCHANGED <<dbVars, callVars, hooks, finals>>
    BY <1>4 DEF StreamingStep
  <2>6. failed' \in BOOLEAN
    BY <1>4, Zenon DEF StreamingStep
  <2>5. QED
    BY <1>4, <2>1, <2>2, <2>3, <2>4, <2>6, StreamingWire, WireFrame, DatabaseFrame, CallFrame
<1>5. CASE SingleCallStep
  <2>1. RuntimeTypeOK'
    BY <1>5, CallControlType, RuntimeStepType DEF SingleCallStep
  <2>2. SingleCallTypeOK' /\ ReplyInv'
    BY <1>5, CallStepType DEF SingleCallStep
  <2>3. pc' \notin {"RunOnce", "Flush"}
    BY <1>5, SingleCallStaysInDispatch DEF CallLocations
  <2>4. UNCHANGED <<dbVars, dispatchVars, hooks, finals>>
    BY <1>5 DEF SingleCallStep
  <2>6. failed' \in BOOLEAN
    BY <1>5, Zenon DEF SingleCallStep
  <2>5. QED BY <1>5, <2>1, <2>2, <2>3, <2>4, <2>6, CallWire, WireFrame, DatabaseFrame, DataFrame
<1>6. CASE HandshakeReply
  <2>1. (\E e \in Events : Outcome(e)) /\ UNCHANGED <<shape, calls, dbVars, dispatchVars, callVars,
                                                      hooks, finals, failed>>
        /\ pc' \in {"Meta", "Prepare", "Exited"} /\ errors' \in {errors, <<"handshake">>}
    BY <1>6 DEF HandshakeReply, endVars
  <2>2. RuntimeTypeOK'
    BY <2>1, ErrorSeqs, PlaceTypes DEF RuntimeTypeOK
  <2>3. QED BY <2>1, <2>2, WireFrame, DatabaseFrame, DataFrame, CallFrame
<1>7. CASE Prepare
  <2>1. UNCHANGED <<wireVars, shape, calls, dbVars, dispatchVars, callVars, hooks, finals, failed>>
        /\ pc' \in {"CallOpen", "GroupOpen", "ErrorClose"} /\ errors' \in {errors, <<"invalid">>}
    BY <1>7 DEF Prepare, endVars
  <2>2. RuntimeTypeOK'
    BY <2>1, ErrorSeqs, PlaceTypes DEF RuntimeTypeOK
  <2>3. QED BY <2>1, <2>2, WireFrame, DatabaseFrame, DataFrame, CallFrame
<1>8. CASE RunHook
  <2>1. UNCHANGED <<wireVars, shape, calls, dbVars, dispatchVars, callVars, finals>>
        /\ hooks' = hooks + 1
        /\ pc' \in {"Finish", "ErrorClose"} /\ errors' \in {errors, Append(errors, "hook")}
    BY <1>8 DEF RunHook
  <2>2. Append(errors, "hook") \in Seq(ErrorKinds)
    BY ErrorSeqs DEF RuntimeTypeOK
  <2>3. RuntimeTypeOK'
    BY <2>1, <2>2, PlaceTypes DEF RuntimeTypeOK
  <2>5. failed' \in BOOLEAN
    BY <1>8, Zenon DEF RunHook
  <2>4. QED BY <2>1, <2>3, <2>5, WireFrame, DatabaseFrame, DataFrame, CallFrame
<1>9. CASE FinishReply
  <2>1. (\E e \in Events : Outcome(e)) /\ UNCHANGED <<shape, calls, dbVars, dispatchVars, callVars,
                                                      hooks, finals, failed>>
        /\ pc' \in {"ErrorClose", "Exited"} /\ errors' \in {errors, <<"wire">>}
    BY <1>9 DEF FinishReply, endVars
  <2>2. RuntimeTypeOK'
    BY <2>1, ErrorSeqs, PlaceTypes DEF RuntimeTypeOK
  <2>3. QED BY <2>1, <2>2, WireFrame, DatabaseFrame, DataFrame, CallFrame
<1>10. CASE SendClose
  <2>1. UNCHANGED <<wireVars, shape, calls, errors, dbVars, dispatchVars, callVars, hooks, failed>>
        /\ pc' = "Exited" /\ finals' \in {finals, finals \cup {"MT_CLOSE"}}
    BY <1>10 DEF SendClose
  <2>2. RuntimeTypeOK'
    BY <2>1, PlaceTypes DEF RuntimeTypeOK
  <2>3. QED BY <2>1, <2>2, WireFrame, DatabaseFrame, DataFrame, CallFrame
<1>11. CASE Exited \/ UNCHANGED vars
  <2>1. UNCHANGED <<wireVars, dbVars, dispatchVars, callVars, pc, shape, errors, calls, hooks,
                    finals, failed>>
    BY <1>11 DEF Exited, vars, runtimeVars, endVars
  <2>2. RuntimeTypeOK'
    BY <2>1 DEF RuntimeTypeOK
  <2>3. QED BY <2>1, <2>2, WireFrame, DatabaseFrame, DataFrame, CallFrame
<1>12. QED
  BY <1>1, <1>2, <1>3, <1>4, <1>5, <1>6, <1>7, <1>8, <1>9, <1>10, <1>11 DEF Next, ClientStep

(* A new session is well typed.                                             *)
LEMMA TypeInit == Init => TypeInv
<1> SUFFICES ASSUME Init PROVE TypeInv
  OBVIOUS
<1> USE DEF Init
<1>1. <<>> \in Seq(Nat) /\ <<>> \in Seq(ErrorKinds)
  OBVIOUS
<1>2. NewProtocol \in ProtocolStates
  BY DEF NewProtocol, ProtocolStates, Phases
<1>3. WireTypeOK /\ ExchangeInv
  BY <1>1, <1>2 DEF WireInit, WireTypeOK, ExchangeInv, WireStates, NoRequest, Request, NoResponse,
                    PayloadKinds
<1>4. DatabaseTypeOK
  BY <1>1 DEF DatabaseInit, DatabaseTypeOK
<1>5. RuntimeTypeOK
  BY <1>1, RuntimeAssumption, PlaceTypes DEF RuntimeTypeOK
<1>6. DataInv
  <2>1. started \in BOOLEAN /\ returned \in BOOLEAN
    BY Zenon DEF NoGroup
  <2>2. /\ rows = <<>> /\ cur = 1 /\ buffer = <<>> /\ cost = 0 /\ exit = "none"
        /\ recorded = 0 /\ runs = 0 /\ visited = <<>> /\ accepted = <<>>
    BY DEF NoGroup
  <2>3. QED BY <1>1, <2>1, <2>2 DEF DataInv, DispatchTypeOK, CursorInv
<1>7. SingleCallTypeOK /\ ReplyInv
  BY DEF NoCall, SingleCallTypeOK, ReplyInv
<1>8. QED BY <1>3, <1>4, <1>5, <1>6, <1>7 DEF TypeInv

(* Every reachable state satisfies the strengthened type invariant.         *)
THEOREM TypeInvariant == Spec => []TypeInv
  BY TypeInit, TypeStep, PTL DEF Spec

(* Type correctness of a session, for every database, UDF and socket the    *)
(* constants allow.                                                         *)
THEOREM SessionTypeCorrect == Spec => []TypeOK
<1>1. TypeInv => TypeOK
  BY DEF TypeInv, TypeOK, DataInv
<1>2. QED BY <1>1, TypeInvariant, PTL

-----------------------------------------------------------------------------
(* Where the client stands decides the stage of the contract.               *)
LEMMA StageOf ==
  ASSUME ControlInv
  PROVE  /\ pc \in Dispatching \cup {"Hook"} => Stage = "dispatching" /\ hooks = 0
         /\ pc \in SetupLocations => Stage = "opening" /\ hooks = 0
         /\ pc = "ErrorClose" => Stage = IF hooks = 0 THEN "opening" ELSE "cleaning"
         /\ pc = "Finish" => Stage = "cleaning"
         /\ pc = "Exited" => Stage = "over"
         /\ pc # "Exited" => Verdict = "none"
  BY Places DEF ControlInv, Stage, Verdict

(* A cause is named exactly when there is an error, and it is the first one. *)
LEMMA CauseOf ==
  ASSUME RuntimeTypeOK
  PROVE  (Cause = "none") <=> (errors = <<>>)
<1>1. errors # <<>> => errors[1] \in ErrorKinds
  BY DEF RuntimeTypeOK
<1>2. QED BY <1>1 DEF Cause, ErrorKinds

(* Nothing of the contract changes while pc, hooks and errors stay and the  *)
(* session is not over, nor when the final messages stay either.            *)
LEMMA MappingFrame ==
  /\ UNCHANGED <<pc, errors, hooks, finals>> => UNCHANGED <<Stage, hooks, Verdict, Cause>>
  /\ UNCHANGED <<pc, errors, hooks>> /\ pc # "Exited" => UNCHANGED <<Stage, hooks, Verdict, Cause>>
  BY DEF Stage, Verdict, Cause

(* A new session is a new session of the contract.                          *)
LEMMA ContractInit == Init => Contract!Init
  BY DEF Init, Contract!Init, Stage, Verdict, Cause, SetupLocations

(* Every step is a step of the contract or leaves it where it is.            *)
LEMMA ContractStep ==
  ControlInv /\ ControlInv' /\ RuntimeTypeOK /\ RuntimeTypeOK' /\ [Next]_vars
       => [Contract!Next]_(Contract!vars)
<1> SUFFICES ASSUME ControlInv, ControlInv', RuntimeTypeOK, RuntimeTypeOK', [Next]_vars
             PROVE  Contract!Next \/ UNCHANGED <<Stage, hooks, Verdict, Cause>>
  BY DEF Contract!vars
<1>0. /\ pc' \in Dispatching \cup {"Hook"} => Stage' = "dispatching" /\ hooks' = 0
      /\ pc' \in SetupLocations => Stage' = "opening" /\ hooks' = 0
      /\ pc' = "ErrorClose" => Stage' = IF hooks' = 0 THEN "opening" ELSE "cleaning"
      /\ pc' = "Finish" => Stage' = "cleaning"
      /\ pc' = "Exited" => Stage' = "over"
      /\ pc' # "Exited" => Verdict' = "none"
  BY Places DEF ControlInv, Stage, Verdict
<1>v. pc' = "Exited" => /\ errors' = <<>> => Verdict' = "finished"
                        /\ errors' # <<>> => Verdict' \in {"closed", "lost"}
  BY DEF Verdict
<1>c. /\ (Cause = "none") <=> (errors = <<>>)
      /\ (Cause' = "none") <=> (errors' = <<>>)
      /\ errors' = errors => Cause' = Cause
  <2>1. errors' # <<>> => errors'[1] \in ErrorKinds
    BY DEF RuntimeTypeOK
  <2>2. (Cause' = "none") <=> (errors' = <<>>)
    BY <2>1 DEF Cause, ErrorKinds
  <2>3. errors' = errors => Cause' = Cause
    BY DEF Cause
  <2>4. QED BY <2>2, <2>3, CauseOf
<1>d. pc \in SetupLocations \cup Dispatching => errors = <<>>
  BY DEF ControlInv, Dispatching
<1>1. CASE SendRequest
  <2>1. UNCHANGED <<pc, errors, hooks>> /\ pc # "Exited"
    BY <1>1 DEF SendRequest, Asks, runtimeVars
  <2>2. QED BY <2>1, MappingFrame
<1>2. CASE EchoPing \/ DatabaseStep
  <2>1. UNCHANGED <<pc, errors, hooks, finals>>
    BY <1>2 DEF EchoPing, DatabaseStep, runtimeVars, endVars
  <2>2. QED BY <2>1, MappingFrame
<1>3. CASE HandshakeReply
  <2>1. pc \in SetupLocations /\ hooks' = hooks
    BY <1>3, Places DEF HandshakeReply, endVars
  <2>2. \/ pc' \in SetupLocations /\ errors' = errors
        \/ pc' = "Exited" /\ errors' # <<>>
    BY <1>3, Places DEF HandshakeReply
  <2>3. Stage = "opening" /\ Verdict = "none" /\ Cause = "none"
    BY <2>1, <1>c, <1>d, StageOf, Places
  <2>4. CASE pc' = "Exited" /\ errors' # <<>>
    BY <2>1, <2>3, <2>4, <1>0, <1>c, <1>v
       DEF Contract!Next, Contract!Refuse, Contract!FirstStays
  <2>5. CASE pc' \in SetupLocations /\ errors' = errors
    BY <2>1, <2>3, <2>5, <1>0, <1>c, Places
  <2>6. QED BY <2>2, <2>4, <2>5
<1>4. CASE Prepare
  <2>1. pc \in SetupLocations /\ hooks' = hooks
    BY <1>4, Places DEF Prepare, endVars
  <2>2. \/ pc' \in Dispatching /\ errors' = errors
        \/ pc' = "ErrorClose" /\ errors' # <<>>
    BY <1>4 DEF Prepare, Dispatching, CallLocations, DataLocations
  <2>3. Stage = "opening" /\ Verdict = "none" /\ Cause = "none" /\ hooks = 0
    BY <2>1, <1>c, <1>d, StageOf, Places
  <2>4. CASE pc' \in Dispatching /\ errors' = errors
    BY <2>1, <2>3, <2>4, <1>0, <1>c, Places DEF Contract!Next, Contract!Dispatch
  <2>5. CASE pc' = "ErrorClose" /\ errors' # <<>>
    BY <2>1, <2>3, <2>5, <1>0, <1>c DEF Contract!Next, Contract!Fail
  <2>6. QED BY <2>2, <2>4, <2>5
<1>5. CASE StreamingStep \/ SingleCallStep
  <2>1. /\ pc \in Dispatching /\ pc' \in Dispatching \cup {"Hook"} /\ hooks' = hooks
        /\ pc' # "Hook" => errors' = errors
    BY <1>5, DispatchStays
  <2>2. Stage = "dispatching" /\ Verdict = "none" /\ Cause = "none"
    BY <2>1, <1>c, <1>d, StageOf, Places
  <2>3. Stage' = "dispatching" /\ Verdict' = "none"
    BY <2>1, <1>0, Places
  <2>4. CASE errors' = errors
    BY <2>1, <2>2, <2>3, <2>4, <1>c
  <2>5. CASE errors' # errors
    BY <2>1, <2>2, <2>3, <2>5, <1>c DEF Contract!Next, Contract!Fail
  <2>6. QED BY <2>4, <2>5
<1>6. CASE RunHook
  <2>1. pc = "Hook" /\ hooks' = hooks + 1 /\ pc' \in {"Finish", "ErrorClose"}
    BY <1>6 DEF RunHook
  <2>2. errors' \in {errors, Append(errors, "hook")}
    BY <1>6 DEF RunHook
  <2>3. Cause # "none" => Cause' = Cause
    <3>1. errors # <<>> => Append(errors, "hook")[1] = errors[1] /\ Append(errors, "hook") # <<>>
      BY DEF RuntimeTypeOK
    <3>2. QED BY <2>2, <3>1, <1>c DEF Cause
  <2>4. Stage = "dispatching" /\ Verdict = "none" /\ hooks = 0
    BY <2>1, StageOf, Places
  <2>5. Stage' = "cleaning" /\ Verdict' = "none"
    BY <2>1, <2>4, <1>0
  <2>6. QED BY <2>1, <2>3, <2>4, <2>5 DEF Contract!Next, Contract!Clean, Contract!FirstStays
<1>7. CASE FinishReply
  <2>1. pc = "Finish" /\ hooks' = hooks
    BY <1>7 DEF FinishReply, endVars
  <2>2. \/ pc' = "Exited" /\ errors' = errors
        \/ pc' = "ErrorClose" /\ errors' # <<>>
    BY <1>7 DEF FinishReply
  <2>3. Stage = "cleaning" /\ Verdict = "none" /\ Cause = "none" /\ hooks = 1
    BY <2>1, <1>c, StageOf DEF ControlInv
  <2>4. CASE pc' = "Exited" /\ errors' = errors
    BY <2>1, <2>3, <2>4, <1>0, <1>c, <1>v DEF Contract!Next, Contract!Finish
  <2>5. CASE pc' = "ErrorClose" /\ errors' # <<>>
    BY <2>1, <2>3, <2>5, <1>0, <1>c DEF Contract!Next, Contract!Fail
  <2>6. QED BY <2>2, <2>4, <2>5
<1>8. CASE SendClose
  <2>1. pc = "ErrorClose" /\ pc' = "Exited" /\ UNCHANGED <<hooks, errors>>
    BY <1>8 DEF SendClose
  <2>2. errors # <<>> /\ Cause # "none" /\ Cause' = Cause
    BY <2>1, <1>c DEF ControlInv
  <2>3. Stage \in {"opening", "cleaning"} /\ Stage' = "over" /\ Verdict' \in {"closed", "lost"}
    BY <2>1, <2>2, <1>0, <1>v, StageOf
  <2>4. QED
    BY <2>1, <2>2, <2>3, Zenon
       DEF Contract!Next, Contract!Finish, Contract!Refuse, Contract!FirstStays
<1>9. CASE Exited \/ UNCHANGED vars
  <2>1. UNCHANGED <<pc, errors, hooks, finals>>
    BY <1>9 DEF Exited, vars, runtimeVars, endVars
  <2>2. QED BY <2>1, MappingFrame
<1>10. QED
  BY <1>1, <1>2, <1>3, <1>4, <1>5, <1>6, <1>7, <1>8, <1>9 DEF Next, ClientStep

(* A session keeps the contract of Runtime::run: it is refused before       *)
(* dispatch without the cleanup hook, or it dispatches, runs the hook       *)
(* exactly once, and only then ends; and the first thing that went wrong is *)
(* what its error close names first, whatever fails after it.               *)
THEOREM SessionImplementsContract == Spec => ImplementsContract
<1>1. Spec => []ControlInv
  BY ControlInit, ControlStep, PTL DEF Spec
<1>2. TypeInv => RuntimeTypeOK
  BY DEF TypeInv
<1>3. QED
  BY <1>1, <1>2, TypeInvariant, ContractInit, ContractStep, PTL
     DEF Spec, ImplementsContract, Contract!Spec

-----------------------------------------------------------------------------
(* The buffer is below the limit everywhere but in a flush, and empty when  *)
(* the estimate is zero.                                                    *)
BufferInv ==
  /\ pc # "Flush" => cost < FlushLimit
  /\ (cost = 0) <=> (buffer = <<>>)

(* A group starts with an empty buffer.                                     *)
LEMMA BufferInit == Init => BufferInv
  BY DispatchAssumption DEF Init, NoGroup, BufferInv

(* A pushed row is below the limit, or is flushed at once.                   *)
LEMMA PushBounded ==
  ASSUME DispatchTypeOK, BufferInv, NEW c \in RowCosts, PushOutputRow(c), pc = "InUdf"
  PROVE  BufferInv'
<1>1. cost \in Nat /\ c \in Nat \ {0} /\ FlushLimit \in Nat \ {0} /\ buffer \in Seq(Nat)
  BY DispatchAssumption DEF DispatchTypeOK
<1>2. cost' = cost + c /\ buffer' # <<>>
  BY PushType DEF PushOutputRow
<1>3. (cost + c >= FlushLimit /\ pc' = "Flush") \/ cost + c < FlushLimit
  BY <1>1 DEF PushOutputRow
<1>4. QED BY <1>1, <1>2, <1>3 DEF BufferInv

(* Every other step keeps the buffer, or empties it.                         *)
LEMMA BufferStep == TypeInv /\ BufferInv /\ [Next]_vars => BufferInv'
<1> SUFFICES ASSUME TypeInv, BufferInv, [Next]_vars PROVE BufferInv'
  OBVIOUS
<1>0. DispatchTypeOK /\ FlushLimit \in Nat \ {0} /\ cost \in Nat
  BY DispatchAssumption DEF TypeInv, DataInv, DispatchTypeOK
<1>a. ASSUME UNCHANGED <<buffer, cost>>, pc # "Flush" \/ pc' = "Flush"
      PROVE  BufferInv'
  BY <1>a DEF BufferInv
<1>b. ASSUME buffer' = <<>>, cost' = 0
      PROVE  BufferInv'
  BY <1>b, <1>0 DEF BufferInv
<1> USE DEF dispatchVars, outputVars
<1>1. CASE SendRequest \/ EchoPing \/ DatabaseStep
  BY <1>1, <1>a DEF SendRequest, EchoPing, DatabaseStep, runtimeVars
<1>2. CASE HandshakeReply \/ Prepare \/ RunHook \/ FinishReply \/ SendClose
  BY <1>2, <1>a DEF HandshakeReply, Prepare, RunHook, FinishReply, SendClose
<1>3. CASE SingleCallStep
  BY <1>3, <1>a, SingleCallStaysInDispatch DEF SingleCallStep, CallLocations
<1>4. CASE GroupOpenReply
  BY <1>4, <1>a, <1>b DEF GroupOpenReply, OpenGroup
<1>5. CASE FlushReply \/ TailFlushReply
  BY <1>5, <1>b DEF FlushReply, TailFlushReply
<1>6. CASE FirstBatchReply \/ RunOnce \/ NextReply \/ ImportReply \/ AdvanceReply \/ GroupEnd
           \/ GroupDoneReply
  BY <1>6, <1>a DEF FirstBatchReply, RunOnce, NextReply, ImportReply, AdvanceReply, GroupEnd,
     GroupDoneReply
<1>7. ASSUME NEW c \in RowCosts, UdfEmit(c) \/ UdfSetReturn(c)
      PROVE  BufferInv'
  BY <1>7, <1>0, PushBounded DEF UdfEmit, UdfSetReturn, ContextCall
<1>8. CASE UdfNext \/ UdfConnection \/ UdfConnectBackFails \/ UdfReturnsOk \/ UdfFails
  BY <1>8, <1>a DEF UdfNext, UdfConnection, UdfConnectBackFails, UdfReturnsOk, UdfFails, ContextCall
<1>9. CASE Exited \/ UNCHANGED vars
  BY <1>9 DEF Exited, vars, runtimeVars, BufferInv
<1>10. QED
  BY <1>1, <1>2, <1>3, <1>4, <1>5, <1>6, <1>7, <1>8, <1>9
     DEF Next, ClientStep, StreamingStep, UdfStep, DispatchStep

(* A group never holds EMIT_BUFFER_LIMIT_BYTES of output between two        *)
(* context calls, whatever the rows cost.                                   *)
THEOREM BufferStaysBounded == Spec => []BufferBounded
<1>1. Spec => []BufferInv
  BY TypeInvariant, BufferInit, BufferStep, PTL DEF Spec
<1>2. BufferInv => BufferBounded
  BY DEF BufferInv, BufferBounded
<1>3. QED BY <1>1, <1>2, PTL

-----------------------------------------------------------------------------
(* The recorded error stays that of the row being run, or is cleared.       *)
LEMMA RecordedStep == RecordedIsFresh /\ [Next]_vars => RecordedIsFresh'
<1> SUFFICES ASSUME RecordedIsFresh, [Next]_vars PROVE RecordedIsFresh'
  OBVIOUS
<1>a. ASSUME UNCHANGED <<recorded, runs>>,
             pc \in {"InUdf", "Flush", "Next", "Import"}
               \/ pc' \notin {"InUdf", "Flush", "Next", "Import"}
      PROVE  RecordedIsFresh'
  BY <1>a DEF RecordedIsFresh
<1>b. ASSUME recorded' = 0 \/ (recorded' = runs /\ runs' = runs)
      PROVE  RecordedIsFresh'
  BY <1>b DEF RecordedIsFresh
<1> USE DEF dispatchVars, historyVars
<1>1. CASE SendRequest \/ EchoPing \/ DatabaseStep \/ Exited \/ UNCHANGED vars
  BY <1>1, <1>a DEF SendRequest, EchoPing, DatabaseStep, Exited, vars, runtimeVars
<1>2. CASE HandshakeReply \/ Prepare \/ RunHook \/ FinishReply \/ SendClose
  BY <1>2, <1>a DEF HandshakeReply, Prepare, RunHook, FinishReply, SendClose
<1>3. CASE SingleCallStep
  BY <1>3, <1>a, SingleCallStaysInDispatch DEF SingleCallStep, CallLocations
<1>4. CASE GroupOpenReply
  BY <1>4, <1>a, <1>b DEF GroupOpenReply, OpenGroup, EndsSession
<1>5. CASE RunOnce
  BY <1>5, <1>b DEF RunOnce
<1>6. CASE ImportReply
  BY <1>6, <1>a, <1>b DEF ImportReply
<1>7. CASE UdfConnectBackFails
  BY <1>7, <1>b DEF UdfConnectBackFails
<1>8. CASE FlushReply \/ NextReply
  BY <1>8, <1>a DEF FlushReply, NextReply
<1>9. CASE FirstBatchReply \/ AdvanceReply \/ GroupEnd \/ TailFlushReply \/ GroupDoneReply
  BY <1>9, <1>a DEF FirstBatchReply, AdvanceReply, GroupEnd, TailFlushReply, GroupDoneReply,
     EndsSession
<1>10. ASSUME NEW c \in RowCosts, UdfEmit(c) \/ UdfSetReturn(c)
       PROVE  RecordedIsFresh'
  BY <1>10, <1>a DEF UdfEmit, UdfSetReturn, ContextCall
<1>11. CASE UdfNext \/ UdfConnection \/ UdfReturnsOk \/ UdfFails
  BY <1>11, <1>a DEF UdfNext, UdfConnection, UdfReturnsOk, UdfFails, ContextCall
<1>12. QED
  BY <1>1, <1>2, <1>3, <1>4, <1>5, <1>6, <1>7, <1>8, <1>9, <1>10, <1>11
     DEF Next, ClientStep, StreamingStep, UdfStep, DispatchStep

(* An error recorded on one row never explains the failure of another.      *)
THEOREM RecordedStaysFresh == Spec => []RecordedIsFresh
<1>1. Init => RecordedIsFresh
  BY DEF Init, RecordedIsFresh
<1>2. QED BY <1>1, RecordedStep, PTL DEF Spec

-----------------------------------------------------------------------------
(* Wherever the client believes the database ended the session cleanly, it  *)
(* has said so: at a hook with nothing to report, in a noted exit, in a      *)
(* reply that has arrived, and from the hook's success on.  Where a function *)
(* of the artifact has failed there is an error to report, and no success.  *)
CleanInv ==
  /\ pc = "Hook" /\ errors = <<>> => "MT_CLEANUP" \in ended
  /\ pc = "Finish" => "MT_CLEANUP" \in ended
  /\ exit = "session" => "MT_CLEANUP" \in ended
  /\ wire = "answered" /\ resp.type = "MT_CLEANUP" => "MT_CLEANUP" \in ended
  /\ failed => pc \in {"Hook", "ErrorClose", "Exited"}
  /\ failed /\ pc = "Hook" => errors # <<>>
  /\ "MT_FINISHED" \in finals => "MT_CLEANUP" \in ended /\ hooks = 1 /\ ~failed

(* A new session believes nothing of the kind.                              *)
LEMMA CleanInit == Init => CleanInv
  BY DEF Init, WireInit, NoGroup, CleanInv

(* MT_CLEANUP is an outcome of an exchange only if the database sent it.     *)
LEMMA CleanOutcome ==
  ASSUME CleanInv, NEW e, Outcome(e)
  PROVE  /\ e = "Cleanup" => "MT_CLEANUP" \in ended
         /\ wire' # "answered"
<1>1. e = "Cleanup" => wire = "answered" /\ resp.type = "MT_CLEANUP"
  BY EventSource DEF Outcome, Received, EchoFailed, TimedOut, NotSent
<1>2. wire' # "answered"
  BY DEF Outcome, Received, EchoFailed, TimedOut, NotSent
<1>3. QED BY <1>1, <1>2 DEF CleanInv

(* What a dispatcher, an exchange of Runtime::run or the UDF may do to it.  *)
CleanHandler ==
  /\ pc \notin {"Hook", "ErrorClose", "Exited"}
  /\ UNCHANGED <<ended, hooks, finals>>
  /\ UNCHANGED wireVars \/ wire' # "answered"
  /\ pc' # "Finish"
  /\ exit' = "session" => exit = "session" \/ "MT_CLEANUP" \in ended
  /\ pc' = "Hook" /\ errors' = <<>> => "MT_CLEANUP" \in ended
  /\ failed' => failed \/ (pc' = "Hook" /\ errors' # <<>> /\ hooks = 0)

(* They keep the belief true.                                               *)
LEMMA CleanByHandler ==
  ASSUME CleanInv, CleanHandler
  PROVE  CleanInv'
  BY DEF CleanInv, CleanHandler, wireVars

(* The dispatchers and the UDF are such handlers.                           *)
LEMMA StreamingHandles ==
  ASSUME ControlInv, CleanInv, StreamingStep
  PROVE  CleanHandler
<1> USE DEF dispatchVars
<1>1. UNCHANGED <<ended, hooks, finals>> /\ failed' = (failed \/ FunctionFails)
  BY DEF StreamingStep, dbVars
<1>2. pc' # "Finish" /\ pc \notin {"Hook", "ErrorClose", "Exited"} /\ hooks = 0
  BY StreamingStaysInDispatch DEF DataLocations, ControlInv
<1>3. UNCHANGED wireVars \/ wire' # "answered"
  BY StreamingWire, CleanOutcome
<1>6. FunctionFails => pc' = "Hook" /\ errors' # <<>>
  <2>1. CASE GroupOpenReply \/ FirstBatchReply \/ RunOnce \/ AdvanceReply \/ GroupEnd
             \/ TailFlushReply \/ GroupDoneReply
    BY <2>1 DEF GroupOpenReply, FirstBatchReply, RunOnce, AdvanceReply, GroupEnd,
       TailFlushReply, GroupDoneReply, FunctionFails
  <2>2. CASE FlushReply \/ NextReply \/ ImportReply
    BY <2>2 DEF FlushReply, NextReply, ImportReply, UdfSeesError, FunctionFails
  <2>3. ASSUME NEW c \in RowCosts, UdfEmit(c) \/ UdfSetReturn(c)
        PROVE  pc' # "Hook"
    BY <2>3 DEF UdfEmit, UdfSetReturn, ContextCall, PushOutputRow
  <2>4. CASE UdfNext \/ UdfConnection \/ UdfConnectBackFails \/ UdfReturnsOk \/ UdfFails
    BY <2>4 DEF UdfNext, UdfConnection, UdfConnectBackFails, UdfReturnsOk, UdfFails, ContextCall,
       UdfSeesError, FunctionFails
  <2>5. QED BY <2>1, <2>2, <2>3, <2>4 DEF StreamingStep, UdfStep, DispatchStep, FunctionFails
<1>4. /\ exit' = "session" => exit = "session" \/ "MT_CLEANUP" \in ended
      /\ pc' = "Hook" /\ errors' = <<>> => "MT_CLEANUP" \in ended
  <2>1. CASE GroupOpenReply
    <3>1. PICK e \in Events :
            /\ Outcome(e)
            /\ \/ e = "Cleanup" /\ exit' = exit
               \/ pc' = "Hook" /\ errors' # <<>> /\ exit' = exit
               \/ pc' = "FirstBatch" /\ exit' = "none"
      BY <2>1 DEF GroupOpenReply, EndsSession, OpenGroup
    <3>2. QED BY <3>1, CleanOutcome
  <2>2. CASE FirstBatchReply \/ AdvanceReply
    <3>1. PICK e \in Events :
            /\ Outcome(e)
            /\ exit' = exit \/ NoteExit(e)
            /\ pc' = "Hook" => errors' # <<>>
      BY <2>2 DEF FirstBatchReply, AdvanceReply
    <3>2. QED BY <3>1, CleanOutcome DEF NoteExit
  <2>3. CASE NextReply
    <3>1. PICK e \in Events :
            /\ Outcome(e)
            /\ exit' = exit \/ NoteExit(e)
            /\ pc' = "Hook" => errors' # <<>>
      BY <2>3 DEF NextReply, UdfSeesError
    <3>2. QED BY <3>1, CleanOutcome DEF NoteExit
  <2>4. CASE GroupEnd
    BY <2>4 DEF GroupEnd, CleanInv
  <2>5. CASE GroupDoneReply
    <3>1. PICK e \in Events :
            /\ Outcome(e)
            /\ exit' = exit
            /\ e = "Cleanup" \/ (pc' = "Hook" => errors' # <<>>)
      BY <2>5 DEF GroupDoneReply, EndsSession
    <3>2. QED BY <3>1, CleanOutcome
  <2>6. CASE RunOnce \/ FlushReply \/ ImportReply \/ TailFlushReply
    BY <2>6 DEF RunOnce, FlushReply, ImportReply, TailFlushReply, UdfSeesError
  <2>7. ASSUME NEW c \in RowCosts, UdfEmit(c) \/ UdfSetReturn(c)
        PROVE  exit' = exit /\ pc' # "Hook"
    BY <2>7 DEF UdfEmit, UdfSetReturn, ContextCall, PushOutputRow
  <2>8. CASE UdfNext \/ UdfConnection \/ UdfConnectBackFails \/ UdfReturnsOk \/ UdfFails
    BY <2>8 DEF UdfNext, UdfConnection, UdfConnectBackFails, UdfReturnsOk, UdfFails, ContextCall,
       UdfSeesError
  <2>9. QED
    BY <2>1, <2>2, <2>3, <2>4, <2>5, <2>6, <2>7, <2>8 DEF StreamingStep, UdfStep, DispatchStep
<1>5. QED BY <1>1, <1>2, <1>3, <1>4, <1>6, Zenon DEF CleanHandler

(* So is the single-call dispatcher.                                        *)
LEMMA SingleCallHandles ==
  ASSUME ControlInv, CleanInv, SingleCallStep
  PROVE  CleanHandler
<1>1. UNCHANGED <<ended, hooks, finals, exit>> /\ failed' = (failed \/ FunctionFails)
  BY DEF SingleCallStep, dbVars, dispatchVars
<1>2. pc' # "Finish" /\ pc \notin {"Hook", "ErrorClose", "Exited"} /\ hooks = 0
  BY SingleCallStaysInDispatch DEF CallLocations, ControlInv
<1>3. UNCHANGED wireVars \/ wire' # "answered"
  BY CallWire, CleanOutcome
<1>6. FunctionFails => pc' = "Hook" /\ errors' # <<>>
  BY DEF SingleCallStep, CallStep, CallOpenReply, HookConnection, HookImportReply, HookReturns,
     HookFails, CallReplyReply, CallDoneReply, FunctionFails
<1>4. pc' = "Hook" /\ errors' = <<>> => "MT_CLEANUP" \in ended
  <2>1. CASE CallOpenReply \/ CallReplyReply \/ CallDoneReply
    <3>1. PICK e \in Events :
            /\ Outcome(e)
            /\ e = "Cleanup" \/ (pc' = "Hook" => errors' # <<>>)
      BY <2>1 DEF CallOpenReply, CallReplyReply, CallDoneReply, EndsSession, Unexpected
    <3>2. QED BY <3>1, CleanOutcome
  <2>2. CASE HookConnection \/ HookImportReply \/ HookReturns \/ HookFails
    BY <2>2 DEF HookConnection, HookImportReply, HookReturns, HookFails
  <2>3. QED BY <2>1, <2>2 DEF SingleCallStep, CallStep
<1>5. QED BY <1>1, <1>2, <1>3, <1>4, <1>6, Zenon DEF CleanHandler

(* Every step keeps the belief true.                                        *)
LEMMA CleanStep == ControlInv /\ CleanInv /\ [Next]_vars => CleanInv'
<1> SUFFICES ASSUME ControlInv, CleanInv, [Next]_vars PROVE CleanInv'
  OBVIOUS
<1>1. CASE SendRequest
  <2>1. /\ pc' = pc /\ errors' = errors /\ wire' = "asked"
        /\ UNCHANGED <<ended, exit, hooks, failed>>
        /\ finals' = IF pc = "Finish" THEN finals \cup {"MT_FINISHED"} ELSE finals
    BY <1>1 DEF SendRequest, Send, runtimeVars, dispatchVars, dbVars
  <2>2. pc = "Finish" => "MT_CLEANUP" \in ended /\ hooks = 1 /\ ~failed
    BY DEF CleanInv, ControlInv
  <2>3. QED BY <2>1, <2>2 DEF CleanInv
<1>2. CASE EchoPing
  <2>1. wire' = "asked" /\ UNCHANGED <<ended, pc, errors, exit, hooks, finals, failed>>
    BY <1>2 DEF EchoPing, PingReply, dbVars, runtimeVars, dispatchVars, endVars
  <2>2. QED BY <2>1 DEF CleanInv
<1>3. CASE DatabaseStep
  <2>1. PICK r \in Responses : Answer(r)
    BY <1>3 DEF DatabaseStep, Answers
  <2>2. /\ resp' = r /\ ended' = ended \cup ({r.type} \cap TerminalTypes)
        /\ UNCHANGED <<pc, errors, exit, hooks, finals, failed>>
    BY <1>3, <2>1 DEF DatabaseStep, Answer, runtimeVars, dispatchVars, endVars
  <2>3. "MT_CLEANUP" \in ended => "MT_CLEANUP" \in ended'
    BY <2>2
  <2>4. resp'.type = "MT_CLEANUP" => "MT_CLEANUP" \in ended'
    BY <2>2 DEF TerminalTypes
  <2>5. QED BY <2>2, <2>3, <2>4 DEF CleanInv
<1>4. CASE StreamingStep \/ SingleCallStep
  BY <1>4, StreamingHandles, SingleCallHandles, CleanByHandler
<1>5. CASE HandshakeReply \/ FinishReply
  <2>1. CleanHandler
    <3>1. PICK e \in Events : Outcome(e) /\ pc' \in {"Meta", "Prepare", "Exited", "ErrorClose"}
                              /\ pc \in {"Client", "Meta", "Finish"}
      BY <1>5 DEF HandshakeReply, FinishReply
    <3>2. UNCHANGED <<ended, exit, hooks, finals, failed>>
      BY <1>5 DEF HandshakeReply, FinishReply, dbVars, dispatchVars, endVars
    <3>3. QED BY <3>1, <3>2, CleanOutcome DEF CleanHandler
  <2>2. QED BY <2>1, CleanByHandler
<1>6. CASE Prepare
  <2>1. CleanHandler
    BY <1>6 DEF Prepare, CleanHandler, dbVars, dispatchVars, endVars
  <2>2. QED BY <2>1, CleanByHandler
<1>7. CASE RunHook
  <2>1. /\ pc = "Hook" /\ UNCHANGED <<wireVars, ended, exit, finals>>
        /\ hooks = 0 /\ hooks' = 1
    <3>1. hooks = 0
      BY <1>7 DEF RunHook, ControlInv
    <3>2. QED BY <1>7, <3>1 DEF RunHook, dbVars, dispatchVars
  <2>2. \/ pc' = "Finish" /\ errors = <<>> /\ failed' = failed
        \/ pc' = "ErrorClose"
    BY <1>7 DEF RunHook
  <2>3. "MT_FINISHED" \notin finals
    BY <2>1 DEF CleanInv
  <2>4. QED BY <2>1, <2>2, <2>3 DEF CleanInv, wireVars
<1>8. CASE SendClose
  <2>1. /\ pc' = "Exited" /\ UNCHANGED <<wireVars, ended, exit, hooks, failed>>
        /\ finals' \in {finals, finals \cup {"MT_CLOSE"}}
    BY <1>8 DEF SendClose, dbVars, dispatchVars
  <2>2. QED BY <2>1 DEF CleanInv, wireVars
<1>9. CASE Exited \/ UNCHANGED vars
  <2>1. UNCHANGED <<wireVars, ended, exit, hooks, finals, failed, pc, errors>>
    BY <1>9 DEF Exited, vars, wireVars, dbVars, dispatchVars, runtimeVars, endVars
  <2>2. QED BY <2>1 DEF CleanInv, wireVars
<1>10. QED
  BY <1>1, <1>2, <1>3, <1>4, <1>5, <1>6, <1>7, <1>8, <1>9 DEF Next, ClientStep

(* MT_FINISHED is only ever sent to a database that has sent MT_CLEANUP,    *)
(* after the cleanup hook, and never when a function of the artifact has    *)
(* failed: whatever the database answers to what, also after a terminal     *)
(* message, whatever the socket loses, and whatever the UDF does with the   *)
(* errors it is given (dispatch.rs run_group, lib.rs Runtime::run).         *)
THEOREM FinishedOnlyAfterCleanup == Spec => []FinishedMeansClean
<1>1. Spec => []ControlInv
  BY ControlInit, ControlStep, PTL DEF Spec
<1>2. Spec => []CleanInv
  BY <1>1, CleanInit, CleanStep, PTL DEF Spec
<1>3. CleanInv => FinishedMeansClean
  BY DEF CleanInv, FinishedMeansClean
<1>4. QED BY <1>2, <1>3, PTL
-----------------------------------------------------------------------------
(* While a scalar run is under way it is on the row it was given last, what *)
(* it has in a flush goes out under that row, and it never calls next().    *)
RunInv ==
  Scalar =>
    /\ pc \in {"InUdf", "Flush", "Import"} =>
         visited # <<>> /\ visited[Len(visited)] = CurrentRowNumber
    /\ pc = "Flush" => buffer[Len(buffer)] = CurrentRowNumber
    /\ pc # "Next"

(* The last element of an appended sequence.                                 *)
LEMMA LastOfAppend ==
  ASSUME NEW S, NEW s \in Seq(S), NEW x \in S
  PROVE  /\ Append(s, x) # <<>> /\ Append(s, x)[Len(Append(s, x))] = x
         /\ Len(Append(s, x)) = Len(s) + 1
  OBVIOUS

(* The number of the current row is a number.                                *)
LEMMA CurrentRowType == DataInv => CurrentRowNumber \in Nat
  BY DEF DataInv, DispatchTypeOK, CurrentRowNumber

(* A step that leaves the rows alone and starts no run keeps the invariant.  *)
LEMMA RunFrame ==
  ASSUME RunInv, UNCHANGED <<shape, rows, cur, visited>>,
         pc' \in {"InUdf", "Flush", "Import"} => pc \in {"InUdf", "Flush", "Import"},
         pc' = "Flush" => pc = "Flush" /\ buffer' = buffer,
         Scalar => pc' # "Next"
  PROVE  RunInv'
  BY DEF RunInv, Scalar, CurrentRowNumber

(* So does a step that leaves the run.                                       *)
LEMMA RunLeft ==
  ASSUME UNCHANGED shape, pc' \notin {"InUdf", "Flush", "Import", "Next"}
  PROVE  RunInv'
  BY DEF RunInv, Scalar

(* A row that a run pushes carries the number of its row.                    *)
LEMMA RunPush ==
  ASSUME DataInv, RunInv, NEW c \in RowCosts, PushOutputRow(c), pc = "InUdf",
         UNCHANGED <<shape, rows, cur, visited>>
  PROVE  RunInv'
<1>1. buffer \in Seq(Nat) /\ CurrentRowNumber \in Nat
  BY CurrentRowType DEF DataInv, DispatchTypeOK
<1>2. buffer'[Len(buffer')] = CurrentRowNumber /\ CurrentRowNumber' = CurrentRowNumber
  BY <1>1, LastOfAppend DEF PushOutputRow, CurrentRowNumber
<1>3. pc' \in {"Flush", "InUdf"}
  BY DEF PushOutputRow
<1>4. QED BY <1>2, <1>3 DEF RunInv, Scalar

(* Every step keeps the invariant.                                           *)
LEMMA RunStep == TypeInv /\ RunInv /\ [Next]_vars => RunInv'
<1> SUFFICES ASSUME TypeInv, RunInv, [Next]_vars PROVE RunInv'
  OBVIOUS
<1>0. DataInv
  BY DEF TypeInv
<1> USE DEF dispatchVars, inputVars, historyVars
<1>1. CASE SendRequest \/ EchoPing \/ DatabaseStep \/ Exited \/ UNCHANGED vars
  <2>1. UNCHANGED <<shape, pc, rows, cur, visited, buffer>>
    BY <1>1 DEF SendRequest, EchoPing, DatabaseStep, Exited, vars, runtimeVars, outputVars
  <2>2. QED BY <2>1 DEF RunInv, Scalar, CurrentRowNumber
<1>2. CASE HandshakeReply \/ Prepare \/ RunHook \/ FinishReply \/ SendClose
  BY <1>2, RunLeft DEF HandshakeReply, Prepare, RunHook, FinishReply, SendClose
<1>3. CASE SingleCallStep
  <2>1. pc' \notin {"InUdf", "Flush", "Import", "Next"}
    BY <1>3, SingleCallStaysInDispatch DEF CallLocations
  <2>2. shape' = shape
    BY <1>3, CallControlType DEF SingleCallStep, ControlStepType, TypeInv
  <2>3. QED BY <2>1, <2>2, RunLeft
<1>4. CASE GroupOpenReply \/ FirstBatchReply \/ AdvanceReply \/ GroupEnd \/ TailFlushReply
           \/ GroupDoneReply
  BY <1>4, RunLeft DEF GroupOpenReply, FirstBatchReply, AdvanceReply, GroupEnd, TailFlushReply,
     GroupDoneReply, EndsSession
<1>5. CASE RunOnce
  <2>1. cur \in DOMAIN rows /\ rows \in Seq(Nat) /\ visited \in Seq(Nat)
    BY <1>0, <1>5 DEF RunOnce, DataInv, CursorInv, DispatchTypeOK
  <2>2. rows[cur] \in Nat /\ CurrentRowNumber' = rows[cur]
    BY <1>5, <2>1 DEF RunOnce, CurrentRowNumber
  <2>3. ASSUME Scalar
        PROVE  visited' # <<>> /\ visited'[Len(visited')] = rows[cur]
    BY <1>5, <2>1, <2>2, <2>3, LastOfAppend DEF RunOnce
  <2>4. QED BY <1>5, <2>2, <2>3 DEF RunOnce, RunInv, Scalar
<1>6. CASE FlushReply \/ ImportReply
  <2>1. pc \in {"Flush", "Import"} /\ pc' \in {"InUdf", "Hook"}
        /\ UNCHANGED <<shape, rows, cur, visited>>
    BY <1>6 DEF FlushReply, ImportReply, UdfSeesError
  <2>2. QED BY <2>1, RunFrame
<1>7. CASE NextReply
  BY <1>7 DEF NextReply, RunInv, Scalar
<1>8. ASSUME NEW c \in RowCosts, UdfEmit(c) \/ UdfSetReturn(c)
      PROVE  RunInv'
  BY <1>0, <1>8, RunPush DEF UdfEmit, UdfSetReturn, ContextCall
<1>9. CASE UdfNext
  BY <1>9 DEF UdfNext, RunInv, Scalar
<1>10. CASE UdfConnection \/ UdfConnectBackFails
  <2>1. pc = "InUdf" /\ pc' \in {"InUdf", "Import", "Hook"}
        /\ UNCHANGED <<shape, rows, cur, visited>>
    BY <1>10 DEF UdfConnection, UdfConnectBackFails, UdfSeesError, ContextCall
  <2>2. QED BY <2>1, RunFrame
<1>11. CASE UdfReturnsOk \/ UdfFails
  BY <1>11, RunLeft DEF UdfReturnsOk, UdfFails
<1>12. QED
  BY <1>1, <1>2, <1>3, <1>4, <1>5, <1>6, <1>7, <1>8, <1>9, <1>10, <1>11
     DEF Next, ClientStep, StreamingStep, UdfStep, DispatchStep

(* What is accepted of a scalar run is its last pushed row.                  *)
LEMMA AcceptedStep ==
  ASSUME TypeInv, RunInv, [Next]_vars, Scalar, Len(accepted') > Len(accepted)
  PROVE  accepted'[Len(accepted')] = visited[Len(visited)]
<1>0. accepted \in Seq(Nat) /\ buffer \in Seq(Nat) /\ DataInv
  BY DEF TypeInv, DataInv, DispatchTypeOK
<1>1. ~(UNCHANGED accepted)
  BY <1>0
<1> USE DEF dispatchVars, historyVars
<1>2. CASE GroupOpenReply
  <2>1. accepted' = accepted \/ accepted' = <<>>
    BY <1>2 DEF GroupOpenReply, OpenGroup
  <2>2. QED BY <1>0, <1>1, <2>1
<1>3. CASE FlushReply
  <2>1. pc = "Flush" /\ accepted' = Append(accepted, buffer[Len(buffer)])
    BY <1>1, <1>3 DEF FlushReply
  <2>2. buffer[Len(buffer)] = visited[Len(visited)] /\ buffer # <<>>
    BY <1>0, <2>1 DEF RunInv, DataInv, CursorInv
  <2>3. QED BY <1>0, <2>1, <2>2, LastOfAppend
<1>4. ASSUME NEW c \in RowCosts, UdfEmit(c) \/ UdfSetReturn(c)
      PROVE  accepted'[Len(accepted')] = visited[Len(visited)]
  <2>1. pc = "InUdf" /\ accepted' = Append(accepted, CurrentRowNumber)
    BY <1>1, <1>4 DEF UdfEmit, UdfSetReturn, ContextCall, PushOutputRow
  <2>2. CurrentRowNumber = visited[Len(visited)] /\ CurrentRowNumber \in Nat
    BY <1>0, <2>1, CurrentRowType DEF RunInv
  <2>3. QED BY <1>0, <2>1, <2>2, LastOfAppend
<1>5. GroupOpenReply \/ FlushReply \/ \E c \in RowCosts : UdfEmit(c) \/ UdfSetReturn(c)
  <2>1. ~(SendRequest \/ EchoPing \/ DatabaseStep \/ HandshakeReply \/ Prepare \/ RunHook
          \/ FinishReply \/ SendClose \/ SingleCallStep \/ Exited \/ UNCHANGED vars)
    BY <1>1 DEF SendRequest, EchoPing, DatabaseStep, HandshakeReply, Prepare, RunHook, FinishReply,
       SendClose, SingleCallStep, Exited, vars
  <2>2. ~(FirstBatchReply \/ RunOnce \/ NextReply \/ ImportReply \/ AdvanceReply \/ GroupEnd
          \/ TailFlushReply \/ GroupDoneReply)
    BY <1>1 DEF FirstBatchReply, RunOnce, NextReply, ImportReply, AdvanceReply, GroupEnd,
       TailFlushReply, GroupDoneReply
  <2>3. ~(UdfNext \/ UdfConnection \/ UdfConnectBackFails \/ UdfReturnsOk \/ UdfFails)
    BY <1>1 DEF UdfNext, UdfConnection, UdfConnectBackFails, UdfReturnsOk, UdfFails
  <2>4. QED
    BY <2>1, <2>2, <2>3 DEF Next, ClientStep, StreamingStep, UdfStep, DispatchStep
<1>6. QED BY <1>2, <1>3, <1>4, <1>5

(* A scalar run is on the row it was given, in every reachable state.        *)
LEMMA RunInvariant == Spec => []RunInv
<1>1. Init => RunInv
  BY DEF Init, RunInv
<1>2. QED BY <1>1, TypeInvariant, RunStep, PTL DEF Spec

(* Every value of a scalar run goes out under the number of the row the run *)
(* was given: across batch seams, refills, flushes in the middle of the run *)
(* and lookups, whatever the database numbers its rows.                     *)
THEOREM ScalarNumbersItsRow == Spec => NumberOfCurrentRow
<1>1. TypeInv /\ RunInv /\ [Next]_vars
        => [Scalar /\ Len(accepted') > Len(accepted) =>
              accepted'[Len(accepted')] = visited[Len(visited)]]_vars
  BY AcceptedStep
<1>2. QED BY <1>1, RunInvariant, TypeInvariant, PTL DEF Spec, NumberOfCurrentRow

-----------------------------------------------------------------------------
(* Every location at which the client owns an exchange.                      *)
Asking == DOMAIN Asks \cup {"CallReply"}

\* The messages with which the database ends a session.
Ends == {"MT_CLEANUP", "MT_CLOSE"}

(* An exchange under way is the one of the location the client stands at,    *)
(* and what has arrived is an answer the database may give to it.  Once a    *)
(* database that refuses the rest has ended the session, it answers with     *)
(* nothing but that.                                                         *)
RequestInv ==
  wire \in {"asked", "answered"} => pc \in Asking /\ req = RequestAt

AnswerInv ==
  wire = "answered" =>
    /\ resp.type \in MayAnswer[req.type] \cup {"MT_CLOSE"}
    /\ resp.body \in Bodies[resp.type]
    /\ resp.type \in Ends => said # "none"
    /\ RefusesAfterEnd /\ said # "none" /\ req.type # "MT_FINISHED" => resp.type \in Ends

(* The locations that ask, and what they ask.                                *)
LEMMA AskingPlaces ==
  /\ Asking = {"Client", "Meta", "GroupOpen", "FirstBatch", "Next", "Advance", "Flush",
               "TailFlush", "Import", "GroupDone", "CallOpen", "HookImport", "CallDone",
               "Finish", "CallReply"}
  /\ \A l \in DOMAIN Asks : Asks[l] = "MT_FINISHED" <=> l = "Finish"
  /\ Asks["GroupOpen"] = "MT_RUN" /\ Asks["CallOpen"] = "MT_RUN"
  /\ \A l \in DOMAIN Asks : Asks[l] = "MT_RUN" <=> l \in {"GroupOpen", "CallOpen"}
  /\ \A l \in DOMAIN Asks : Asks[l] = "MT_NEXT" <=> l \in {"FirstBatch", "Next", "Advance"}
  /\ \A l \in DOMAIN Asks : Asks[l] = "MT_EMIT" <=> l \in {"Flush", "TailFlush"}
  /\ \A l \in DOMAIN Asks : Asks[l] = "MT_IMPORT" <=> l \in {"Import", "HookImport"}
  /\ \A l \in DOMAIN Asks : Asks[l] \notin {"MT_RETURN", "MT_UNDEFINED_CALL"}
  /\ \A l \in DOMAIN Asks : Asks[l] \in RequestTypes
  BY DEF Asking, Asks, RequestTypes

(* The type of the request of each location.                                 *)
LEMMA RequestKinds ==
  ASSUME SingleCallTypeOK, ReplyInv, pc \in Asking
  PROVE  /\ pc = "CallReply" => RequestAt.type = reply /\ reply \in {"MT_RETURN", "MT_UNDEFINED_CALL"}
         /\ pc # "CallReply" => RequestAt.type = Asks[pc]
         /\ pc \in {"Flush", "TailFlush"} => RequestAt.rows = buffer
         /\ RequestAt.type \in RequestTypes
<1>1. CASE pc = "CallReply"
  BY <1>1 DEF RequestAt, Request, SingleCallTypeOK, ReplyInv, RequestTypes
<1>2. CASE pc \in {"Flush", "TailFlush"}
  BY <1>2, AskingPlaces DEF RequestAt, Request, Asks
<1>3. CASE pc \notin {"CallReply", "Flush", "TailFlush"}
  BY <1>3, AskingPlaces DEF RequestAt, Request, Asking
<1>4. QED BY <1>1, <1>2, <1>3

(* A step sends, echoes, answers, handles the outcome of an exchange, or     *)
(* leaves the wire alone at a location that owns no exchange.                *)
LEMMA StepKinds ==
  ASSUME [Next]_vars
  PROVE  \/ SendRequest \/ EchoPing \/ DatabaseStep
         \/ pc \in Asking /\ (\E e \in Events : Outcome(e)) /\ UNCHANGED dbVars
         \/ pc \notin Asking /\ UNCHANGED <<wireVars, dbVars>>
         \/ UNCHANGED <<vars, wireVars, dbVars, pc, reply, buffer>>
<1> USE AskingPlaces
<1>1. CASE HandshakeReply \/ FinishReply
  BY <1>1 DEF HandshakeReply, FinishReply
<1>2. CASE Prepare \/ RunHook \/ SendClose
  BY <1>2 DEF Prepare, RunHook, SendClose
<1>3. CASE StreamingStep
  <2>1. CASE GroupOpenReply \/ FirstBatchReply \/ FlushReply \/ NextReply \/ ImportReply
             \/ AdvanceReply \/ TailFlushReply \/ GroupDoneReply
    BY <1>3, <2>1 DEF StreamingStep, GroupOpenReply, FirstBatchReply, FlushReply, NextReply,
       ImportReply, AdvanceReply, TailFlushReply, GroupDoneReply
  <2>2. CASE RunOnce \/ GroupEnd
    BY <1>3, <2>2 DEF StreamingStep, RunOnce, GroupEnd
  <2>3. CASE UdfStep
    BY <1>3, <2>3 DEF StreamingStep, UdfStep, UdfEmit, UdfSetReturn, UdfNext, UdfConnection,
       UdfConnectBackFails, UdfReturnsOk, UdfFails, ContextCall
  <2>4. QED BY <1>3, <2>1, <2>2, <2>3 DEF StreamingStep, DispatchStep
<1>4. CASE SingleCallStep
  <2>1. CASE CallOpenReply \/ HookImportReply \/ CallReplyReply \/ CallDoneReply
    BY <1>4, <2>1 DEF SingleCallStep, CallOpenReply, HookImportReply, CallReplyReply, CallDoneReply
  <2>2. CASE HookConnection \/ HookReturns \/ HookFails
    BY <1>4, <2>2 DEF SingleCallStep, HookConnection, HookReturns, HookFails
  <2>3. QED BY <1>4, <2>1, <2>2 DEF SingleCallStep, CallStep
<1>5. CASE Exited \/ UNCHANGED vars
  BY <1>5 DEF Exited, vars, wireVars, dbVars, runtimeVars, callVars, dispatchVars, outputVars
<1>6. QED
  BY <1>1, <1>2, <1>3, <1>4, <1>5 DEF Next, ClientStep

(* An outcome leaves no exchange under way.                                  *)
LEMMA OutcomeEnds ==
  ASSUME NEW e, Outcome(e)
  PROVE  wire' \in {"idle", "stuck"}
  BY DEF Outcome, Received, EchoFailed, TimedOut, NotSent

(* Every step keeps the request that of the client's location.               *)
LEMMA RequestStep == RequestInv /\ [Next]_vars => RequestInv'
<1> SUFFICES ASSUME RequestInv, [Next]_vars PROVE RequestInv'
  OBVIOUS
<1>1. CASE SendRequest
  <2>1. pc \in Asking /\ req' = RequestAt /\ UNCHANGED <<pc, reply, buffer>>
    BY <1>1 DEF SendRequest, Send, Asking, runtimeVars, callVars, dispatchVars, outputVars
  <2>2. RequestAt' = RequestAt
    BY <2>1 DEF RequestAt
  <2>3. QED BY <2>1, <2>2 DEF RequestInv
<1>2. CASE EchoPing \/ DatabaseStep
  <2>1. wire \in {"asked", "answered"} /\ UNCHANGED <<req, pc, reply, buffer>>
    BY <1>2 DEF EchoPing, DatabaseStep, PingReply, Answers, Answer, runtimeVars, callVars,
       dispatchVars, outputVars
  <2>2. RequestAt' = RequestAt
    BY <2>1 DEF RequestAt
  <2>3. QED BY <2>1, <2>2 DEF RequestInv
<1>3. CASE \E e \in Events : Outcome(e)
  BY <1>3, OutcomeEnds DEF RequestInv
<1>4. CASE pc \notin Asking /\ UNCHANGED wireVars
  BY <1>4 DEF RequestInv, wireVars
<1>5. CASE UNCHANGED <<wireVars, pc, reply, buffer>>
  <2>1. RequestAt' = RequestAt
    BY <1>5 DEF RequestAt
  <2>2. QED BY <1>5, <2>1 DEF RequestInv, wireVars
<1>6. QED BY <1>1, <1>2, <1>3, <1>4, <1>5, StepKinds

(* What an answer does to the messages and to what the database has said.    *)
LEMMA AnswerFits ==
  ASSUME TypeInv, NEW r \in Responses, Answer(r), wire = "asked"
  PROVE  /\ r.type \in ResponseTypes /\ r.rows \in Seq(Nat) /\ r.body \in Bodies[r.type]
         /\ r.type \in Allowed(req)
         /\ r.type \in MayAnswer[req.type] \cup {"MT_CLOSE"}
         /\ said = "none" => r.type \in MayAnswer[req.type]
         /\ r.type \in Ends /\ said = "none" => said' # "none"
         /\ ~(r.type \in Ends /\ said = "none") => said' = said
         /\ RefusesAfterEnd /\ said # "none" /\ req.type # "MT_FINISHED" => r.type = "MT_CLOSE"
<1>1. handed \in Nat /\ req.type \in RequestTypes
  BY DEF TypeInv, ExchangeInv, DatabaseTypeOK
<1>2. /\ r \in [type : ResponseTypes, body : PayloadKinds, conn : ConnIds, rows : Seq(Nat)]
      /\ r.type \in Allowed(req) /\ r.body \in Bodies[r.type]
  BY <1>1, ResponseType
<1>3. said' = IF said = "none" /\ r.type \in TerminalTypes
              THEN IF r.type = "MT_CLOSE" THEN "close" ELSE "cleanup"
              ELSE said
  BY DEF Answer
<1>4. QED BY <1>2, <1>3 DEF Allowed, Refuses, Ends, TerminalTypes

(* Every step keeps what has arrived an answer.                              *)
LEMMA AnswerStep == TypeInv /\ AnswerInv /\ [Next]_vars => AnswerInv'
<1> SUFFICES ASSUME TypeInv, AnswerInv, [Next]_vars PROVE AnswerInv'
  OBVIOUS
<1>1. CASE SendRequest \/ EchoPing
  BY <1>1 DEF SendRequest, Send, EchoPing, PingReply, AnswerInv
<1>2. CASE DatabaseStep
  <2>1. PICK r \in Responses : Answer(r) /\ wire = "asked"
    BY <1>2 DEF DatabaseStep, Answers
  <2>2. resp' = r /\ req' = req
    BY <2>1 DEF Answer
  <2>3. QED BY <2>1, <2>2, AnswerFits DEF AnswerInv, Ends
<1>3. CASE \E e \in Events : Outcome(e)
  BY <1>3, OutcomeEnds DEF AnswerInv
<1>4. CASE UNCHANGED <<wireVars, dbVars>>
  BY <1>4 DEF AnswerInv, wireVars, dbVars
<1>5. QED BY <1>1, <1>2, <1>3, <1>4, StepKinds

(* What is under way, put together.                                          *)
UnderWay == TypeInv /\ ControlInv /\ RequestInv /\ AnswerInv

(* It holds in every reachable state.                                        *)
LEMMA UnderWayInvariant == Spec => []UnderWay
<1>1. Init => RequestInv /\ AnswerInv
  BY DEF Init, WireInit, RequestInv, AnswerInv
<1>2. Spec => []ControlInv
  BY ControlInit, ControlStep, PTL DEF Spec
<1>3. QED
  BY <1>1, <1>2, TypeInvariant, RequestStep, AnswerStep, PTL DEF Spec, UnderWay

(* Away from the locations that own an exchange none is under way.           *)
LEMMA NoExchange ==
  ASSUME RequestInv, pc \notin Asking, TypeInv
  PROVE  wire \in {"idle", "stuck"}
  BY DEF RequestInv, TypeInv, WireTypeOK, WireStates

(* A message that ends the session is what its exchange returns.             *)
LEMMA EndOutcome ==
  ASSUME wire = "answered", resp.type \in Ends, NEW e, Outcome(e)
  PROVE  e = IF resp.type = "MT_CLOSE" THEN "Close" ELSE "Cleanup"
<1>1. Event(proto, resp) = IF resp.type = "MT_CLOSE" THEN "Close" ELSE "Cleanup"
  BY EventSource DEF Ends
<1>2. QED BY <1>1 DEF Outcome, Received, EchoFailed, TimedOut, NotSent

(* Only a reply that arrived is anything but a failed exchange.              *)
LEMMA ReceivedOutcome ==
  ASSUME NEW e, Outcome(e), e # "Error"
  PROVE  wire = "answered" /\ e = Event(proto, resp) /\ proto' = After(proto, resp)
         /\ wire' = "idle" /\ e # "Ping"
  BY DEF Outcome, Received, EchoFailed, TimedOut, NotSent

-----------------------------------------------------------------------------
(* A database that refuses everything after its terminal message sends no    *)
(* MT_CLEANUP after an MT_CLOSE.                                             *)
EndedInv == "MT_CLEANUP" \in ended => said = "cleanup"

(* It answers MT_FINISHED as it likes, but that is not sent behind MT_CLOSE.  *)
LEMMA EndedStep ==
  ASSUME RefusesAfterEnd, UnderWay, CleanInv, EndedInv, [Next]_vars
  PROVE  EndedInv'
<1>1. CASE DatabaseStep
  <2>1. PICK r \in Responses : Answer(r) /\ wire = "asked"
    BY <1>1 DEF DatabaseStep, Answers
  <2>2. /\ ended' = ended \cup ({r.type} \cap TerminalTypes)
        /\ said' = IF said = "none" /\ r.type \in TerminalTypes
                   THEN IF r.type = "MT_CLOSE" THEN "close" ELSE "cleanup"
                   ELSE said
    BY <2>1 DEF Answer
  <2>3. req.type = "MT_FINISHED" => said = "cleanup"
    <3>1. pc \in Asking /\ req = RequestAt
      BY <2>1 DEF UnderWay, RequestInv
    <3>2. req.type = "MT_FINISHED" => pc = "Finish"
      BY <3>1, RequestKinds, AskingPlaces DEF UnderWay, TypeInv, Asking
    <3>3. QED BY <3>2 DEF CleanInv, EndedInv
  <2>4. r.type = "MT_CLEANUP" => said \in {"none", "cleanup"}
    <3>1. said # "none" /\ req.type # "MT_FINISHED" => r.type = "MT_CLOSE"
      BY <2>1, AnswerFits DEF UnderWay
    <3>2. QED BY <2>3, <3>1
  <2>5. QED BY <2>2, <2>4 DEF EndedInv, TerminalTypes
<1>2. CASE UNCHANGED <<said, ended>>
  BY <1>2 DEF EndedInv
<1>3. CASE UNCHANGED dbVars
  BY <1>3, <1>2 DEF dbVars
<1>4. QED
  BY <1>1, <1>3, StepKinds DEF SendRequest, EchoPing

(* Nor is a database that closed the session ever told that it finished.     *)
LEMMA EndedInvariant ==
  ASSUME RefusesAfterEnd
  PROVE  Spec => [](CleanInv /\ EndedInv)
<1>1. Init => CleanInv /\ EndedInv
  BY CleanInit DEF Init, DatabaseInit, EndedInv
<1>2. UnderWay /\ CleanInv /\ EndedInv /\ [Next]_vars => CleanInv' /\ EndedInv'
  BY CleanStep, EndedStep DEF UnderWay
<1>3. QED BY <1>1, <1>2, UnderWayInvariant, PTL DEF Spec

(* A database that has closed the session and refuses whatever the client    *)
(* goes on asking is never told that all is well.                            *)
ClosedIsNotFinished == said = "close" => "MT_FINISHED" \notin finals

(* That is so whatever the client made of the MT_CLOSE: an acknowledged      *)
(* flush (emit_flusher), a failed lookup the UDF may swallow                 *)
(* (conn_requester), the end of the input (batch_fetcher).                   *)
THEOREM ClosedNeverFinished ==
  ASSUME RefusesAfterEnd
  PROVE  Spec => []ClosedIsNotFinished
<1>1. CleanInv /\ EndedInv => ClosedIsNotFinished
  BY DEF CleanInv, EndedInv, ClosedIsNotFinished
<1>2. QED BY <1>1, EndedInvariant, PTL

-----------------------------------------------------------------------------
(* The mode is announced before dispatch and is that of the dispatcher.      *)
ModeInv ==
  /\ pc \notin {"Client", "Meta", "Exited"} => proto.phase # "Handshake"
  /\ pc \in DataLocations => ~proto.single

(* Whatever a step does to the protocol state machine.                       *)
LEMMA ProtoSteps ==
  [Next]_vars => proto' = proto \/ (wire = "answered" /\ proto' = After(proto, resp))
<1> SUFFICES ASSUME [Next]_vars
             PROVE  proto' = proto \/ (wire = "answered" /\ proto' = After(proto, resp))
  OBVIOUS
<1>1. CASE SendRequest \/ EchoPing \/ DatabaseStep
  BY <1>1 DEF SendRequest, Send, EchoPing, PingReply, DatabaseStep, Answers, Answer
<1>2. CASE \E e \in Events : Outcome(e)
  BY <1>2 DEF Outcome, Received, EchoFailed, TimedOut, NotSent
<1>3. QED BY <1>1, <1>2, StepKinds DEF wireVars

(* Dispatch is entered in its mode and stays in it.                          *)
LEMMA ModeStep == ModeInv /\ [Next]_vars => ModeInv'
<1> SUFFICES ASSUME ModeInv, [Next]_vars PROVE ModeInv'
  OBVIOUS
<1>a. ASSUME proto.phase # "Handshake"
      PROVE  proto'.phase # "Handshake" /\ proto'.single = proto.single
  BY <1>a, ProtoSteps, HandshakeNotReentered, ModeKept DEF After
<1>b. ASSUME pc \notin {"Client", "Meta", "Exited"}, pc' \in DataLocations => pc \in DataLocations
      PROVE  ModeInv'
  BY <1>a, <1>b DEF ModeInv
<1>c. ASSUME pc' \in {"Client", "Meta", "Exited"}
      PROVE  ModeInv'
  BY <1>c DEF ModeInv, DataLocations
<1>1. CASE UNCHANGED pc
  BY <1>1, <1>b, <1>c DEF ModeInv
<1>2. CASE HandshakeReply
  <2>1. PICK e \in Events :
          Outcome(e) /\ (pc' \in {"Meta", "Exited"} \/ (pc' = "Prepare" /\ e = "Meta"))
    BY <1>2 DEF HandshakeReply
  <2>2. CASE e = "Meta" /\ pc' = "Prepare"
    <3>1. proto'.phase = "Run"
      BY <2>1, <2>2, ReceivedOutcome, MetaAccepted DEF After
    <3>2. QED BY <2>2, <3>1 DEF ModeInv, DataLocations
  <2>3. QED BY <2>1, <2>2, <1>c
<1>3. CASE Prepare
  <2>1. pc = "Prepare" /\ proto' = proto /\ pc' \in {"CallOpen", "GroupOpen", "ErrorClose"}
        /\ (pc' = "GroupOpen" => ~proto.single)
    BY <1>3 DEF Prepare, wireVars
  <2>2. QED BY <2>1 DEF ModeInv, DataLocations
<1>4. CASE StreamingStep
  BY <1>4, <1>b, StreamingStaysInDispatch DEF DataLocations
<1>5. CASE SingleCallStep
  BY <1>5, <1>b, SingleCallStaysInDispatch DEF CallLocations, DataLocations
<1>6. CASE RunHook \/ FinishReply \/ SendClose
  BY <1>6, <1>b, <1>c DEF RunHook, FinishReply, SendClose, DataLocations
<1>7. QED
  BY <1>1, <1>2, <1>3, <1>4, <1>5, <1>6
     DEF Next, ClientStep, SendRequest, EchoPing, DatabaseStep, Exited, vars, runtimeVars

-----------------------------------------------------------------------------
(* Where a session may still be after the database has ended it with an      *)
(* answer that is looked at: that message is about to be read, or a group    *)
(* has noted it, which only a set UDF can be unaware of, or Runtime::run has *)
(* it.                                                                       *)
EndInv ==
  /\ Noticed =>
       \/ wire = "answered" /\ resp.type \in Ends
            /\ pc \notin {"Flush", "TailFlush", "Import", "HookImport"}
       \/ exit # "none"
       \/ pc \in EndLocations
  /\ exit # "none" =>
       \/ pc \in EndLocations \cup {"GroupEnd"}
       \/ ~Scalar /\ pc \in {"InUdf", "Flush", "Next", "Import"}

(* Runtime::run is told in the end; what has not ended has nothing noted.     *)
LEMMA EndKnown ==
  /\ pc' \in EndLocations => EndInv'
  /\ ~Noticed' /\ exit' = "none" => EndInv'
  BY DEF EndInv

(* Where nothing is noted, an exchange of an ended session returns its end.  *)
LEMMA EndIsRead ==
  ASSUME UnderWay, EndInv, exit = "none", Noticed, pc \notin EndLocations
  PROVE  /\ pc \in Asking \ {"Flush", "TailFlush", "Import", "HookImport"}
         /\ \A e \in Events : Outcome(e) => e \in {"Cleanup", "Close"}
         /\ wire = "answered"
  BY EndOutcome DEF EndInv, UnderWay, RequestInv

(* Every step of the streaming dispatcher keeps the invariant.               *)
LEMMA EndStreaming ==
  ASSUME UnderWay, RunInv, EndInv, StreamingStep
  PROVE  EndInv'
<1> USE EndKnown, PlaceTypes, AskingPlaces DEF dispatchVars
<1>0. Noticed' = Noticed /\ pc \in DataLocations /\ shape' = shape
  BY StreamingStaysInDispatch, DispatchControlType
     DEF StreamingStep, dbVars, Noticed, UnderWay, TypeInv, ControlStepType
<1>1. pc \notin {"InUdf", "Flush", "Next", "Import", "GroupEnd"} => exit = "none"
  BY <1>0 DEF EndInv
<1>2. CASE GroupOpenReply
  <2>1. PICK e \in Events :
          Outcome(e) /\ (e \in {"Cleanup", "Close"} => pc' = "Hook") /\ exit' \in {exit, "none"}
    BY <1>2 DEF GroupOpenReply, EndsSession, OpenGroup, EndEvents
  <2>2. pc = "GroupOpen"
    BY <1>2 DEF GroupOpenReply
  <2>3. QED BY <1>0, <1>1, <2>1, <2>2, EndIsRead
<1>3. CASE FirstBatchReply \/ AdvanceReply
  <2>1. PICK e \in Events :
          /\ Outcome(e)
          /\ pc' = "Hook" \/ exit' = exit \/ (pc' = "GroupEnd" /\ NoteExit(e))
          /\ e \in {"Cleanup", "Close"} => NoteExit(e) /\ pc' = "GroupEnd"
    BY <1>3 DEF FirstBatchReply, AdvanceReply, AsksAgain, EndsInput
  <2>2. pc \in {"FirstBatch", "Advance"}
    BY <1>3 DEF FirstBatchReply, AdvanceReply
  <2>3. exit = "none"
    BY <1>1, <2>2
  <2>4. CASE e \in {"Cleanup", "Close"}
    BY <2>1, <2>4 DEF NoteExit, EndInv
  <2>5. CASE e \notin {"Cleanup", "Close"}
    BY <1>0, <2>1, <2>2, <2>3, <2>5, EndIsRead DEF NoteExit
  <2>6. QED BY <2>4, <2>5
<1>4. CASE NextReply
  <2>1. PICK e \in Events :
          /\ Outcome(e)
          /\ pc' \in {"InUdf", "Next", "Hook"}
          /\ exit' = exit \/ NoteExit(e)
          /\ e \in {"Cleanup", "Close"} => NoteExit(e)
    BY <1>4 DEF NextReply, UdfSeesError, AsksAgain, EndsInput
  <2>2. pc = "Next" /\ ~Scalar /\ Scalar' = Scalar
    BY <1>0, <1>4 DEF NextReply, RunInv, Scalar
  <2>3. exit' # "none" => EndInv'
    BY <2>1, <2>2 DEF EndInv
  <2>4. exit' = "none" => exit = "none" /\ e \notin {"Cleanup", "Close"}
    BY <2>1 DEF NoteExit
  <2>5. QED BY <1>0, <2>1, <2>2, <2>3, <2>4, EndIsRead
<1>5. CASE exit' = exit /\ pc \notin {"GroupOpen", "FirstBatch", "Advance", "Next", "GroupDone"}
           /\ pc' \in {"InUdf", "Flush", "Next", "Import", "GroupEnd", "Hook"}
  <2>1. exit = "none" => ~Noticed
    BY <1>0, <1>5, EndIsRead
  <2>2. exit # "none" /\ pc # "GroupEnd" /\ pc' # "Hook" => EndInv'
    BY <1>0, <1>5 DEF EndInv, Scalar, Noticed
  <2>3. pc = "GroupEnd" /\ pc' # "Hook" => exit = "none"
    BY <1>5 DEF StreamingStep, DispatchStep, GroupOpenReply, FirstBatchReply, RunOnce, FlushReply,
       NextReply, ImportReply, AdvanceReply, GroupEnd, TailFlushReply, GroupDoneReply, UdfStep,
       UdfEmit, UdfSetReturn, UdfNext, UdfConnection, UdfConnectBackFails, UdfReturnsOk, UdfFails,
       ContextCall
  <2>4. QED BY <1>0, <1>5, <2>1, <2>2, <2>3
<1>6. CASE RunOnce \/ FlushReply \/ ImportReply
  BY <1>5, <1>6 DEF RunOnce, FlushReply, ImportReply, UdfSeesError
<1>7. CASE GroupEnd \/ TailFlushReply
  <2>1. exit' = exit /\ pc \in {"GroupEnd", "TailFlush"} /\ (pc' = "Hook" \/ exit = "none")
    BY <1>1, <1>7 DEF GroupEnd, TailFlushReply
  <2>2. QED BY <1>0, <2>1, EndIsRead
<1>8. CASE GroupDoneReply
  <2>1. PICK e \in Events :
          Outcome(e) /\ (e \in {"Cleanup", "Close"} => pc' = "Hook") /\ exit' = exit
    BY <1>8 DEF GroupDoneReply, EndsSession, EndEvents
  <2>2. pc = "GroupDone"
    BY <1>8 DEF GroupDoneReply
  <2>3. QED BY <1>0, <1>1, <2>1, <2>2, EndIsRead
<1>9. CASE UdfReturnsOk
  <2>1. /\ exit' = exit /\ pc = "InUdf"
        /\ pc' = "GroupEnd" \/ (Scalar /\ pc' \in {"RunOnce", "Advance"})
    BY <1>9 DEF UdfReturnsOk
  <2>2. pc' # "GroupEnd" => exit = "none"
    BY <2>1 DEF EndInv
  <2>3. QED BY <1>0, <1>5, <2>1, <2>2, EndIsRead
<1>10. ASSUME NEW c \in RowCosts, UdfEmit(c) \/ UdfSetReturn(c)
       PROVE  EndInv'
  BY <1>5, <1>10 DEF UdfEmit, UdfSetReturn, ContextCall, PushOutputRow
<1>11. CASE UdfNext \/ UdfConnection \/ UdfConnectBackFails \/ UdfFails
  BY <1>5, <1>11 DEF UdfNext, UdfConnection, UdfConnectBackFails, UdfFails, ContextCall, UdfSeesError
<1>12. QED
  BY <1>2, <1>3, <1>4, <1>6, <1>7, <1>8, <1>9, <1>10, <1>11 DEF StreamingStep, UdfStep, DispatchStep

(* So does every other step.                                                 *)
LEMMA EndStep ==
  ASSUME UnderWay, RunInv, EndInv, [Next]_vars
  PROVE  EndInv'
<1> USE EndKnown, PlaceTypes, AskingPlaces
<1>1. CASE SendRequest
  <2>1. wire = "idle" /\ UNCHANGED <<said, endedAt, exit, pc, shape>>
    BY <1>1 DEF SendRequest, Send, dbVars, runtimeVars, dispatchVars
  <2>2. QED BY <2>1 DEF EndInv, Scalar, Noticed
<1>2. CASE EchoPing
  <2>1. wire = "answered" /\ resp.type = "MT_PING_PONG" /\ UNCHANGED <<said, endedAt, exit, pc, shape>>
    BY <1>2, EventSource DEF EchoPing, PingReply, dbVars, runtimeVars, dispatchVars
  <2>2. QED BY <2>1 DEF EndInv, Scalar, Noticed, Ends
<1>3. CASE DatabaseStep
  <2>1. PICK r \in Responses : Answer(r) /\ wire = "asked"
    BY <1>3 DEF DatabaseStep, Answers
  <2>2. resp' = r /\ wire' = "answered" /\ UNCHANGED <<exit, pc, shape>>
    BY <1>3, <2>1 DEF DatabaseStep, Answer, runtimeVars, dispatchVars
  <2>3. CASE said # "none" \/ r.type \notin Ends
    <3>1. Noticed' = Noticed
      BY <2>1, <2>3, AnswerFits DEF UnderWay, Noticed, Answer, Ends, TerminalTypes
    <3>2. QED BY <2>1, <2>2, <3>1 DEF EndInv, Scalar
  <2>4. CASE said = "none" /\ r.type \in Ends /\ req.type \in {"MT_EMIT", "MT_IMPORT"}
    <3>1. ~Noticed'
      BY <2>1, <2>4 DEF Noticed, Answer, Ends, TerminalTypes
    <3>2. QED BY <2>2, <3>1 DEF EndInv, Scalar
  <2>5. CASE said = "none" /\ r.type \in Ends /\ req.type \notin {"MT_EMIT", "MT_IMPORT"}
    <3>1. req = RequestAt /\ pc \in Asking
      BY <2>1 DEF UnderWay, RequestInv
    <3>2. pc \notin {"Flush", "TailFlush", "Import", "HookImport"}
      BY <2>5, <3>1, RequestKinds DEF UnderWay, TypeInv, Asks
    <3>3. QED BY <2>2, <2>5, <3>2 DEF EndInv, Scalar
  <2>6. QED BY <2>3, <2>4, <2>5
<1>4. CASE StreamingStep
  BY <1>4, EndStreaming
<1>5. CASE HandshakeReply
  <2>1. PICK e \in Events : Outcome(e) /\ (e \in {"Cleanup", "Close"} => pc' = "Exited")
    BY <1>5 DEF HandshakeReply
  <2>2. Noticed' = Noticed /\ exit' = exit /\ pc \in {"Client", "Meta"}
    BY <1>5 DEF HandshakeReply, dbVars, Noticed, dispatchVars
  <2>3. exit = "none"
    BY <2>2 DEF EndInv
  <2>4. QED BY <2>1, <2>2, <2>3, EndIsRead
<1>6. CASE Prepare
  <2>1. Noticed' = Noticed /\ exit' = exit /\ pc = "Prepare"
    BY <1>6 DEF Prepare, dbVars, Noticed, dispatchVars
  <2>2. exit = "none"
    BY <2>1 DEF EndInv
  <2>3. QED BY <2>1, <2>2, EndIsRead
<1>7. CASE SingleCallStep
  <2>1. Noticed' = Noticed /\ exit' = exit /\ pc \in CallLocations
    BY <1>7, SingleCallStaysInDispatch DEF SingleCallStep, dbVars, Noticed, dispatchVars
  <2>2. exit = "none"
    BY <2>1 DEF EndInv
  <2>3. CASE CallOpenReply \/ CallReplyReply \/ CallDoneReply
    <3>1. PICK e \in Events : Outcome(e) /\ (e \in {"Cleanup", "Close"} => pc' = "Hook")
      BY <2>3 DEF CallOpenReply, CallReplyReply, CallDoneReply, EndsSession, Unexpected, EndEvents,
         Acknowledges
    <3>2. QED BY <2>1, <2>2, <3>1, EndIsRead
  <2>4. CASE HookConnection \/ HookImportReply \/ HookReturns \/ HookFails
    <3>1. pc \in {"InHook", "HookImport"}
      BY <2>4 DEF HookConnection, HookImportReply, HookReturns, HookFails
    <3>2. pc \notin EndLocations /\ pc \notin Asking \ {"Flush", "TailFlush", "Import", "HookImport"}
      BY <3>1
    <3>3. ~Noticed
      BY <2>2, <3>2, EndIsRead
    <3>4. QED BY <2>1, <2>2, <3>3
  <2>5. QED BY <1>7, <2>3, <2>4 DEF SingleCallStep, CallStep
<1>8. CASE RunHook \/ FinishReply \/ SendClose
  BY <1>8 DEF RunHook, FinishReply, SendClose
<1>9. CASE Exited \/ UNCHANGED vars
  BY <1>9 DEF Exited, vars, wireVars, dbVars, runtimeVars, dispatchVars, EndInv, Scalar, Noticed
<1>10. QED
  BY <1>1, <1>2, <1>3, <1>4, <1>5, <1>6, <1>7, <1>8, <1>9 DEF Next, ClientStep

(* The end of the session is where EndInv says, in every reachable state.    *)
LEMMA EndInvariant == Spec => []EndInv
<1>1. Init => EndInv
  BY DEF Init, DatabaseInit, NoGroup, EndInv, Noticed
<1>2. UnderWay /\ RunInv /\ EndInv /\ [Next]_vars => EndInv'
  BY EndStep
<1>3. QED BY <1>1, <1>2, UnderWayInvariant, RunInvariant, PTL DEF Spec

(* After a terminal message the framework itself says MT_FINISHED, behind    *)
(* the cleanup hook, or nothing: every other request is one the UDF of a set *)
(* group makes before its run() returns (batch_fetcher's exit, run_group).   *)
(* The database refuses what comes after its message (docs/protocol.md:92)   *)
(* and otherwise answers what it likes; an end in answer to a flush or a     *)
(* lookup, which the framework is not given, is not spoken of.               *)
THEOREM FrameworkStopsAtTheEnd ==
  ASSUME RefusesAfterEnd
  PROVE  Spec => EndStopsTheFramework
<1>1. Init => ModeInv
  BY DEF Init, WireInit, ModeInv, DataLocations
<1>2. Spec => []ModeInv
  BY <1>1, ModeStep, PTL DEF Spec
<1>3. Spec => [](CleanInv /\ EndedInv)
  BY EndedInvariant
<1>4. UnderWay /\ ModeInv /\ EndInv /\ (CleanInv /\ EndedInv) /\ [Next]_vars
        => [Sends /\ Noticed =>
              \/ said = "cleanup" /\ hooks = 1 /\ req'.type = "MT_FINISHED"
              \/ hooks = 0 /\ ~Scalar /\ ~proto.single /\ pc \in {"Next", "Flush", "Import"}]_vars
  <2> SUFFICES ASSUME UnderWay, ModeInv, EndInv, CleanInv, EndedInv, [Next]_vars,
                      Sends, Noticed
               PROVE  \/ said = "cleanup" /\ hooks = 1 /\ req'.type = "MT_FINISHED"
                      \/ /\ hooks = 0 /\ ~Scalar /\ ~proto.single
                         /\ pc \in {"Next", "Flush", "Import"}
    OBVIOUS
  <2>1. SendRequest
    BY StepKinds, OutcomeEnds DEF Sends, EchoPing, PingReply, DatabaseStep, Answers, wireVars
  <2>2. pc \in Asking /\ req' = RequestAt /\ wire = "idle"
    BY <2>1 DEF SendRequest, Send, Asking
  <2>3. pc = "Finish" \/ (~Scalar /\ pc \in {"Next", "Flush", "Import"})
    BY <2>2, AskingPlaces, PlaceTypes DEF EndInv
  <2>4. CASE pc = "Finish"
    <3>1. said = "cleanup" /\ hooks = 1
      BY <2>4 DEF Noticed, CleanInv, EndedInv, UnderWay, ControlInv
    <3>2. req'.type = "MT_FINISHED"
      BY <2>2, <2>4 DEF RequestAt, Request, Asks
    <3>3. QED BY <3>1, <3>2
  <2>5. CASE ~Scalar /\ pc \in {"Next", "Flush", "Import"}
    <3>1. hooks = 0
      BY <2>5 DEF UnderWay, ControlInv
    <3>2. ~proto.single
      BY <2>5, PlaceTypes DEF ModeInv
    <3>3. QED BY <2>5, <3>1, <3>2
  <2>6. QED BY <2>3, <2>4, <2>5
<1>5. QED
  BY <1>2, <1>3, <1>4, EndInvariant, UnderWayInvariant, PTL DEF Spec, EndStopsTheFramework

-----------------------------------------------------------------------------
(* The calls opened are the ones settled, and the one under way.             *)
CallInv ==
  /\ pc \in SetupLocations => groups = 0 /\ settled = 0
  /\ pc = "CallOpen" =>
       groups = IF wire = "answered" /\ resp.type \in {"MT_CALL", "MT_RUN"}
                THEN settled + 1 ELSE settled
  /\ pc \in {"InHook", "HookImport"} => groups = settled + 1 /\ hook \in Implemented
  /\ pc = "CallReply" =>
       /\ groups = IF wire = "answered" /\ resp.type = req.type THEN settled ELSE settled + 1
       /\ reply = "MT_UNDEFINED_CALL" <=> hook \notin Implemented
  /\ pc = "CallDone" => groups = settled

(* An answer opens a call where one was asked for, and settles one where it  *)
(* was replied to.                                                           *)
LEMMA CallAnswer ==
  ASSUME AnswersOnly(MayAnswer, "MT_CALL", "MT_RUN"), UnderWay, CallInv, DatabaseStep
  PROVE  CallInv'
<1>1. PICK r \in Responses : Answer(r) /\ wire = "asked"
  BY DEF DatabaseStep, Answers
<1>2. /\ resp' = r /\ wire' = "answered" /\ UNCHANGED <<req, pc, hook, reply>>
      /\ groups' = IF Opens(r) THEN groups + 1 ELSE groups
      /\ settled' = IF r.type = req.type /\ r.type \in {"MT_RETURN", "MT_UNDEFINED_CALL"}
                    THEN settled + 1 ELSE settled
  BY <1>1 DEF DatabaseStep, Answer, runtimeVars, callVars
<1>3. pc \in Asking /\ req = RequestAt /\ req.type \in RequestTypes
  BY <1>1, RequestKinds DEF UnderWay, RequestInv, TypeInv
<1>4. Opens(r) <=> req.type = "MT_RUN" /\ r.type \in {"MT_CALL", "MT_RUN"}
  BY <1>1, <1>3, AnswerFits DEF Opens, AnswersOnly, UnderWay
<1>5. /\ pc = "CallReply" => req.type = reply /\ reply \in {"MT_RETURN", "MT_UNDEFINED_CALL"}
      /\ pc # "CallReply" => req.type = Asks[pc]
  BY <1>3, RequestKinds DEF UnderWay, TypeInv
<1>6. CASE pc \in SetupLocations
  <2>1. req.type \notin {"MT_RUN", "MT_RETURN", "MT_UNDEFINED_CALL"}
    BY <1>3, <1>5, <1>6, AskingPlaces, PlaceTypes DEF Asking
  <2>2. QED BY <1>2, <1>4, <1>6, <2>1, PlaceTypes DEF CallInv
<1>7. CASE pc = "CallOpen"
  <2>1. req.type = "MT_RUN"
    BY <1>5, <1>7, AskingPlaces
  <2>2. QED BY <1>1, <1>2, <1>4, <1>7, <2>1, PlaceTypes DEF CallInv
<1>8. CASE pc = "CallReply"
  BY <1>1, <1>2, <1>4, <1>5, <1>8, PlaceTypes DEF CallInv
<1>9. CASE pc \in {"CallDone", "HookImport"}
  <2>1. req.type \notin {"MT_RUN", "MT_RETURN", "MT_UNDEFINED_CALL"}
    BY <1>3, <1>5, <1>9, AskingPlaces DEF Asking
  <2>2. QED BY <1>2, <1>4, <1>9, <2>1, PlaceTypes DEF CallInv
<1>10. CASE pc \notin SetupLocations \cup {"CallOpen", "CallReply", "CallDone", "HookImport"}
  BY <1>2, <1>3, <1>10, AskingPlaces DEF CallInv
<1>11. QED BY <1>6, <1>7, <1>8, <1>9, <1>10

(* The dispatcher keeps the count of the database.                           *)
LEMMA CallDispatch ==
  ASSUME UnderWay, CallInv, SingleCallStep
  PROVE  CallInv'
<1> USE PlaceTypes
<1>1. UNCHANGED <<groups, settled>>
  BY DEF SingleCallStep, dbVars
<1>2. CASE CallOpenReply
  <2>1. PICK e \in Events :
          /\ Outcome(e)
          /\ \/ e = "SingleCall" /\ pc' = "CallReply" /\ hook' = HookOf(resp.body)
                  /\ hook' \notin Implemented /\ reply' = "MT_UNDEFINED_CALL"
             \/ e = "SingleCall" /\ pc' = "InHook" /\ hook' = resp.body /\ hook' \in Implemented
             \/ pc' = "Hook"
    BY <1>2 DEF CallOpenReply, EndsSession, Unexpected
  <2>2. CASE e = "SingleCall"
    <3>1. wire = "answered" /\ resp.type = "MT_CALL" /\ wire' = "idle"
      BY <2>1, <2>2, ReceivedOutcome, EventSource
    <3>2. groups = settled + 1
      BY <1>2, <3>1 DEF CallOpenReply, CallInv
    <3>3. QED BY <1>1, <2>1, <3>1, <3>2 DEF CallInv
  <2>3. QED BY <2>1, <2>2 DEF CallInv
<1>3. CASE HookConnection \/ HookImportReply \/ HookReturns \/ HookFails
  <2>1. /\ pc \in {"InHook", "HookImport"} /\ hook' = hook
        /\ \/ pc' \in {"InHook", "HookImport", "Hook"}
           \/ pc' = "CallReply" /\ reply' = "MT_RETURN" /\ UNCHANGED wire
    BY <1>3 DEF HookConnection, HookImportReply, HookReturns, HookFails, callVars, wireVars
  <2>2. pc = "InHook" => wire # "answered"
    BY AskingPlaces DEF UnderWay, RequestInv
  <2>3. pc' = "CallReply" => pc = "InHook"
    BY <1>3 DEF HookConnection, HookImportReply, HookReturns, HookFails
  <2>4. QED BY <1>1, <2>1, <2>2, <2>3 DEF CallInv
<1>4. CASE CallReplyReply
  <2>1. PICK e \in Events : Outcome(e) /\ (pc' = "Hook" \/ (Acknowledges(e) /\ pc' = "CallDone"))
    BY <1>4 DEF CallReplyReply, EndsSession, Unexpected
  <2>2. CASE Acknowledges(e)
    <3>1. wire = "answered" /\ resp.type = reply
      BY <2>1, <2>2, ReceivedOutcome, EventSource DEF Acknowledges
    <3>2. pc = "CallReply" /\ req.type = reply
      BY <1>4, <3>1, RequestKinds DEF CallReplyReply, UnderWay, TypeInv, RequestInv
    <3>3. groups = settled
      BY <3>1, <3>2 DEF CallInv
    <3>4. QED BY <1>1, <2>1, <3>3 DEF CallInv
  <2>3. QED BY <2>1, <2>2 DEF CallInv
<1>5. CASE CallDoneReply
  <2>1. PICK e \in Events : Outcome(e) /\ pc = "CallDone" /\ pc' \in {"Hook", "CallOpen"}
    BY <1>5 DEF CallDoneReply, EndsSession, Unexpected
  <2>2. wire' # "answered"
    BY <2>1, OutcomeEnds
  <2>3. QED BY <1>1, <2>1, <2>2 DEF CallInv
<1>6. QED
  BY <1>2, <1>3, <1>4, <1>5 DEF SingleCallStep, CallStep

(* So does every other step.                                                 *)
LEMMA CallInvStep ==
  ASSUME AnswersOnly(MayAnswer, "MT_CALL", "MT_RUN"), UnderWay, CallInv, [Next]_vars
  PROVE  CallInv'
<1> USE PlaceTypes
<1>1. CASE SendRequest
  <2>1. wire = "idle" /\ wire' = "asked" /\ UNCHANGED <<groups, settled, pc, hook, reply>>
    BY <1>1 DEF SendRequest, Send, dbVars, runtimeVars, callVars
  <2>2. QED BY <2>1 DEF CallInv
<1>2. CASE EchoPing
  <2>1. /\ wire = "answered" /\ wire' = "asked" /\ resp.type = "MT_PING_PONG"
        /\ UNCHANGED <<groups, settled, pc, hook, reply>>
    BY <1>2, EventSource DEF EchoPing, PingReply, dbVars, runtimeVars, callVars
  <2>2. pc = "CallReply" => req.type # "MT_PING_PONG"
    BY <2>1, RequestKinds DEF UnderWay, TypeInv, RequestInv
  <2>3. QED BY <2>1, <2>2 DEF CallInv
<1>3. CASE DatabaseStep
  BY <1>3, CallAnswer
<1>4. CASE SingleCallStep
  BY <1>4, CallDispatch
<1>5. CASE StreamingStep
  BY <1>5, StreamingStaysInDispatch DEF CallInv
<1>6. CASE HandshakeReply
  BY <1>6 DEF HandshakeReply, dbVars, CallInv
<1>7. CASE Prepare
  <2>1. pc = "Prepare" /\ UNCHANGED <<wire, groups, settled>>
        /\ pc' \in {"CallOpen", "GroupOpen", "ErrorClose"}
    BY <1>7 DEF Prepare, dbVars, wireVars
  <2>2. wire # "answered"
    BY <2>1, AskingPlaces DEF UnderWay, RequestInv
  <2>3. QED BY <2>1, <2>2 DEF CallInv
<1>8. CASE RunHook \/ FinishReply \/ SendClose
  BY <1>8 DEF RunHook, FinishReply, SendClose, CallInv
<1>9. CASE Exited \/ UNCHANGED vars
  BY <1>9 DEF Exited, vars, wireVars, dbVars, runtimeVars, callVars, CallInv
<1>10. QED
  BY <1>1, <1>2, <1>3, <1>4, <1>5, <1>6, <1>7, <1>8, <1>9 DEF Next, ClientStep

(* MT_DONE closes a single call only once its reply has been echoed in kind, *)
(* and what the artifact implements decides the kind: whatever the database  *)
(* echoes, and whatever the hooks do, if it makes its calls on MT_RUN.       *)
THEOREM EveryCallSettled ==
  ASSUME AnswersOnly(MayAnswer, "MT_CALL", "MT_RUN")
  PROVE  Spec => []CallsSettled
<1>1. Init => CallInv
  BY DEF Init, DatabaseInit, CallInv
<1>2. UnderWay /\ CallInv /\ [Next]_vars => CallInv'
  BY CallInvStep
<1>3. UnderWay /\ CallInv => CallsSettled
  BY DEF UnderWay, TypeInv, DatabaseTypeOK, CallInv, CallsSettled
<1>4. QED BY <1>1, <1>2, <1>3, UnderWayInvariant, PTL DEF Spec

-----------------------------------------------------------------------------
(* When a final message has left the client.                                 *)
FinalInv ==
  /\ "MT_CLOSE" \in finals => pc = "Exited"
  /\ "MT_FINISHED" \in finals =>
       pc \in {"Finish", "ErrorClose", "Exited"} /\ "MT_CLOSE" \notin finals
  /\ "MT_FINISHED" \in finals /\ pc = "ErrorClose" => wire = "stuck"
  /\ pc = "Exited" /\ errors # <<>> /\ errors[1] # "handshake" /\ wire # "stuck"
       => "MT_CLOSE" \in finals

(* An answer to MT_FINISHED is never a failed exchange.                      *)
LEMMA FinishAnswered ==
  ASSUME ~SendMayFail, FinishedInKind(MayAnswer), UnderWay, pc = "Finish", Outcome("Error")
  PROVE  wire' = "stuck"
<1>1. CASE wire = "answered"
  <2>1. resp.type \in DOMAIN AnyPhaseEvent
    <3>1. req.type = "MT_FINISHED"
      BY <1>1 DEF UnderWay, RequestInv, RequestAt, Request, Asks
    <3>2. QED BY <1>1, <3>1, Tables DEF UnderWay, AnswerInv, FinishedInKind
  <2>2. Event(proto, resp) = AnyPhaseEvent[resp.type]
    BY <2>1, Tables DEF Event, Accepts
  <2>3. Event(proto, resp) # "Error"
    BY <2>1, <2>2 DEF AnyPhaseEvent
  <2>4. QED BY <1>1, <2>3 DEF Outcome, Received, EchoFailed, TimedOut, NotSent
<1>2. CASE wire # "answered"
  BY <1>2 DEF Outcome, Received, EchoFailed, TimedOut, NotSent
<1>3. QED BY <1>1, <1>2

(* Every step keeps the invariant.                                           *)
LEMMA FinalStep ==
  ASSUME ~SendMayFail, FinishedInKind(MayAnswer), UnderWay, FinalInv, [Next]_vars
  PROVE  FinalInv'
<1> USE PlaceTypes, AskingPlaces
<1>a. ASSUME finals' = finals, pc \notin EndLocations, pc' # "Exited"
      PROVE  FinalInv'
  BY <1>a DEF FinalInv
<1>1. CASE SendRequest
  <2>1. /\ wire = "idle" /\ pc \in Asking /\ UNCHANGED <<pc, errors>>
        /\ finals' = IF pc = "Finish" THEN finals \cup {"MT_FINISHED"} ELSE finals
    BY <1>1 DEF SendRequest, Send, Asking, runtimeVars
  <2>2. QED BY <2>1 DEF FinalInv
<1>2. CASE EchoPing \/ DatabaseStep
  <2>1. wire \in {"asked", "answered"} /\ UNCHANGED <<pc, errors, finals>>
    BY <1>2 DEF EchoPing, PingReply, DatabaseStep, Answers, runtimeVars, endVars
  <2>2. pc \in Asking
    BY <2>1 DEF UnderWay, RequestInv
  <2>3. QED BY <2>1, <2>2 DEF FinalInv
<1>3. CASE StreamingStep
  BY <1>3, <1>a, StreamingStaysInDispatch
<1>4. CASE SingleCallStep
  BY <1>4, <1>a, SingleCallStaysInDispatch
<1>5. CASE HandshakeReply
  <2>1. /\ pc \in {"Client", "Meta"} /\ finals' = finals
        /\ pc' # "Exited" \/ errors' = <<"handshake">>
    BY <1>5 DEF HandshakeReply, endVars
  <2>2. QED BY <1>a, <2>1 DEF FinalInv
<1>6. CASE Prepare
  BY <1>6, <1>a DEF Prepare, endVars
<1>7. CASE RunHook
  BY <1>7 DEF RunHook, FinalInv
<1>8. CASE FinishReply
  <2>1. pc = "Finish" /\ finals' = finals /\ errors = <<>>
    BY <1>8 DEF FinishReply, endVars, UnderWay, ControlInv
  <2>2. PICK e \in Events :
          /\ Outcome(e)
          /\ \/ e = "Error" /\ pc' = "ErrorClose"
             \/ pc' = "Exited" /\ errors' = errors
    BY <1>8 DEF FinishReply
  <2>3. QED BY <2>1, <2>2, FinishAnswered DEF FinalInv
<1>9. CASE SendClose
  <2>1. /\ pc = "ErrorClose" /\ pc' = "Exited" /\ UNCHANGED <<wire, errors>>
        /\ \/ wire = "idle" /\ finals' = finals \cup {"MT_CLOSE"}
           \/ wire = "stuck" /\ finals' = finals
    BY <1>9 DEF SendClose, wireVars
  <2>2. QED BY <2>1 DEF FinalInv
<1>10. CASE Exited \/ UNCHANGED vars
  BY <1>10 DEF Exited, vars, wireVars, runtimeVars, endVars, FinalInv
<1>11. QED
  BY <1>1, <1>2, <1>3, <1>4, <1>5, <1>6, <1>7, <1>8, <1>9, <1>10 DEF Next, ClientStep

(* The database gets one final message, MT_FINISHED or MT_CLOSE and never    *)
(* both, and a session that failed after its handshake says so, unless a     *)
(* receive that gave up has made the socket unusable (lib.rs send_finished,  *)
(* error_close_request): as long as a send fails for no other reason.        *)
THEOREM OneFinalMessage ==
  ASSUME ~SendMayFail, FinishedInKind(MayAnswer)
  PROVE  Spec => []FinalMessage
<1>1. Init => FinalInv
  BY DEF Init, FinalInv
<1>2. UnderWay /\ FinalInv /\ [Next]_vars => FinalInv'
  BY FinalStep
<1>3. FinalInv => FinalMessage
  BY DEF FinalInv, FinalMessage
<1>4. QED BY <1>1, <1>2, <1>3, UnderWayInvariant, PTL DEF Spec

-----------------------------------------------------------------------------
(* The rows of a session.  What follows rests on what the database answers  *)
(* to what, so each theorem names, as its premise, the rows of              *)
(* docs/protocol.md it needs (Session.tla, "What docs/protocol.md says a    *)
(* database answers").                                                     *)

(* The locations of a group between MT_RUN and its MT_DONE.                  *)
InGroup == DataLocations \ {"GroupOpen"}

(* Every step that is not one of the streaming dispatcher leaves the group   *)
(* alone, and never enters one.                                              *)
LEMMA OutsideGroup ==
  ASSUME TypeInv, [Next]_vars
  PROVE  \/ StreamingStep
         \/ /\ UNCHANGED <<dispatchVars, shape, pc, dbVars>> /\ (SendRequest \/ EchoPing)
         \/ /\ UNCHANGED <<dispatchVars, shape, pc>> /\ DatabaseStep
         \/ /\ UNCHANGED <<dispatchVars, shape, dbVars>>
            /\ pc \notin DataLocations /\ pc' \notin InGroup
         \/ UNCHANGED vars
<1> USE PlaceTypes DEF InGroup
<1>1. CASE SendRequest \/ EchoPing \/ DatabaseStep
  BY <1>1 DEF SendRequest, EchoPing, DatabaseStep, runtimeVars
<1>2. CASE HandshakeReply
  BY <1>2 DEF HandshakeReply
<1>3. CASE Prepare
  BY <1>3 DEF Prepare
<1>4. CASE SingleCallStep
  BY <1>4, SingleCallStaysInDispatch, CallControlType
     DEF SingleCallStep, TypeInv, ControlStepType
<1>5. CASE RunHook \/ FinishReply \/ SendClose
  BY <1>5 DEF RunHook, FinishReply, SendClose
<1>6. CASE Exited
  BY <1>6 DEF Exited
<1>7. QED
  BY <1>1, <1>2, <1>3, <1>4, <1>5, <1>6 DEF Next, ClientStep

-----------------------------------------------------------------------------
(* Until the database ends the session the protocol stays in its run phase.  *)
PhaseInv ==
  said = "none" /\ pc \in DataLocations \cup CallLocations \cup {"Prepare"} => proto.phase = "Run"

(* Dispatch is entered through Prepare only, and that by an accepted MT_META.*)
LEMMA DispatchEntered ==
  ASSUME [Next]_vars, pc' \in DataLocations \cup CallLocations \cup {"Prepare"}
  PROVE  pc \in DataLocations \cup CallLocations \cup {"Prepare"} \/ proto'.phase = "Run"
<1> USE PlaceTypes
<1>1. CASE UNCHANGED pc
  BY <1>1
<1>2. CASE HandshakeReply
  <2>1. PICK e \in Events : Outcome(e) /\ e = "Meta"
    BY <1>2 DEF HandshakeReply
  <2>2. QED BY <2>1, ReceivedOutcome, MetaAccepted DEF After
<1>3. CASE Prepare
  BY <1>3 DEF Prepare
<1>4. CASE StreamingStep
  BY <1>4, StreamingStaysInDispatch
<1>5. CASE SingleCallStep
  BY <1>5, SingleCallStaysInDispatch
<1>6. CASE RunHook \/ FinishReply \/ SendClose
  BY <1>6 DEF RunHook, FinishReply, SendClose
<1>7. QED
  BY <1>1, <1>2, <1>3, <1>4, <1>5, <1>6
     DEF Next, ClientStep, SendRequest, EchoPing, DatabaseStep, Exited, vars, runtimeVars

(* What the database has said it has said.                                   *)
LEMMA SaidStays ==
  ASSUME [Next]_vars, said' = "none"
  PROVE  said = "none"
<1>1. ASSUME DatabaseStep
      PROVE  said = "none"
  <2>1. PICK r \in Responses : Answer(r)
    BY <1>1 DEF DatabaseStep, Answers
  <2>2. said' = IF said = "none" /\ r.type \in TerminalTypes
                THEN IF r.type = "MT_CLOSE" THEN "close" ELSE "cleanup"
                ELSE said
    BY <2>1 DEF Answer
  <2>3. QED BY <2>2
<1>2. QED BY <1>1, StepKinds DEF SendRequest, EchoPing, dbVars

(* A terminal message is terminal for both sides, and MT_FINISHED answers    *)
(* nothing a dispatcher asks.                                                *)
LEMMA PhaseStep ==
  ASSUME OpensInKind(MayAnswer), UnderWay, PhaseInv, [Next]_vars
  PROVE  PhaseInv'
<1> SUFFICES ASSUME said' = "none", pc' \in DataLocations \cup CallLocations \cup {"Prepare"}
             PROVE  proto'.phase = "Run"
  BY DEF PhaseInv
<1> USE PlaceTypes
<1>1. said = "none"
  BY SaidStays
<1>2. CASE proto'.phase = "Run" \/ proto' = proto
  BY <1>1, <1>2, DispatchEntered DEF PhaseInv
<1>3. CASE wire = "answered" /\ proto' = After(proto, resp) /\ proto'.phase # "Run"
  <2>1. pc \in DataLocations \cup CallLocations \cup {"Prepare"} /\ proto.phase = "Run"
    BY <1>1, <1>3, DispatchEntered DEF PhaseInv
  <2>2. resp.type \in {"MT_CLEANUP", "MT_FINISHED", "MT_CLOSE"}
    BY <1>3, <2>1 DEF After, PhaseAfter
  <2>3. resp.type = "MT_FINISHED" /\ resp.type \in MayAnswer[req.type]
    BY <1>1, <1>3, <2>2 DEF UnderWay, AnswerInv, Ends
  <2>4. req.type = "MT_FINISHED"
    BY <1>3, <2>3 DEF OpensInKind, AnswersOnly, UnderWay, TypeInv, ExchangeInv
  <2>5. pc = "Finish"
    BY <1>3, <2>4, RequestKinds, AskingPlaces DEF UnderWay, TypeInv, RequestInv, Asking
  <2>6. QED BY <2>1, <2>5
<1>4. QED BY <1>2, <1>3, ProtoSteps

-----------------------------------------------------------------------------
(* What answers the requests of a dispatcher, by type.                       *)
LEMMA AnsweredAsked ==
  ASSUME UnderWay, wire = "answered", pc \in DataLocations
  PROVE  /\ pc \in Asking /\ req = RequestAt /\ req.type = Asks[pc] /\ req.type \in RequestTypes
         /\ resp.type \in MayAnswer[req.type] \cup {"MT_CLOSE"}
         /\ resp.body \in Bodies[resp.type] /\ resp.body \in Payloads(resp.type)
         /\ RefusesAfterEnd => said = "none" \/ resp.type \in Ends
         /\ resp.type \in Ends => said # "none"
<1>1. pc \in Asking /\ req = RequestAt /\ pc # "CallReply"
  BY PlaceTypes DEF UnderWay, RequestInv
<1>2. req.type = Asks[pc] /\ req.type \in RequestTypes
  BY <1>1, RequestKinds DEF UnderWay, TypeInv
<1>3. req.type # "MT_FINISHED"
  BY <1>1, <1>2, AskingPlaces, PlaceTypes DEF Asking
<1>4. QED BY <1>1, <1>2, <1>3 DEF UnderWay, TypeInv, ExchangeInv, AnswerInv

(* A group is opened at the start of its input and of its output.            *)
OpenedInv ==
  wire = "answered" /\ req.type = "MT_RUN" /\ resp.type \in {"MT_RUN", "MT_CALL"}
    => handed = 0 /\ delivered = <<>>

(* Every step keeps the invariant.                                           *)
LEMMA OpenedStep == OpenedInv /\ [Next]_vars => OpenedInv'
<1> SUFFICES ASSUME OpenedInv, [Next]_vars PROVE OpenedInv'
  OBVIOUS
<1>1. CASE SendRequest \/ EchoPing
  BY <1>1 DEF SendRequest, Send, EchoPing, PingReply, OpenedInv
<1>2. CASE DatabaseStep
  <2>1. PICK r \in Responses : Answer(r)
    BY <1>2 DEF DatabaseStep, Answers
  <2>2. /\ resp' = r /\ req' = req
        /\ handed' = IF Opens(r) THEN 0 ELSE handed + Len(r.rows)
        /\ Opens(r) => delivered' = <<>>
    BY <2>1 DEF Answer
  <2>3. QED BY <2>2 DEF OpenedInv, Opens
<1>3. CASE \E e \in Events : Outcome(e)
  BY <1>3, OutcomeEnds DEF OpenedInv
<1>4. CASE UNCHANGED <<wireVars, dbVars>>
  BY <1>4 DEF OpenedInv, wireVars, dbVars
<1>5. QED BY <1>1, <1>2, <1>3, <1>4, StepKinds

(* The reply that opens a group found it so.                                 *)
LEMMA GroupOpened ==
  ASSUME OpensInKind(MayAnswer), UnderWay, OpenedInv, pc = "GroupOpen",
         NEW e, Outcome(e), e \notin EndEvents
  PROVE  handed = 0 /\ delivered = <<>> /\ wire = "answered"
<1>1. wire = "answered" /\ e = Event(proto, resp) /\ e # "Ping"
  BY ReceivedOutcome DEF EndEvents
<1>2. req.type = "MT_RUN" /\ resp.type \in MayAnswer["MT_RUN"] \cup {"MT_CLOSE"}
  BY <1>1, AnsweredAsked, AskingPlaces, PlaceTypes
<1>3. resp.type \notin {"MT_CLEANUP", "MT_CLOSE"}
  BY <1>1, EventSource DEF EndEvents
<1>4. resp.type # "MT_PING_PONG"
  <2>1. ASSUME resp.type = "MT_PING_PONG"
        PROVE  Event(proto, resp) = "Ping"
    BY <2>1, Tables DEF Event, Accepts, AnyPhaseEvent
  <2>2. QED BY <1>1, <2>1
<1>5. QED BY <1>1, <1>2, <1>3, <1>4 DEF OpensInKind, OpenedInv

-----------------------------------------------------------------------------
(* Input rows the client has taken: those handed out but for the ones of a   *)
(* batch that waits in the socket.                                           *)
Unread  == IF wire = "answered" /\ resp.type = "MT_NEXT" THEN Len(resp.rows) ELSE 0
Fetched == handed - Unread

(* The rows of a batch that waits are the next ones.                         *)
WaitingInv ==
  wire = "answered" /\ resp.type = "MT_NEXT" =>
    /\ Len(resp.rows) <= handed
    /\ \A i \in 1..Len(resp.rows) : resp.rows[i] = Fetched + i

(* A batch of the database.                                                  *)
LEMMA AnswerRows ==
  ASSUME TypeInv, wire = "asked", NEW r \in Responses, Answer(r)
  PROVE  /\ r.type # "MT_NEXT" => r.rows = <<>>
         /\ Len(r.rows) \in Nat
         /\ \A i \in 1..Len(r.rows) : r.rows[i] = handed + i
<1>1. PICK t \in Allowed(req) :
        r \in [type : {t}, body : Bodies[t], conn : ConnIds,
               rows : IF t = "MT_NEXT" THEN {NextRows(n) : n \in 0..MaxBatch} ELSE {<<>>}]
  BY DEF Responses
<1>2. r.type = t /\ r.rows \in IF t = "MT_NEXT" THEN {NextRows(n) : n \in 0..MaxBatch} ELSE {<<>>}
  BY <1>1
<1>3. CASE t # "MT_NEXT"
  BY <1>2, <1>3
<1>4. CASE t = "MT_NEXT"
  <2>1. PICK n \in 0..MaxBatch : r.rows = NextRows(n)
    BY <1>2, <1>4
  <2>2. n \in Nat /\ handed \in Nat
    BY DatabaseAssumption DEF TypeInv, DatabaseTypeOK
  <2>3. Len(NextRows(n)) = n
    BY <2>2, NextRowsType
  <2>4. QED BY <1>2, <1>4, <2>1, <2>2, <2>3 DEF NextRows
<1>5. QED BY <1>3, <1>4

(* Every step keeps what waits in the socket.                                *)
LEMMA WaitingStep == TypeInv /\ WaitingInv /\ [Next]_vars => WaitingInv'
<1> SUFFICES ASSUME TypeInv, WaitingInv, [Next]_vars PROVE WaitingInv'
  OBVIOUS
<1>1. CASE SendRequest \/ EchoPing
  BY <1>1 DEF SendRequest, Send, EchoPing, PingReply, WaitingInv
<1>2. CASE DatabaseStep
  <2>1. PICK r \in Responses : Answer(r) /\ wire = "asked"
    BY <1>2 DEF DatabaseStep, Answers
  <2>2. /\ resp' = r /\ wire' = "answered" /\ handed \in Nat
        /\ r.type = "MT_NEXT" => handed' = handed + Len(r.rows)
    BY <2>1 DEF Answer, Opens, TypeInv, DatabaseTypeOK
  <2>3. Len(r.rows) \in Nat /\ \A i \in 1..Len(r.rows) : r.rows[i] = handed + i
    BY <2>1, AnswerRows
  <2>4. CASE r.type = "MT_NEXT"
    <3>1. handed' = handed + Len(r.rows) /\ Fetched' = handed
      BY <2>2, <2>3, <2>4 DEF Fetched, Unread
    <3>2. QED BY <2>2, <2>3, <3>1 DEF WaitingInv
  <2>5. QED BY <2>2, <2>4 DEF WaitingInv
<1>3. CASE \E e \in Events : Outcome(e)
  BY <1>3, OutcomeEnds DEF WaitingInv
<1>4. CASE UNCHANGED <<wireVars, dbVars>>
  BY <1>4 DEF WaitingInv, Fetched, Unread, wireVars, dbVars
<1>5. QED BY <1>1, <1>2, <1>3, <1>4, StepKinds

(* What has been taken is a number.                                          *)
LEMMA FetchedType ==
  ASSUME TypeInv, WaitingInv
  PROVE  /\ Fetched \in Nat /\ Len(resp.rows) \in Nat /\ resp.rows \in Seq(Nat)
         /\ handed \in Nat /\ Fetched <= handed
         /\ wire # "answered" => Fetched = handed
<1>1. resp.rows \in Seq(Nat) /\ handed \in Nat
  BY DEF TypeInv, WireTypeOK, DatabaseTypeOK
<1>2. Len(resp.rows) \in Nat
  BY <1>1
<1>3. Unread \in Nat /\ Unread <= handed /\ (wire # "answered" => Unread = 0)
  <2>1. CASE wire = "answered" /\ resp.type = "MT_NEXT"
    <3>1. Unread = Len(resp.rows) /\ Len(resp.rows) <= handed
      BY <2>1 DEF Unread, WaitingInv
    <3>2. QED BY <1>2, <2>1, <3>1
  <2>2. CASE ~(wire = "answered" /\ resp.type = "MT_NEXT")
    BY <1>1, <2>2 DEF Unread
  <2>3. QED BY <2>1, <2>2
<1>4. QED BY <1>1, <1>2, <1>3 DEF Fetched

(* A batch in the socket is the reply the client is waiting for.             *)
LEMMA WaitingIsAsked ==
  ASSUME RefusesAfterEnd, RowsInKind(MayAnswer, Bodies),
         UnderWay, PhaseInv, pc \in InGroup,
         wire = "answered", resp.type = "MT_NEXT"
  PROVE  /\ pc \in {"FirstBatch", "Next", "Advance"} /\ ~BatchBad
         /\ Event(proto, resp) = "NextData"
<1>0. pc \in DataLocations
  BY DEF InGroup
<1>1. req.type = "MT_NEXT" /\ resp.body = "table" /\ said = "none"
  BY <1>0, AnsweredAsked DEF RowsInKind, AnswersOnly, Ends
<1>2. pc \in {"FirstBatch", "Next", "Advance"}
  BY <1>0, <1>1, AnsweredAsked, AskingPlaces, PlaceTypes DEF Asking
<1>3. proto.phase = "Run"
  BY <1>0, <1>1 DEF PhaseInv
<1>4. Event(proto, resp) = "NextData"
  BY <1>1, <1>3, Tables DEF Event, Accepts, RunEvent
<1>5. QED BY <1>1, <1>2, <1>4 DEF BatchBad

(* A handled outcome takes the batch it delivers, and nothing else.          *)
LEMMA FetchedByOutcome ==
  ASSUME RefusesAfterEnd, RowsInKind(MayAnswer, Bodies),
         UnderWay, PhaseInv, WaitingInv, pc \in InGroup,
         NEW e, Outcome(e), UNCHANGED dbVars
  PROVE  /\ e # "NextData" => Fetched' = Fetched
         /\ e = "NextData" => /\ Fetched' = Fetched + Len(resp.rows) /\ ~BatchBad
                              /\ \A i \in 1..Len(resp.rows) : resp.rows[i] = Fetched + i
<1>1. wire' # "answered" /\ Unread' = 0 /\ Fetched' = handed
  <2>1. wire' # "answered" /\ handed' = handed /\ handed \in Nat
    BY OutcomeEnds, FetchedType DEF dbVars, UnderWay
  <2>2. QED BY <2>1 DEF Fetched, Unread
<1>2. CASE wire = "answered" /\ resp.type = "MT_NEXT"
  <2>1. e = "NextData"
    BY <1>2, WaitingIsAsked DEF Outcome, Received, EchoFailed, TimedOut, NotSent
  <2>2. Fetched + Len(resp.rows) = handed
    BY <1>2, FetchedType DEF Fetched, Unread, UnderWay
  <2>3. QED BY <1>1, <1>2, <2>1, <2>2, WaitingIsAsked DEF WaitingInv
<1>3. CASE ~(wire = "answered" /\ resp.type = "MT_NEXT")
  <2>1. Fetched = handed
    BY <1>3, FetchedType DEF Fetched, Unread, UnderWay
  <2>2. e # "NextData"
    BY <1>3, ReceivedOutcome, EventSource
  <2>3. QED BY <1>1, <2>1, <2>2
<1>4. QED BY <1>2, <1>3

(* Away from where the input is asked for nothing waits and nothing is taken.*)
LEMMA FetchedBetween ==
  ASSUME RefusesAfterEnd, RowsInKind(MayAnswer, Bodies),
         UnderWay, PhaseInv, WaitingInv,
         pc \in InGroup \ {"FirstBatch", "Next", "Advance"}
  PROVE  Fetched = handed
  BY WaitingIsAsked, FetchedType DEF Fetched, Unread, UnderWay

(* Outside the dispatcher nothing is taken while a group is under way.       *)
LEMMA FetchedElsewhere ==
  ASSUME RefusesAfterEnd, RowsInKind(MayAnswer, Bodies),
         UnderWay, PhaseInv, WaitingInv, pc \in InGroup,
         ((SendRequest \/ EchoPing) /\ UNCHANGED dbVars) \/ DatabaseStep
  PROVE  Fetched' = Fetched
<1>0. Fetched \in Nat /\ handed \in Nat /\ (wire # "answered" => Fetched = handed)
  BY FetchedType DEF UnderWay
<1>1. CASE SendRequest /\ UNCHANGED dbVars
  BY <1>0, <1>1 DEF SendRequest, Send, dbVars, Fetched, Unread
<1>2. CASE EchoPing /\ UNCHANGED dbVars
  <2>1. resp.type = "MT_PING_PONG" /\ wire' = "asked" /\ handed' = handed
    BY <1>2, EventSource DEF EchoPing, PingReply, dbVars
  <2>2. QED BY <1>0, <2>1 DEF Fetched, Unread
<1>3. CASE DatabaseStep
  <2>1. PICK r \in Responses : Answer(r) /\ wire = "asked"
    BY <1>3 DEF DatabaseStep, Answers
  <2>2. pc \in Asking /\ req = RequestAt /\ req.type = Asks[pc] /\ req.type # "MT_RUN"
        /\ req.type \in RequestTypes
    <3>1. pc \in Asking /\ req = RequestAt /\ pc \notin {"CallReply", "GroupOpen", "CallOpen"}
      BY <2>1, PlaceTypes DEF UnderWay, RequestInv, InGroup
    <3>2. req.type = Asks[pc] /\ req.type \in RequestTypes
      BY <3>1, RequestKinds DEF UnderWay, TypeInv
    <3>3. QED BY <3>1, <3>2, AskingPlaces DEF Asking
  <2>3. ~Opens(r)
    BY <2>1, <2>2, AnswerFits DEF Opens, RowsInKind, OpensInKind, AnswersOnly, UnderWay
  <2>4. resp' = r /\ wire' = "answered" /\ handed' = handed + Len(r.rows)
    BY <2>1, <2>3 DEF Answer
  <2>5. Len(r.rows) \in Nat /\ (r.type # "MT_NEXT" => Len(r.rows) = 0)
    BY <2>1, AnswerRows DEF UnderWay
  <2>6. QED BY <1>0, <2>1, <2>4, <2>5 DEF Fetched, Unread
<1>4. QED BY <1>1, <1>2, <1>3

-----------------------------------------------------------------------------
(* Row numbers in the order of the input, from its first row on.             *)
InOrder(s) == \A i \in 1..Len(s) : s[i] = i

(* The next row presented keeps the order.                                   *)
LEMMA NextInOrder ==
  ASSUME NEW s \in Seq(Nat), InOrder(s)
  PROVE  /\ Len(s) \in Nat
         /\ Append(s, Len(s) + 1) \in Seq(Nat) /\ InOrder(Append(s, Len(s) + 1))
         /\ Len(Append(s, Len(s) + 1)) = Len(s) + 1
  BY DEF InOrder

(* How far a scalar group has come: a run for each row it was given, the     *)
(* row it stands on after those, and all rows taken when it asks for more.   *)
ScalarRows ==
  /\ runs = Len(visited)
  /\ pc # "Next"
  /\ pc = "FirstBatch" => Fetched = 0 /\ visited = <<>>
  /\ pc = "RunOnce" => Len(visited) + 1 = rows[cur]
  /\ pc \in {"InUdf", "Flush", "Import"} => rows # <<>> /\ Len(visited) = rows[cur]
  /\ pc \in {"Advance", "GroupEnd", "TailFlush", "GroupDone"} => Len(visited) = Fetched

(* How far a set group has come: one run, unless there is no row, on the     *)
(* first batch until next() is called, and then on the last row presented.   *)
SetRows ==
  /\ pc # "Advance"
  /\ pc = "FirstBatch" => runs = 0 /\ Fetched = 0
  /\ pc = "RunOnce" => runs = 0
  /\ pc \in {"FirstBatch", "RunOnce"} => ~started
  /\ ~started => visited = <<>> /\ (rows # <<>> => cur = 1 /\ Len(rows) = Fetched)
  /\ pc \in {"InUdf", "Flush", "Import", "Next"} =>
       /\ runs = 1 /\ Fetched >= 1
       /\ started => Len(visited) = IF rows = <<>> THEN Fetched ELSE rows[cur]
       /\ ~started => rows # <<>>
  /\ pc = "Next" => started /\ Len(visited) = Fetched
  /\ pc \in {"GroupEnd", "TailFlush", "GroupDone"} =>
       Len(visited) <= Fetched /\ runs = IF Fetched = 0 THEN 0 ELSE 1

VisitInv ==
  pc \in InGroup =>
    /\ Len(rows) <= Fetched
    /\ \A i \in 1..Len(rows) : rows[i] = Fetched - Len(rows) + i
    /\ InOrder(visited)
    /\ IF Scalar THEN ScalarRows ELSE SetRows

(* A step that moves no row, and neither starts nor ends the run.            *)
LEMMA VisitFrame ==
  ASSUME VisitInv, UNCHANGED <<shape, rows, cur, started, runs, visited>>, Fetched' = Fetched,
         pc \in InGroup,
         \/ pc' = pc
         \/ {pc, pc'} \subseteq {"InUdf", "Flush", "Import"}
         \/ {pc, pc'} \subseteq {"GroupEnd", "TailFlush", "GroupDone"}
  PROVE  VisitInv'
<1>1. CASE Scalar
  BY <1>1 DEF VisitInv, Scalar, ScalarRows
<1>2. CASE ~Scalar
  BY <1>2 DEF VisitInv, Scalar, SetRows
<1>3. QED BY <1>1, <1>2

(* A step that leaves the group.                                             *)
LEMMA VisitLeft ==
  ASSUME pc' \notin InGroup
  PROVE  VisitInv'
  BY DEF VisitInv

(* A batch just loaded holds the rows just taken.                            *)
LEMMA BatchLoaded ==
  ASSUME RefusesAfterEnd, RowsInKind(MayAnswer, Bodies),
         UnderWay, PhaseInv, WaitingInv, pc \in InGroup,
         Outcome("NextData"), LoadBatch, UNCHANGED dbVars
  PROVE  /\ Fetched' = Fetched + Len(rows') /\ Len(rows') \in Nat /\ Fetched \in Nat
         /\ \A i \in 1..Len(rows') : rows'[i] = Fetched + i
         /\ cur' = 1 /\ (rows' # <<>> => rows'[1] = Fetched + 1 /\ Len(rows') >= 1)
         /\ rows' = <<>> => Len(rows') = 0
<1>1. rows' = resp.rows /\ cur' = 1
  BY DEF LoadBatch
<1>2. resp.rows \in Seq(Nat) /\ Fetched \in Nat
  BY FetchedType DEF UnderWay
<1>3. /\ Fetched' = Fetched + Len(resp.rows)
      /\ \A i \in 1..Len(resp.rows) : resp.rows[i] = Fetched + i
  BY FetchedByOutcome
<1>4. /\ Len(resp.rows) \in Nat
      /\ resp.rows # <<>> => Len(resp.rows) >= 1
      /\ resp.rows = <<>> => Len(resp.rows) = 0
  BY <1>2
<1>5. resp.rows # <<>> => resp.rows[1] = Fetched + 1
  BY <1>3, <1>4
<1>6. QED BY <1>1, <1>2, <1>3, <1>4, <1>5, ZenonT(30)

(* Opening a group.                                                          *)
LEMMA VisitOpen ==
  ASSUME RefusesAfterEnd, RowsInKind(MayAnswer, Bodies),
         UnderWay, OpenedInv, GroupOpenReply, UNCHANGED dbVars
  PROVE  VisitInv'
<1>1. PICK e \in Events :
        /\ Outcome(e)
        /\ \/ pc' = "Hook"
           \/ e \notin EndEvents /\ pc' = "FirstBatch" /\ OpenGroup
  BY DEF GroupOpenReply, EndsSession
<1>2. CASE pc' = "Hook"
  BY <1>2, VisitLeft, PlaceTypes DEF InGroup
<1>3. CASE e \notin EndEvents /\ pc' = "FirstBatch" /\ OpenGroup
  <2>1. handed' = 0 /\ wire' # "answered"
    BY <1>1, <1>3, GroupOpened, OutcomeEnds DEF GroupOpenReply, RowsInKind, dbVars
  <2>2. Fetched' = 0
    <3>1. Unread' = 0
      BY <2>1 DEF Unread
    <3>2. QED BY <2>1, <3>1 DEF Fetched
  <2>3. rows' = <<>> /\ cur' = 1 /\ ~started' /\ runs' = 0 /\ visited' = <<>>
    BY <1>3, Zenon DEF OpenGroup
  <2>4. Len(rows') = 0 /\ Len(visited') = 0 /\ InOrder(visited)'
    BY <2>3 DEF InOrder
  <2>5. ScalarRows' /\ SetRows'
    BY <1>3, <2>2, <2>3, <2>4 DEF ScalarRows, SetRows
  <2>6. QED BY <2>2, <2>4, <2>5 DEF VisitInv
<1>4. QED BY <1>1, <1>2, <1>3

(* The first batch of a group, and the batches of a scalar group after it.   *)
LEMMA VisitFirst ==
  ASSUME RefusesAfterEnd, RowsInKind(MayAnswer, Bodies),
         UnderWay, PhaseInv, WaitingInv, VisitInv,
         FirstBatchReply \/ AdvanceReply, UNCHANGED dbVars
  PROVE  VisitInv'
<1> USE PlaceTypes DEF InGroup, historyVars
<1>1. PICK e \in Events :
        /\ Outcome(e)
        /\ UNCHANGED <<shape, started, runs, visited>> /\ pc \in {"FirstBatch", "Advance"}
        /\ \/ e # "NextData" /\ UNCHANGED <<pc, rows, cur>>
           \/ e # "NextData" /\ pc' = "GroupEnd" /\ UNCHANGED <<rows, cur>>
           \/ pc' = "Hook"
           \/ e = "NextData" /\ LoadBatch /\ pc' = IF rows' = <<>> THEN pc ELSE "RunOnce"
  BY DEF FirstBatchReply, AdvanceReply, AsksAgain, EndsInput
<1>2. CASE pc' = "Hook"
  BY <1>2, VisitLeft
<1>3. CASE e # "NextData" /\ UNCHANGED <<pc, rows, cur>>
  BY <1>1, <1>3, FetchedByOutcome, VisitFrame
<1>4. CASE e # "NextData" /\ pc' = "GroupEnd" /\ UNCHANGED <<rows, cur>>
  <2>1. Fetched' = Fetched
    BY <1>1, <1>4, FetchedByOutcome
  <2>2. CASE Scalar
    BY <1>1, <1>4, <2>1, <2>2 DEF VisitInv, Scalar, ScalarRows
  <2>3. CASE ~Scalar
    BY <1>1, <1>4, <2>1, <2>3 DEF VisitInv, Scalar, SetRows
  <2>4. QED BY <2>2, <2>3
<1>5. CASE e = "NextData" /\ LoadBatch /\ pc' = IF rows' = <<>> THEN pc ELSE "RunOnce"
  <2>1. /\ Fetched' = Fetched + Len(rows') /\ Len(rows') \in Nat /\ Fetched \in Nat
        /\ \A i \in 1..Len(rows') : rows'[i] = Fetched + i
        /\ cur' = 1 /\ (rows' # <<>> => rows'[1] = Fetched + 1 /\ Len(rows') >= 1)
        /\ rows' = <<>> => Len(rows') = 0
    BY <1>1, <1>5, BatchLoaded
  <2>2. /\ Len(rows') <= Fetched'
        /\ \A i \in 1..Len(rows') : rows'[i] = Fetched' - Len(rows') + i
        /\ InOrder(visited)' /\ Scalar' = Scalar
    <3>1. Fetched' - Len(rows') = Fetched /\ Len(rows') <= Fetched'
      BY <2>1
    <3>2. InOrder(visited)' /\ Scalar' = Scalar
      BY <1>1 DEF VisitInv, Scalar, InOrder
    <3>3. QED BY <2>1, <3>1, <3>2
  <2>3. CASE Scalar
    <3>1. ScalarRows'
      BY <1>1, <1>5, <2>1, <2>3 DEF VisitInv, ScalarRows
    <3>2. QED BY <2>2, <2>3, <3>1 DEF VisitInv
  <2>4. CASE ~Scalar
    <3>1. pc = "FirstBatch" /\ Fetched = 0 /\ runs = 0 /\ ~started /\ visited = <<>>
      BY <1>1, <2>4 DEF VisitInv, SetRows
    <3>2. SetRows'
      BY <1>1, <1>5, <2>1, <2>4, <3>1 DEF SetRows
    <3>3. QED BY <2>2, <2>4, <3>2 DEF VisitInv
  <2>5. QED BY <2>3, <2>4
<1>6. QED BY <1>1, <1>2, <1>3, <1>4, <1>5

(* What is taken does not change where the wire is left alone.               *)
LEMMA FetchedFrame ==
  ASSUME UNCHANGED <<wireVars, dbVars>>
  PROVE  Fetched' = Fetched
  BY DEF wireVars, dbVars, Fetched, Unread

(* The cursor and the rows it moves over.                                    *)
LEMMA RowTypes ==
  ASSUME UnderWay, WaitingInv
  PROVE  /\ rows \in Seq(Nat) /\ Len(rows) \in Nat /\ cur \in Nat \ {0}
         /\ rows # <<>> => cur \in 1..Len(rows)
         /\ rows = <<>> => Len(rows) = 0
         /\ visited \in Seq(Nat) /\ Len(visited) \in Nat /\ runs \in Nat
         /\ Fetched \in Nat
<1>1. rows \in Seq(Nat) /\ cur \in Nat \ {0} /\ visited \in Seq(Nat) /\ runs \in Nat
      /\ (rows # <<>> => cur \in DOMAIN rows)
  BY DEF UnderWay, TypeInv, DataInv, DispatchTypeOK, CursorInv
<1>2. QED BY <1>1, FetchedType DEF UnderWay

(* A run starts on the next row of a scalar group, or on a set group.         *)
LEMMA VisitRun ==
  ASSUME UnderWay, WaitingInv, VisitInv, RunOnce, UNCHANGED dbVars
  PROVE  VisitInv'
<1> USE PlaceTypes DEF InGroup, inputVars
<1>1. /\ pc = "RunOnce" /\ pc' = "InUdf" /\ UNCHANGED <<shape, rows, cur, started>>
      /\ runs' = runs + 1 /\ visited' = IF Scalar THEN Append(visited, rows[cur]) ELSE visited
  BY DEF RunOnce
<1>2. Fetched' = Fetched /\ rows # <<>>
  BY FetchedFrame DEF RunOnce, UnderWay, TypeInv, DataInv, CursorInv
<1>3. CASE Scalar
  <2>1. rows[cur] = Len(visited) + 1
    BY <1>1, <1>3 DEF VisitInv, ScalarRows
  <2>2. InOrder(visited') /\ Len(visited') = Len(visited) + 1
    BY <1>1, <1>3, <2>1, RowTypes, NextInOrder DEF VisitInv
  <2>3. ScalarRows'
    BY <1>1, <1>2, <1>3, <2>1, <2>2 DEF VisitInv, ScalarRows
  <2>4. QED BY <1>1, <1>2, <1>3, <2>2, <2>3 DEF VisitInv, Scalar, InOrder
<1>4. CASE ~Scalar
  <2>1. runs' = 1 /\ Fetched >= 1 /\ ~started /\ visited' = visited
    BY <1>1, <1>2, <1>4, RowTypes DEF VisitInv, SetRows
  <2>2. SetRows'
    BY <1>1, <1>2, <1>4, <2>1 DEF VisitInv, SetRows
  <2>3. QED BY <1>1, <1>2, <1>4, <2>1, <2>2 DEF VisitInv, Scalar, InOrder
<1>5. QED BY <1>3, <1>4

(* next() presents the row after the last one, or has presented them all.    *)
LEMMA VisitNext ==
  ASSUME UnderWay, WaitingInv, VisitInv, UdfNext, UNCHANGED dbVars
  PROVE  VisitInv'
<1> USE PlaceTypes DEF InGroup
<1>1. /\ pc = "InUdf" /\ UNCHANGED <<shape, rows, runs>> /\ ~Scalar /\ started'
  BY DEF UdfNext, ContextCall
<1>2. Fetched' = Fetched /\ (rows # <<>> => cur \in 1..Len(rows))
  BY FetchedFrame, RowTypes DEF UdfNext
<1>3. /\ runs = 1 /\ Fetched >= 1 /\ InOrder(visited)
      /\ started => Len(visited) = IF rows = <<>> THEN Fetched ELSE rows[cur]
      /\ ~started => rows # <<>> /\ visited = <<>> /\ cur = 1 /\ Len(rows) = Fetched
      /\ Len(rows) <= Fetched /\ \A i \in 1..Len(rows) : rows[i] = Fetched - Len(rows) + i
  BY <1>1 DEF VisitInv, SetRows
<1>a. ASSUME pc' = "InUdf", rows # <<>>, visited' = Append(visited, rows[cur']),
             rows[cur'] = Len(visited) + 1
      PROVE  VisitInv'
  <2>1. InOrder(visited') /\ Len(visited') = rows[cur']
    BY <1>3, <1>a, RowTypes, NextInOrder
  <2>2. SetRows'
    BY <1>1, <1>2, <1>3, <1>a, <2>1 DEF SetRows
  <2>3. QED BY <1>1, <1>2, <1>3, <2>1, <2>2 DEF VisitInv, Scalar, InOrder
<1>4. CASE PresentsCurrent /\ visited' = Append(visited, rows[cur]) /\ UNCHANGED <<pc, cur>>
  <2>1. ~started /\ rows # <<>> /\ Len(visited) = 0 /\ Len(rows) \in Nat \ {0}
    BY <1>3, <1>4, RowTypes DEF PresentsCurrent
  <2>2. rows[cur] = 1
    BY <1>3, <2>1, RowTypes
  <2>3. QED BY <1>1, <1>4, <1>a, <2>1, <2>2
<1>5. CASE started /\ CanAdvance /\ cur' = cur + 1 /\ visited' = Append(visited, rows[cur'])
           /\ UNCHANGED pc
  <2>1. cur \in 1..Len(rows) /\ cur + 1 \in 1..Len(rows) /\ rows # <<>>
    BY <1>2, <1>5, RowTypes DEF CanAdvance
  <2>2. rows[cur + 1] = rows[cur] + 1 /\ Len(visited) = rows[cur]
    BY <1>3, <1>5, <2>1, RowTypes
  <2>3. QED BY <1>1, <1>5, <1>a, <2>1, <2>2
<1>6. CASE ~PresentsCurrent /\ ~(started /\ CanAdvance) /\ pc' = "Next" /\ UNCHANGED <<cur, visited>>
  <2>1. started /\ ~CanAdvance
    BY <1>3, <1>6 DEF PresentsCurrent
  <2>2. Len(visited) = Fetched
    <3>1. CASE rows = <<>>
      BY <1>3, <2>1, <3>1
    <3>2. CASE rows # <<>>
      <4>1. cur = Len(rows)
        BY <1>2, <2>1, <3>2, RowTypes DEF CanAdvance
      <4>2. QED BY <1>2, <1>3, <2>1, <3>2, <4>1, RowTypes
    <3>3. QED BY <3>1, <3>2
  <2>3. SetRows'
    BY <1>1, <1>2, <1>3, <1>6, <2>1, <2>2 DEF SetRows
  <2>4. QED BY <1>1, <1>2, <1>3, <1>6, <2>3 DEF VisitInv, Scalar, InOrder
<1>7. QED BY <1>4, <1>5, <1>6 DEF UdfNext

(* The refill inside next().                                                 *)
LEMMA VisitRefill ==
  ASSUME RefusesAfterEnd, RowsInKind(MayAnswer, Bodies),
         UnderWay, PhaseInv, WaitingInv, VisitInv,
         NextReply, UNCHANGED dbVars
  PROVE  VisitInv'
<1> USE PlaceTypes DEF InGroup
<1>1. PICK e \in Events :
        /\ Outcome(e) /\ pc = "Next"
        /\ UNCHANGED <<shape, started, runs>>
        /\ \/ e # "NextData" /\ pc' \in {"Next", "InUdf"} /\ UNCHANGED <<rows, cur, visited>>
           \/ pc' = "Hook"
           \/ e = "NextData" /\ BatchBad
           \/ /\ e = "NextData" /\ LoadBatch
              /\ IF rows' = <<>> THEN pc' = "Next" /\ visited' = visited
                 ELSE pc' = "InUdf" /\ visited' = Append(visited, rows'[1])
  BY DEF NextReply, AsksAgain, EndsInput, UdfSeesError
<1>2. /\ ~Scalar /\ started /\ Len(visited) = Fetched /\ runs = 1 /\ Fetched >= 1
      /\ InOrder(visited) /\ Len(rows) <= Fetched
      /\ \A i \in 1..Len(rows) : rows[i] = Fetched - Len(rows) + i
      /\ Len(visited) = IF rows = <<>> THEN Fetched ELSE rows[cur]
  BY <1>1 DEF VisitInv, ScalarRows, SetRows
<1>3. CASE pc' = "Hook"
  BY <1>3, VisitLeft
<1>4. CASE e = "NextData" /\ BatchBad
  BY <1>1, <1>4, FetchedByOutcome
<1>5. CASE e # "NextData" /\ pc' \in {"Next", "InUdf"} /\ UNCHANGED <<rows, cur, visited>>
  <2>1. Fetched' = Fetched
    BY <1>1, <1>5, FetchedByOutcome
  <2>2. SetRows'
    BY <1>1, <1>2, <1>5, <2>1 DEF SetRows
  <2>3. QED BY <1>1, <1>2, <1>5, <2>1, <2>2 DEF VisitInv, Scalar, InOrder
<1>6. CASE /\ e = "NextData" /\ LoadBatch
           /\ IF rows' = <<>> THEN pc' = "Next" /\ visited' = visited
              ELSE pc' = "InUdf" /\ visited' = Append(visited, rows'[1])
  <2>1. /\ Fetched' = Fetched + Len(rows') /\ Len(rows') \in Nat /\ Fetched \in Nat
        /\ \A i \in 1..Len(rows') : rows'[i] = Fetched + i
        /\ cur' = 1 /\ (rows' # <<>> => rows'[1] = Fetched + 1 /\ Len(rows') >= 1)
        /\ rows' = <<>> => Len(rows') = 0
    BY <1>1, <1>6, BatchLoaded
  <2>2. Fetched' - Len(rows') = Fetched /\ Len(rows') <= Fetched'
    BY <2>1
  <2>3. /\ InOrder(visited')
        /\ Len(visited') = IF rows' = <<>> THEN Fetched' ELSE rows'[cur']
        /\ rows' = <<>> => Len(visited') = Fetched'
    <3>1. CASE rows' = <<>>
      <4>1. Fetched' = Fetched
        BY <2>1, <3>1
      <4>2. QED BY <1>2, <1>6, <3>1, <4>1
    <3>2. CASE rows' # <<>>
      <4>1. visited' = Append(visited, Len(visited) + 1) /\ rows'[cur'] = Len(visited) + 1
        BY <1>2, <1>6, <2>1, <3>2
      <4>2. QED BY <1>2, <3>2, <4>1, RowTypes, NextInOrder
    <3>3. QED BY <3>1, <3>2
  <2>4. SetRows'
    <3>1. Fetched' >= 1
      <4>1. Fetched >= 1
        BY <1>2
      <4>2. QED BY <2>1, <4>1
    <3>2. QED BY <1>1, <1>2, <1>6, <2>3, <3>1 DEF SetRows
  <2>5. QED BY <1>1, <1>2, <2>1, <2>2, <2>3, <2>4 DEF VisitInv, Scalar, InOrder
<1>7. QED BY <1>1, <1>3, <1>4, <1>5, <1>6

(* run() is over: a scalar group goes on with its next row.                  *)
LEMMA VisitReturn ==
  ASSUME UnderWay, WaitingInv, VisitInv, UdfReturnsOk, UNCHANGED dbVars
  PROVE  VisitInv'
<1> USE PlaceTypes DEF InGroup, historyVars
<1>1. /\ pc = "InUdf" /\ UNCHANGED <<shape, rows, started, runs, visited>>
      /\ \/ ~Scalar /\ pc' = "GroupEnd" /\ UNCHANGED cur
         \/ Scalar /\ CanAdvance /\ cur' = cur + 1 /\ pc' = "RunOnce"
         \/ Scalar /\ ~CanAdvance /\ pc' = "Advance" /\ UNCHANGED cur
  BY DEF UdfReturnsOk
<1>2. /\ Fetched' = Fetched /\ InOrder(visited) /\ Len(rows) <= Fetched
      /\ \A i \in 1..Len(rows) : rows[i] = Fetched - Len(rows) + i
  BY <1>1, FetchedFrame DEF UdfReturnsOk, VisitInv
<1>3. CASE Scalar
  <2>1. rows # <<>> /\ Len(visited) = rows[cur] /\ runs = Len(visited) /\ cur \in 1..Len(rows)
    BY <1>1, <1>3, RowTypes DEF VisitInv, ScalarRows
  <2>2. CanAdvance => rows[cur + 1] = rows[cur] + 1
    <3>1. CanAdvance => cur + 1 \in 1..Len(rows)
      BY <2>1, RowTypes DEF CanAdvance
    <3>2. QED BY <1>2, <2>1, <3>1, RowTypes
  <2>3. ~CanAdvance => rows[cur] = Fetched
    <3>1. ~CanAdvance => cur = Len(rows)
      BY <2>1, RowTypes DEF CanAdvance
    <3>2. QED BY <1>2, <2>1, <3>1, RowTypes
  <2>4. ScalarRows'
    BY <1>1, <1>2, <1>3, <2>1, <2>2, <2>3 DEF ScalarRows
  <2>5. QED BY <1>1, <1>2, <1>3, <2>4 DEF VisitInv, Scalar, InOrder
<1>4. CASE ~Scalar
  <2>1. /\ runs = 1 /\ Fetched >= 1
        /\ started => Len(visited) = IF rows = <<>> THEN Fetched ELSE rows[cur]
        /\ ~started => visited = <<>> /\ (rows # <<>> => cur = 1 /\ Len(rows) = Fetched)
    BY <1>1, <1>4 DEF VisitInv, SetRows
  <2>2. Len(visited) <= Fetched
    <3>1. CASE started /\ rows # <<>>
      <4>1. cur \in 1..Len(rows) /\ Len(visited) = Fetched - Len(rows) + cur
        BY <1>2, <2>1, <3>1, RowTypes
      <4>2. QED BY <4>1, <1>2, RowTypes
    <3>2. CASE ~(started /\ rows # <<>>)
      <4>1. Len(visited) \in {0, Fetched}
        BY <2>1, <3>2
      <4>2. QED BY <4>1, RowTypes
    <3>3. QED BY <3>1, <3>2
  <2>3. SetRows'
    BY <1>1, <1>2, <1>4, <2>1, <2>2 DEF SetRows
  <2>4. QED BY <1>1, <1>2, <1>4, <2>3 DEF VisitInv, Scalar, InOrder
<1>5. QED BY <1>3, <1>4

(* An outcome handled elsewhere than where the input is asked for.           *)
LEMMA FetchedInRun ==
  ASSUME RefusesAfterEnd, RowsInKind(MayAnswer, Bodies),
         UnderWay, PhaseInv, WaitingInv,
         pc \in InGroup \ {"FirstBatch", "Next", "Advance"}, NEW e, Outcome(e), UNCHANGED dbVars
  PROVE  Fetched' = Fetched
<1>1. e # "NextData"
  BY ReceivedOutcome, EventSource, WaitingIsAsked
<1>2. QED BY <1>1, FetchedByOutcome

(* The rest of a run, and of a group after its rows, moves no row.            *)
LEMMA VisitRest ==
  ASSUME RefusesAfterEnd, RowsInKind(MayAnswer, Bodies),
         UnderWay, PhaseInv, WaitingInv, VisitInv, UNCHANGED dbVars,
         \/ FlushReply \/ ImportReply \/ GroupEnd \/ TailFlushReply \/ GroupDoneReply
         \/ \E c \in RowCosts : UdfEmit(c) \/ UdfSetReturn(c)
         \/ UdfConnection \/ UdfConnectBackFails \/ UdfFails
  PROVE  VisitInv'
<1> USE PlaceTypes DEF InGroup, inputVars, historyVars, dispatchVars
<1> DEFINE Rests ==
      /\ UNCHANGED <<shape, rows, cur, started, runs, visited>>
      /\ pc \in {"InUdf", "Flush", "Import", "GroupEnd", "TailFlush", "GroupDone"}
      /\ \/ pc' \notin InGroup
         \/ {pc, pc'} \subseteq {"InUdf", "Flush", "Import"}
         \/ {pc, pc'} \subseteq {"GroupEnd", "TailFlush", "GroupDone"}
<1>1. Rests
  <2>1. CASE FlushReply \/ ImportReply \/ GroupEnd \/ TailFlushReply \/ GroupDoneReply
    BY <2>1 DEF FlushReply, ImportReply, GroupEnd, TailFlushReply, GroupDoneReply, UdfSeesError,
       EndsSession
  <2>2. ASSUME NEW c \in RowCosts, UdfEmit(c) \/ UdfSetReturn(c)
        PROVE  Rests
    BY <2>2 DEF UdfEmit, UdfSetReturn, ContextCall, PushOutputRow
  <2>3. CASE UdfConnection \/ UdfConnectBackFails \/ UdfFails
    BY <2>3 DEF UdfConnection, UdfConnectBackFails, UdfFails, ContextCall, UdfSeesError
  <2>4. QED BY <2>1, <2>2, <2>3
<1>2. (\E e \in Events : Outcome(e)) \/ UNCHANGED wireVars
  BY DEF FlushReply, ImportReply, GroupEnd, TailFlushReply, GroupDoneReply, UdfEmit, UdfSetReturn,
     UdfConnection, UdfConnectBackFails, UdfFails
<1>3. Fetched' = Fetched
  BY <1>1, <1>2, FetchedInRun, FetchedFrame
<1>4. QED BY <1>1, <1>3, VisitFrame, VisitLeft

(* Every step keeps the place of the group in its input.                     *)
LEMMA VisitStep ==
  ASSUME RefusesAfterEnd, RowsInKind(MayAnswer, Bodies),
         UnderWay, PhaseInv, OpenedInv, WaitingInv, VisitInv,
         [Next]_vars
  PROVE  VisitInv'
<1> USE DEF dispatchVars, inputVars, historyVars
<1>1. CASE UNCHANGED <<dispatchVars, shape, pc>>
           /\ (((SendRequest \/ EchoPing) /\ UNCHANGED dbVars) \/ DatabaseStep)
  BY <1>1, FetchedElsewhere, VisitFrame, VisitLeft
<1>2. CASE pc' \notin InGroup
  BY <1>2, VisitLeft
<1>3. CASE UNCHANGED vars
  BY <1>3, VisitFrame, VisitLeft, FetchedFrame DEF vars, runtimeVars
<1>4. CASE StreamingStep
  <2>1. UNCHANGED dbVars
    BY <1>4 DEF StreamingStep
  <2>2. QED
    BY <1>4, <2>1, VisitOpen, VisitFirst, VisitRun, VisitNext, VisitRefill, VisitReturn, VisitRest
       DEF StreamingStep, UdfStep, DispatchStep
<1>5. QED BY <1>1, <1>2, <1>3, <1>4, OutsideGroup DEF UnderWay

(* What the rows of a session rest on, put together.                         *)
RowInv == UnderWay /\ PhaseInv /\ OpenedInv /\ WaitingInv /\ VisitInv

(* It holds in every reachable state.                                        *)
LEMMA RowInvariant ==
  ASSUME RefusesAfterEnd, RowsInKind(MayAnswer, Bodies)
  PROVE  Spec => []RowInv
<1>1. Init => PhaseInv /\ OpenedInv /\ WaitingInv /\ VisitInv
  BY PlaceTypes DEF Init, WireInit, PhaseInv, OpenedInv, WaitingInv, VisitInv, InGroup
<1>2. RowInv /\ [Next]_vars => PhaseInv' /\ OpenedInv' /\ WaitingInv' /\ VisitInv'
  BY PhaseStep, OpenedStep, WaitingStep, VisitStep DEF RowInv, RowsInKind, UnderWay
<1>3. QED BY <1>1, <1>2, UnderWayInvariant, PTL DEF Spec, RowInv

(* No row is presented that was not taken.                                   *)
LEMMA VisitedTaken ==
  ASSUME RowInv, pc \in InGroup
  PROVE  Len(visited) <= Fetched
<1>0. /\ Len(rows) <= Fetched /\ \A i \in 1..Len(rows) : rows[i] = Fetched - Len(rows) + i
      /\ UnderWay /\ WaitingInv
  BY DEF RowInv, VisitInv
<1>1. rows # <<>> => rows[cur] <= Fetched /\ rows[cur] \in Int
  <2>1. rows # <<>> => rows[cur] = Fetched - Len(rows) + cur
    BY <1>0, RowTypes
  <2>2. QED BY <1>0, <2>1, RowTypes
<1>2. CASE Scalar
  <2>1. \/ Len(visited) = Fetched \/ visited = <<>>
        \/ rows # <<>> /\ (Len(visited) + 1 = rows[cur] \/ Len(visited) = rows[cur])
    <3>1. pc = "RunOnce" => rows # <<>>
      BY <1>0 DEF UnderWay, TypeInv, DataInv, CursorInv
    <3>2. QED BY <1>2, <3>1, PlaceTypes DEF RowInv, VisitInv, ScalarRows, InGroup
  <2>2. QED BY <1>0, <1>1, <2>1, RowTypes
<1>3. CASE ~Scalar
  <2>1. \/ Len(visited) = Fetched \/ visited = <<>> \/ Len(visited) <= Fetched
        \/ rows # <<>> /\ Len(visited) = rows[cur]
    BY <1>3, PlaceTypes DEF RowInv, VisitInv, SetRows, InGroup
  <2>2. QED BY <1>0, <1>1, <2>1, RowTypes
<1>4. QED BY <1>2, <1>3

(* Rows reach the UDF in order, none skipped and none presented twice, over  *)
(* any batches, zero-row batches and refills; a scalar group is left only    *)
(* after all of them, and a set group runs once (InputRowSet, next,          *)
(* advance_row, drive_group_rows).  The database answers MT_RUN by opening   *)
(* the group and MT_NEXT alone with rows, which decode; every other answer,  *)
(* ending or delaying the session, is open.                                  *)
THEOREM RowsInOrderOnce ==
  ASSUME RefusesAfterEnd, RowsInKind(MayAnswer, Bodies)
  PROVE  Spec => []EveryRowOnce
<1>1. RowInv => EveryRowOnce
  <2> SUFFICES ASSUME RowInv, pc \in InGroup
               PROVE  /\ Len(visited) <= handed
                      /\ visited = [i \in 1..Len(visited) |-> i]
                      /\ pc \in {"TailFlush", "GroupDone"} =>
                           IF Scalar THEN Len(visited) = handed /\ runs = handed
                                     ELSE runs = IF handed = 0 THEN 0 ELSE 1
    BY DEF EveryRowOnce, InGroup
  <2>1. UnderWay /\ PhaseInv /\ WaitingInv /\ VisitInv
    BY DEF RowInv
  <2>2. Len(visited) <= handed
    BY <2>1, VisitedTaken, FetchedType, RowTypes DEF UnderWay
  <2>3. visited = [i \in 1..Len(visited) |-> i]
    <3>1. visited \in Seq(Nat) /\ InOrder(visited)
      BY <2>1, RowTypes DEF VisitInv
    <3>2. QED BY <3>1 DEF InOrder
  <2>4. pc \in {"TailFlush", "GroupDone"} => Fetched = handed
    BY <2>1, FetchedBetween
  <2>5. QED BY <2>1, <2>2, <2>3, <2>4 DEF VisitInv, ScalarRows, SetRows
<1>2. QED BY <1>1, RowInvariant, PTL

-----------------------------------------------------------------------------
(* The last element of a sequence.                                           *)
LastOf(s) == s[Len(s)]

(* While the database has not ended the session and the socket is usable,    *)
(* what it has acknowledged and what is still buffered is what was accepted; *)
(* in a flush, with the row the flush was for.                               *)
OutInv ==
  said = "none" /\ wire # "stuck" =>
    /\ pc \in InGroup \ {"Flush", "GroupDone"} => delivered \o Unacknowledged = accepted
    /\ pc = "Flush" => delivered \o Unacknowledged = Append(accepted, LastOf(buffer))
    /\ pc = "GroupDone" => delivered = accepted

(* A socket whose receive gave up stays unusable.                            *)
LEMMA StuckStays ==
  ASSUME [Next]_vars, wire = "stuck"
  PROVE  wire' = "stuck"
<1>1. ASSUME NEW e \in Events, Outcome(e)
      PROVE  wire' = "stuck"
  BY <1>1 DEF Outcome, Received, EchoFailed, TimedOut, NotSent
<1>2. QED
  BY <1>1, StepKinds DEF SendRequest, Send, EchoPing, PingReply, DatabaseStep, Answers, wireVars

(* Concatenation, as the buffer uses it.                                     *)
LEMMA BufferedRows ==
  ASSUME NEW d \in Seq(Nat), NEW b \in Seq(Nat), NEW n \in Nat
  PROVE  d \o <<>> = d /\ d \o Append(b, n) = Append(d \o b, n)
<1>1. d \o <<>> = d
  BY ConcatEmptySeq, Zenon
<1>2. d \o Append(b, n) = Append(d \o b, n)
  OBVIOUS
<1>3. QED BY <1>1, <1>2

(* The output of a group is a sequence of row numbers.                       *)
LEMMA OutputTypes ==
  ASSUME UnderWay
  PROVE  delivered \in Seq(Nat) /\ buffer \in Seq(Nat) /\ accepted \in Seq(Nat)
  BY DEF UnderWay, TypeInv, DatabaseTypeOK, DataInv, DispatchTypeOK

(* MT_EMIT acknowledges a flush and nothing else.                            *)
LEMMA AckIsAsked ==
  ASSUME OutputInKind(MayAnswer), UnderWay, pc \in DataLocations \ {"Flush", "TailFlush"}
  PROVE  Unacknowledged = buffer
<1>1. ASSUME wire = "answered"
      PROVE  resp.type # "MT_EMIT"
  <2>1. resp.type \in MayAnswer[req.type] \cup {"MT_CLOSE"} /\ req.type = Asks[pc]
        /\ req.type \in RequestTypes /\ pc \in Asking
    BY <1>1, AnsweredAsked
  <2>2. req.type # "MT_EMIT"
    BY <2>1, AskingPlaces, PlaceTypes DEF Asking
  <2>3. QED BY <2>1, <2>2 DEF OutputInKind, AnswersOnly
<1>2. QED BY <1>1 DEF Unacknowledged

(* A flush that comes back on a usable socket was acknowledged, as long as   *)
(* the session has not ended.                                                *)
LEMMA FlushAcknowledged ==
  ASSUME ~SendMayFail, OutputInKind(MayAnswer), UnderWay, PhaseInv, pc \in {"Flush", "TailFlush"},
         said = "none", NEW e, Outcome(e), wire' # "stuck"
  PROVE  e # "Error" /\ Unacknowledged = <<>> /\ wire # "stuck"
<1>1. wire = "answered" /\ Received(e)
  BY DEF Outcome, EchoFailed, TimedOut, NotSent, Received
<1>2. /\ req.type = "MT_EMIT" /\ resp.type \in MayAnswer["MT_EMIT"] \cup {"MT_CLOSE"}
      /\ resp.type \notin Ends /\ resp.body \in Payloads(resp.type)
  BY <1>1, AnsweredAsked, AskingPlaces, PlaceTypes DEF Asking
<1>3. resp.type # "MT_PING_PONG"
  <2>1. ASSUME resp.type = "MT_PING_PONG"
        PROVE  Event(proto, resp) = "Ping"
    BY <2>1, Tables DEF Event, Accepts, AnyPhaseEvent
  <2>2. QED BY <1>1, <2>1 DEF Received
<1>4. resp.type = "MT_EMIT"
  BY <1>2, <1>3 DEF OutputInKind, Ends
<1>5. resp.body # "absent" /\ proto.phase = "Run"
  BY <1>2, <1>4, PlaceTypes DEF Payloads, PhaseInv
<1>6. Event(proto, resp) = "EmitAck"
  BY <1>4, <1>5, Tables DEF Event, Accepts, RunEvent
<1>7. QED BY <1>1, <1>4, <1>6 DEF Unacknowledged, Received

(* The database acknowledges exactly what was buffered.                      *)
LEMMA OutDatabase ==
  ASSUME OutputInKind(MayAnswer), UnderWay, OutInv, [Next]_vars, DatabaseStep
  PROVE  OutInv'
<1>1. PICK r \in Responses : Answer(r) /\ wire = "asked"
  BY DEF DatabaseStep, Answers
<1>2. /\ resp' = r /\ wire' = "answered" /\ UNCHANGED <<pc, buffer, accepted>>
      /\ delivered' = IF Opens(r) THEN <<>>
                      ELSE IF req.type = "MT_EMIT" /\ r.type = "MT_EMIT"
                           THEN delivered \o req.rows ELSE delivered
  BY <1>1 DEF DatabaseStep, Answer, runtimeVars, dispatchVars, outputVars, historyVars
<1> SUFFICES ASSUME said' = "none", pc \in InGroup
             PROVE  OutInv'
  BY <1>2, PlaceTypes DEF OutInv, InGroup
<1>3. said = "none" /\ Unacknowledged = buffer
  BY <1>1, SaidStays DEF Unacknowledged
<1>4. pc \in Asking /\ req = RequestAt /\ req.type = Asks[pc] /\ req.type \in RequestTypes
      /\ (pc \in {"Flush", "TailFlush"} => req.rows = buffer)
  <2>1. pc \in Asking /\ req = RequestAt /\ pc # "CallReply"
    BY <1>1, PlaceTypes DEF UnderWay, RequestInv, InGroup
  <2>2. QED BY <2>1, RequestKinds DEF UnderWay, TypeInv
<1>5. ~Opens(r)
  <2>1. req.type # "MT_RUN"
    BY <1>4, AskingPlaces, PlaceTypes DEF Asking, InGroup
  <2>2. QED
    BY <1>1, <1>4, <2>1, AnswerFits DEF Opens, OutputInKind, OpensInKind, AnswersOnly, UnderWay
<1>6. CASE r.type = "MT_EMIT"
  <2>1. req.type = "MT_EMIT"
    BY <1>1, <1>4, <1>6, AnswerFits DEF OutputInKind, AnswersOnly, UnderWay
  <2>2. pc \in {"Flush", "TailFlush"}
    BY <1>4, <2>1, AskingPlaces, PlaceTypes DEF Asking, InGroup
  <2>3. delivered' = delivered \o buffer /\ Unacknowledged' = <<>>
    BY <1>2, <1>4, <1>5, <1>6, <2>1, <2>2 DEF Unacknowledged
  <2>4. delivered' \o <<>> = delivered \o buffer
    <3>1. delivered \o buffer \in Seq(Nat)
      BY OutputTypes, ConcatProperties, Zenon
    <3>2. QED BY <2>3, <3>1, ConcatEmptySeq, Zenon
  <2>5. QED BY <1>1, <1>2, <1>3, <2>2, <2>3, <2>4 DEF OutInv, LastOf, InGroup
<1>7. CASE r.type # "MT_EMIT"
  <2>1. delivered' = delivered /\ Unacknowledged' = buffer
    BY <1>2, <1>5, <1>7 DEF Unacknowledged
  <2>2. QED BY <1>1, <1>2, <1>3, <2>1 DEF OutInv, LastOf
<1>8. QED BY <1>6, <1>7

(* A row that is pushed is buffered, and accepted unless it has to wait for  *)
(* its flush.                                                                *)
LEMMA OutPush ==
  ASSUME UnderWay, OutInv, NEW c \in RowCosts, PushOutputRow(c), pc = "InUdf",
         UNCHANGED <<wireVars, dbVars>>
  PROVE  OutInv'
<1>1. /\ buffer' = Append(buffer, CurrentRowNumber) /\ CurrentRowNumber \in Nat
      /\ \/ pc' = "Flush" /\ accepted' = accepted
         \/ pc' = "InUdf" /\ accepted' = Append(accepted, CurrentRowNumber)
  BY CurrentRowType DEF PushOutputRow, UnderWay, TypeInv
<1>2. wire # "answered" /\ UNCHANGED <<wire, said, delivered>>
  BY AskingPlaces DEF UnderWay, RequestInv, wireVars, dbVars
<1> SUFFICES ASSUME said = "none", wire # "stuck"
             PROVE  OutInv'
  BY <1>2 DEF OutInv
<1>3. delivered \o buffer = accepted
  BY <1>2, PlaceTypes DEF OutInv, InGroup, Unacknowledged
<1>4. Unacknowledged' = buffer'
  BY <1>2 DEF Unacknowledged
<1>5. delivered' \o Unacknowledged' = Append(accepted, CurrentRowNumber)
  BY <1>1, <1>2, <1>3, <1>4, OutputTypes, BufferedRows
<1>6. LastOf(buffer') = CurrentRowNumber
  BY <1>1, OutputTypes, LastOfAppend DEF LastOf
<1>7. QED BY <1>1, <1>5, <1>6, PlaceTypes DEF OutInv, InGroup, LastOf

(* A step that leaves the output alone, where none of it is acknowledged.    *)
LEMMA OutFrame ==
  ASSUME UnderWay, OutInv, [Next]_vars,
         UNCHANGED <<buffer, accepted, delivered>>,
         Unacknowledged = buffer, Unacknowledged' = buffer,
         \/ pc' = pc
         \/ {pc, pc'} \subseteq InGroup \ {"Flush", "GroupDone"}
         \/ pc' \notin InGroup
         \/ pc' = "GroupDone" /\ pc = "GroupEnd" /\ buffer = <<>>
  PROVE  OutInv'
<1> SUFFICES ASSUME said' = "none", wire' # "stuck", pc' \in InGroup
             PROVE  OutInv'
  BY PlaceTypes DEF OutInv, InGroup
<1>1. said = "none" /\ wire # "stuck"
  BY SaidStays, StuckStays
<1>2. CASE pc' = pc
  BY <1>1, <1>2 DEF OutInv, LastOf
<1>3. CASE {pc, pc'} \subseteq InGroup \ {"Flush", "GroupDone"}
  BY <1>1, <1>3 DEF OutInv
<1>4. CASE pc' = "GroupDone" /\ pc = "GroupEnd" /\ buffer = <<>>
  <2>1. delivered \o <<>> = accepted
    BY <1>1, <1>4, PlaceTypes DEF OutInv, InGroup
  <2>2. delivered = accepted
    BY <2>1, OutputTypes, ConcatEmptySeq, Zenon
  <2>3. QED BY <1>4, <2>2 DEF OutInv
<1>5. QED BY <1>2, <1>3, <1>4

(* A flush that the session survives has delivered what was buffered.        *)
LEMMA OutFlush ==
  ASSUME ~SendMayFail, OutputInKind(MayAnswer), UnderWay, PhaseInv, OutInv, UNCHANGED dbVars,
         FlushReply \/ TailFlushReply
  PROVE  OutInv'
<1>1. PICK e \in Events :
        /\ Outcome(e) /\ buffer' = <<>>
        /\ \/ pc = "Flush" /\ e # "Error" /\ pc' = "InUdf"
                /\ accepted' = Append(accepted, LastOf(buffer))
           \/ pc = "TailFlush" /\ e # "Error" /\ pc' = "GroupDone" /\ accepted' = accepted
           \/ pc \in {"Flush", "TailFlush"} /\ e = "Error"
  BY DEF FlushReply, TailFlushReply, LastOf, historyVars
<1> SUFFICES ASSUME said = "none", wire' # "stuck"
             PROVE  OutInv'
  BY DEF OutInv, dbVars
<1>2. e # "Error" /\ Unacknowledged = <<>> /\ wire # "stuck"
  BY <1>1, FlushAcknowledged
<1>3. pc \in InGroup /\ wire' # "answered" /\ UNCHANGED <<delivered, said>>
  BY <1>1, OutcomeEnds, PlaceTypes DEF InGroup, dbVars
<1>4. delivered \o <<>> = accepted'
  BY <1>1, <1>2, <1>3 DEF OutInv
<1>5. delivered = accepted' /\ Unacknowledged' = <<>>
  BY <1>1, <1>3, <1>4, OutputTypes, ConcatEmptySeq, Zenon DEF Unacknowledged
<1>6. QED BY <1>1, <1>2, <1>3, <1>4, <1>5 DEF OutInv

(* Every step of the dispatcher keeps the account of the output.             *)
LEMMA OutStreaming ==
  ASSUME ~SendMayFail, OutputInKind(MayAnswer), UnderWay, PhaseInv, OpenedInv, OutInv,
         [Next]_vars, StreamingStep
  PROVE  OutInv'
<1> USE PlaceTypes DEF InGroup, dispatchVars, historyVars, outputVars
<1>0. UNCHANGED dbVars /\ delivered' = delivered
  BY DEF StreamingStep, dbVars
<1>1. CASE GroupOpenReply
  <2>1. PICK e \in Events :
          /\ Outcome(e)
          /\ \/ pc' = "Hook"
             \/ e \notin EndEvents /\ pc' = "FirstBatch" /\ OpenGroup
    BY <1>1 DEF GroupOpenReply, EndsSession
  <2>2. CASE pc' = "Hook"
    BY <2>2 DEF OutInv
  <2>3. CASE e \notin EndEvents /\ pc' = "FirstBatch" /\ OpenGroup
    <3>1. delivered' = <<>> /\ wire' # "answered"
      BY <1>0, <1>1, <2>1, <2>3, GroupOpened, OutcomeEnds DEF GroupOpenReply, OutputInKind
    <3>2. buffer' = <<>> /\ accepted' = <<>> /\ Unacknowledged' = <<>>
      BY <2>3, <3>1 DEF OpenGroup, Unacknowledged
    <3>3. QED BY <2>3, <3>1, <3>2 DEF OutInv
  <2>4. QED BY <2>1, <2>2, <2>3
<1>2. CASE FlushReply \/ TailFlushReply
  BY <1>0, <1>2, OutFlush
<1>3. ASSUME NEW c \in RowCosts, UdfEmit(c) \/ UdfSetReturn(c)
      PROVE  OutInv'
  BY <1>0, <1>3, OutPush DEF UdfEmit, UdfSetReturn, ContextCall
<1> DEFINE Keeps ==
      /\ UNCHANGED <<buffer, accepted>>
      /\ pc \in DataLocations \ {"Flush", "TailFlush"}
      /\ \/ {pc, pc'} \subseteq InGroup \ {"Flush", "GroupDone"}
         \/ pc' \notin InGroup
         \/ pc' = "GroupDone" /\ pc = "GroupEnd" /\ buffer = <<>>
<1>k. Keeps => OutInv'
  <2>1. ASSUME Keeps
        PROVE  Unacknowledged = buffer /\ Unacknowledged' = buffer
    BY <1>0, <2>1, AckIsAsked, StreamingWire, OutcomeEnds DEF wireVars, Unacknowledged
  <2>2. QED BY <1>0, <2>1, OutFrame
<1>4. CASE FirstBatchReply \/ NextReply \/ ImportReply \/ AdvanceReply
  <2>1. Keeps
    BY <1>4 DEF FirstBatchReply, NextReply, ImportReply, AdvanceReply, UdfSeesError
  <2>2. QED BY <2>1, <1>k
<1>5. CASE RunOnce \/ GroupEnd \/ GroupDoneReply
  <2>1. Keeps
    BY <1>5 DEF RunOnce, GroupEnd, GroupDoneReply, EndsSession
  <2>2. QED BY <2>1, <1>k
<1>6. CASE UdfNext \/ UdfConnection \/ UdfConnectBackFails \/ UdfReturnsOk \/ UdfFails
  <2>1. Keeps
    BY <1>6 DEF UdfNext, UdfConnection, UdfConnectBackFails, UdfReturnsOk, UdfFails, ContextCall,
       UdfSeesError
  <2>2. QED BY <2>1, <1>k
<1>7. QED
  BY <1>1, <1>2, <1>3, <1>4, <1>5, <1>6 DEF StreamingStep, UdfStep, DispatchStep

(* Every step does.                                                          *)
LEMMA OutStep ==
  ASSUME ~SendMayFail, OutputInKind(MayAnswer), UnderWay, PhaseInv, OpenedInv, OutInv,
         [Next]_vars
  PROVE  OutInv'
<1> USE DEF dispatchVars, outputVars, historyVars
<1>1. CASE StreamingStep
  BY <1>1, OutStreaming
<1>2. CASE DatabaseStep
  BY <1>2, OutDatabase
<1>3. CASE (SendRequest \/ EchoPing) /\ UNCHANGED <<dispatchVars, shape, pc, dbVars>>
  <2>1. wire' = "asked" /\ (wire = "idle" \/ resp.type = "MT_PING_PONG")
    BY <1>3, EventSource DEF SendRequest, Send, EchoPing, PingReply
  <2>2. Unacknowledged = buffer /\ Unacknowledged' = buffer
    BY <1>3, <2>1 DEF Unacknowledged
  <2>3. QED BY <1>3, <2>2, OutFrame DEF dbVars
<1>4. CASE pc' \notin InGroup
  BY <1>4, PlaceTypes DEF OutInv, InGroup
<1>5. CASE UNCHANGED vars
  BY <1>5 DEF vars, wireVars, dbVars, runtimeVars, OutInv, Unacknowledged, LastOf
<1>6. QED BY <1>1, <1>2, <1>3, <1>4, <1>5, OutsideGroup DEF UnderWay

(* The account of the output is right in every reachable state.              *)
LEMMA OutInvariant ==
  ASSUME ~SendMayFail, OutputInKind(MayAnswer)
  PROVE  Spec => []OutInv
<1>1. Init => PhaseInv /\ OpenedInv /\ OutInv
  BY PlaceTypes DEF Init, WireInit, PhaseInv, OpenedInv, OutInv, InGroup
<1>2. /\ UnderWay /\ PhaseInv /\ [Next]_vars => PhaseInv'
      /\ UnderWay /\ PhaseInv /\ OpenedInv /\ OutInv /\ [Next]_vars => OutInv'
  BY PhaseStep, OutStep DEF OutputInKind
<1>3. QED BY <1>1, <1>2, OpenedStep, UnderWayInvariant, PTL DEF Spec

(* No emitted row is lost, repeated or reordered on its way through the      *)
(* buffer of its group, and MT_DONE leaves nothing behind (push_output_row,  *)
(* flush, tail_flush): for any row costs and any limit, as long as the       *)
(* database acknowledges what it was sent, or ends the session, and a send   *)
(* does not fail on a usable socket (a flush that fails drops its rows).     *)
THEOREM OutputArrives ==
  ASSUME ~SendMayFail, OutputInKind(MayAnswer)
  PROVE  Spec => []NoRowLost
<1>1. OutInv => NoRowLost
  BY PlaceTypes DEF OutInv, NoRowLost, InGroup
<1>2. QED BY <1>1, OutInvariant, PTL

(* A group the session goes on from is a group the database has acknowledged *)
(* whole.                                                                    *)
LEMMA GroupLeft ==
  ASSUME RefusesAfterEnd, UnderWay, OutInv, [Next]_vars, pc = "GroupDone", pc' = "GroupOpen"
  PROVE  delivered = accepted
<1> USE PlaceTypes
<1>1. StreamingStep
  BY OutsideGroup DEF UnderWay, InGroup, vars, runtimeVars
<1>2. GroupDoneReply
  BY <1>1 DEF StreamingStep, UdfStep, DispatchStep, GroupOpenReply, FirstBatchReply, RunOnce,
     FlushReply, NextReply, ImportReply, AdvanceReply, GroupEnd, TailFlushReply, UdfEmit,
     UdfSetReturn, UdfNext, UdfConnection, UdfConnectBackFails, UdfReturnsOk, UdfFails, ContextCall
<1>3. PICK e \in Events : Outcome(e) /\ e \notin EndEvents
  BY <1>2 DEF GroupDoneReply, EndsSession
<1>4. wire = "answered" /\ e # "Cleanup" /\ e # "Close"
  BY <1>3, ReceivedOutcome DEF EndEvents
<1>5. resp.type \notin Ends
  BY <1>3, <1>4, EndOutcome
<1>6. said = "none"
  BY <1>4, <1>5, AnsweredAsked
<1>7. QED BY <1>4, <1>6 DEF OutInv

(* A session that goes on to another group has delivered the output of the   *)
(* one before it, also when a flush failed or was answered with the end of   *)
(* the session and the UDF carried on (emit_flusher, EmitBuffer::flush): the *)
(* socket is unusable then, or the database refuses MT_DONE.                 *)
THEOREM GroupOutputArrives ==
  ASSUME RefusesAfterEnd, ~SendMayFail, OutputInKind(MayAnswer)
  PROVE  Spec => GroupOutputDelivered
<1>1. UnderWay /\ OutInv /\ [Next]_vars
        => [pc = "GroupDone" /\ pc' = "GroupOpen" => delivered = accepted]_vars
  BY GroupLeft
<1>2. QED BY <1>1, OutInvariant, UnderWayInvariant, PTL DEF Spec, GroupOutputDelivered

-----------------------------------------------------------------------------
(* Between the runs of a scalar RETURNS group what is accepted is what was   *)
(* presented; in a run the value of its row is still to come, or is in the   *)
(* flush, until set_return has been told it was accepted.                    *)
AcceptInv ==
  Scalar /\ Returns =>
    /\ pc \in InGroup \ {"InUdf", "Import", "Next", "Flush"} => accepted = visited
    /\ pc \in {"InUdf", "Import"} =>
         IF returned THEN accepted = visited ELSE visited = Append(accepted, CurrentRowNumber)
    /\ pc = "Flush" => returned /\ visited = Append(accepted, CurrentRowNumber)
    /\ pc = "Import" => ~returned

(* A step that moves no row and accepts none.                                *)
LEMMA AcceptFrame ==
  ASSUME AcceptInv, UNCHANGED <<shape, rows, cur, returned, visited, accepted>>,
         \/ pc' = pc
         \/ {pc, pc'} \subseteq InGroup \ {"InUdf", "Import", "Next", "Flush"}
         \/ {pc, pc'} \subseteq {"InUdf", "Import"} /\ (pc' = "Import" => ~returned)
  PROVE  AcceptInv'
  BY DEF AcceptInv, Scalar, Returns, CurrentRowNumber

(* A step that leaves the group, or takes it to where it accepted what was   *)
(* presented.                                                                *)
LEMMA AcceptBetween ==
  ASSUME pc' \notin InGroup \/ (pc' \notin {"InUdf", "Import", "Flush"} /\ accepted' = visited')
  PROVE  AcceptInv'
  BY PlaceTypes DEF AcceptInv, InGroup

(* The one value of a run.                                                   *)
LEMMA AcceptValue ==
  ASSUME AcceptInv, Scalar, Returns, NEW c \in RowCosts, UdfSetReturn(c)
  PROVE  AcceptInv'
<1>1. /\ pc = "InUdf" /\ UNCHANGED <<shape, rows, cur, visited>> /\ returned'
      /\ \/ pc' = "Flush" /\ accepted' = accepted
         \/ pc' = "InUdf" /\ accepted' = Append(accepted, CurrentRowNumber)
  BY DEF UdfSetReturn, PushOutputRow, inputVars
<1>2. visited = Append(accepted, CurrentRowNumber) /\ CurrentRowNumber' = CurrentRowNumber
  BY <1>1 DEF AcceptInv, UdfSetReturn, CurrentRowNumber
<1>3. QED BY <1>1, <1>2, PlaceTypes DEF AcceptInv, InGroup

(* Every step of the dispatcher keeps the invariant.                         *)
LEMMA AcceptStreaming ==
  ASSUME UnderWay, RunInv, AcceptInv, StreamingStep, Scalar, Returns
  PROVE  AcceptInv'
<1> USE PlaceTypes DEF InGroup, dispatchVars, inputVars, historyVars, outputVars
<1>1. CASE GroupOpenReply
  <2>1. pc' = "Hook" \/ (pc' = "FirstBatch" /\ accepted' = <<>> /\ visited' = <<>>)
    BY <1>1 DEF GroupOpenReply, EndsSession, OpenGroup
  <2>2. QED BY <2>1, AcceptBetween
<1>2. CASE FirstBatchReply \/ AdvanceReply \/ GroupEnd \/ TailFlushReply \/ GroupDoneReply
  <2>1. /\ pc \in InGroup \ {"InUdf", "Import", "Next", "Flush"}
        /\ \/ pc' \notin InGroup
           \/ pc' \in InGroup \ {"InUdf", "Import", "Next", "Flush"}
              /\ UNCHANGED <<visited, accepted>>
    BY <1>2 DEF FirstBatchReply, AdvanceReply, GroupEnd, TailFlushReply, GroupDoneReply, EndsSession
  <2>2. accepted = visited
    BY <2>1 DEF AcceptInv
  <2>3. QED BY <2>1, <2>2, AcceptBetween
<1>3. CASE RunOnce
  <2>1. cur \in DOMAIN rows /\ accepted = visited
    BY <1>3 DEF RunOnce, UnderWay, TypeInv, DataInv, CursorInv, AcceptInv
  <2>2. CurrentRowNumber' = rows[cur] /\ visited' = Append(accepted', rows[cur])
    BY <1>3, <2>1 DEF RunOnce, CurrentRowNumber
  <2>3. pc' = "InUdf" /\ ~returned'
    BY <1>3 DEF RunOnce
  <2>4. QED BY <2>2, <2>3 DEF AcceptInv
<1>4. CASE FlushReply
  <2>1. /\ pc = "Flush" /\ UNCHANGED <<shape, rows, cur, visited, returned>>
        /\ pc' = "Hook" \/ ~returned
             \/ (pc' = "InUdf" /\ accepted' = Append(accepted, buffer[Len(buffer)]))
    BY <1>4 DEF FlushReply, UdfSeesError
  <2>2. returned /\ visited = Append(accepted, buffer[Len(buffer)])
    BY <2>1 DEF AcceptInv, RunInv
  <2>3. pc' = "Hook" \/ (pc' = "InUdf" /\ accepted' = visited' /\ returned')
    BY <2>1, <2>2
  <2>4. QED BY <2>3 DEF AcceptInv
<1>5. ASSUME NEW c \in RowCosts, UdfEmit(c) \/ UdfSetReturn(c)
      PROVE  AcceptInv'
  BY <1>5, AcceptValue DEF UdfEmit
<1>6. CASE ImportReply \/ UdfConnection \/ UdfConnectBackFails \/ UdfFails
  <2>1. /\ UNCHANGED <<shape, rows, cur, visited, accepted, returned>>
        /\ pc \in {"InUdf", "Import"}
        /\ pc' \in {"Hook", "InUdf"} \/ (pc' = "Import" /\ ~returned)
    BY <1>6 DEF ImportReply, UdfConnection, UdfConnectBackFails, UdfFails, UdfSeesError, ContextCall
  <2>2. QED BY <2>1, AcceptFrame, AcceptBetween
<1>7. CASE UdfReturnsOk
  <2>1. /\ pc = "InUdf" /\ returned /\ UNCHANGED <<visited, accepted>>
        /\ pc' \in {"GroupEnd", "RunOnce", "Advance"}
    BY <1>7 DEF UdfReturnsOk
  <2>2. accepted = visited
    BY <2>1 DEF AcceptInv
  <2>3. QED BY <2>1, <2>2, AcceptBetween
<1>8. QED
  BY <1>1, <1>2, <1>3, <1>4, <1>5, <1>6, <1>7
     DEF StreamingStep, UdfStep, DispatchStep, UdfNext, NextReply, RunInv

(* Every step does.                                                          *)
LEMMA AcceptStep == UnderWay /\ RunInv /\ AcceptInv /\ [Next]_vars => AcceptInv'
<1> SUFFICES ASSUME UnderWay, RunInv, AcceptInv, [Next]_vars PROVE AcceptInv'
  OBVIOUS
<1> USE DEF dispatchVars, inputVars, historyVars
<1>1. CASE StreamingStep
  <2>1. shape' = shape
    BY <1>1, DispatchControlType DEF StreamingStep, UnderWay, TypeInv, ControlStepType
  <2>2. QED BY <1>1, <2>1, AcceptStreaming DEF AcceptInv, Scalar, Returns
<1>2. CASE UNCHANGED <<dispatchVars, shape, pc>>
  BY <1>2, AcceptFrame
<1>3. CASE pc' \notin InGroup
  BY <1>3, AcceptBetween
<1>4. CASE UNCHANGED vars
  BY <1>4, AcceptFrame DEF vars, runtimeVars
<1>5. QED BY <1>1, <1>2, <1>3, <1>4, OutsideGroup DEF UnderWay

-----------------------------------------------------------------------------
(* A scalar group whose rows are over came to their end on a usable socket.  *)
UsableInv == Scalar /\ pc \in {"GroupEnd", "TailFlush", "GroupDone"} => wire # "stuck"

(* What a scalar group that is done has delivered stays what was accepted,   *)
(* as long as the session has not ended.                                     *)
DoneInv == pc = "GroupDone" /\ said = "none" /\ Scalar => delivered = accepted

(* A scalar group reaches the end of its rows by an answer.                  *)
LEMMA UsableStreaming ==
  ASSUME UnderWay, RunInv, UsableInv, StreamingStep, Scalar,
         pc' \in {"GroupEnd", "TailFlush", "GroupDone"}
  PROVE  (pc' = "GroupDone" => pc \in {"GroupEnd", "TailFlush"}) /\ wire' # "stuck"
<1> USE PlaceTypes
<1>1. CASE FirstBatchReply \/ AdvanceReply
  <2>1. PICK e \in Events : Outcome(e) /\ pc' = "GroupEnd" /\ EndsInput(e)
    BY <1>1 DEF FirstBatchReply, AdvanceReply
  <2>2. QED BY <2>1, ReceivedOutcome DEF EndsInput
<1>2. CASE GroupEnd
  BY <1>2 DEF GroupEnd, UsableInv, wireVars
<1>3. CASE TailFlushReply
  <2>1. PICK e \in Events : Outcome(e) /\ e # "Error" /\ pc' = "GroupDone" /\ pc = "TailFlush"
    BY <1>3 DEF TailFlushReply
  <2>2. QED BY <2>1, ReceivedOutcome
<1>4. CASE GroupOpenReply \/ RunOnce \/ FlushReply \/ NextReply \/ ImportReply \/ GroupDoneReply
  BY <1>4 DEF GroupOpenReply, RunOnce, FlushReply, NextReply, ImportReply, GroupDoneReply,
     UdfSeesError, EndsSession
<1>5. CASE UdfStep
  BY <1>5 DEF UdfStep, UdfEmit, UdfSetReturn, UdfNext, UdfConnection, UdfConnectBackFails,
     UdfReturnsOk, UdfFails, ContextCall, PushOutputRow, UdfSeesError
<1>6. QED BY <1>1, <1>2, <1>3, <1>4, <1>5 DEF StreamingStep, DispatchStep

(* Every step keeps both.                                                    *)
LEMMA UsableStep == UnderWay /\ RunInv /\ UsableInv /\ [Next]_vars => UsableInv'
<1> SUFFICES ASSUME UnderWay, RunInv, UsableInv, [Next]_vars PROVE UsableInv'
  OBVIOUS
<1>1. CASE StreamingStep
  <2>1. shape' = shape
    BY <1>1, DispatchControlType DEF StreamingStep, UnderWay, TypeInv, ControlStepType
  <2>2. QED BY <1>1, <2>1, UsableStreaming DEF UsableInv, Scalar
<1>2. CASE SendRequest \/ EchoPing \/ DatabaseStep
  <2>1. wire' \in {"asked", "answered"}
    BY <1>2 DEF SendRequest, Send, EchoPing, PingReply, DatabaseStep, Answers, Answer
  <2>2. QED BY <2>1 DEF UsableInv
<1>3. CASE pc' \notin InGroup
  BY <1>3, PlaceTypes DEF UsableInv, InGroup
<1>4. CASE UNCHANGED vars
  BY <1>4 DEF vars, wireVars, runtimeVars, UsableInv, Scalar
<1>5. QED BY <1>1, <1>2, <1>3, <1>4, OutsideGroup DEF UnderWay

LEMMA DoneStep ==
  ASSUME OpensInKind(MayAnswer), UnderWay, RunInv, UsableInv, OutInv', DoneInv, [Next]_vars
  PROVE  DoneInv'
<1> SUFFICES ASSUME pc' = "GroupDone", said' = "none", Scalar'
             PROVE  delivered' = accepted'
  BY DEF DoneInv
<1> USE DEF dispatchVars, historyVars
<1>1. CASE StreamingStep
  <2>1. shape' = shape /\ UNCHANGED dbVars
    BY <1>1, DispatchControlType DEF StreamingStep, UnderWay, TypeInv, ControlStepType
  <2>2. Scalar /\ pc \in {"GroupEnd", "TailFlush"} /\ wire' # "stuck"
    BY <1>1, <2>1, UsableStreaming DEF Scalar
  <2>3. QED BY <2>2 DEF OutInv
<1>2. CASE UNCHANGED <<dispatchVars, shape, pc, dbVars>>
  BY <1>2 DEF DoneInv, Scalar, dbVars
<1>3. CASE UNCHANGED <<dispatchVars, shape, pc>> /\ DatabaseStep
  <2>1. PICK r \in Responses : Answer(r) /\ wire = "asked"
    BY <1>3 DEF DatabaseStep, Answers
  <2>2. req.type = "MT_DONE"
    BY <1>3, <2>1, RequestKinds, PlaceTypes DEF UnderWay, TypeInv, RequestInv, Asks
  <2>3. ~Opens(r)
    BY <2>1, <2>2, AnswerFits DEF Opens, OpensInKind, AnswersOnly, UnderWay, RequestTypes
  <2>4. delivered' = delivered /\ said = "none"
    BY <2>1, <2>2, <2>3 DEF Answer
  <2>5. QED BY <1>3, <2>4 DEF DoneInv, Scalar
<1>4. CASE UNCHANGED vars
  BY <1>4 DEF vars, dbVars, runtimeVars, DoneInv, Scalar
<1>5. QED BY <1>1, <1>2, <1>3, <1>4, OutsideGroup, PlaceTypes DEF UnderWay, InGroup

(* A scalar RETURNS group that reaches MT_DONE has delivered one value per   *)
(* input row, under that row's number and in order, across every batch,      *)
(* lookup and flush (drive_group_rows, set_return, tail_flush): for any      *)
(* number of rows in any batches, any row costs and any limit, and wherever  *)
(* the database may end the session.  Premises are those of the theorems     *)
(* above.                                                                    *)
THEOREM OneValueEachRow ==
  ASSUME RefusesAfterEnd, ~SendMayFail, RowsInKind(MayAnswer, Bodies), OutputInKind(MayAnswer)
  PROVE  Spec => []OneValuePerRow
<1>1. Init => OutInv /\ AcceptInv /\ UsableInv /\ DoneInv
  BY PlaceTypes DEF Init, WireInit, OutInv, AcceptInv, UsableInv, DoneInv, InGroup
<1>2. /\ RowInv /\ OutInv /\ [Next]_vars => OutInv'
      /\ RowInv /\ RunInv /\ AcceptInv /\ [Next]_vars => AcceptInv'
      /\ RowInv /\ RunInv /\ UsableInv /\ [Next]_vars => UsableInv'
      /\ RowInv /\ RunInv /\ UsableInv /\ OutInv' /\ DoneInv /\ [Next]_vars => DoneInv'
  BY OutStep, AcceptStep, UsableStep, DoneStep DEF RowInv, RowsInKind
<1>3. RowInv /\ AcceptInv /\ DoneInv => OneValuePerRow
  <2> SUFFICES ASSUME RowInv, AcceptInv, DoneInv,
                      pc = "GroupDone", said = "none", Scalar, Returns
               PROVE  delivered = [i \in 1..handed |-> i]
    BY DEF OneValuePerRow
  <2>1. pc \in InGroup \ {"InUdf", "Import", "Next", "Flush", "FirstBatch", "Advance"}
    BY PlaceTypes DEF InGroup
  <2>2. delivered = visited
    BY <2>1 DEF AcceptInv, DoneInv
  <2>3. InOrder(visited) /\ Len(visited) = handed
    BY <2>1, FetchedBetween DEF RowInv, VisitInv, ScalarRows
  <2>4. visited \in Seq(Nat)
    BY RowTypes DEF RowInv
  <2>5. QED BY <2>2, <2>3, <2>4 DEF InOrder
<1>4. QED
  BY <1>1, <1>2, <1>3, RowInvariant, RunInvariant, PTL DEF Spec

-----------------------------------------------------------------------------
(***************************************************************************)
(* The mock engine as the database of a session.  First its input: encode  *)
(* cuts the rows of each cycle into frames that follow each other, and     *)
(* FlattenSeq puts the frames kept for the sink together (both folds are   *)
(* taken one element at a time, by the least place where the claim fails). *)
(* Then its control: each of its answers is one of Database's.  Last what  *)
(* its sink has got.                                                       *)
(***************************************************************************)

(* A set of numbers has a least one, which stands for an induction below.    *)
LEMMA LeastNumber ==
  ASSUME NEW S \in SUBSET Nat, S # {}
  PROVE  \E n \in S : \A m \in S : n <= m
<1>1. PICK n \in S : \A m \in S : <<m, n>> \notin OpToRel(<, Nat)
  BY NatLessThanWellFounded, WFMin, Zenon
<1>2. \A m \in S : ~(m < n)
  BY <1>1 DEF OpToRel
<1>3. QED BY <1>2

-----------------------------------------------------------------------------
(* The rows of a cycle.                                                      *)

\* What division by a positive number rounds down to.
LEMMA Quotient ==
  ASSUME NEW a \in Nat, NEW d \in Nat \ {0}
  PROVE  /\ a \div d \in Nat
         /\ d * (a \div d) <= a /\ a < d * ((a \div d) + 1)
  OBVIOUS

(* Rounded quotients are in the order of what is divided.                    *)
LEMMA DivisionGrows ==
  ASSUME NEW a \in Nat, NEW b \in Nat, a <= b, NEW d \in Nat \ {0}
  PROVE  a \div d <= b \div d
<1> DEFINE q == a \div d
           p == b \div d
<1>1. q \in Nat /\ p \in Nat /\ d * q <= a /\ b < d * (p + 1)
  BY Quotient
<1> HIDE DEF q, p
<1>2. d * q < d * (p + 1)
  BY <1>1
<1>3. q < p + 1
  BY <1>1, <1>2
<1>4. QED BY <1>1, <1>3 DEF q, p

(* The rows of cycle c.                                                      *)
Size(c) == FirstRow(c + 1) - FirstRow(c)

\* The cycles cut the input into runs of rows that follow each other.
LEMMA CycleRows ==
  /\ FirstRow(0) = 0 /\ FirstRow(Cycles) = InputRows
  /\ \A c \in 0..Cycles : FirstRow(c) \in 0..InputRows
  /\ \A c \in 0..(Cycles - 1) : Size(c) \in Nat /\ FirstRow(c + 1) = FirstRow(c) + Size(c)
<1>1. InputRows \in Nat /\ Cycles \in Nat /\ Encoded \in Nat \ {0} /\ Encoded <= Cycles
  BY MockAssumption
<1>2. ASSUME NEW c \in Nat, NEW d \in Nat, c <= d
      PROVE  InputRows * c \in Nat /\ InputRows * d \in Nat /\ InputRows * c <= InputRows * d
  <2>1. PICK k \in Nat : d = c + k
    BY <1>2, d - c \in Nat /\ d = c + (d - c)
  <2>2. InputRows * d = InputRows * c + InputRows * k /\ InputRows * k \in Nat
    BY <1>1, <2>1
  <2>3. QED BY <1>1, <2>2
<1>3. FirstRow(0) = 0
  BY <1>1 DEF FirstRow
<1>4. FirstRow(Cycles) = InputRows
  BY <1>1 DEF FirstRow
<1>5. ASSUME NEW c \in Nat PROVE FirstRow(c) \in 0..InputRows
  <2>1. CASE c < Encoded
    <3>1. (InputRows * c) \div Encoded <= (InputRows * Encoded) \div Encoded
          /\ (InputRows * c) \div Encoded \in Nat
      BY <1>1, <1>2, <2>1, DivisionGrows, Quotient
    <3>2. (InputRows * Encoded) \div Encoded = InputRows
      BY <1>1, Quotient
    <3>3. QED BY <1>1, <2>1, <3>1, <3>2 DEF FirstRow
  <2>2. QED BY <1>1, <2>1 DEF FirstRow
<1>6. ASSUME NEW c \in Nat PROVE FirstRow(c) <= FirstRow(c + 1)
  <2>1. CASE c + 1 < Encoded
    <3>1. (InputRows * c) \div Encoded <= (InputRows * (c + 1)) \div Encoded
      BY <1>1, <1>2, DivisionGrows
    <3>2. c < Encoded
      BY <1>1, <2>1
    <3>3. QED BY <2>1, <3>1, <3>2 DEF FirstRow
  <2>2. CASE ~(c + 1 < Encoded)
    BY <1>1, <1>5, <2>2 DEF FirstRow
  <2>3. QED BY <2>1, <2>2
<1>7. QED
  BY <1>1, <1>3, <1>4, <1>5, <1>6 DEF Size

-----------------------------------------------------------------------------
(* Flattening.                                                               *)

\* h is FlattenSeq's recursion over the first n sequences.
Flattens(h, n, seqs) ==
  h = [i \in 1..n |-> IF i = 1 THEN seqs[i] ELSE h[i - 1] \o seqs[i]]

(* There is one of every length: take away the last sequence.                *)
LEMMA FlatteningExists == ASSUME NEW seqs, NEW k \in Nat PROVE \E h : Flattens(h, k, seqs)
<1> DEFINE Missing == {n \in Nat : ~\E h : Flattens(h, n, seqs)}
<1>1. SUFFICES ASSUME Missing # {}
               PROVE  FALSE
  OBVIOUS
<1>2. PICK n \in Missing : \A m \in Missing : n <= m
  <2>1. Missing \in SUBSET Nat
    OBVIOUS
  <2>2. QED BY <1>1, <2>1, LeastNumber, Zenon
<1>3. n # 0
  <2>1. Flattens([i \in 1..0 |-> <<>>], 0, seqs)
    BY DEF Flattens
  <2>2. QED BY <1>2, <2>1
<1>4. PICK h : Flattens(h, n - 1, seqs)
  <2>1. n \in Nat /\ n - 1 \in Nat /\ ~(n <= n - 1)
    BY <1>2, <1>3
  <2>2. n - 1 \notin Missing
    BY <1>2, <2>1, Zenon
  <2>3. QED BY <2>1, <2>2, Zenon
<1> DEFINE g == [i \in 1..n |-> IF i < n THEN h[i]
                                ELSE IF n = 1 THEN seqs[n] ELSE h[n - 1] \o seqs[n]]
<1>5. \A i \in 1..n : g[i] = IF i = 1 THEN seqs[i] ELSE g[i - 1] \o seqs[i]
  <2> TAKE i \in 1..n
  <2>1. CASE i < n
    <3>1. i \in 1..(n - 1) /\ g[i] = h[i] /\ (i # 1 => i - 1 \in 1..n /\ i - 1 < n)
      BY <1>2, <2>1
    <3>2. i # 1 => g[i - 1] = h[i - 1]
      BY <3>1
    <3>3. h[i] = IF i = 1 THEN seqs[i] ELSE h[i - 1] \o seqs[i]
      BY <1>4, <3>1, Zenon DEF Flattens
    <3>4. QED BY <3>1, <3>2, <3>3, Zenon
  <2>2. CASE i = n
    BY <1>2, <1>3, <2>2
  <2>3. QED BY <1>2, <2>1, <2>2
<1>6. Flattens(g, n, seqs)
  BY <1>5, Zenon DEF Flattens
<1>7. QED BY <1>2, <1>6

(* The recursion at one place.                                               *)
LEMMA FlattensStep ==
  ASSUME NEW n, NEW seqs, NEW h, Flattens(h, n, seqs)
  PROVE  \A i \in 1..n : h[i] = IF i = 1 THEN seqs[i] ELSE h[i - 1] \o seqs[i]
  BY Zenon DEF Flattens

(* s and t agree in their first n places.                                    *)
SameUpTo(n, s, t) == \A i \in 1..n : s[i] = t[i]

\* Two sequences with the same beginning flatten alike up to there.
LEMMA FlattensAlike ==
  ASSUME NEW n \in Nat, NEW k \in Nat, n <= k, NEW s, NEW t, SameUpTo(n, s, t),
         NEW h, Flattens(h, n, s), NEW g, Flattens(g, k, t)
  PROVE  SameUpTo(n, h, g)
<1> DEFINE Differ == {i \in 1..n : h[i] # g[i]}
<1>1. SUFFICES ASSUME Differ # {}
               PROVE  FALSE
  BY DEF SameUpTo
<1>2. PICK i \in Differ : \A j \in Differ : i <= j
  <2>1. Differ \in SUBSET Nat
    OBVIOUS
  <2>2. QED BY <1>1, <2>1, LeastNumber, Zenon
<1>3. i \in 1..n /\ i \in 1..k /\ s[i] = t[i] /\ h[i] # g[i]
  BY <1>2 DEF SameUpTo
<1>4. /\ h[i] = IF i = 1 THEN s[i] ELSE h[i - 1] \o s[i]
      /\ g[i] = IF i = 1 THEN t[i] ELSE g[i - 1] \o t[i]
  <2>1. /\ \A x \in 1..n : h[x] = IF x = 1 THEN s[x] ELSE h[x - 1] \o s[x]
        /\ \A x \in 1..k : g[x] = IF x = 1 THEN t[x] ELSE g[x - 1] \o t[x]
    BY FlattensStep
  <2>2. QED BY <1>3, <2>1
<1>5. i # 1 => i - 1 \in 1..n /\ i - 1 \notin Differ
  BY <1>2, <1>3
<1>6. i # 1 => h[i - 1] = g[i - 1]
  BY <1>5
<1>7. QED BY <1>3, <1>4, <1>6, Zenon

\* What FlattenSeq returns is one of those recursions.
LEMMA Flattened ==
  ASSUME NEW seqs, Len(seqs) \in Nat
  PROVE  /\ Len(seqs) = 0 => FlattenSeq(seqs) = seqs
         /\ Len(seqs) # 0 => \E h : Flattens(h, Len(seqs), seqs) /\ FlattenSeq(seqs) = h[Len(seqs)]
<1> DEFINE h == CHOOSE h : Flattens(h, Len(seqs), seqs)
<1>1. Flattens(h, Len(seqs), seqs)
  BY FlatteningExists, Zenon
<1>2. Len(seqs) # 0 => FlattenSeq(seqs) = h[Len(seqs)]
  BY Zenon DEF FlattenSeq, Flattens
<1>3. Len(seqs) = 0 => FlattenSeq(seqs) = seqs
  BY DEF FlattenSeq
<1> HIDE DEF h
<1>4. QED BY <1>1, <1>2, <1>3

\* The sequence appended last comes last.
LEMMA FlattenAppend ==
  ASSUME NEW S, NEW seqs \in Seq(Seq(S)), NEW s \in Seq(S)
  PROVE  /\ FlattenSeq(<<>>) = <<>>
         /\ FlattenSeq(seqs) \in Seq(S) => FlattenSeq(Append(seqs, s)) = FlattenSeq(seqs) \o s
<1> DEFINE n    == Len(seqs)
           more == Append(seqs, s)
<1>1. /\ n \in Nat /\ Len(more) = n + 1 /\ more[n + 1] = s
      /\ \A i \in 1..n : seqs[i] = more[i]
      /\ n = 0 => seqs = <<>>
  OBVIOUS
<1>2. FlattenSeq(<<>>) = <<>>
  BY Flattened
<1> HIDE DEF n, more
<1>3. PICK g : Flattens(g, n + 1, more) /\ FlattenSeq(more) = g[n + 1]
  BY <1>1, Flattened
<1>4. g[n + 1] = IF n = 0 THEN s ELSE g[n] \o s
  <2>1. n + 1 \in 1..(n + 1) /\ n + 1 - 1 = n /\ (n + 1 = 1 <=> n = 0)
    BY <1>1
  <2>2. \A i \in 1..(n + 1) : g[i] = IF i = 1 THEN more[i] ELSE g[i - 1] \o more[i]
    BY <1>3, FlattensStep
  <2>3. ASSUME NEW i \in 1..(n + 1), i = n + 1
        PROVE  g[i] = IF i = 1 THEN more[i] ELSE g[i - 1] \o more[i]
    BY <2>2
  <2>4. ASSUME NEW i \in 1..(n + 1), i = n + 1
        PROVE  g[i] = IF n = 0 THEN s ELSE g[n] \o s
    <3>1. more[i] = s /\ i - 1 = n /\ (i = 1 <=> n = 0)
      BY <1>1, <2>4
    <3>2. QED BY <2>3, <2>4, <3>1, Zenon
  <2>5. QED BY <2>1, <2>4
<1>5. CASE n = 0
  <2>1. FlattenSeq(more) = s /\ FlattenSeq(seqs) = <<>>
    <3>1. g[n + 1] = s /\ seqs = <<>>
      BY <1>1, <1>4, <1>5, Zenon
    <3>2. QED BY <1>2, <1>3, <3>1, Zenon
  <2>2. QED BY <1>2, <2>1, ConcatEmptySeq, Zenon DEF more
<1>6. CASE n # 0
  <2>1. PICK h : Flattens(h, n, seqs) /\ FlattenSeq(seqs) = h[n]
    BY <1>1, <1>6, Flattened DEF n
  <2>2. h[n] = g[n]
    <3>1. SameUpTo(n, h, g)
      <4>1. n + 1 \in Nat /\ n <= n + 1 /\ SameUpTo(n, seqs, more)
        BY <1>1 DEF SameUpTo
      <4>2. QED BY <1>1, <1>3, <2>1, <4>1, FlattensAlike, Zenon
    <3>2. n \in 1..n
      BY <1>1, <1>6
    <3>3. QED BY <3>1, <3>2 DEF SameUpTo
  <2>3. g[n + 1] = g[n] \o s
    BY <1>4, <1>6
  <2>4. QED BY <1>2, <1>3, <2>1, <2>2, <2>3, Zenon DEF more
<1>7. QED BY <1>5, <1>6

-----------------------------------------------------------------------------
(* Frames.                                                                   *)

\* n row numbers, from the first one on.
Numbers(first, n) == [j \in 1..n |-> first + j - 1]

(* How many they are, and the next one behind them.                          *)
LEMMA NumbersType ==
  ASSUME NEW first \in Nat, NEW n \in Nat
  PROVE  /\ Numbers(first, n) \in Seq(Nat) /\ Len(Numbers(first, n)) = n
         /\ Append(Numbers(first, n), first + n) = Numbers(first, n + 1)
         /\ Numbers(first, n) = <<>> <=> n = 0
<1>1. Numbers(first, n) \in Seq(Nat) /\ Len(Numbers(first, n)) = n
  BY DEF Numbers
<1>2. Numbers(first, n + 1) \in Seq(Nat) /\ Len(Numbers(first, n + 1)) = n + 1
  BY DEF Numbers
<1>3. Append(Numbers(first, n), first + n) = Numbers(first, n + 1)
  <2> DEFINE s == Append(Numbers(first, n), first + n)
  <2>1. s \in Seq(Nat) /\ Len(s) = n + 1
    BY <1>1
  <2>2. \A i \in 1..(n + 1) : s[i] = Numbers(first, n + 1)[i]
    <3> TAKE i \in 1..(n + 1)
    <3>1. s[i] = IF i <= n THEN Numbers(first, n)[i] ELSE first + n
      BY <1>1
    <3>2. QED BY <3>1 DEF Numbers
  <2> HIDE DEF s
  <2>3. QED BY <1>2, <2>1, <2>2 DEF s
<1>4. QED BY <1>1, <1>3

\* full cuts the total rows from first on into frames, frame k ending at row off[k].
Cut(full, first, total, off) ==
  /\ off \in [0..Len(full) -> 0..total]
  /\ off[0] = 0 /\ off[Len(full)] = total
  /\ \A k \in 1..Len(full) :
       off[k - 1] <= off[k] /\ full[k] = Numbers(first + off[k - 1], off[k] - off[k - 1])

\* One more frame.
LEMMA CutAppend ==
  ASSUME NEW full \in Seq(Seq(Nat)), NEW first \in Nat, NEW cut \in Nat, NEW total \in Nat,
         cut <= total, NEW off, Cut(full, first, cut, off)
  PROVE  \E o : Cut(Append(full, Numbers(first + cut, total - cut)), first, total, o)
<1> DEFINE n     == Len(full)
           frame == Numbers(first + cut, total - cut)
           more  == Append(full, frame)
           o     == [k \in 0..(n + 1) |-> IF k <= n THEN off[k] ELSE total]
<1>1. frame \in Seq(Nat) /\ n \in Nat
  <2>1. first + cut \in Nat /\ total - cut \in Nat
    OBVIOUS
  <2>2. n \in Nat
    OBVIOUS
  <2>3. Numbers(first + cut, total - cut) \in Seq(Nat)
    BY <2>1, NumbersType, Zenon
  <2>4. QED BY <2>2, <2>3
<1>2. Len(more) = n + 1 /\ more[n + 1] = frame /\ \A k \in 1..n : more[k] = full[k]
  <2> HIDE DEF frame
  <2>1. QED BY <1>1, AppendProperties
<1>3. \A k \in 0..n : off[k] \in 0..cut
  BY DEF Cut
<1>4. o \in [0..(n + 1) -> 0..total] /\ o[0] = 0 /\ o[n + 1] = total
  <2>1. off[0] = 0 /\ o[0] = off[0] /\ o[n + 1] = total
    BY <1>1 DEF Cut
  <2>2. \A k \in 0..(n + 1) : o[k] \in 0..total
    BY <1>1, <1>3
  <2> HIDE DEF n
  <2>3. QED BY <2>1, <2>2
<1>5. ASSUME NEW k \in 1..(n + 1)
      PROVE  o[k - 1] <= o[k] /\ more[k] = Numbers(first + o[k - 1], o[k] - o[k - 1])
  <2>1. CASE k \in 1..n
    <3>1. o[k - 1] = off[k - 1] /\ o[k] = off[k]
      BY <1>1, <2>1
    <3>2. off[k - 1] <= off[k] /\ full[k] = Numbers(first + off[k - 1], off[k] - off[k - 1])
      BY <2>1 DEF Cut
    <3>3. QED BY <1>2, <2>1, <3>1, <3>2
  <2>2. CASE k = n + 1
    <3>1. o[k - 1] = cut /\ o[k] = total
      BY <1>1, <2>2 DEF Cut
    <3>2. QED BY <1>2, <2>2, <3>1
  <2>3. QED BY <1>1, <2>1, <2>2
<1> HIDE DEF o, more, frame
<1>6. Cut(more, first, total, o)
  BY <1>2, <1>4, <1>5 DEF Cut
<1>7. QED BY <1>6 DEF more, frame

\* What encode has after m rows: full frames, and the rows behind them.
Framed(frames, first, m) ==
  /\ frames.full \in Seq(Seq(Nat)) /\ frames.bytes \in Nat
  /\ \E cut \in 0..m : \E off :
       Cut(frames.full, first, cut, off) /\ frames.table = Numbers(first + cut, m - cut)

(* What encode begins a cycle with.                                          *)
NoFrames == [full |-> <<>>, table |-> <<>>, bytes |-> 0]

(* Before the first row.                                                     *)
LEMMA FramedNone == ASSUME NEW first \in Nat PROVE Framed(NoFrames, first, 0)
<1>1. Cut(<<>>, first, 0, [k \in 0..0 |-> 0])
  BY DEF Cut
<1>2. Numbers(first + 0, 0 - 0) = <<>>
  BY NumbersType
<1>3. QED BY <1>1, <1>2 DEF Framed, NoFrames

(* PutRow keeps them framed, whether the row fills its frame or not.         *)
LEMMA FramedStep ==
  ASSUME NEW first \in Nat, NEW m \in Nat, NEW frames, Framed(frames, first, m),
         first + m \in 0..(InputRows - 1)
  PROVE  Framed(PutRow(frames, first + m), first, m + 1)
<1>1. PICK cut \in 0..m : \E off :
        Cut(frames.full, first, cut, off) /\ frames.table = Numbers(first + cut, m - cut)
  BY DEF Framed
<1>2. PICK off : Cut(frames.full, first, cut, off) /\ frames.table = Numbers(first + cut, m - cut)
  BY <1>1
<1>3. /\ frames.full \in Seq(Seq(Nat)) /\ frames.bytes \in Nat /\ RowBytes[first + m] \in Nat
      /\ cut \in Nat /\ m - cut \in Nat /\ m + 1 \in Nat /\ (m + 1) - cut \in Nat
      /\ first + cut + (m - cut) = first + m /\ (m - cut) + 1 = (m + 1) - cut
      /\ first + cut \in Nat /\ cut <= m + 1 /\ cut \in 0..(m + 1)
  BY MockAssumption DEF Framed
<1> DEFINE table == Append(frames.table, first + m)
           put   == PutRow(frames, first + m)
           Has(f, c, o) == Cut(f.full, first, c, o) /\ f.table = Numbers(first + c, (m + 1) - c)
<1>0. ASSUME NEW f, NEW c \in 0..(m + 1), NEW o, Has(f, c, o),
             f.full \in Seq(Seq(Nat)), f.bytes \in Nat
      PROVE  Framed(f, first, m + 1)
  BY <1>0 DEF Framed
<1> HIDE DEF Has
<1>4. table = Numbers(first + cut, (m + 1) - cut) /\ table \in Seq(Nat)
  <2>1. Append(Numbers(first + cut, m - cut), first + cut + (m - cut))
          = Numbers(first + cut, (m - cut) + 1)
    BY <1>3, NumbersType
  <2>2. table = Numbers(first + cut, (m + 1) - cut)
    BY <1>2, <1>3, <2>1
  <2> HIDE DEF table
  <2>3. QED BY <1>3, <2>2, NumbersType
<1>5. CASE frames.bytes + RowBytes[first + m] > FrameLimit
  <2>1. put = [full |-> Append(frames.full, table), table |-> <<>>, bytes |-> 0]
    BY <1>5 DEF PutRow
  <2> HIDE DEF table, put
  <2>2. PICK o : Cut(Append(frames.full, table), first, m + 1, o)
    <3>1. table = Numbers(first + cut, (m + 1) - cut)
      BY <1>4
    <3>2. \E o : Cut(Append(frames.full, Numbers(first + cut, (m + 1) - cut)), first, m + 1, o)
      <4>1. ASSUME NEW total \in Nat, cut <= total
            PROVE  \E o : Cut(Append(frames.full, Numbers(first + cut, total - cut)),
                             first, total, o)
        BY <1>2, <1>3, <4>1, CutAppend
      <4>2. QED BY <1>3, <4>1, Zenon
    <3>3. QED BY <3>1, <3>2
  <2>3. Append(frames.full, table) \in Seq(Seq(Nat))
    BY <1>3, <1>4
  <2>4. Numbers(first + (m + 1), (m + 1) - (m + 1)) = <<>>
    BY <1>3, NumbersType
  <2>5. put.full = Append(frames.full, table) /\ put.table = <<>> /\ put.bytes = 0
    BY <2>1
  <2>6. m + 1 \in 0..(m + 1)
    BY <1>3
  <2>7. Has(put, m + 1, o)
    BY <2>2, <2>4, <2>5 DEF Has
  <2>8. Framed(put, first, m + 1)
    <3>1. put.full \in Seq(Seq(Nat)) /\ put.bytes \in Nat
      BY <2>3, <2>5
    <3>2. QED BY <1>0, <2>6, <2>7, <3>1, Zenon
  <2>9. QED BY <2>8 DEF put
<1>6. CASE ~(frames.bytes + RowBytes[first + m] > FrameLimit)
  <2>1. put = [full |-> frames.full, table |-> table, bytes |-> frames.bytes + RowBytes[first + m]]
    BY <1>6 DEF PutRow
  <2> HIDE DEF table, put
  <2>2. put.full = frames.full /\ put.table = table /\ put.bytes \in Nat
    BY <1>3, <2>1
  <2>3. Has(put, cut, off)
    BY <1>2, <1>4, <2>2 DEF Has
  <2>4. put.full \in Seq(Seq(Nat))
    BY <1>3, <2>2
  <2>5. Framed(put, first, m + 1)
    BY <1>0, <1>3, <2>2, <2>3, <2>4
  <2>6. QED BY <2>5 DEF put
<1>7. QED BY <1>5, <1>6

(* The largest of numbers that go up to n.                                   *)
LEMMA MaxOfUpTo == ASSUME NEW n \in Nat, NEW s \in SUBSET (1..n), n \in s PROVE Max(s) = n
<1> DEFINE Top(x) == \A y \in s : x >= y
<1>1. n \in s /\ Top(n)
  OBVIOUS
<1>2. \A x \in s : Top(x) => x = n
  OBVIOUS
<1> HIDE DEF Top
<1>3. (CHOOSE x \in s : Top(x)) \in s /\ Top(CHOOSE x \in s : Top(x))
  BY <1>1
<1>4. Max(s) = CHOOSE x \in s : Top(x)
  BY Zenon DEF Max, Top
<1>5. QED BY <1>2, <1>3, <1>4

\* g puts the rows into frames, the last one last, as FoldLeft takes them.
Puts(g, n, row) ==
  g = [s \in SUBSET (1..n) |-> IF s = {} THEN NoFrames
                               ELSE PutRow(g[s \ {Max(s)}], row[Max(s)])]

(* There is such a g for every number of rows.                               *)
LEMMA PutsExist == ASSUME NEW row, NEW k \in Nat PROVE \E g : Puts(g, k, row)
<1> DEFINE Missing == {n \in Nat : ~\E g : Puts(g, n, row)}
<1>1. SUFFICES ASSUME Missing # {}
               PROVE  FALSE
  OBVIOUS
<1>2. PICK n \in Missing : \A m \in Missing : n <= m
  <2>1. Missing \in SUBSET Nat
    OBVIOUS
  <2>2. QED BY <1>1, <2>1, LeastNumber, Zenon
<1>3. n # 0
  <2>1. Puts([s \in SUBSET (1..0) |-> NoFrames], 0, row)
    <3>1. \A s \in SUBSET (1..0) : s = {}
      OBVIOUS
    <3>2. QED BY <3>1, Zenon DEF Puts
  <2>2. QED BY <1>2, <2>1
<1>4. PICK g : Puts(g, n - 1, row)
  <2>1. n \in Nat /\ n - 1 \in Nat /\ ~(n <= n - 1)
    BY <1>2, <1>3
  <2>2. n - 1 \notin Missing
    BY <1>2, <2>1, Zenon
  <2>3. QED BY <2>1, <2>2, Zenon
<1> DEFINE h == [s \in SUBSET (1..n) |-> IF n \in s THEN PutRow(g[s \ {n}], row[n]) ELSE g[s]]
<1>5. n \in Nat \ {0}
  BY <1>2, <1>3
<1>6. ASSUME NEW s \in SUBSET (1..n)
      PROVE  h[s] = IF s = {} THEN NoFrames ELSE PutRow(h[s \ {Max(s)}], row[Max(s)])
  <2>1. CASE n \in s
    <3>1. Max(s) = n
      BY <1>5, <2>1, MaxOfUpTo
    <3>2. s \ {n} \in SUBSET (1..n) /\ n \notin s \ {n}
      OBVIOUS
    <3>3. h[s \ {n}] = g[s \ {n}]
      BY <3>2, Zenon
    <3>4. QED BY <2>1, <3>1, <3>3, Zenon
  <2>2. CASE n \notin s
    <3>1. s \in SUBSET (1..(n - 1))
      BY <1>5, <2>2
    <3>2. s \ {Max(s)} \in SUBSET (1..n) /\ n \notin s \ {Max(s)}
      BY <2>2
    <3>3. h[s \ {Max(s)}] = g[s \ {Max(s)}] /\ h[s] = g[s]
      BY <2>2, <3>2, Zenon
    <3>4. g[s] = IF s = {} THEN NoFrames ELSE PutRow(g[s \ {Max(s)}], row[Max(s)])
      BY <1>4, <3>1, Zenon DEF Puts
    <3>5. QED BY <3>3, <3>4, Zenon
  <2>3. QED BY <2>1, <2>2
<1>7. Puts(h, n, row)
  <2>1. h = [s \in SUBSET (1..n) |-> IF s = {} THEN NoFrames
                                     ELSE PutRow(h[s \ {Max(s)}], row[Max(s)])]
    BY <1>6, Zenon
  <2> HIDE DEF h
  <2>2. QED BY <2>1, Zenon DEF Puts
<1>8. QED BY <1>2, <1>7

\* What the rows of a cycle have been put into.
LEMMA PutsFramed ==
  ASSUME NEW first \in Nat, NEW n \in Nat, first + n <= InputRows,
         NEW g, Puts(g, n, Numbers(first, n))
  PROVE  Framed(g[1..n], first, n)
<1> DEFINE row == Numbers(first, n)
<1>0. \A s \in SUBSET (1..n) :
        g[s] = IF s = {} THEN NoFrames ELSE PutRow(g[s \ {Max(s)}], row[Max(s)])
  BY Zenon DEF Puts
<1>1. g[1..0] = NoFrames
  <2>1. 1..0 = {} /\ 1..0 \in SUBSET (1..n)
    OBVIOUS
  <2>2. QED BY <1>0, <2>1
<1>2. ASSUME NEW m \in 1..n PROVE g[1..m] = PutRow(g[1..(m - 1)], first + (m - 1))
  <2>1. 1..m \in SUBSET (1..n) /\ 1..m # {} /\ m \in 1..m /\ m \in Nat
    OBVIOUS
  <2>2. Max(1..m) = m
    BY <2>1, MaxOfUpTo
  <2>3. (1..m) \ {m} = 1..(m - 1)
    <3>1. \A x : x \in (1..m) \ {m} <=> x \in 1..(m - 1)
      BY <2>1
    <3>2. QED BY <3>1
  <2>4. row[m] = first + (m - 1)
    BY DEF Numbers
  <2> HIDE DEF row
  <2>5. QED BY <1>0, <2>1, <2>2, <2>3, <2>4
<1> HIDE DEF row
<1> DEFINE Bad == {m \in 0..n : ~Framed(g[1..m], first, m)}
<1>3. Bad = {}
  <2>1. SUFFICES ASSUME Bad # {}
                 PROVE  FALSE
    OBVIOUS
  <2>2. PICK m \in Bad : \A k \in Bad : m <= k
    <3>1. Bad \in SUBSET Nat
      OBVIOUS
    <3>2. QED BY <2>1, <3>1, LeastNumber, Zenon
  <2>3. m \in 0..n /\ ~Framed(g[1..m], first, m)
    BY <2>2
  <2>4. m # 0
    BY <1>1, <2>3, FramedNone
  <2>5. m \in 1..n /\ m - 1 \in Nat /\ m - 1 \in 0..n /\ ~(m <= m - 1) /\ (m - 1) + 1 = m
        /\ first + (m - 1) \in 0..(InputRows - 1)
    BY <2>3, <2>4, MockAssumption
  <2>6. m - 1 \notin Bad
    BY <2>2, <2>5, Zenon
  <2>7. Framed(g[1..(m - 1)], first, m - 1)
    BY <2>5, <2>6
  <2>8. Framed(PutRow(g[1..(m - 1)], first + (m - 1)), first, (m - 1) + 1)
    BY <2>5, <2>7, FramedStep
  <2>9. QED BY <1>2, <2>3, <2>5, <2>8
<1>4. n \in 0..n /\ n \notin Bad
  BY <1>3
<1>5. QED BY <1>4

(* The loop of encode over the rows of a cycle leaves them framed.           *)
LEMMA FoldFramed ==
  ASSUME NEW first \in Nat, NEW n \in Nat, first + n <= InputRows
  PROVE  Framed(FoldLeft(PutRow, NoFrames, Numbers(first, n)), first, n)
<1> DEFINE row == Numbers(first, n)
           P(g) == Puts(g, n, row)
           Q(g) == g = [s \in SUBSET (1..n) |-> IF s = {} THEN NoFrames
                               ELSE PutRow(g[s \ {Max(s)}], row[Max(s)])]
           g == CHOOSE g : P(g)
<1>1. P(g)
  <2>1. \E x : P(x)
    BY PutsExist
  <2>2. QED BY <2>1, Zenon
<1>2. \A x : P(x) <=> Q(x)
  BY Zenon DEF Puts
<1>3. DOMAIN row = 1..n
  BY DEF Numbers
<1>4. FoldLeft(PutRow, NoFrames, row) = (CHOOSE x : Q(x))[1..n]
  <2>1. FoldLeft(PutRow, NoFrames, row)
          = (CHOOSE x : x = [s \in SUBSET DOMAIN row |-> IF s = {} THEN NoFrames
                               ELSE PutRow(x[s \ {Max(s)}], row[Max(s)])])[DOMAIN row]
    BY Zenon DEF FoldLeft, MapThenFoldSet
  <2> HIDE DEF row
  <2>2. QED BY <1>3, <2>1, Zenon
<1>5. Framed(g[1..n], first, n)
  BY <1>1, PutsFramed
<1>6. g = CHOOSE x : P(x)
  OBVIOUS
<1> HIDE DEF P, Q, g, row
<1>7. (CHOOSE x : P(x)) = (CHOOSE x : Q(x))
  BY <1>2
<1>8. FoldLeft(PutRow, NoFrames, row) = g[1..n]
  BY <1>4, <1>6, <1>7, Zenon
<1>9. QED BY <1>5, <1>8 DEF row

(* The rows of one cycle are rows of the input.                              *)
LEMMA CycleInInput ==
  ASSUME NEW c \in 0..(Cycles - 1)
  PROVE  /\ FirstRow(c) \in Nat /\ Size(c) \in Nat /\ FirstRow(c) + Size(c) <= InputRows
         /\ FirstRow(c + 1) = FirstRow(c) + Size(c) /\ FirstRow(c + 1) \in Nat
         /\ c \in Nat /\ c + 1 \in 0..Cycles
<1>1. c \in 0..Cycles /\ c + 1 \in 0..Cycles /\ c \in Nat
  BY MockAssumption
<1>2. FirstRow(c) \in 0..InputRows /\ FirstRow(c + 1) \in 0..InputRows
      /\ Size(c) \in Nat /\ FirstRow(c + 1) = FirstRow(c) + Size(c)
  BY <1>1, CycleRows, Zenon
<1>3. QED BY <1>1, <1>2, MockAssumption

\* The frames of a cycle cut its rows, in order and none left out.
LEMMA EncodeCuts ==
  ASSUME NEW c \in 0..(Cycles - 1)
  PROVE  /\ Encode(c) \in Seq(Seq(Nat))
         /\ \E off : Cut(Encode(c), FirstRow(c), Size(c), off)
<1> DEFINE first  == FirstRow(c)
           n      == Size(c)
           frames == FoldLeft(PutRow, NoFrames, Numbers(first, n))
           last   == frames.table
<1>1. first \in Nat /\ n \in Nat /\ first + n <= InputRows
  BY CycleInInput
<1>2. Framed(frames, first, n)
  <2> HIDE DEF first, n
  <2>1. QED BY <1>1, FoldFramed
<1>3. Encode(c) = frames.full \o (IF last = <<>> THEN <<>> ELSE <<last>>)
  <2>1. Numbers(first, n) = [j \in 1..(FirstRow(c + 1) - FirstRow(c)) |-> FirstRow(c) + j - 1]
    BY Zenon DEF Numbers, Size
  <2>2. QED BY <2>1, Zenon DEF Encode, NoFrames
<1> HIDE DEF first, n, frames
<1>4. PICK cut \in 0..n : \E off :
        Cut(frames.full, first, cut, off) /\ last = Numbers(first + cut, n - cut)
  BY <1>2 DEF Framed
<1>5. PICK off : Cut(frames.full, first, cut, off) /\ last = Numbers(first + cut, n - cut)
  BY <1>4
<1>6. frames.full \in Seq(Seq(Nat)) /\ cut \in Nat /\ cut <= n /\ n - cut \in Nat
      /\ first + cut \in Nat /\ (n - cut = 0 => cut = n)
  BY <1>1, <1>2 DEF Framed
<1>7. last \in Seq(Nat) /\ (last = <<>> <=> n - cut = 0)
  BY <1>5, <1>6, NumbersType
<1>8. CASE last = <<>>
  <2>1. Encode(c) = frames.full /\ cut = n
    <3>1. Encode(c) = frames.full \o <<>>
      BY <1>3, <1>8
    <3>2. QED BY <3>1, <1>6, <1>7, <1>8, ConcatEmptySeq
  <2>2. QED BY <1>5, <1>6, <2>1 DEF first, n
<1>9. CASE last # <<>>
  <2>1. Encode(c) = Append(frames.full, last)
    <3>1. Encode(c) = frames.full \o <<last>>
      BY <1>3, <1>9
    <3>2. QED BY <3>1, <1>6, <1>7, AppendIsConcat
  <2>2. \E o : Cut(Append(frames.full, Numbers(first + cut, n - cut)), first, n, o)
    BY <1>1, <1>5, <1>6, CutAppend
  <2>3. Append(frames.full, last) \in Seq(Seq(Nat))
    BY <1>6, <1>7
  <2>4. QED BY <1>5, <2>1, <2>2, <2>3, Zenon DEF first, n
<1>10. QED BY <1>8, <1>9

\* Where the frames of a cycle end, by the rows up to there.
Offsets(c) == CHOOSE off : Cut(Encode(c), FirstRow(c), Size(c), off)

(* The frames of a cycle by their ends.                                      *)
LEMMA FrameRows ==
  ASSUME NEW c \in 0..(Cycles - 1)
  PROVE  /\ Encode(c) \in Seq(Seq(Nat)) /\ Len(Encode(c)) \in Nat
         /\ DOMAIN Encode(c) = 1..Len(Encode(c))
         /\ FirstRow(c) \in Nat /\ Size(c) \in Nat
         /\ \A k \in 0..Len(Encode(c)) : Offsets(c)[k] \in 0..Size(c)
         /\ Offsets(c)[0] = 0 /\ Offsets(c)[Len(Encode(c))] = Size(c)
         /\ \A k \in 1..Len(Encode(c)) :
              /\ Offsets(c)[k - 1] <= Offsets(c)[k]
              /\ Encode(c)[k]
                   = Numbers(FirstRow(c) + Offsets(c)[k - 1], Offsets(c)[k] - Offsets(c)[k - 1])
<1>1. Cut(Encode(c), FirstRow(c), Size(c), Offsets(c))
  BY EncodeCuts, Zenon DEF Offsets
<1>2. Encode(c) \in Seq(Seq(Nat)) /\ FirstRow(c) \in Nat /\ Size(c) \in Nat
  BY EncodeCuts, CycleInInput, Zenon
<1>3. Len(Encode(c)) \in Nat /\ DOMAIN Encode(c) = 1..Len(Encode(c))
  BY <1>2, LenProperties
<1> DEFINE full == Encode(c)
           off  == Offsets(c)
           n    == Size(c)
           first == FirstRow(c)
<1>4. /\ Cut(full, first, n, off) /\ Len(full) \in Nat
  BY <1>1, <1>3
<1> HIDE DEF full, off, n, first
<1>5. /\ \A k \in 0..Len(full) : off[k] \in 0..n
      /\ off[0] = 0 /\ off[Len(full)] = n
      /\ \A k \in 1..Len(full) :
           off[k - 1] <= off[k] /\ full[k] = Numbers(first + off[k - 1], off[k] - off[k - 1])
  BY <1>4 DEF Cut
<1>6. QED BY <1>2, <1>3, <1>5 DEF full, off, n, first

-----------------------------------------------------------------------------
(* Where the harness stands: which cycle, how far into its frames, and that  *)
(* it has said nothing terminal before its last two calls.                   *)
Serving == {"MT_CLIENT", "MT_META", "MT_RUN", "rows", "finish"}

\* Frame pos of the cycle is the next, and the rows before it have been handed over.
HarnessInv ==
  /\ cycle \in 0..Cycles
  /\ phase \in Serving \cup {"MT_FINISHED", "over"}
  /\ phase \in {"MT_CLIENT", "MT_META"} => cycle = 0
  /\ phase \in {"MT_RUN", "rows"} => cycle \in 0..(Cycles - 1)
  /\ phase \in {"finish", "MT_FINISHED"} \/ result = "ok" => cycle = Cycles
  /\ phase # "over" => result = "none"
  /\ phase \in Serving => said = "none"
  /\ phase = "rows" => pos \in 0..Len(Encode(cycle)) /\ handed = Offsets(cycle)[pos]

(* No rows is no rows, whichever way they are numbered.                      *)
LEMMA NoNumbers == \A c : GroupNumbers(c, <<>>) = <<>>
  BY DEF GroupNumbers

(* Every reply of the mock is an answer of the database.                     *)
LEMMA ReplyAnswers ==
  ASSUME AdmitsMock, wire = "asked", NEW type, NEW body, NEW numbers,
         <<req.type, type, body>> \in MockAnswers,
         said = "none" \/ req.type = "MT_FINISHED",
         IF type = "MT_NEXT"
           THEN \E n \in 0..MaxBatch : GroupNumbers(cycle, numbers) = NextRows(n)
           ELSE numbers = <<>>,
         Reply(type, body, numbers)
  PROVE  Answers
<1> DEFINE r == [type |-> type, body |-> body, conn |-> 1, rows |-> GroupNumbers(cycle, numbers)]
           batches == IF type = "MT_NEXT" THEN {NextRows(n) : n \in 0..MaxBatch} ELSE {<<>>}
           a == <<req.type, type, body>>
<1>1. a[1] = req.type /\ a[2] = type /\ a[3] = body /\ a \in MockAnswers
  OBVIOUS
<1>2. type \in MayAnswer[req.type] /\ body \in Bodies[type] /\ 1 \in ConnIds
  BY <1>1, Zenon DEF AdmitsMock
<1>3. type \in Allowed(req)
  BY <1>2, Zenon DEF Allowed, Refuses
<1>4. GroupNumbers(cycle, numbers) \in batches
  <2>1. CASE type = "MT_NEXT"
    BY <2>1
  <2>2. CASE type # "MT_NEXT"
    BY <2>2, NoNumbers
  <2>3. QED BY <2>1, <2>2
<1>5. r \in [type : {type}, body : Bodies[type], conn : ConnIds, rows : batches]
  <2> HIDE DEF batches
  <2>1. QED BY <1>2, <1>4
<1>6. r \in Responses
  BY <1>3, <1>5, Zenon DEF Responses
<1>7. Answer(r)
  BY Zenon DEF Reply
<1> HIDE DEF r
<1>8. QED BY <1>6, <1>7, Zenon DEF Answers

(* What a reply of the mock does to the database's account of the session.   *)
LEMMA ReplyEffect ==
  ASSUME NEW type, NEW body, NEW numbers, Reply(type, body, numbers),
         type # "MT_NEXT" => numbers = <<>>
  PROVE  /\ wire' = "answered" /\ req' = req /\ proto' = proto
         /\ resp'.type = type /\ resp'.body = body /\ resp'.rows = GroupNumbers(cycle, numbers)
         /\ type = "MT_RUN" /\ req.type = "MT_RUN" => handed' = 0 /\ delivered' = <<>>
         /\ type \notin {"MT_RUN", "MT_CALL"} =>
              /\ handed' = handed + Len(GroupNumbers(cycle, numbers))
              /\ delivered' = IF req.type = "MT_EMIT" /\ type = "MT_EMIT"
                              THEN delivered \o req.rows ELSE delivered
         /\ type \notin {"MT_CLEANUP", "MT_CLOSE"} => said' = said
<1> DEFINE r == [type |-> type, body |-> body, conn |-> 1, rows |-> GroupNumbers(cycle, numbers)]
<1>1. r.type = type /\ r.body = body /\ r.rows = GroupNumbers(cycle, numbers)
  OBVIOUS
<1>2. Answer(r)
  BY Zenon DEF Reply
<1> HIDE DEF r
<1>3. QED BY <1>1, <1>2 DEF Answer, Opens, TerminalTypes

(* The frame served next has the next rows of the group.                     *)
LEMMA FrameIsNext ==
  ASSUME AdmitsMock, NEW c \in 0..(Cycles - 1), NEW p \in 0..(Len(Encode(c)) - 1),
         handed = Offsets(c)[p]
  PROVE  /\ p + 1 \in 0..Len(Encode(c))
         /\ \E n \in 0..MaxBatch :
              /\ GroupNumbers(c, Encode(c)[p + 1]) = NextRows(n)
              /\ Len(GroupNumbers(c, Encode(c)[p + 1])) = n
              /\ handed + n = Offsets(c)[p + 1]
<1> DEFINE frame == Encode(c)[p + 1]
           from  == Offsets(c)[p]
           to    == Offsets(c)[p + 1]
           n     == to - from
           local == [i \in 1..n |-> handed + i]
<1>1. Len(Encode(c)) \in Nat /\ FirstRow(c) \in Nat /\ DOMAIN Encode(c) = 1..Len(Encode(c))
  BY FrameRows
<1>2. p \in Nat /\ p + 1 \in 1..Len(Encode(c)) /\ p \in 0..Len(Encode(c))
      /\ p + 1 \in 0..Len(Encode(c)) /\ (p + 1) - 1 = p
  BY <1>1
<1>3. from \in 0..Size(c) /\ to \in 0..Size(c) /\ Size(c) \in Nat
  BY <1>2, FrameRows, Zenon
<1>4. from <= to /\ frame = Numbers(FirstRow(c) + from, to - from)
  <2>1. ASSUME NEW k, k = p + 1
        PROVE  /\ Offsets(c)[k - 1] <= Offsets(c)[k]
               /\ Encode(c)[k] = Numbers(FirstRow(c) + Offsets(c)[k - 1],
                                       Offsets(c)[k] - Offsets(c)[k - 1])
    <3>1. k \in 1..Len(Encode(c))
      BY <1>2, <2>1
    <3>2. QED BY <3>1, FrameRows, Zenon
  <2>2. QED BY <1>2, <2>1
<1> HIDE DEF frame, from, to
<1>5. n \in Nat /\ from \in Nat /\ to \in Nat /\ handed = from /\ from + n = to
  BY <1>3, <1>4 DEF from
<1>6. Len(frame) = n /\ DOMAIN frame = 1..n /\ \A j \in 1..n : frame[j] = FirstRow(c) + from + j - 1
  <2>1. frame = Numbers(FirstRow(c) + from, n) /\ FirstRow(c) + from \in Nat
    BY <1>1, <1>4, <1>5
  <2> HIDE DEF n
  <2>2. frame \in Seq(Nat) /\ Len(frame) = n
    BY <1>5, <2>1, NumbersType
  <2>3. frame = [j \in 1..n |-> FirstRow(c) + from + j - 1]
    BY <2>1, Zenon DEF Numbers
  <2>4. QED BY <2>2, <2>3
<1>7. GroupNumbers(c, frame) = local
  <2>1. \A j \in 1..n : frame[j] - FirstRow(c) + 1 = handed + j
    BY <1>1, <1>5, <1>6
  <2>2. GroupNumbers(c, frame) = [j \in 1..n |-> frame[j] - FirstRow(c) + 1]
    BY <1>6, Zenon DEF GroupNumbers
  <2> HIDE DEF n
  <2>3. QED BY <2>1, <2>2
<1>8. Len(local) = n
  <2>1. local \in Seq(Int)
    BY <1>5
  <2>2. QED BY <1>5, <2>1
<1>9. n \in 0..MaxBatch
  <2>1. p + 1 \in DOMAIN Encode(c)
    BY <1>1, <1>2
  <2>2. Len(frame) <= MaxBatch
    BY <2>1, Zenon DEF AdmitsMock, frame
  <2>3. QED BY <1>5, <1>6, <2>2, DatabaseAssumption
<1>10. local = NextRows(n)
  BY Zenon DEF NextRows
<1>11. GroupNumbers(c, frame) = NextRows(n) /\ Len(GroupNumbers(c, frame)) = n /\ handed + n = to
  BY <1>5, <1>7, <1>8, <1>10
<1> HIDE DEF n
<1>12. QED BY <1>2, <1>9, <1>11, Zenon DEF frame, to

(* Only the database moves the database's account of the session.            *)
LEMMA ClientKeepsDatabase == ClientStep => UNCHANGED dbVars
<1> SUFFICES ASSUME ClientStep
             PROVE  UNCHANGED dbVars
  OBVIOUS
<1>1. CASE SendRequest \/ EchoPing \/ HandshakeReply \/ Prepare
  BY <1>1 DEF SendRequest, EchoPing, HandshakeReply, Prepare
<1>2. CASE StreamingStep \/ SingleCallStep
  BY <1>2 DEF StreamingStep, SingleCallStep
<1>3. CASE RunHook \/ FinishReply \/ SendClose
  BY <1>3 DEF RunHook, FinishReply, SendClose
<1>4. QED BY <1>1, <1>2, <1>3 DEF ClientStep

(* The harness and the database's account stay where they are.               *)
LEMMA HarnessStays ==
  ASSUME HarnessInv, UNCHANGED <<phase, result, cycle, pos, said, handed>>
  PROVE  HarnessInv'
  BY DEF HarnessInv, Serving

(* A harness that is over stays over.                                        *)
LEMMA HarnessOver ==
  ASSUME HarnessInv, phase # "over", phase' = "over", result' # "ok", cycle' = cycle
  PROVE  HarnessInv'
  BY DEF HarnessInv, Serving

(* The step of the harness is a step of the database.                        *)
Served == Answers /\ HarnessInv'

(* Session::handshake of the mock: MT_INFO and MT_META, in their order.      *)
LEMMA HandshakeServed ==
  ASSUME AdmitsMock, HarnessInv, Handshake
  PROVE  Served
<1>0. Cycles \in Nat \ {0}
  BY MockAssumption
<1>1. CASE phase = "MT_CLIENT" /\ Asked("MT_CLIENT") /\ Reply("MT_INFO", "info", <<>>)
           /\ phase' = "MT_META"
  <2>1. wire = "asked" /\ said = "none" /\ <<req.type, "MT_INFO", "info">> \in MockAnswers
    BY <1>1 DEF Asked, MockAnswers, HarnessInv, Serving
  <2>2. Answers
    BY <1>1, <2>1, ReplyAnswers
  <2>3. said' = said
    BY <1>1, ReplyEffect
  <2>4. QED BY <1>1, <2>1, <2>2, <2>3 DEF Handshake, Served, HarnessInv, Serving
<1>2. CASE phase = "MT_META" /\ Asked("MT_META") /\ Reply("MT_META", "data", <<>>)
           /\ NextCall(0)
  <2>1. wire = "asked" /\ said = "none" /\ <<req.type, "MT_META", "data">> \in MockAnswers
    BY <1>2 DEF Asked, MockAnswers, HarnessInv, Serving
  <2>2. Answers
    BY <1>2, <2>1, ReplyAnswers
  <2>3. said' = said /\ phase' = "MT_RUN" /\ cycle = 0
    BY <1>0, <1>2, ReplyEffect DEF NextCall, HarnessInv
  <2>4. QED BY <1>0, <1>2, <2>1, <2>2, <2>3 DEF Handshake, Served, HarnessInv, Serving
<1>3. QED BY <1>1, <1>2 DEF Handshake

(* run_cycle opens the group with MT_RUN, before its first frame.            *)
LEMMA OpenCycleServed ==
  ASSUME AdmitsMock, HarnessInv, OpenCycle
  PROVE  Served
<1>1. wire = "asked" /\ said = "none" /\ req.type = "MT_RUN"
      /\ <<req.type, "MT_RUN", "none">> \in MockAnswers
      /\ Reply("MT_RUN", "none", <<>>)
  BY DEF OpenCycle, Asked, MockAnswers, HarnessInv, Serving
<1>2. Answers
  BY <1>1, ReplyAnswers
<1>3. said' = said /\ handed' = 0
  BY <1>1, ReplyEffect
<1>4. cycle \in 0..(Cycles - 1) /\ cycle' = cycle /\ pos' = 0 /\ phase' = "rows"
      /\ result' = result /\ result = "none"
  BY DEF OpenCycle, HarnessInv
<1>5. Offsets(cycle)[0] = 0 /\ Len(Encode(cycle)) \in Nat
  BY <1>4, FrameRows
<1>6. HarnessInv'
  BY <1>1, <1>3, <1>4, <1>5 DEF HarnessInv, Serving
<1>7. QED BY <1>2, <1>6 DEF Served

(* run_cycle serves the next frame, or MT_DONE behind the last.              *)
LEMMA ServeNextServed ==
  ASSUME AdmitsMock, TypeInv, HarnessInv, ServeNext
  PROVE  Served
<1>1. /\ wire = "asked" /\ said = "none" /\ req.type = "MT_NEXT" /\ phase = "rows"
      /\ <<req.type, "MT_NEXT", "table">> \in MockAnswers
      /\ <<req.type, "MT_DONE", "none">> \in MockAnswers
      /\ cycle \in 0..(Cycles - 1) /\ pos \in 0..Len(Encode(cycle))
      /\ handed = Offsets(cycle)[pos] /\ result = "none"
      /\ UNCHANGED <<phase, result, cycle>>
  BY DEF ServeNext, Asked, MockAnswers, HarnessInv, Serving
<1>2. Len(Encode(cycle)) \in Nat /\ handed \in Nat
  BY <1>1, FrameRows DEF TypeInv, DatabaseTypeOK
<1>3. CASE pos < Len(Encode(cycle))
  <2>1. pos \in 0..(Len(Encode(cycle)) - 1)
    BY <1>1, <1>2, <1>3
  <2>2. Reply("MT_NEXT", "table", Encode(cycle)[pos + 1]) /\ pos' = pos + 1
    BY <1>3 DEF ServeNext
  <2>3. /\ pos + 1 \in 0..Len(Encode(cycle))
        /\ \E n \in 0..MaxBatch :
              /\ GroupNumbers(cycle, Encode(cycle)[pos + 1]) = NextRows(n)
              /\ Len(GroupNumbers(cycle, Encode(cycle)[pos + 1])) = n
              /\ handed + n = Offsets(cycle)[pos + 1]
    BY <1>1, <2>1, FrameIsNext
  <2>4. Answers
    BY <1>1, <2>2, <2>3, ReplyAnswers
  <2>5. said' = said /\ handed' = handed + Len(GroupNumbers(cycle, Encode(cycle)[pos + 1]))
    BY <2>2, ReplyEffect
  <2>6. handed' = Offsets(cycle)[pos + 1]
    BY <2>3, <2>5
  <2>7. HarnessInv'
    <3>1. handed' = Offsets(cycle')[pos'] /\ pos' \in 0..Len(Encode(cycle'))
      BY <1>1, <2>2, <2>3, <2>6
    <3>2. QED BY <1>1, <2>5, <3>1 DEF HarnessInv, Serving
  <2>8. QED BY <2>4, <2>7 DEF Served
<1>4. CASE ~(pos < Len(Encode(cycle)))
  <2>1. Reply("MT_DONE", "none", <<>>) /\ pos' = pos
    BY <1>4 DEF ServeNext
  <2>2. Answers
    BY <1>1, <2>1, ReplyAnswers
  <2>3. said' = said /\ handed' = handed + Len(GroupNumbers(cycle, <<>>))
    BY <2>1, ReplyEffect
  <2>4. handed' = handed
    BY <1>2, <2>3, NoNumbers
  <2>5. QED BY <1>1, <2>1, <2>2, <2>3, <2>4, HarnessStays DEF Served
<1>5. QED BY <1>3, <1>4

(* run_cycle keeps a frame of the client and acknowledges it.                *)
LEMMA KeepEmitServed ==
  ASSUME AdmitsMock, TypeInv, HarnessInv, KeepEmit
  PROVE  Served
<1>1. /\ wire = "asked" /\ said = "none" /\ req.type = "MT_EMIT"
      /\ <<req.type, "MT_EMIT", "none">> \in MockAnswers
      /\ Reply("MT_EMIT", "none", <<>>)
      /\ UNCHANGED <<phase, result, cycle, pos>>
  BY DEF KeepEmit, Asked, MockAnswers, HarnessInv, Serving
<1>2. Answers
  BY <1>1, ReplyAnswers
<1>3. said' = said /\ handed' = handed + Len(GroupNumbers(cycle, <<>>))
  BY <1>1, ReplyEffect
<1>4. handed' = handed
  BY <1>3, NoNumbers DEF TypeInv, DatabaseTypeOK
<1>5. QED BY <1>1, <1>2, <1>3, <1>4, HarnessStays DEF Served

(* run_cycle returns at MT_DONE, and the next call is a cycle or finish.     *)
LEMMA CloseCycleServed ==
  ASSUME AdmitsMock, HarnessInv, CloseCycle
  PROVE  Served
<1>1. /\ wire = "asked" /\ said = "none" /\ req.type = "MT_DONE"
      /\ <<req.type, "MT_DONE", "none">> \in MockAnswers
      /\ Reply("MT_DONE", "none", <<>>)
      /\ cycle \in 0..(Cycles - 1) /\ cycle' = cycle + 1 /\ result' = result /\ result = "none"
      /\ phase' = IF cycle' < Cycles THEN "MT_RUN" ELSE "finish"
  BY DEF CloseCycle, Asked, MockAnswers, HarnessInv, Serving, NextCall
<1>2. Answers
  BY <1>1, ReplyAnswers
<1>3. said' = said
  BY <1>1, ReplyEffect
<1>4. cycle' \in 0..Cycles /\ (cycle' < Cycles => cycle' \in 0..(Cycles - 1))
      /\ (~(cycle' < Cycles) => cycle' = Cycles)
  BY <1>1, MockAssumption
<1>5. HarnessInv'
  BY <1>1, <1>3, <1>4 DEF HarnessInv, Serving
<1>6. QED BY <1>2, <1>5 DEF Served

(* Session::finish of the mock: MT_CLEANUP and MT_FINISHED.                  *)
LEMMA FinishServed ==
  ASSUME AdmitsMock, HarnessInv, FinishSession
  PROVE  Served
<1>1. CASE phase = "finish" /\ Asked("MT_RUN") /\ Reply("MT_CLEANUP", "none", <<>>)
           /\ phase' = "MT_FINISHED" /\ UNCHANGED result
  <2>1. wire = "asked" /\ said = "none" /\ <<req.type, "MT_CLEANUP", "none">> \in MockAnswers
    BY <1>1 DEF Asked, MockAnswers, HarnessInv, Serving
  <2>2. Answers
    BY <1>1, <2>1, ReplyAnswers
  <2>3. QED BY <1>1, <2>2 DEF FinishSession, Served, HarnessInv, Serving
<1>2. CASE phase = "MT_FINISHED" /\ Asked("MT_FINISHED") /\ Reply("MT_FINISHED", "none", <<>>)
           /\ phase' = "over" /\ result' = "ok"
  <2>1. wire = "asked" /\ req.type = "MT_FINISHED"
        /\ <<req.type, "MT_FINISHED", "none">> \in MockAnswers
    BY <1>2 DEF Asked, MockAnswers
  <2>2. Answers
    BY <1>2, <2>1, ReplyAnswers
  <2>3. QED BY <1>2, <2>2 DEF FinishSession, Served, HarnessInv, Serving
<1>3. QED BY <1>1, <1>2 DEF FinishSession

(* Every step of the mock with its client is one of a session.               *)
LEMMA HarnessStep ==
  ASSUME AdmitsMock, TypeInv, HarnessInv, [MockNext]_<<vars, mockVars>>
  PROVE  [Next]_vars /\ HarnessInv'
<1>1. CASE /\ MockStep
           /\ Handshake \/ OpenCycle \/ ServeNext \/ KeepEmit \/ CloseCycle \/ FinishSession
  <2>1. Served
    BY <1>1, HandshakeServed, OpenCycleServed, ServeNextServed, KeepEmitServed, CloseCycleServed,
       FinishServed
  <2>2. QED BY <1>1, <2>1 DEF Served, MockStep, DatabaseStep, Next
<1>2. CASE MockStep /\ (RefuseRequest \/ Closed)
  <2>1. UNCHANGED vars
    BY <1>2 DEF MockStep, RefuseRequest, Closed, vars
  <2>2. phase # "over" /\ phase' = "over" /\ result' # "ok" /\ cycle' = cycle
    BY <1>2 DEF RefuseRequest, Closed
  <2>3. QED BY <2>1, <2>2, HarnessOver
<1>3. CASE ClientOfMock
  <2>1. ClientStep /\ UNCHANGED mockVars
    BY <1>3 DEF ClientOfMock
  <2>2. QED BY <2>1, ClientKeepsDatabase, HarnessStays DEF mockVars, dbVars, Next
<1>4. CASE BothOver \/ UNCHANGED <<vars, mockVars>>
  <2>1. UNCHANGED <<vars, mockVars>>
    BY <1>4 DEF BothOver
  <2>2. QED BY <2>1, HarnessStays DEF vars, mockVars, dbVars
<1>5. QED BY <1>1, <1>2, <1>3, <1>4 DEF MockNext, MockStep

(* Where the harness begins.                                                 *)
LEMMA HarnessInit == MockInit => HarnessInv
<1> SUFFICES ASSUME MockInit
             PROVE  HarnessInv
  OBVIOUS
<1>1. phase = "MT_CLIENT" /\ cycle = 0 /\ result = "none" /\ said = "none" /\ 0 \in 0..Cycles
  BY MockAssumption DEF MockInit, Init, DatabaseInit
<1>2. QED BY <1>1 DEF HarnessInv, Serving

(* The sessions of exa-mock-db are sessions of a database: whatever it       *)
(* answers in handshake, run_cycle and finish (session.rs), with the frames  *)
(* encode made (payload.rs), is an answer Session allows there, for every    *)
(* input, every number of cycles and every size of the frames.               *)
THEOREM MockImplementsSession ==
  ASSUME AdmitsMock
  PROVE  MockSpec => ImplementsSession
<1>1. MockInit => Init /\ TypeInv /\ HarnessInv
  BY HarnessInit, TypeInit DEF MockInit
<1>2. TypeInv /\ HarnessInv /\ [MockNext]_<<vars, mockVars>>
        => [Next]_vars /\ TypeInv' /\ HarnessInv'
  BY HarnessStep, TypeStep
<1>3. QED BY <1>1, <1>2, PTL DEF MockSpec, ImplementsSession, Spec

(* A step of the client, by what it does on the wire.                        *)
LEMMA ClientKinds ==
  ASSUME ClientStep
  PROVE  \/ SendRequest \/ EchoPing
         \/ \E e \in Events : Outcome(e)
         \/ pc \notin Asking /\ UNCHANGED wireVars
<1> USE AskingPlaces
<1>1. CASE HandshakeReply \/ FinishReply
  BY <1>1 DEF HandshakeReply, FinishReply
<1>2. CASE Prepare \/ RunHook \/ SendClose
  BY <1>2 DEF Prepare, RunHook, SendClose
<1>3. CASE StreamingStep
  <2>1. CASE GroupOpenReply \/ FirstBatchReply \/ FlushReply \/ NextReply \/ ImportReply
             \/ AdvanceReply \/ TailFlushReply \/ GroupDoneReply
    BY <2>1 DEF GroupOpenReply, FirstBatchReply, FlushReply, NextReply, ImportReply,
       AdvanceReply, TailFlushReply, GroupDoneReply
  <2>2. CASE RunOnce \/ GroupEnd
    BY <2>2 DEF RunOnce, GroupEnd
  <2>3. CASE UdfStep
    BY <2>3 DEF UdfStep, UdfEmit, UdfSetReturn, UdfNext, UdfConnection, UdfConnectBackFails,
       UdfReturnsOk, UdfFails, ContextCall
  <2>4. QED BY <1>3, <2>1, <2>2, <2>3 DEF StreamingStep, DispatchStep
<1>4. CASE SingleCallStep
  <2>1. CASE CallOpenReply \/ HookImportReply \/ CallReplyReply \/ CallDoneReply
    BY <2>1 DEF CallOpenReply, HookImportReply, CallReplyReply, CallDoneReply
  <2>2. CASE HookConnection \/ HookReturns \/ HookFails
    BY <2>2 DEF HookConnection, HookReturns, HookFails
  <2>3. QED BY <1>4, <2>1, <2>2 DEF SingleCallStep, CallStep
<1>5. QED BY <1>1, <1>2, <1>3, <1>4 DEF ClientStep

(* The client answers nothing.                                               *)
LEMMA ClientAnswersNothing ==
  ASSUME RequestInv, ClientStep
  PROVE  wire' # "answered"
<1>1. CASE \E e \in Events : Outcome(e)
  BY <1>1, OutcomeEnds
<1>2. CASE pc \notin Asking /\ UNCHANGED wireVars
  BY <1>2 DEF RequestInv, wireVars
<1>3. QED BY <1>1, <1>2, ClientKinds DEF SendRequest, Send, EchoPing, PingReply

(* The registration of the script never changes.                             *)
LEMMA ShapeStays == ASSUME TypeInv, [Next]_vars PROVE shape' = shape
<1>1. CASE StreamingStep
  BY <1>1, DispatchControlType DEF StreamingStep, TypeInv, ControlStepType
<1>2. QED BY <1>1, OutsideGroup DEF vars, runtimeVars

-----------------------------------------------------------------------------
(* A set RETURNS script accepts one value in its run, before it returns.     *)
RunEnds == {"GroupEnd", "TailFlush", "GroupDone"}

\* accepted has no row before the value and one from then on.
OnceInv ==
  ~Scalar /\ Returns =>
    /\ pc \in {"FirstBatch", "RunOnce"} => accepted = <<>>
    /\ pc \in {"InUdf", "Import", "Next"} => Len(accepted) = IF returned THEN 1 ELSE 0
    /\ pc = "Flush" => accepted = <<>> /\ returned
    /\ pc \in {"Import", "Next"} => ~returned
    /\ pc \in RunEnds => Len(accepted) = runs

(* A step that accepts nothing and does not change the account.              *)
LEMMA OnceFrame ==
  ASSUME OnceInv, UNCHANGED <<shape, returned, runs, accepted>>,
         \/ pc' = pc
         \/ {pc, pc'} \subseteq {"FirstBatch", "RunOnce"}
         \/ {pc, pc'} \subseteq {"InUdf", "Import", "Next"}
              /\ (pc' \in {"Import", "Next"} => ~returned)
         \/ {pc, pc'} \subseteq RunEnds
  PROVE  OnceInv'
  BY DEF OnceInv, Scalar, Returns, RunEnds

(* Outside of a group there is nothing to account for.                       *)
LEMMA OnceLeft ==
  ASSUME pc' \notin InGroup
  PROVE  OnceInv'
  BY PlaceTypes DEF OnceInv, InGroup, RunEnds

(* set_return accepts the value, at once or with the flush it waits for.     *)
LEMMA OnceStreaming ==
  ASSUME UnderWay, VisitInv, OnceInv, StreamingStep, ~Scalar, Returns, shape' = shape
  PROVE  OnceInv'
<1> USE PlaceTypes DEF InGroup, dispatchVars, inputVars, historyVars, outputVars
<1>0. accepted \in Seq(Nat) /\ Len(accepted) \in Nat /\ (accepted = <<>> => Len(accepted) = 0)
  BY DEF UnderWay, TypeInv, DataInv, DispatchTypeOK
<1>1. CASE GroupOpenReply
  <2>1. pc' = "Hook" \/ (pc' = "FirstBatch" /\ accepted' = <<>>)
    BY <1>1 DEF GroupOpenReply, EndsSession, OpenGroup
  <2>2. QED BY <2>1, OnceLeft DEF OnceInv, RunEnds
<1>2. CASE FirstBatchReply
  <2>1. pc = "FirstBatch" /\ UNCHANGED <<returned, runs, accepted>>
        /\ pc' \in {"FirstBatch", "RunOnce", "GroupEnd", "Hook"}
    BY <1>2 DEF FirstBatchReply
  <2>2. accepted = <<>> /\ runs = 0
    BY <2>1 DEF OnceInv, VisitInv, SetRows
  <2>3. QED BY <1>0, <2>1, <2>2, OnceLeft DEF OnceInv, RunEnds
<1>3. CASE RunOnce
  <2>1. pc = "RunOnce" /\ pc' = "InUdf" /\ returned' = FALSE /\ accepted' = accepted
    BY <1>3 DEF RunOnce
  <2>2. QED BY <1>0, <2>1 DEF OnceInv, RunEnds
<1>4. CASE FlushReply
  <2>1. /\ pc = "Flush" /\ UNCHANGED <<returned, runs>>
        /\ \/ pc' = "Hook" \/ ~returned
           \/ pc' = "InUdf" /\ accepted' = Append(accepted, buffer[Len(buffer)])
    BY <1>4 DEF FlushReply, UdfSeesError
  <2>2. accepted = <<>> /\ returned
    BY <2>1 DEF OnceInv
  <2>3. Len(Append(<<>>, buffer[Len(buffer)])) = 1
    OBVIOUS
  <2>4. QED BY <2>1, <2>2, <2>3, OnceLeft DEF OnceInv, RunEnds
<1>5. ASSUME NEW c \in RowCosts, UdfSetReturn(c)
      PROVE  OnceInv'
  <2>1. /\ pc = "InUdf" /\ ~returned /\ returned' = TRUE
        /\ \/ pc' = "Flush" /\ accepted' = accepted
           \/ pc' = "InUdf" /\ accepted' = Append(accepted, CurrentRowNumber)
    BY <1>5 DEF UdfSetReturn, PushOutputRow
  <2>2. accepted = <<>>
    BY <1>0, <2>1 DEF OnceInv
  <2>3. Len(Append(<<>>, CurrentRowNumber)) = 1
    OBVIOUS
  <2>4. QED BY <2>1, <2>2, <2>3 DEF OnceInv, RunEnds
<1>6. CASE UdfNext \/ UdfConnection \/ UdfConnectBackFails \/ UdfFails
  <2>1. /\ pc = "InUdf" /\ UNCHANGED <<returned, runs, accepted>> /\ ~returned
        /\ pc' \in {"InUdf", "Next", "Import", "Hook"}
    BY <1>6 DEF UdfNext, UdfConnection, UdfConnectBackFails, UdfFails, ContextCall, UdfSeesError
  <2>2. QED BY <2>1, OnceLeft, OnceFrame
<1>7. CASE NextReply \/ ImportReply
  <2>1. /\ pc \in {"Next", "Import"} /\ UNCHANGED <<returned, runs, accepted>>
        /\ pc' \in {pc, "InUdf", "Hook"}
    BY <1>7 DEF NextReply, ImportReply, UdfSeesError
  <2>2. QED BY <2>1, OnceLeft, OnceFrame
<1>8. CASE UdfReturnsOk
  <2>1. pc = "InUdf" /\ returned /\ UNCHANGED <<returned, runs, accepted>> /\ pc' = "GroupEnd"
    BY <1>8 DEF UdfReturnsOk
  <2>2. Len(accepted) = 1 /\ runs = 1
    BY <2>1 DEF OnceInv, VisitInv, SetRows
  <2>3. QED BY <2>1, <2>2 DEF OnceInv, RunEnds
<1>9. CASE GroupEnd \/ TailFlushReply \/ GroupDoneReply
  <2>1. /\ pc \in RunEnds /\ UNCHANGED <<returned, runs, accepted>>
        /\ pc' \in RunEnds \/ pc' \notin InGroup
    BY <1>9 DEF GroupEnd, TailFlushReply, GroupDoneReply, EndsSession, RunEnds
  <2>2. QED BY <2>1, OnceLeft, OnceFrame
<1>10. CASE AdvanceReply
  BY <1>10 DEF AdvanceReply, VisitInv, SetRows
<1>11. QED
  BY <1>1, <1>2, <1>3, <1>4, <1>5, <1>6, <1>7, <1>8, <1>9, <1>10
     DEF StreamingStep, UdfStep, DispatchStep, UdfEmit

(* Every step of a session keeps the account.                                *)
LEMMA OnceStep == UnderWay /\ VisitInv /\ OnceInv /\ [Next]_vars => OnceInv'
<1> SUFFICES ASSUME UnderWay, VisitInv, OnceInv, [Next]_vars PROVE OnceInv'
  OBVIOUS
<1> USE DEF dispatchVars, historyVars
<1>0. shape' = shape
  BY ShapeStays DEF UnderWay
<1>1. CASE StreamingStep
  BY <1>0, <1>1, OnceStreaming DEF OnceInv, Scalar, Returns
<1>2. CASE UNCHANGED <<dispatchVars, shape, pc>>
  BY <1>2, OnceFrame
<1>3. CASE pc' \notin InGroup
  BY <1>3, OnceLeft
<1>4. CASE UNCHANGED vars
  BY <1>4, OnceFrame DEF vars, runtimeVars
<1>5. QED BY <1>1, <1>2, <1>3, <1>4, OutsideGroup DEF UnderWay

-----------------------------------------------------------------------------
(* A harness that answers.                                                   *)
Answering == Handshake \/ OpenCycle \/ ServeNext \/ KeepEmit \/ CloseCycle \/ FinishSession

(* Whatever it answers is in the table of its answers.                       *)
LEMMA AnsweringReplies ==
  ASSUME Answering
  PROVE  /\ wire = "asked"
         /\ \E type, body, numbers :
              /\ <<req.type, type, body>> \in MockAnswers
              /\ type # "MT_NEXT" => numbers = <<>>
              /\ Reply(type, body, numbers)
<1> DEFINE Has(type, body, numbers) ==
             /\ <<req.type, type, body>> \in MockAnswers
             /\ type # "MT_NEXT" => numbers = <<>>
             /\ Reply(type, body, numbers)
<1>1. CASE Handshake
  <2>1. wire = "asked" /\ (Has("MT_INFO", "info", <<>>) \/ Has("MT_META", "data", <<>>))
    BY <1>1 DEF Handshake, Asked, MockAnswers
  <2> HIDE DEF Has
  <2>2. wire = "asked" /\ \E type, body, numbers : Has(type, body, numbers)
    BY <2>1, Zenon
  <2>3. QED BY <2>2 DEF Has
<1>2. CASE OpenCycle \/ KeepEmit \/ CloseCycle
  <2>1. wire = "asked" /\ (Has("MT_RUN", "none", <<>>) \/ Has("MT_EMIT", "none", <<>>)
                             \/ Has("MT_DONE", "none", <<>>))
    BY <1>2 DEF OpenCycle, KeepEmit, CloseCycle, Asked, MockAnswers
  <2> HIDE DEF Has
  <2>2. wire = "asked" /\ \E type, body, numbers : Has(type, body, numbers)
    BY <2>1, Zenon
  <2>3. QED BY <2>2 DEF Has
<1>3. CASE ServeNext
  <2>1. /\ wire = "asked"
        /\ Has("MT_NEXT", "table", Encode(cycle)[pos + 1]) \/ Has("MT_DONE", "none", <<>>)
    BY <1>3 DEF ServeNext, Asked, MockAnswers
  <2> HIDE DEF Has
  <2>2. wire = "asked" /\ \E type, body, numbers : Has(type, body, numbers)
    BY <2>1, Zenon
  <2>3. QED BY <2>2 DEF Has
<1>4. CASE FinishSession
  <2>1. wire = "asked" /\ (Has("MT_CLEANUP", "none", <<>>) \/ Has("MT_FINISHED", "none", <<>>))
    BY <1>4 DEF FinishSession, Asked, MockAnswers
  <2> HIDE DEF Has
  <2>2. wire = "asked" /\ \E type, body, numbers : Has(type, body, numbers)
    BY <2>1, Zenon
  <2>3. QED BY <2>2 DEF Has
<1>5. QED BY <1>1, <1>2, <1>3, <1>4 DEF Answering

(* A step answers, or is one of the client, or moves neither side's account. *)
LEMMA MockKinds ==
  ASSUME [MockNext]_<<vars, mockVars>>
  PROVE  \/ Answering /\ UNCHANGED <<runtimeVars, dispatchVars, callVars, endVars>>
         \/ ClientStep /\ UNCHANGED dbVars /\ UNCHANGED mockVars
         \/ UNCHANGED vars /\ UNCHANGED <<cycle, pos, emits, observed>>
              /\ \/ UNCHANGED <<phase, result>>
                 \/ phase' = "over" /\ result' # "ok"
<1>1. CASE MockStep /\ Answering
  BY <1>1 DEF MockStep
<1>2. CASE MockStep /\ (RefuseRequest \/ Closed)
  BY <1>2 DEF MockStep, RefuseRequest, Closed, vars
<1>3. CASE ClientOfMock
  BY <1>3, ClientKeepsDatabase DEF ClientOfMock
<1>4. CASE BothOver \/ UNCHANGED <<vars, mockVars>>
  BY <1>4 DEF BothOver, mockVars
<1>5. QED BY <1>1, <1>2, <1>3, <1>4 DEF MockNext, MockStep, Answering

-----------------------------------------------------------------------------
(* The mock announces a streaming script, so the client never makes a call.  *)
StreamInv ==
  /\ ~proto.single
  /\ pc \notin CallLocations
  /\ wire = "answered" /\ resp.type = "MT_META" => resp.body = "data"

(* A single call is entered only from a session announced as one.            *)
LEMMA CallsEntered ==
  ASSUME [Next]_vars, pc' \in CallLocations
  PROVE  pc \in CallLocations \/ proto.single
<1> USE PlaceTypes
<1>1. CASE UNCHANGED pc
  BY <1>1
<1>2. CASE HandshakeReply \/ RunHook \/ FinishReply \/ SendClose
  BY <1>2 DEF HandshakeReply, RunHook, FinishReply, SendClose
<1>3. CASE Prepare
  BY <1>3 DEF Prepare
<1>4. CASE StreamingStep
  BY <1>4, StreamingStaysInDispatch
<1>5. CASE SingleCallStep
  BY <1>5, SingleCallStaysInDispatch
<1>6. QED
  BY <1>1, <1>2, <1>3, <1>4, <1>5
     DEF Next, ClientStep, SendRequest, EchoPing, DatabaseStep, Exited, vars, runtimeVars

(* The only MT_META of the mock has no single-call mode.                     *)
LEMMA StreamStep ==
  ASSUME RequestInv, StreamInv, [Next]_vars, [MockNext]_<<vars, mockVars>>
  PROVE  StreamInv'
<1>1. ~proto'.single
  <2>1. CASE proto' = proto
    BY <2>1 DEF StreamInv
  <2>2. CASE wire = "answered" /\ proto' = After(proto, resp)
    BY <2>2 DEF StreamInv, After
  <2>3. QED BY <2>1, <2>2, ProtoSteps
<1>2. pc' \notin CallLocations
  BY CallsEntered DEF StreamInv
<1>3. wire' = "answered" /\ resp'.type = "MT_META" => resp'.body = "data"
  <2>1. CASE Answering
    <3>1. PICK type, body, numbers :
            /\ <<req.type, type, body>> \in MockAnswers
            /\ type # "MT_NEXT" => numbers = <<>>
            /\ Reply(type, body, numbers)
      BY <2>1, AnsweringReplies
    <3>2. resp'.type = type /\ resp'.body = body
      BY <3>1, ReplyEffect
    <3>3. QED BY <3>1, <3>2 DEF MockAnswers
  <2>2. CASE ClientStep
    BY <2>2, ClientAnswersNothing
  <2>3. CASE UNCHANGED vars
    BY <2>3 DEF vars, wireVars, StreamInv
  <2>4. QED BY <2>1, <2>2, <2>3, MockKinds
<1>4. QED BY <1>1, <1>2, <1>3 DEF StreamInv, CallLocations

-----------------------------------------------------------------------------
(* Inside a run cycle: the frames kept are what the database has delivered,  *)
(* MT_DONE answers MT_NEXT once every frame is out, and a group that leaves  *)
(* its rows has had all of them, or some if it is a set.                     *)
EmitsInv == phase = "rows" => emits \in Seq(Seq(Nat)) /\ FlattenSeq(emits) = delivered

ServedInv ==
  phase = "rows" /\ wire = "answered" /\ req.type = "MT_NEXT" /\ resp.type = "MT_DONE"
    => handed = Size(cycle)

LeftInv ==
  phase = "rows" /\ pc \in RunEnds => handed = Size(cycle) \/ (~Scalar /\ handed > 0)

(* What keeps the harness in a cycle.                                        *)
LEMMA CycleSteps ==
  ASSUME [MockNext]_<<vars, mockVars>>, phase' = "rows"
  PROVE  \/ OpenCycle /\ UNCHANGED pc
         \/ phase = "rows" /\ ServeNext /\ UNCHANGED pc
         \/ phase = "rows" /\ KeepEmit /\ UNCHANGED <<pc, shape>>
         \/ phase = "rows" /\ ClientStep /\ UNCHANGED <<dbVars, mockVars>>
         \/ phase = "rows" /\ UNCHANGED vars /\ UNCHANGED <<cycle, pos, emits, observed>>
<1>1. CASE Answering /\ UNCHANGED <<runtimeVars, dispatchVars, callVars, endVars>>
  <2>1. ~Handshake /\ ~CloseCycle /\ ~FinishSession
    BY DEF Handshake, CloseCycle, FinishSession, NextCall
  <2>2. QED BY <1>1, <2>1 DEF Answering, runtimeVars, ServeNext, KeepEmit
<1>2. CASE ClientStep /\ UNCHANGED dbVars /\ UNCHANGED mockVars
  BY <1>2 DEF mockVars
<1>3. QED BY <1>1, <1>2, MockKinds

(* Each frame is kept in the step that delivers it.                          *)
LEMMA EmitsStep ==
  ASSUME TypeInv, HarnessInv, EmitsInv, [MockNext]_<<vars, mockVars>>
  PROVE  EmitsInv'
<1> SUFFICES ASSUME phase' = "rows"
             PROVE  emits' \in Seq(Seq(Nat)) /\ FlattenSeq(emits') = delivered'
  BY DEF EmitsInv
<1>1. CASE OpenCycle
  <2>1. req.type = "MT_RUN" /\ Reply("MT_RUN", "none", <<>>) /\ emits' = <<>>
    BY <1>1 DEF OpenCycle, Asked
  <2>2. delivered' = <<>>
    BY <2>1, ReplyEffect
  <2>3. <<>> \in Seq(Seq(Nat)) /\ <<>> \in Seq(Nat)
    OBVIOUS
  <2>0. FlattenSeq(<<>>) = <<>>
    BY <2>3, FlattenAppend, Zenon
  <2>4. QED BY <2>0, <2>1, <2>2, <2>3
<1>2. CASE phase = "rows" /\ ServeNext
  <2>1. req.type = "MT_NEXT" /\ emits' = emits
        /\ (Reply("MT_NEXT", "table", Encode(cycle)[pos + 1]) \/ Reply("MT_DONE", "none", <<>>))
    BY <1>2 DEF ServeNext, Asked
  <2>2. delivered' = delivered
    BY <2>1, ReplyEffect
  <2>3. QED BY <1>2, <2>1, <2>2 DEF EmitsInv
<1>3. CASE phase = "rows" /\ KeepEmit
  <2>1. req.type = "MT_EMIT" /\ emits' = Append(emits, req.rows) /\ Reply("MT_EMIT", "none", <<>>)
    BY <1>3 DEF KeepEmit, Asked
  <2>2. delivered' = delivered \o req.rows
    BY <2>1, ReplyEffect
  <2>3. req.rows \in Seq(Nat)
    BY DEF TypeInv, WireTypeOK
  <2>4. emits \in Seq(Seq(Nat)) /\ FlattenSeq(emits) = delivered
    BY <1>3 DEF EmitsInv
  <2>5. FlattenSeq(Append(emits, req.rows)) = FlattenSeq(emits) \o req.rows
    <3>1. FlattenSeq(emits) \in Seq(Nat)
      BY <2>4 DEF TypeInv, DatabaseTypeOK
    <3>2. QED BY <2>3, <2>4, <3>1, FlattenAppend, Zenon
  <2>6. Append(emits, req.rows) \in Seq(Seq(Nat))
    BY <2>3, <2>4
  <2>7. QED BY <2>1, <2>2, <2>4, <2>5, <2>6
<1>4. CASE phase = "rows" /\ UNCHANGED <<emits, delivered>>
  BY <1>4 DEF EmitsInv
<1>5. QED BY <1>1, <1>2, <1>3, <1>4, CycleSteps DEF dbVars, mockVars, vars

(* MT_DONE answers MT_NEXT only behind the last frame.                       *)
LEMMA ServedStep ==
  ASSUME TypeInv, RequestInv, HarnessInv, ServedInv, [MockNext]_<<vars, mockVars>>
  PROVE  ServedInv'
<1> SUFFICES ASSUME phase' = "rows", wire' = "answered", req'.type = "MT_NEXT",
                    resp'.type = "MT_DONE"
             PROVE  handed' = Size(cycle')
  BY DEF ServedInv, Size, FirstRow
<1>1. ~OpenCycle /\ ~KeepEmit
  <2>1. OpenCycle => req' = req /\ req.type = "MT_RUN"
    BY ReplyEffect DEF OpenCycle, Asked
  <2>2. KeepEmit => req' = req /\ req.type = "MT_EMIT"
    BY ReplyEffect DEF KeepEmit, Asked
  <2>3. QED BY <2>1, <2>2
<1>2. CASE phase = "rows" /\ ServeNext
  <2>1. cycle \in 0..(Cycles - 1) /\ pos \in 0..Len(Encode(cycle)) /\ handed = Offsets(cycle)[pos]
        /\ cycle' = cycle
    BY <1>2 DEF HarnessInv, ServeNext
  <2>2. Len(Encode(cycle)) \in Nat /\ Offsets(cycle)[Len(Encode(cycle))] = Size(cycle)
    BY <2>1, FrameRows
  <2>3. CASE pos < Len(Encode(cycle))
    <3>1. Reply("MT_NEXT", "table", Encode(cycle)[pos + 1])
      BY <1>2, <2>3 DEF ServeNext
    <3>2. QED BY <3>1, ReplyEffect
  <2>4. CASE ~(pos < Len(Encode(cycle)))
    <3>1. pos = Len(Encode(cycle))
      BY <2>1, <2>2, <2>4
    <3>2. handed = Size(cycle)
      BY <2>1, <2>2, <3>1
    <3>3. Reply("MT_DONE", "none", <<>>)
      BY <1>2, <2>4 DEF ServeNext
    <3>4. handed' = handed + Len(GroupNumbers(cycle, <<>>))
      BY <3>3, ReplyEffect
    <3>5. handed' = handed
      BY <3>4, NoNumbers DEF TypeInv, DatabaseTypeOK
    <3>6. QED BY <2>1, <3>2, <3>5
  <2>5. QED BY <2>3, <2>4
<1>3. CASE ClientStep
  BY <1>3, ClientAnswersNothing
<1>4. CASE phase = "rows" /\ UNCHANGED vars /\ UNCHANGED cycle
  BY <1>4 DEF ServedInv, vars, wireVars, dbVars
<1>5. QED BY <1>1, <1>2, <1>3, <1>4, CycleSteps

(* What a request says of the place it comes from.                           *)
LEMMA RequestPlace ==
  ASSUME TypeInv, RequestInv, wire = "asked"
  PROVE  /\ req.type = "MT_RUN" => pc \in {"GroupOpen", "CallOpen"}
         /\ req.type = "MT_NEXT" => pc \in {"FirstBatch", "Next", "Advance"}
         /\ req.type = "MT_DONE" <=> pc \in {"GroupDone", "CallDone"}
<1>1. pc \in Asking /\ req = RequestAt
  BY DEF RequestInv
<1>2. /\ pc = "CallReply" => req.type \in {"MT_RETURN", "MT_UNDEFINED_CALL"}
      /\ pc # "CallReply" => pc \in DOMAIN Asks /\ req.type = Asks[pc]
  BY <1>1, RequestKinds DEF TypeInv, Asking
<1>3. \A l \in DOMAIN Asks : Asks[l] = "MT_DONE" <=> l \in {"GroupDone", "CallDone"}
  BY DEF Asks
<1>4. QED BY <1>2, <1>3, AskingPlaces

(* How a group comes to the end of its rows.                                 *)
LEMMA RowsLeft ==
  ASSUME UnderWay, VisitInv, StreamingStep, pc \notin RunEnds, pc' \in RunEnds
  PROVE  \/ pc \in {"FirstBatch", "Advance"} /\ \E e \in Events : Outcome(e) /\ EndsInput(e)
         \/ ~Scalar /\ pc = "InUdf"
<1> USE DEF RunEnds
<1>1. CASE FirstBatchReply \/ AdvanceReply
  BY <1>1 DEF FirstBatchReply, AdvanceReply
<1>2. CASE UdfReturnsOk
  BY <1>2 DEF UdfReturnsOk
<1>3. CASE GroupOpenReply \/ RunOnce \/ FlushReply \/ NextReply \/ ImportReply
  BY <1>3 DEF GroupOpenReply, RunOnce, FlushReply, NextReply, ImportReply, UdfSeesError, EndsSession
<1>4. CASE GroupEnd \/ TailFlushReply \/ GroupDoneReply
  BY <1>4 DEF GroupEnd, TailFlushReply, GroupDoneReply
<1>5. CASE UdfNext \/ UdfConnection \/ UdfConnectBackFails \/ UdfFails
  BY <1>5 DEF UdfNext, UdfConnection, UdfConnectBackFails, UdfFails, ContextCall, UdfSeesError
<1>6. ASSUME NEW c \in RowCosts, UdfEmit(c) \/ UdfSetReturn(c)
      PROVE  FALSE
  BY <1>6 DEF UdfEmit, UdfSetReturn, ContextCall, PushOutputRow
<1>7. QED
  BY <1>1, <1>2, <1>3, <1>4, <1>5, <1>6 DEF StreamingStep, UdfStep, DispatchStep

(* A group ends with its input, or as a set whose UDF returns.               *)
LEMMA LeftStep ==
  ASSUME RowInv, HarnessInv, ServedInv, LeftInv, [Next]_vars, [MockNext]_<<vars, mockVars>>
  PROVE  LeftInv'
<1> SUFFICES ASSUME phase' = "rows", pc' \in RunEnds
             PROVE  handed' = Size(cycle') \/ (~Scalar' /\ handed' > 0)
  BY DEF LeftInv, Size, FirstRow, RunEnds
<1>0. UnderWay /\ TypeInv /\ RequestInv /\ AnswerInv /\ VisitInv /\ WaitingInv /\ shape' = shape
  BY ShapeStays DEF RowInv, UnderWay
<1>1. ~(OpenCycle /\ UNCHANGED pc)
  BY <1>0, RequestPlace DEF OpenCycle, Asked, RunEnds
<1>2. ~(ServeNext /\ UNCHANGED pc)
  BY <1>0, RequestPlace DEF ServeNext, Asked, RunEnds
<1>3. CASE phase = "rows" /\ pc \in RunEnds /\ UNCHANGED <<cycle, handed>>
  BY <1>0, <1>3 DEF LeftInv, Scalar
<1>4. CASE phase = "rows" /\ KeepEmit /\ UNCHANGED <<pc, shape>>
  <2>1. Reply("MT_EMIT", "none", <<>>) /\ cycle' = cycle
    BY <1>4 DEF KeepEmit
  <2>2. handed' = handed
    <3>1. handed' = handed + Len(GroupNumbers(cycle, <<>>))
      BY <2>1, ReplyEffect
    <3>2. handed \in Nat /\ Len(GroupNumbers(cycle, <<>>)) = 0
      BY <1>0, NoNumbers DEF TypeInv, DatabaseTypeOK
    <3>3. QED BY <3>1, <3>2
  <2>3. phase = "rows" /\ pc \in RunEnds /\ UNCHANGED <<cycle, handed>>
    BY <1>4, <2>1, <2>2
  <2>4. QED BY <1>3, <2>3
<1>5. CASE phase = "rows" /\ ClientStep /\ UNCHANGED <<dbVars, mockVars>> /\ pc \notin RunEnds
  <2>1. UNCHANGED <<cycle, handed>> /\ said = "none"
    BY <1>5 DEF dbVars, mockVars, HarnessInv, Serving
  <2>2. StreamingStep
    <3>1. pc' \in InGroup /\ pc' # pc
      BY <1>5, PlaceTypes DEF InGroup, RunEnds
    <3>2. QED BY <1>0, <3>1, OutsideGroup, PlaceTypes DEF vars, runtimeVars, InGroup
  <2>3. CASE pc \in {"FirstBatch", "Advance"} /\ \E e \in Events : Outcome(e) /\ EndsInput(e)
    <3>1. PICK e \in Events : Outcome(e) /\ EndsInput(e)
      BY <2>3
    <3>2. wire = "answered" /\ e = Event(proto, resp)
      BY <3>1, ReceivedOutcome DEF EndsInput
    <3>3. resp.type \notin Ends
      BY <1>0, <2>1, <3>2 DEF AnswerInv
    <3>4. resp.type = "MT_DONE"
      BY <3>1, <3>2, <3>3, EventSource DEF EndsInput, Ends
    <3>5. req.type = "MT_NEXT"
      BY <1>0, <2>3, <3>2, AnsweredAsked, AskingPlaces, PlaceTypes DEF Asking
    <3>6. QED BY <1>5, <2>1, <3>2, <3>4, <3>5 DEF ServedInv
  <2>4. CASE ~Scalar /\ pc = "InUdf"
    <3>1. Fetched >= 1 /\ Fetched <= handed /\ Fetched \in Nat /\ handed \in Nat
      BY <1>0, <2>4, FetchedType, PlaceTypes DEF VisitInv, SetRows, InGroup
    <3>2. QED BY <1>0, <2>1, <2>4, <3>1 DEF Scalar
  <2>5. QED BY <1>0, <1>5, <2>2, <2>3, <2>4, RowsLeft
<1>6. CASE phase = "rows" /\ UNCHANGED vars /\ UNCHANGED cycle
  BY <1>3, <1>6 DEF vars, dbVars, runtimeVars
<1>7. CASE phase = "rows" /\ ClientStep /\ UNCHANGED <<dbVars, mockVars>> /\ pc \in RunEnds
  BY <1>3, <1>7 DEF dbVars, mockVars
<1>8. QED BY <1>1, <1>2, <1>4, <1>5, <1>6, <1>7, CycleSteps

-----------------------------------------------------------------------------
(* What the sink gets of a cycle.                                            *)
SinkInv ==
  pc = "GroupDone" /\ wire = "answered" => observed[cycle] = OnTheWire(cycle - 1, accepted)

(* What it has got of all of them.                                           *)
CollectedInv ==
  /\ observed \in Seq(Seq(Nat)) /\ Len(observed) = cycle
  /\ Scalar /\ Returns => FlattenSeq(observed) = Numbers(0, FirstRow(cycle))
  /\ ~Scalar /\ Returns =>
       \A c \in 1..cycle : Len(observed[c]) = IF FirstRow(c - 1) < FirstRow(c) THEN 1 ELSE 0

(* The rows of a cycle under the numbers of the input.                       *)
LEMMA OnTheWireType ==
  ASSUME NEW c, FirstRow(c) \in Nat, NEW locals \in Seq(Nat)
  PROVE  OnTheWire(c, locals) \in Seq(Nat) /\ Len(OnTheWire(c, locals)) = Len(locals)
<1>1. Len(locals) \in Nat /\ DOMAIN locals = 1..Len(locals)
  OBVIOUS
<1>2. \A j \in DOMAIN locals : (IF locals[j] = 0 THEN 0 ELSE locals[j] + FirstRow(c) - 1) \in Nat
  OBVIOUS
<1>3. OnTheWire(c, locals)
        = [j \in 1..Len(locals) |-> IF locals[j] = 0 THEN 0 ELSE locals[j] + FirstRow(c) - 1]
  BY <1>1, Zenon DEF OnTheWire
<1>4. QED BY <1>1, <1>2, <1>3

(* The numbers of all rows of a cycle follow those of the cycles before.     *)
LEMMA OnTheWireNumbers ==
  ASSUME NEW c, FirstRow(c) \in Nat, NEW n \in Nat
  PROVE  OnTheWire(c, [i \in 1..n |-> i]) = Numbers(FirstRow(c), n)
<1> DEFINE locals == [i \in 1..n |-> i]
<1>1. OnTheWire(c, locals)
        = [j \in 1..n |-> IF locals[j] = 0 THEN 0 ELSE locals[j] + FirstRow(c) - 1]
  BY Zenon DEF OnTheWire
<1>2. \A j \in 1..n :
        (IF locals[j] = 0 THEN 0 ELSE locals[j] + FirstRow(c) - 1) = FirstRow(c) + j - 1
  OBVIOUS
<1> HIDE DEF locals
<1>3. OnTheWire(c, locals) = Numbers(FirstRow(c), n)
  BY <1>1, <1>2 DEF Numbers
<1>4. QED BY <1>3 DEF locals

(* Consecutive rows put together.                                            *)
LEMMA NumbersConcat ==
  ASSUME NEW f \in Nat, NEW n \in Nat
  PROVE  Numbers(0, f) \o Numbers(f, n) = Numbers(0, f + n)
<1>1. /\ Numbers(0, f) \in Seq(Nat) /\ Len(Numbers(0, f)) = f
      /\ Numbers(f, n) \in Seq(Nat) /\ Len(Numbers(f, n)) = n
      /\ Numbers(0, f + n) \in Seq(Nat) /\ Len(Numbers(0, f + n)) = f + n
  <2>1. f + n \in Nat
    OBVIOUS
  <2>2. QED BY <2>1, NumbersType
<1> DEFINE a == Numbers(0, f)
           b == Numbers(f, n)
           s == a \o b
<1>2. /\ s \in Seq(Nat) /\ Len(s) = f + n
      /\ \A i \in 1..(f + n) : s[i] = IF i <= f THEN a[i] ELSE b[i - f]
  <2>1. a \in Seq(Nat) /\ b \in Seq(Nat) /\ Len(a) = f /\ Len(b) = n
    BY <1>1
  <2> HIDE DEF a, b
  <2>2. /\ a \o b \in Seq(Nat) /\ Len(a \o b) = Len(a) + Len(b)
        /\ \A i \in 1 .. Len(a) + Len(b) :
              (a \o b)[i] = IF i <= Len(a) THEN a[i] ELSE b[i - Len(a)]
    BY <2>1, ConcatProperties
  <2>3. Len(a \o b) = f + n
    BY <2>1, <2>2
  <2>4. \A i \in 1..(f + n) : (a \o b)[i] = IF i <= f THEN a[i] ELSE b[i - f]
    BY <2>1, <2>2
  <2>5. QED BY <2>2, <2>3, <2>4, Zenon
<1>3. \A i \in 1..(f + n) : s[i] = Numbers(0, f + n)[i]
  <2> TAKE i \in 1..(f + n)
  <2>1. s[i] = IF i <= f THEN Numbers(0, f)[i] ELSE Numbers(f, n)[i - f]
    BY <1>2
  <2>2. i <= f => i \in 1..f
    OBVIOUS
  <2>3. ~(i <= f) => i - f \in 1..n
    OBVIOUS
  <2>4. QED BY <2>1, <2>2, <2>3 DEF Numbers
<1> HIDE DEF s
<1>4. s = Numbers(0, f + n)
  BY <1>1, <1>2, <1>3
<1>5. QED BY <1>4 DEF s

-----------------------------------------------------------------------------
(* The sessions of the mock, with all that is known of a session.            *)
MockInv ==
  /\ RowInv /\ OnceInv /\ NoRowLost /\ OneValuePerRow
  /\ HarnessInv /\ StreamInv /\ EmitsInv /\ ServedInv /\ LeftInv

(* What the harness finds when the client closes the group.                  *)
LEMMA CycleOver ==
  ASSUME MockInv, CloseCycle
  PROVE  /\ pc = "GroupDone" /\ wire = "asked" /\ cycle \in 0..(Cycles - 1) /\ cycle' = cycle + 1
         /\ accepted \in Seq(Nat) /\ observed' = Append(observed, OnTheWire(cycle, accepted))
         /\ wire' = "answered"
         /\ FirstRow(cycle) \in Nat /\ Size(cycle) \in Nat
         /\ FirstRow(cycle + 1) = FirstRow(cycle) + Size(cycle)
         /\ Scalar /\ Returns => accepted = [i \in 1..Size(cycle) |-> i]
         /\ ~Scalar /\ Returns => Len(accepted) = IF Size(cycle) = 0 THEN 0 ELSE 1
<1>0. /\ UnderWay /\ TypeInv /\ RequestInv /\ PhaseInv /\ WaitingInv /\ VisitInv
      /\ OnceInv /\ NoRowLost /\ OneValuePerRow
      /\ HarnessInv /\ StreamInv /\ EmitsInv /\ ServedInv /\ LeftInv
  BY DEF MockInv, RowInv, UnderWay
<1>1. /\ phase = "rows" /\ wire = "asked" /\ req.type = "MT_DONE" /\ cycle' = cycle + 1
      /\ observed' = Append(observed, OnTheWire(cycle, FlattenSeq(emits)))
      /\ Reply("MT_DONE", "none", <<>>)
  BY DEF CloseCycle, Asked
<1>2. cycle \in 0..(Cycles - 1) /\ said = "none" /\ pos \in 0..Len(Encode(cycle))
      /\ handed = Offsets(cycle)[pos]
  BY <1>0, <1>1 DEF HarnessInv, Serving
<1>3. pc = "GroupDone"
  BY <1>0, <1>1, RequestPlace DEF StreamInv, CallLocations
<1>4. accepted \in Seq(Nat) /\ delivered = accepted /\ FlattenSeq(emits) = delivered
  BY <1>0, <1>1, <1>2, <1>3, OutputTypes DEF NoRowLost, EmitsInv
<1>5. FirstRow(cycle) \in Nat /\ Size(cycle) \in Nat
      /\ FirstRow(cycle + 1) = FirstRow(cycle) + Size(cycle)
  BY <1>2, CycleInInput
<1>6. handed \in 0..Size(cycle) /\ (handed = Size(cycle) \/ (~Scalar /\ handed > 0))
  <2>1. Offsets(cycle)[pos] \in 0..Size(cycle)
    BY <1>2, FrameRows
  <2>2. QED BY <1>0, <1>1, <1>2, <1>3, <2>1 DEF LeftInv, RunEnds
<1>7. ASSUME Scalar, Returns
      PROVE  accepted = [i \in 1..Size(cycle) |-> i]
  <2>1. delivered = [i \in 1..handed |-> i] /\ handed = Size(cycle)
    BY <1>0, <1>2, <1>3, <1>6, <1>7 DEF OneValuePerRow
  <2>2. QED BY <1>4, <2>1
<1>8. ASSUME ~Scalar, Returns
      PROVE  Len(accepted) = IF Size(cycle) = 0 THEN 0 ELSE 1
  <2>1. Len(accepted) = runs
    BY <1>0, <1>3, <1>8 DEF OnceInv, RunEnds
  <2>2. pc \in InGroup /\ Fetched = handed
    BY <1>0, <1>1, <1>3, FetchedType, PlaceTypes DEF InGroup
  <2>3. runs = IF handed = 0 THEN 0 ELSE 1
    BY <1>0, <1>3, <1>8, <2>2 DEF VisitInv, SetRows
  <2>4. QED BY <1>5, <1>6, <2>1, <2>3
<1>9. wire' = "answered"
  BY <1>1, ReplyEffect
<1>10. QED BY <1>1, <1>2, <1>3, <1>4, <1>5, <1>7, <1>8, <1>9

(* The sink gets the accepted rows in the step that answers MT_DONE.         *)
LEMMA SinkStep ==
  ASSUME MockInv, CollectedInv, SinkInv, [MockNext]_<<vars, mockVars>>
  PROVE  SinkInv'
<1> SUFFICES ASSUME pc' = "GroupDone", wire' = "answered"
             PROVE  observed'[cycle'] = OnTheWire(cycle - 1, accepted)'
  BY DEF SinkInv
<1>0. TypeInv /\ RequestInv
  BY DEF MockInv, RowInv, UnderWay
<1>1. CASE Answering /\ UNCHANGED <<runtimeVars, dispatchVars, callVars, endVars>>
  <2>1. wire = "asked" /\ pc = "GroupDone" /\ accepted' = accepted
    BY <1>1, AnsweringReplies DEF runtimeVars, dispatchVars, historyVars
  <2>2. req.type = "MT_DONE"
    BY <1>0, <2>1, RequestPlace
  <2>3. CloseCycle
    BY <1>1, <2>2 DEF Answering, Handshake, OpenCycle, ServeNext, KeepEmit, FinishSession, Asked
  <2>4. /\ observed' = Append(observed, OnTheWire(cycle, accepted)) /\ cycle' = cycle + 1
        /\ cycle \in Nat /\ accepted \in Seq(Nat) /\ FirstRow(cycle) \in Nat
    BY <2>3, CycleOver, CycleInInput
  <2>5. /\ observed \in Seq(Seq(Nat)) /\ Len(observed) = cycle
        /\ OnTheWire(cycle, accepted) \in Seq(Nat)
    BY <2>4, OnTheWireType DEF CollectedInv
  <2>6. observed'[cycle'] = OnTheWire(cycle, accepted)
    BY <2>4, <2>5
  <2>7. OnTheWire(cycle - 1, accepted)' = OnTheWire(cycle, accepted)
    <3>1. cycle' - 1 = cycle
      BY <2>4
    <3>2. OnTheWire(cycle - 1, accepted)' = OnTheWire(cycle' - 1, accepted')
      BY Zenon DEF OnTheWire, FirstRow
    <3>3. QED BY <2>1, <3>1, <3>2
  <2>8. QED BY <2>6, <2>7
<1>2. CASE ClientStep
  BY <1>0, <1>2, ClientAnswersNothing
<1>3. CASE UNCHANGED vars /\ UNCHANGED <<cycle, observed>>
  BY <1>3 DEF SinkInv, vars, wireVars, runtimeVars, dispatchVars, historyVars, OnTheWire, FirstRow
<1>4. QED BY <1>1, <1>2, <1>3, MockKinds

(* The rows of one more cycle, behind those of the cycles before.            *)
LEMMA CollectedStep ==
  ASSUME MockInv, CollectedInv, [Next]_vars, [MockNext]_<<vars, mockVars>>
  PROVE  CollectedInv'
<1>0. shape' = shape
  BY ShapeStays DEF MockInv, RowInv, UnderWay
<1>1. CASE CloseCycle
  <2> DEFINE x == OnTheWire(cycle, accepted)
  <2>1. /\ observed' = Append(observed, x) /\ cycle' = cycle + 1 /\ cycle \in Nat
        /\ accepted \in Seq(Nat) /\ FirstRow(cycle) \in Nat /\ Size(cycle) \in Nat
        /\ FirstRow(cycle + 1) = FirstRow(cycle) + Size(cycle)
        /\ Scalar /\ Returns => accepted = [i \in 1..Size(cycle) |-> i]
        /\ ~Scalar /\ Returns => Len(accepted) = IF Size(cycle) = 0 THEN 0 ELSE 1
    BY <1>1, CycleOver, CycleInInput
  <2>2. x \in Seq(Nat) /\ Len(x) = Len(accepted)
    BY <2>1, OnTheWireType
  <2>3. Scalar /\ Returns => x = Numbers(FirstRow(cycle), Size(cycle))
    BY <2>1, OnTheWireNumbers
  <2> HIDE DEF x
  <2>4. observed \in Seq(Seq(Nat)) /\ Len(observed) = cycle
    BY DEF CollectedInv
  <2>5. observed' \in Seq(Seq(Nat)) /\ Len(observed') = cycle'
    BY <2>1, <2>2, <2>4
  <2>6. ASSUME Scalar, Returns
        PROVE  FlattenSeq(observed') = Numbers(0, FirstRow(cycle'))
    <3>1. FlattenSeq(observed) = Numbers(0, FirstRow(cycle))
      BY <2>6 DEF CollectedInv
    <3>2. FlattenSeq(observed) \in Seq(Nat)
      BY <2>1, <3>1, NumbersType
    <3>3. FlattenSeq(Append(observed, x)) = FlattenSeq(observed) \o x
      BY <2>2, <2>4, <3>2, FlattenAppend, Zenon
    <3>4. Numbers(0, FirstRow(cycle)) \o Numbers(FirstRow(cycle), Size(cycle))
            = Numbers(0, FirstRow(cycle) + Size(cycle))
      BY <2>1, NumbersConcat
    <3>5. QED BY <2>1, <2>3, <2>6, <3>1, <3>3, <3>4
  <2>7. ASSUME ~Scalar, Returns, NEW c \in 1..cycle'
        PROVE  Len(observed'[c]) = IF FirstRow(c - 1) < FirstRow(c) THEN 1 ELSE 0
    <3>0. c \in 1..cycle \/ c = cycle + 1
      <4>1. cycle \in Nat /\ c \in 1..(cycle + 1)
        BY <2>1, <2>7
      <4>2. QED BY <4>1
    <3>1. CASE c \in 1..cycle
      <4>1. observed'[c] = observed[c]
        BY <2>1, <2>2, <2>4, <3>1
      <4>2. QED BY <2>7, <3>1, <4>1 DEF CollectedInv
    <3>2. CASE c = cycle + 1
      <4>1. observed'[c] = x
        BY <2>1, <2>2, <2>4, <3>2
      <4>2. c - 1 = cycle
        BY <2>1, <3>2
      <4>3. Len(x) = IF Size(cycle) = 0 THEN 0 ELSE 1
        BY <2>1, <2>2, <2>7
      <4>4. Size(cycle) = 0 <=> ~(FirstRow(cycle) < FirstRow(cycle + 1))
        BY <2>1
      <4>5. FirstRow(c - 1) = FirstRow(cycle) /\ FirstRow(c) = FirstRow(cycle + 1)
        BY <3>2, <4>2, Zenon
      <4> DEFINE before == FirstRow(cycle)
                 after == FirstRow(cycle + 1)
      <4>6. before < after <=> ~(Size(cycle) = 0)
        BY <4>4
      <4> HIDE DEF before, after
      <4>7. Len(x) = IF before < after THEN 1 ELSE 0
        BY <4>3, <4>6
      <4>8. before = FirstRow(c - 1) /\ after = FirstRow(c)
        BY <4>5, Zenon DEF before, after
      <4>9. QED BY <4>1, <4>7, <4>8
    <3>3. QED BY <3>0, <3>1, <3>2, Zenon
  <2>8. QED BY <1>0, <2>5, <2>6, <2>7 DEF CollectedInv, Scalar, Returns, FirstRow, Numbers
<1>2. CASE UNCHANGED <<observed, cycle>>
  BY <1>0, <1>2 DEF CollectedInv, Scalar, Returns, FirstRow, Numbers
<1>3. ~CloseCycle /\ Answering => UNCHANGED <<observed, cycle>>
  BY DEF Answering, Handshake, OpenCycle, ServeNext, KeepEmit, FinishSession
<1>4. QED BY <1>1, <1>2, <1>3, MockKinds DEF mockVars

(* A harness that has not begun has collected nothing.                       *)
LEMMA MockStarts ==
  MockInit => /\ HarnessInv /\ StreamInv /\ EmitsInv /\ ServedInv /\ LeftInv /\ OnceInv
              /\ SinkInv /\ CollectedInv
<1> SUFFICES ASSUME MockInit
             PROVE  /\ HarnessInv /\ StreamInv /\ EmitsInv /\ ServedInv /\ LeftInv /\ OnceInv
                    /\ SinkInv /\ CollectedInv
  OBVIOUS
<1>1. /\ phase = "MT_CLIENT" /\ cycle = 0 /\ observed = <<>> /\ pc = "Client" /\ wire = "idle"
      /\ ~proto.single
  BY DEF MockInit, Init, WireInit, NewProtocol
<1>2. EmitsInv /\ ServedInv /\ LeftInv /\ SinkInv /\ StreamInv
  BY <1>1, PlaceTypes DEF EmitsInv, ServedInv, LeftInv, SinkInv, StreamInv
<1>3. OnceInv
  BY <1>1 DEF OnceInv, RunEnds
<1>4. CollectedInv
  <2>1. <<>> \in Seq(Seq(Nat)) /\ <<>> \in Seq(Nat) /\ Len(<<>>) = 0
    OBVIOUS
  <2>2. FlattenSeq(<<>>) = <<>>
    BY <2>1, FlattenAppend, Zenon
  <2>3. Numbers(0, FirstRow(cycle)) = <<>>
    BY <1>1, CycleRows, NumbersType
  <2>4. QED BY <1>1, <2>1, <2>2, <2>3 DEF CollectedInv
<1>5. QED BY <1>2, <1>3, <1>4, HarnessInit

(* Every row encode put into a frame comes back to the sink of run_cycle     *)
(* (exa-mock-db payload.rs, session.rs): as one value under its number and   *)
(* in order from a scalar RETURNS script, and as one value for each cycle    *)
(* with rows from a set RETURNS script.  The client's half is NoRowLost and  *)
(* OneValuePerRow, whose premises it takes over.                             *)
THEOREM MockCollectsRows ==
  ASSUME AdmitsMock, RefusesAfterEnd, ~SendMayFail, RowsInKind(MayAnswer, Bodies),
         OutputInKind(MayAnswer)
  PROVE  MockSpec => []RowsCollected
<1>1. MockSpec => [][Next]_vars /\ []RowInv /\ []NoRowLost /\ []OneValuePerRow
  <2>1. Spec => []RowInv /\ []NoRowLost /\ []OneValuePerRow /\ [][Next]_vars
    BY RowInvariant, OutputArrives, OneValueEachRow, PTL DEF Spec
  <2>2. QED BY <2>1, MockImplementsSession, PTL DEF ImplementsSession
<1>2. RowInv => UnderWay /\ VisitInv /\ TypeInv /\ RequestInv
  BY DEF RowInv, UnderWay
<1>3. /\ UnderWay /\ VisitInv /\ OnceInv /\ [Next]_vars => OnceInv'
      /\ TypeInv /\ HarnessInv /\ [MockNext]_<<vars, mockVars>> => HarnessInv'
      /\ RequestInv /\ StreamInv /\ [Next]_vars /\ [MockNext]_<<vars, mockVars>> => StreamInv'
      /\ TypeInv /\ HarnessInv /\ EmitsInv /\ [MockNext]_<<vars, mockVars>> => EmitsInv'
      /\ TypeInv /\ RequestInv /\ HarnessInv /\ ServedInv /\ [MockNext]_<<vars, mockVars>>
           => ServedInv'
      /\ RowInv /\ HarnessInv /\ ServedInv /\ LeftInv
           /\ [Next]_vars /\ [MockNext]_<<vars, mockVars>> => LeftInv'
  BY OnceStep, HarnessStep, StreamStep, EmitsStep, ServedStep, LeftStep
<1>4. /\ MockInv /\ CollectedInv /\ SinkInv /\ [MockNext]_<<vars, mockVars>> => SinkInv'
      /\ MockInv /\ CollectedInv /\ [Next]_vars /\ [MockNext]_<<vars, mockVars>> => CollectedInv'
  BY SinkStep, CollectedStep
<1>5. MockInv <=> /\ RowInv /\ OnceInv /\ NoRowLost /\ OneValuePerRow
                  /\ HarnessInv /\ StreamInv /\ EmitsInv /\ ServedInv /\ LeftInv
  BY DEF MockInv
<1>6. HarnessInv /\ CollectedInv /\ SinkInv => RowsCollected
  <2> SUFFICES ASSUME HarnessInv, CollectedInv, SinkInv
               PROVE  RowsCollected
    OBVIOUS
  <2>1. ASSUME result = "ok"
        PROVE  cycle = Cycles /\ FirstRow(cycle) = InputRows
    BY <2>1, CycleRows DEF HarnessInv
  <2>2. Numbers(0, InputRows) = [j \in 1..InputRows |-> j - 1]
    BY MockAssumption DEF Numbers
  <2>3. QED BY <2>1, <2>2 DEF CollectedInv, SinkInv, RowsCollected
<1>7. MockSpec => []MockInv /\ []CollectedInv /\ []SinkInv
  BY <1>1, <1>2, <1>3, <1>4, <1>5, MockStarts, PTL DEF MockSpec
<1>8. MockInv => HarnessInv
  BY DEF MockInv
<1>9. QED BY <1>6, <1>7, <1>8, PTL
=============================================================================
