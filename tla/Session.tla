------------------------------- MODULE Session -------------------------------
(***************************************************************************)
(* One UDF session end to end: lib.rs Runtime::run.  The handshake, the    *)
(* checks before dispatch, one of the two dispatchers, the cleanup hook    *)
(* and the final message, composed with the wire and the database.         *)
(***************************************************************************)
EXTENDS Dispatch, SingleCall, Database

VARIABLES
  hooks,     \* times Runtime::run has reached the cleanup hook
  finals,    \* final messages handed to the socket: MT_FINISHED, MT_CLOSE
  failed     \* history: a function of the artifact (run, single call, cleanup) returned Err

endVars == <<hooks, finals, failed>>
vars == <<wireVars, dbVars, runtimeVars, dispatchVars, callVars, endVars>>

Init ==
  /\ WireInit
  /\ DatabaseInit
  /\ pc = "Client" /\ shape \in Registered /\ errors = <<>> /\ calls = 0
  /\ NoGroup
  /\ NoCall
  /\ hooks = 0
  /\ finals = {}
  /\ failed = FALSE

-----------------------------------------------------------------------------
(* The request each location sends.  It is sent again when the dispatcher   *)
(* stays where it is (handshake, batch_fetcher).                            *)
Asks ==
  [Client |-> "MT_CLIENT", Meta |-> "MT_META",
   GroupOpen |-> "MT_RUN", FirstBatch |-> "MT_NEXT", Next |-> "MT_NEXT",
   Advance |-> "MT_NEXT", Flush |-> "MT_EMIT", TailFlush |-> "MT_EMIT",
   Import |-> "MT_IMPORT", GroupDone |-> "MT_DONE",
   CallOpen |-> "MT_RUN", HookImport |-> "MT_IMPORT", CallDone |-> "MT_DONE",
   Finish |-> "MT_FINISHED"]

RequestAt ==
  CASE pc = "CallReply"             -> Request(reply, <<>>)
    [] pc \in {"Flush", "TailFlush"} -> Request("MT_EMIT", buffer)
    [] OTHER                         -> Request(Asks[pc], <<>>)

SendRequest ==
  /\ pc \in DOMAIN Asks \cup {"CallReply"}
  /\ Send(RequestAt)
  /\ finals' = IF pc = "Finish" THEN finals \cup {"MT_FINISHED"} ELSE finals
  /\ UNCHANGED <<dbVars, runtimeVars, dispatchVars, callVars, hooks, failed>>

EchoPing ==
  /\ PingReply
  /\ UNCHANGED <<dbVars, runtimeVars, dispatchVars, callVars, endVars>>

DatabaseStep ==
  /\ Answers
  /\ UNCHANGED <<runtimeVars, dispatchVars, callVars, endVars>>

-----------------------------------------------------------------------------
(* handshake: MT_INFO asks for the metadata, MT_META ends it.  After any    *)
(* other event the loop receives again without having sent, which a REQ     *)
(* socket refuses; like every failure in here it ends the session with      *)
(* nothing more said to the database.                                       *)
HandshakeReply ==
  /\ pc \in {"Client", "Meta"}
  /\ \E e \in Events :
       /\ Outcome(e)
       /\ \/ e = "Pending" /\ GoTo("Meta")
          \/ e = "Meta" /\ GoTo("Prepare")
          \/ e \notin {"Pending", "Meta"} /\ pc' = "Exited" /\ errors' = <<"handshake">>
  /\ UNCHANGED <<shape, calls, dbVars, dispatchVars, callVars, endVars>>

(* Between handshake and dispatch: %udf_object, LoadedUdf::open, the output *)
(* shape (not in single-call mode) and the annotated schema are checked;    *)
(* the first that fails closes the session, and the hook is skipped.        *)
Prepare ==
  /\ pc = "Prepare"
  /\ \/ GoTo(IF proto.single THEN "CallOpen" ELSE "GroupOpen")
     \/ pc' = "ErrorClose" /\ errors' = <<"invalid">>
  /\ UNCHANGED <<wireVars, shape, calls, dbVars, dispatchVars, callVars, endVars>>

\* Mutant: the error of the hook takes the place of the first one.
RunHookHiding ==
  /\ pc = "Hook"
  /\ hooks' = hooks + 1
  /\ \/ GoTo(IF errors = <<>> THEN "Finish" ELSE "ErrorClose") /\ UNCHANGED failed
     \/ pc' = "ErrorClose" /\ errors' = <<"hook">> /\ failed' = TRUE
  /\ UNCHANGED <<wireVars, shape, calls, dbVars, dispatchVars, callVars, finals>>

(* cleanup::run_hook: no hook registered or Ok leaves the outcome alone, an *)
(* error is folded in after the original one; a clean outcome is finished.  *)
RunHook ==
  /\ pc = "Hook"
  /\ hooks' = hooks + 1
  /\ \/ GoTo(IF errors = <<>> THEN "Finish" ELSE "ErrorClose") /\ UNCHANGED failed
     \/ pc' = "ErrorClose" /\ errors' = Append(errors, "hook") /\ failed' = TRUE
  /\ UNCHANGED <<wireVars, shape, calls, dbVars, dispatchVars, callVars, finals>>

\* Mutant: the success path falls through to the error close.
FinishReplyThenClose ==
  /\ pc = "Finish"
  /\ \E e \in Events : Outcome(e)
  /\ pc' = "ErrorClose" /\ errors' = <<"wire">>
  /\ UNCHANGED <<shape, calls, dbVars, dispatchVars, callVars, endVars>>

(* send_finished: whatever event answers MT_FINISHED, the session is over.  *)
FinishReply ==
  /\ pc = "Finish"
  /\ \E e \in Events :
       /\ Outcome(e)
       /\ IF e = "Error" THEN pc' = "ErrorClose" /\ errors' = <<"wire">> ELSE GoTo("Exited")
  /\ UNCHANGED <<shape, calls, dbVars, dispatchVars, callVars, endVars>>

\* Mutant: the process exits without a word.
ExitSilently ==
  /\ pc = "ErrorClose"
  /\ GoTo("Exited")
  /\ UNCHANGED <<wireVars, shape, calls, dbVars, dispatchVars, callVars, endVars>>

\* Mutant: the error close is tried until it gets through.
SendCloseRetrying ==
  /\ pc = "ErrorClose"
  /\ IF wire = "idle"
     THEN finals' = finals \cup {"MT_CLOSE"} /\ GoTo("Exited")
     ELSE UNCHANGED <<finals, pc, errors>>
  /\ UNCHANGED <<wireVars, shape, calls, dbVars, dispatchVars, callVars, hooks, failed>>

(* error_close_request: sent without waiting for a reply, a failure to send *)
(* ignored; the process exits.                                              *)
SendClose ==
  /\ pc = "ErrorClose"
  /\ \/ wire = "idle" /\ finals' = finals \cup {"MT_CLOSE"}
     \/ (wire = "stuck" \/ SendMayFail) /\ UNCHANGED finals
  /\ GoTo("Exited")
  /\ UNCHANGED <<wireVars, shape, calls, dbVars, dispatchVars, callVars, hooks, failed>>

Exited == pc = "Exited" /\ UNCHANGED vars

-----------------------------------------------------------------------------
(* run() or the function of a single call returned Err: its Ok never leads  *)
(* to the cleanup hook at once (run_once, invoke_hook and their `?`).       *)
FunctionFails ==
  pc \in {"InUdf", "Flush", "Next", "Import", "InHook", "HookImport"} /\ pc' = "Hook"

StreamingStep ==
  /\ UdfStep \/ DispatchStep
  /\ failed' = (failed \/ FunctionFails)
  /\ UNCHANGED <<dbVars, callVars, hooks, finals>>

SingleCallStep ==
  /\ CallStep
  /\ failed' = (failed \/ FunctionFails)
  /\ UNCHANGED <<dbVars, dispatchVars, hooks, finals>>

ClientStep ==
  \/ SendRequest \/ EchoPing \/ HandshakeReply \/ Prepare
  \/ StreamingStep \/ SingleCallStep \/ RunHook \/ FinishReply \/ SendClose

Next == ClientStep \/ DatabaseStep \/ Exited

Spec == Init /\ [][Next]_vars

(* The client thread is always scheduled again.  Nothing is assumed of the *)
(* database: a receive gives up by itself (ReceiveMayTimeOut).             *)
FairSpec == Spec /\ WF_vars(ClientStep)
-----------------------------------------------------------------------------
(* Type invariant.                                                          *)
TypeOK ==
  /\ WireTypeOK
  /\ DatabaseTypeOK
  /\ RuntimeTypeOK
  /\ DispatchTypeOK
  /\ SingleCallTypeOK
  /\ hooks \in Nat
  /\ finals \subseteq {"MT_FINISHED", "MT_CLOSE"}
  /\ failed \in BOOLEAN

-----------------------------------------------------------------------------
(* What docs/protocol.md says a database answers, as far as a property      *)
(* below depends on it: may is a value of MayAnswer.                        *)

\* A type of response that answers one type of request only.
AnswersOnly(may, type, request) == \A q \in RequestTypes : type \in may[q] => q = request

\* MT_RUN opens a group or a call or ends the session, and nothing else opens one.
OpensInKind(may) ==
  /\ may["MT_RUN"] \subseteq {"MT_RUN", "MT_CALL", "MT_CLEANUP", "MT_CLOSE", "MT_PING_PONG"}
  /\ AnswersOnly(may, "MT_CALL", "MT_RUN")
  /\ AnswersOnly(may, "MT_FINISHED", "MT_FINISHED")

\* Input rows come where they were asked for, and they decode.
RowsInKind(may, bodies) ==
  /\ OpensInKind(may)
  /\ AnswersOnly(may, "MT_NEXT", "MT_NEXT")
  /\ bodies["MT_NEXT"] \subseteq {"table"}

\* Output is acknowledged, or the session ended.
OutputInKind(may) ==
  /\ OpensInKind(may)
  /\ AnswersOnly(may, "MT_EMIT", "MT_EMIT")
  /\ may["MT_EMIT"] \subseteq {"MT_EMIT", "MT_PING_PONG", "MT_CLEANUP", "MT_CLOSE"}

\* MT_FINISHED is answered by a message of any phase.
FinishedInKind(may) == may["MT_FINISHED"] \subseteq DOMAIN AnyPhaseEvent

-----------------------------------------------------------------------------
(* Output rows.                                                             *)

\* Buffered rows the database has not acknowledged yet.
Unacknowledged == IF wire = "answered" /\ resp.type = "MT_EMIT" THEN <<>> ELSE buffer

(* No emitted row is lost, repeated or reordered on its way through the     *)
(* group's buffer: what the database has acknowledged followed by what is   *)
(* still buffered is exactly what the UDF's emits were told was accepted,   *)
(* and when MT_DONE closes the group nothing is left behind (rowset.rs      *)
(* push_output_row and flush, dispatch.rs tail_flush).  Output emitted      *)
(* after the database has ended the session is refused, and a flush that    *)
(* could not be sent has dropped its rows: neither is covered.              *)
NoRowLost ==
  said = "none" /\ wire # "stuck" =>
    /\ pc \in {"RunOnce", "InUdf", "Next", "Import", "Advance", "GroupEnd", "TailFlush"}
         => delivered \o Unacknowledged = accepted
    /\ pc = "GroupDone" => delivered = accepted

(* A group the session goes on from has delivered all the output its UDF    *)
(* was told was accepted, also when a flush failed and the UDF carried on   *)
(* (EmitBuffer::flush drops the rows either way), or when the database      *)
(* answered MT_EMIT with the end of the session and emit_flusher took it    *)
(* for the acknowledgement: in both cases MT_DONE does not come through.    *)
GroupOutputDelivered ==
  [][pc = "GroupDone" /\ pc' = "GroupOpen" => delivered = accepted]_vars

(* The emit buffer is bounded: outside the flush itself a group never holds *)
(* EMIT_BUFFER_LIMIT_BYTES or more between two context calls, and the       *)
(* estimate is zero exactly when no row is buffered (rowset.rs account,     *)
(* clear).                                                                  *)
BufferBounded ==
  /\ pc \in DataLocations \ {"Flush"} => cost < FlushLimit
  /\ (cost = 0) <=> (buffer = <<>>)

(* An emitted row always names an input row of its group, the one the run   *)
(* was on: re-attached columns of the select list come from it.             *)
RowNamesInput ==
  pc \in DataLocations \ {"GroupOpen"} =>
    \A i \in DOMAIN accepted : accepted[i] \in 1..handed

(* What a scalar run emits, and its return value, goes out under the number *)
(* of the row that run was given, across batch seams and refills            *)
(* (current_row_number, advance_row, set_return).                           *)
NumberOfCurrentRow ==
  [][Scalar /\ Len(accepted') > Len(accepted) =>
       accepted'[Len(accepted')] = visited[Len(visited)]]_vars

(* A scalar RETURNS group that reaches MT_DONE has delivered one value per  *)
(* input row, under that row's number, in order, across every batch and     *)
(* flush boundary (drive_group_rows, set_return, tail_flush).               *)
OneValuePerRow ==
  pc = "GroupDone" /\ said = "none" /\ Scalar /\ Returns => delivered = [i \in 1..handed |-> i]

-----------------------------------------------------------------------------
(* Input rows.                                                              *)

(* Rows reach the UDF in order, none skipped and none presented twice,      *)
(* whatever the batches and the zero-row batches between them; a scalar     *)
(* group is left only after all of them, and a set group runs once.         *)
EveryRowOnce ==
  pc \in DataLocations \ {"GroupOpen"} =>
    /\ Len(visited) <= handed
    /\ visited = [i \in 1..Len(visited) |-> i]
    /\ pc \in {"TailFlush", "GroupDone"} /\ exit = "none" =>
         IF Scalar THEN Len(visited) = handed /\ runs = handed
                   ELSE runs = IF handed = 0 THEN 0 ELSE 1

(* While a row runs, an error recorded on an earlier row is gone: it cannot *)
(* explain this row's failure (dispatch.rs run_once).                       *)
RecordedIsFresh == pc \in {"InUdf", "Flush", "Next", "Import"} => recorded \in {0, runs}

-----------------------------------------------------------------------------
(* The end of the session.                                                  *)

(* MT_FINISHED is sent only to a database that has sent MT_CLEANUP, after   *)
(* the one cleanup hook, and only if no function of the artifact failed,    *)
(* the hook included: a run() that fails after a mid-group MT_CLEANUP is    *)
(* not reported as success (dispatch.rs run_group returns its error before  *)
(* it looks at the noted exit).                                             *)
FinishedMeansClean ==
  "MT_FINISHED" \in finals => "MT_CLEANUP" \in ended /\ hooks = 1 /\ ~failed

(* The database gets one final message, MT_FINISHED or MT_CLOSE and never   *)
(* both, and a session that failed after its handshake tells it so, unless  *)
(* the socket is unusable (lib.rs send_finished, error_close_request).      *)
FinalMessage ==
  /\ finals # {"MT_FINISHED", "MT_CLOSE"}
  /\ pc = "Exited" /\ errors # <<>> /\ errors[1] # "handshake" /\ wire # "stuck"
       => "MT_CLOSE" \in finals

Sends == wire = "idle" /\ wire' = "asked"

(* After MT_CLEANUP the cleanup hook has run before any further message     *)
(* leaves the client, and that message is MT_FINISHED                       *)
(* (specs/runtime/dispatch-cleanup-hook/spec.md:7).                         *)
HookBeforeNextMessage ==
  [][Sends /\ said = "cleanup" => hooks = 1 /\ req'.type = "MT_FINISHED"]_vars

(* A database that has sent MT_CLOSE is asked nothing more: all the client  *)
(* still sends is its own MT_CLOSE (docs/protocol.md:95).                   *)
CloseAnsweredByClose == [][Sends => said # "close"]_vars

(* The end came with an answer the framework looks at.  The one to MT_EMIT  *)
(* is dropped (emit_flusher, tail_flush), and the one to MT_IMPORT is an    *)
(* error of connection() to the UDF (conn_requester).                       *)
Noticed == said # "none" /\ endedAt \notin {"MT_EMIT", "MT_IMPORT"}

(* What the framework itself says after a terminal message it was given:    *)
(* only the MT_FINISHED behind the cleanup hook.  A mid-group end reaches a *)
(* set UDF as the end of its input (batch_fetcher's exit), and until its    *)
(* run() returns the requests of that UDF are the only others.              *)
EndStopsTheFramework ==
  [][Sends /\ Noticed =>
       \/ said = "cleanup" /\ hooks = 1 /\ req'.type = "MT_FINISHED"
       \/ hooks = 0 /\ ~Scalar /\ ~proto.single /\ pc \in {"Next", "Flush", "Import"}]_vars

(* The session comes to an end whatever the database does or fails to do,   *)
(* unless it stalls it for ever: every request that is asked again, every   *)
(* ping echoed and every group a stray reply opens is owed to one more      *)
(* reply that moved nothing (batch_fetcher's loop, request's ping loop).    *)
SessionEnds == <>(pc = "Exited") \/ []<><<stalls' # stalls>>_vars

-----------------------------------------------------------------------------
(* Single calls.                                                            *)

(* MT_DONE closes a single call only once the database has echoed, in kind, *)
(* the one reply the client gave it; a hook the artifact does not implement *)
(* is never answered with a result, an implemented one never as undefined.  *)
CallsSettled ==
  /\ pc = "CallDone" => settled = groups
  /\ pc = "CallReply" => settled + 1 >= groups
  /\ pc = "CallReply" => (reply = "MT_UNDEFINED_CALL" <=> hook \notin Implemented)

-----------------------------------------------------------------------------
(* The abstract specification a session implements.                         *)
Stage ==
  CASE pc = "Exited"                            -> "over"
    [] pc # "Exited" /\ hooks > 0               -> "cleaning"
    [] pc \in SetupLocations \cup {"ErrorClose"} /\ hooks = 0 -> "opening"
    [] OTHER                                    -> "dispatching"

Verdict ==
  CASE pc # "Exited"            -> "none"
    [] pc = "Exited" /\ errors = <<>> -> "finished"
    [] pc = "Exited" /\ errors # <<>> /\ "MT_CLOSE" \in finals -> "closed"
    [] OTHER                    -> "lost"

\* What the error close names first.
Cause == IF errors = <<>> THEN "none" ELSE errors[1]

Contract == INSTANCE SessionContract
              WITH stage <- Stage, verdict <- Verdict, cause <- Cause

(* A session is refused before dispatch without the hook, or dispatches,    *)
(* runs the hook exactly once and only then ends; the first thing that went *)
(* wrong stays the one that is reported, and what went wrong decides how    *)
(* the session ends (SessionContract).                                      *)
ImplementsContract == Contract!Spec
=============================================================================
