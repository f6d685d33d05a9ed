------------------------------ MODULE SingleCall ------------------------------
(***************************************************************************)
(* Single-call dispatch: single_call.rs run_single_call and invoke_hook.   *)
(* The database answers each MT_RUN with one MT_CALL; the client runs the  *)
(* hook it names and answers MT_RETURN, or MT_UNDEFINED_CALL when the      *)
(* container implements none, then closes the call with MT_DONE.  The hook *)
(* is the environment: it may look CONNECTIONs up, return or fail.         *)
(***************************************************************************)
EXTENDS Runtime

CONSTANT Implemented   \* the hooks the loaded artifact registered

Hooks == {"columns", "adapter", "import", "export"}

ASSUME SingleCallAssumption == Implemented \subseteq Hooks

VARIABLES
  hook,     \* the function of the call under way, "none" outside one
  reply     \* the request that will answer it, "none" until it is known

callVars == <<hook, reply>>

NoCall == hook = "none" /\ reply = "none"

\* A spec-generation call without its specification: SPEC id |-> hook it names.
Unspecified == [import_nospec |-> "import", export_nospec |-> "export"]

\* Mutant: the function id of the call is taken for a hook.
HookOfId(body) == body

\* The hook a call names; SC_FN_NIL and unknown ids name none.
HookOf(body) == IF body \in DOMAIN Unspecified THEN Unspecified[body] ELSE body

(* Any reply the loop did not ask for is an error, never a retry.           *)
Unexpected == EndDispatch(<<"unexpected">>)

(* A hook the artifact does not implement is looked at before the payload.  *)
CallOpenReply ==
  /\ pc = "CallOpen"
  /\ \E e \in Events :
       /\ Outcome(e)
       /\ \/ /\ e = "SingleCall"
             /\ HookOf(resp.body) \notin Implemented
             /\ GoTo("CallReply")
             /\ hook' = HookOf(resp.body) /\ reply' = "MT_UNDEFINED_CALL"
          \/ /\ e = "SingleCall"
             /\ HookOf(resp.body) \in Implemented
             /\ resp.body \in DOMAIN Unspecified
             /\ EndDispatch(<<"udf">>)
             /\ UNCHANGED callVars
          \/ /\ e = "SingleCall"
             /\ resp.body \in Implemented
             /\ GoTo("InHook")
             /\ hook' = resp.body /\ UNCHANGED reply
          \/ EndsSession(e) /\ UNCHANGED callVars
          \/ e \notin EndEvents \cup {"SingleCall"} /\ Unexpected /\ UNCHANGED callVars
  /\ calls' = 0
  /\ UNCHANGED shape

\* default_output_columns takes no context; the others resolve CONNECTIONs.
HookConnection ==
  /\ pc = "InHook"
  /\ hook # "columns"
  /\ calls < MaxCalls
  /\ calls' = calls + 1
  /\ GoTo("HookImport")
  /\ UNCHANGED <<wireVars, shape, callVars>>

HookImportReply ==
  /\ pc = "HookImport"
  /\ \E e \in Events :
       /\ Outcome(e)
       /\ \/ e = "ConnInfo" /\ resp.body # "nokind" /\ GoTo("InHook")
          \/ ~(e = "ConnInfo" /\ resp.body # "nokind")
             /\ (EndDispatch(<<"udf">>) \/ (UdfMaySwallow /\ GoTo("InHook")))
  /\ UNCHANGED <<shape, calls, callVars>>

HookReturns ==
  /\ pc = "InHook"
  /\ reply' = "MT_RETURN"
  /\ GoTo("CallReply")
  /\ UNCHANGED <<wireVars, shape, calls, hook>>

HookFails ==
  /\ pc = "InHook"
  /\ EndDispatch(<<"udf">>)
  /\ UNCHANGED <<wireVars, shape, calls, callVars>>

\* Mutant: either echo will do.
AcknowledgesAny(e) == e \in {"SingleCallAck", "UndefinedCallAck"}

\* The database acknowledges a reply by echoing its kind.
Acknowledges(e) ==
  \/ e = "SingleCallAck" /\ reply = "MT_RETURN"
  \/ e = "UndefinedCallAck" /\ reply = "MT_UNDEFINED_CALL"

CallReplyReply ==
  /\ pc = "CallReply"
  /\ \E e \in Events :
       /\ Outcome(e)
       /\ \/ Acknowledges(e) /\ GoTo("CallDone")
          \/ EndsSession(e)
          \/ e \notin EndEvents /\ ~Acknowledges(e) /\ Unexpected
  /\ hook' = "none"
  /\ reply' = "none"
  /\ UNCHANGED <<shape, calls>>

CallDoneReply ==
  /\ pc = "CallDone"
  /\ \E e \in Events :
       /\ Outcome(e)
       /\ \/ e = "Done" /\ GoTo("CallOpen")
          \/ EndsSession(e)
          \/ e \notin EndEvents \cup {"Done"} /\ Unexpected
  /\ UNCHANGED <<shape, calls, callVars>>

CallStep ==
  \/ CallOpenReply \/ HookConnection \/ HookImportReply \/ HookReturns \/ HookFails
  \/ CallReplyReply \/ CallDoneReply

SingleCallTypeOK ==
  /\ hook \in Hooks \cup {"nil", "none"}
  /\ reply \in {"none", "MT_RETURN", "MT_UNDEFINED_CALL"}
=============================================================================
