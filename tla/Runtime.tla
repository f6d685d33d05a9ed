-------------------------------- MODULE Runtime --------------------------------
(***************************************************************************)
(* The control state the two dispatchers and Runtime::run share: where the *)
(* single client thread stands, the script's registration from MT_META,    *)
(* and the errors the session would report.                                *)
(***************************************************************************)
EXTENDS Wire

CONSTANTS
  Registered,      \* the iteration axes MT_META may announce
  UdfMaySwallow,   \* UDF code may carry on after a context call returned Err
  MaxCalls         \* bound: context calls of the UDF in one group or single call

IterTypes == {"ExactlyOnce", "Multiple"}
Shapes    == [input : IterTypes, output : IterTypes]

ASSUME RuntimeAssumption ==
  /\ Registered \subseteq Shapes
  /\ UdfMaySwallow \in BOOLEAN
  /\ MaxCalls \in Nat

VARIABLES
  pc,       \* where the client thread stands; at most locations it owns an exchange
  shape,    \* the iteration axes of MT_META
  errors,   \* what the error close would name, original error first; <<>> is Ok
  calls     \* context calls in this group or single call (bounded by MaxCalls)

runtimeVars == <<pc, shape, errors, calls>>

\* Locations of lib.rs, dispatch.rs (streaming) and single_call.rs.
SetupLocations  == {"Client", "Meta", "Prepare"}
DataLocations   == {"GroupOpen", "FirstBatch", "RunOnce", "InUdf", "Flush", "Next", "Import",
                    "Advance", "GroupEnd", "TailFlush", "GroupDone"}
CallLocations   == {"CallOpen", "InHook", "HookImport", "CallReply", "CallDone"}
EndLocations    == {"Hook", "Finish", "ErrorClose", "Exited"}
Locations       == SetupLocations \cup DataLocations \cup CallLocations \cup EndLocations

\* What went wrong, by the RuntimeError that carries it.
ErrorKinds == {"handshake", "invalid", "wire", "udf", "dbclose", "unexpected", "hook"}

\* Mutant: a dispatcher whose result propagates past the cleanup hook.
EndDispatchPastHook(errs) ==
  pc' = (IF errs = <<>> THEN "Finish" ELSE "ErrorClose") /\ errors' = errs

(* The dispatcher returns to Runtime::run, which runs the cleanup hook      *)
(* whatever the result is.                                                  *)
EndDispatch(errs) == pc' = "Hook" /\ errors' = errs

GoTo(location) == pc' = location /\ UNCHANGED errors

\* Mutant: MT_CLOSE is as good as MT_CLEANUP.
EndsSessionCleanly(e) ==
  \/ e \in {"Cleanup", "Close"} /\ EndDispatch(<<>>)
  \/ e = "Error" /\ EndDispatch(<<"wire">>)

(* How both dispatchers end the session on a reply that is not the one they *)
(* asked for: MT_CLEANUP ends it cleanly, MT_CLOSE with the database's       *)
(* message (wire.rs close_error), a failed exchange with its own error.      *)
EndsSession(e) ==
  \/ e = "Cleanup" /\ EndDispatch(<<>>)
  \/ e = "Close"   /\ EndDispatch(<<"dbclose">>)
  \/ e = "Error"   /\ EndDispatch(<<"wire">>)

EndEvents == {"Cleanup", "Close", "Error"}

RuntimeTypeOK ==
  /\ pc \in Locations
  /\ shape \in Shapes
  /\ errors \in Seq(ErrorKinds)
  /\ calls \in Nat
=============================================================================
