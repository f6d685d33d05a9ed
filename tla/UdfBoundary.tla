------------------------------ MODULE UdfBoundary ------------------------------
(***************************************************************************)
(* A call across the C ABI between the host and the UDF artifact: the      *)
(* shims #[exasol_udf] expands to on one side, loader.rs on the other.     *)
(* What crosses back is a return code and a malloc'ed C string the host    *)
(* must free.  Inside the call the UDF uses connect-back as it likes.      *)
(*                                                                         *)
(* Which slots are called in which order is the session's business         *)
(* (Session, Dispatch, SingleCall); here any slot may be called next.      *)
(***************************************************************************)
EXTENDS Artifact, ConnectBack

VARIABLES
  slot,        \* the slot of the call under way or made last
  said,        \* how the UDF's function ended: "ok", "error", "mute" (empty text), "panic"
  recorded,    \* last_error of the call's context is set
  rc,          \* return code of the shim
  out,         \* the C string the shim left in *out, "null" if none
  starved,     \* malloc returned null in this call
  live,        \* C strings allocated and not yet freed
  answer       \* what the call returned to the dispatcher

callVars == <<slot, said, recorded, rc, out, starved, live, answer>>
vars     == <<artifactVars, backVars, callVars>>

Init ==
  /\ ArtifactInit
  /\ BackInit
  /\ slot = "none" /\ said = "none" /\ recorded = FALSE
  /\ rc = 0 /\ out = "null" /\ starved = FALSE /\ live = 0
  /\ answer = "none"

Lifecycle  == {"run", "cleanup"}
CtxHooks   == {"adapter", "import", "export"}
Registered == vtable.hooks \cup {"run"}

\* Which slots a session calls: rows or single calls, and cleanup after either.
Callable == (IF meta.single THEN CtxHooks \cup {"columns"} ELSE {"run"}) \cup {"cleanup"}

-----------------------------------------------------------------------------
Reading(s) == stage = "Ready" /\ s \in Callable /\ read' = read \cup {s}

\* An optional slot that is null is not called: no cleanup, or MT_UNDEFINED_CALL.
SkipSlot(s) ==
  /\ Reading(s)
  /\ s \notin Registered
  /\ slot' = s /\ said' = "none" /\ answer' = "absent"
  /\ UNCHANGED <<source, meta, stage, refused, backVars, recorded, rc, out, starved, live>>

(* call_ctx_arg_hook refuses a payload CString::new cannot hold; the JSON   *)
(* of a specification never is one, the adapter's payload may be.           *)
RefuseArgument ==
  /\ Reading("adapter")
  /\ "adapter" \in Registered
  /\ slot' = "adapter" /\ said' = "none" /\ answer' = "nul"
  /\ UNCHANGED <<source, meta, stage, refused, backVars, recorded, rc, out, starved, live>>

(* The host clears error_out and calls; the context has no error yet.       *)
CallSlot(s) ==
  /\ Reading(s)
  /\ s \in Registered
  /\ Enter("InUdf")
  /\ slot' = s /\ said' = "none" /\ answer' = "none"
  /\ recorded' = FALSE /\ out' = "null" /\ rc' = 0 /\ starved' = FALSE
  /\ made' = 0 /\ last' = Nothing
  /\ UNCHANGED <<source, meta, live, conns, calls, statements, lost, aborted>>

-----------------------------------------------------------------------------
(* The UDF: everything but default_output_columns has a context.            *)
HasContext == slot # "columns"

\* connection(), cluster_ip() or connect_back() returned Err.
ContextFails ==
  /\ stage = "InUdf" /\ HasContext /\ UdfRuns
  /\ recorded' = TRUE
  /\ UNCHANGED <<artifactVars, backVars, slot, said, rc, out, starved, live, answer>>

OpenFailed ==
  /\ calls # <<>> /\ Top.op = "open"
  /\ last' = [op |-> "open", outcome |-> "error", result |-> Top.result, got |-> Top.got]

UsesConnectBack ==
  /\ stage = "InUdf" /\ HasContext
  /\ BackStep
  /\ recorded' = (recorded \/ OpenFailed)
  /\ UNCHANGED <<artifactVars, slot, said, rc, out, starved, live, answer>>

(* The function ends: with a panic also out of a callback, whose operations *)
(* unwind with it.                                                          *)
UdfEnds(how) ==
  /\ stage = "InUdf" /\ UdfRuns
  /\ calls # <<>> => how = "panic"
  /\ calls' = <<>>
  /\ said' = how
  /\ Enter("Leaving")
  /\ UNCHANGED <<source, meta, read, conns, statements, lost, last, made, aborted,
                 slot, recorded, rc, out, starved, live, answer>>

\* The connections it held are dropped with its locals.
DropsLocals ==
  /\ stage = "Leaving"
  /\ (\E c \in Conns : DropConnection(c)) \/ ShutdownAnswers
  /\ UNCHANGED <<artifactVars, callVars>>

-----------------------------------------------------------------------------
\* What a shim hands to write_c_string, if anything.
Texts ==
  CASE said = "ok"    -> IF slot \in Lifecycle THEN {} ELSE {"result"}
    [] said = "error" -> {"text"}
    [] said = "mute"  -> {"empty"}
    [] said = "panic" -> IF slot \in Lifecycle THEN {} ELSE {"panicked"}

(* build_lifecycle_shim and build_ctx_hook_tokens: Ok 0, Err 1, panic 2.    *)
ShimReturns ==
  /\ stage = "Leaving" /\ ~aborted
  /\ calls = <<>> /\ \A c \in Conns : conns[c] = "none"
  /\ rc' = CASE said = "ok" -> 0 [] said \in {"error", "mute"} -> 1 [] said = "panic" -> 2
  /\ \/ Texts = {} /\ UNCHANGED <<out, live, starved>>
     \/ \E text \in Texts : out' = text /\ live' = live + 1 /\ UNCHANGED starved
     \/ Texts # {} /\ out' = "null" /\ starved' = TRUE /\ UNCHANGED live
  /\ Enter("Returned")
  /\ UNCHANGED <<source, meta, read, backVars, slot, said, recorded, answer>>

\* Mutant: the pointer is not compared with null.
FreedUnseen == live - 1

\* take_c_string copies the string and frees it.
Taken   == IF out = "null" THEN "empty" ELSE out
Freed   == IF out = "null" THEN live ELSE live - 1

\* Mutant: any text a slot wrote is the author's.
HookErrorByText(text) ==
  CASE text # "empty"                -> "own"
    [] text = "empty" /\ recorded    -> "explained"
    [] text = "empty" /\ ~recorded   -> "unexplained"

(* hook_error and with_recorded_detail: code 1 with text is the author's    *)
(* own word; anything else is explained by the context's last error.        *)
HookError(text) ==
  CASE rc = 1 /\ text # "empty"                -> "own"
    [] ~(rc = 1 /\ text # "empty") /\ recorded  -> "explained"
    [] ~(rc = 1 /\ text # "empty") /\ ~recorded -> "unexplained"

\* Mutant: the text of a failed slot is read and left to the allocator.
HostTakesBorrowing ==
  /\ stage = "Returned"
  /\ live' = IF rc = 0 /\ slot \notin Lifecycle THEN Freed ELSE live
  /\ answer' = IF rc = 0 THEN "ok" ELSE HookError(Taken)
  /\ Enter("Ready")
  /\ UNCHANGED <<source, meta, read, backVars, slot, said, recorded, rc, out, starved>>

(* call_lifecycle_slot, call_noarg_hook, call_ctx_arg_hook: the result of a *)
(* hook and the text of a failure are taken; run and cleanup leave nothing  *)
(* to take when they succeed.                                               *)
HostTakes ==
  /\ stage = "Returned"
  /\ live' = IF rc = 0 /\ slot \in Lifecycle THEN live ELSE Freed
  /\ answer' = IF rc = 0 THEN "ok" ELSE HookError(Taken)
  /\ Enter("Ready")
  /\ UNCHANGED <<source, meta, read, backVars, slot, said, recorded, rc, out, starved>>

\* The session is over; the library stays loaded until the process exits.
Finish ==
  /\ stage = "Ready"
  /\ Enter("Exited")
  /\ UNCHANGED <<source, meta, read, backVars, callVars>>

Terminated == (stage = "Exited" \/ aborted) /\ UNCHANGED vars

Next ==
  \/ ArtifactStep /\ UNCHANGED <<backVars, callVars>>
  \/ \E s \in Slots : SkipSlot(s) \/ CallSlot(s)
  \/ RefuseArgument
  \/ ContextFails \/ UsesConnectBack
  \/ \E how \in {"ok", "error", "mute", "panic"} : UdfEnds(how)
  \/ DropsLocals \/ ShimReturns \/ HostTakes \/ Finish
  \/ Terminated

Spec == Init /\ [][Next]_vars

-----------------------------------------------------------------------------
(* Type invariant of the boundary.                                          *)
Stages == {"Resolve", "CheckAbi", "CheckPrint", "CheckShape", "CheckSchema",
           "Ready", "InUdf", "Leaving", "Returned", "Exited"}

TypeOK ==
  /\ stage \in Stages
  /\ read \subseteq Slots \cup {"abi", "print", "shape", "input", "output"}
  /\ refused \in {"none", "directive", "loader", "entry", "abi", "print", "shape", "schema"}
  /\ conns \in [Conns -> {"none", "open"}]
  /\ statements \in [Conns -> Nat] /\ lost \in [Conns -> Nat]
  /\ made \in 0..MaxCalls
  /\ slot \in Slots \cup {"none"}
  /\ said \in {"none", "ok", "error", "mute", "panic"}
  /\ out \in {"null", "empty", "text", "panicked", "result"}
  /\ answer \in {"none", "ok", "own", "explained", "unexplained", "absent", "nul"}
  /\ rc \in 0..2 /\ live \in Nat
  /\ {recorded, starved, aborted} \subseteq BOOLEAN

(* Ownership of the C string crosses with the call: between calls every     *)
(* string a slot allocated has been freed, exactly once, whatever it        *)
(* returned (abi.rs: the host takes ownership and frees it).                *)
StringsTaken ==
  live = IF stage = "Returned" /\ out # "null" THEN 1 ELSE 0

(* error.rs: "a hook's own text is the author's final word".  What the      *)
(* dispatcher gets is the text the function failed with; a panic or a       *)
(* failure without words is never passed off as the author's, and carries   *)
(* the error its context recorded.  Without memory the text is lost.        *)
FinalWord ==
  stage = "Ready" /\ said # "none" /\ ~starved =>
    answer = CASE said = "ok"    -> "ok"
               [] said = "error" -> "own"
               [] said \in {"mute", "panic"} -> IF recorded THEN "explained" ELSE "unexplained"
=============================================================================
