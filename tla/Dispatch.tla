------------------------------- MODULE Dispatch -------------------------------
(***************************************************************************)
(* Streaming dispatch: dispatch.rs run_udf and run_group, the batch cursor *)
(* (rowset.rs InputRowSet, HostContextBridge) and the group's emit buffer. *)
(* A SCALAR script (input axis ExactlyOnce) is driven row by row by the    *)
(* framework; a SET script pulls its rows with next().  The UDF itself is  *)
(* the environment: inside run() it makes any legal sequence of context    *)
(* calls, returns Ok or fails.                                             *)
(*                                                                         *)
(* An input row is its row number, an output row the row number it carries.*)
(* Column values, NULLs and the wire encoding are not told apart here.     *)
(***************************************************************************)
EXTENDS Runtime

CONSTANTS
  RowCosts,         \* possible byte costs of one output row
  FlushLimit        \* EMIT_BUFFER_LIMIT_BYTES

ASSUME DispatchAssumption ==
  /\ RowCosts \subseteq Nat \ {0}
  /\ FlushLimit \in Nat \ {0}

VARIABLES
  rows,       \* row numbers of the current input batch
  cur,        \* index in rows of the current row
  started,    \* HostContextBridge::started: next() has been called
  buffer,     \* the emit buffer: one row number per buffered output row
  cost,       \* EmitBuffer::byte_estimate
  exit,       \* GroupExit: "none", "session" (MT_CLEANUP), "closed" (MT_CLOSE)
  returned,   \* this run() has passed its value to set_return
  recorded,   \* last_error: the run() whose context call recorded an error, 0 if none
  runs,       \* history: run() invocations in this group
  visited,    \* history: rows presented to the UDF in this group, in order
  accepted    \* history: output rows whose emit returned Ok in this group

inputVars    == <<rows, cur, started>>
outputVars   == <<buffer, cost>>
historyVars  == <<runs, visited, accepted>>
dispatchVars == <<inputVars, outputVars, exit, returned, recorded, historyVars>>

NoGroup ==
  /\ rows = <<>> /\ cur = 1 /\ started = FALSE
  /\ buffer = <<>> /\ cost = 0
  /\ exit = "none" /\ returned = FALSE /\ recorded = 0
  /\ runs = 0 /\ visited = <<>> /\ accepted = <<>>

\* run_group: every group gets a fresh EmitBuffer, exit cell and bridge.
OpenGroup ==
  /\ rows' = <<>> /\ cur' = 1 /\ started' = FALSE
  /\ buffer' = <<>> /\ cost' = 0
  /\ exit' = "none" /\ returned' = FALSE /\ recorded' = 0
  /\ runs' = 0 /\ visited' = <<>> /\ accepted' = <<>>

Scalar  == shape.input = "ExactlyOnce"
Returns == shape.output = "ExactlyOnce"

\* Mutant: the row after the one the run is on.
NextRowNumber == IF cur + 1 \in DOMAIN rows THEN rows[cur + 1] ELSE 0

\* InputRowSet::current_row_number: 0 when the cursor sits on no row.
CurrentRowNumber == IF cur \in DOMAIN rows THEN rows[cur] ELSE 0

-----------------------------------------------------------------------------
(* run_udf: MT_RUN opens a group.  Any reply that does not end the session  *)
(* opens it (`_ => {}`).  run_group starts from a fresh buffer and bridge.  *)
GroupOpenReply ==
  /\ pc = "GroupOpen"
  /\ \E e \in Events :
       /\ Outcome(e)
       /\ \/ EndsSession(e) /\ UNCHANGED <<dispatchVars, calls>>
          \/ e \notin EndEvents /\ GoTo("FirstBatch") /\ OpenGroup /\ calls' = 0
  /\ UNCHANGED shape

-----------------------------------------------------------------------------
(* batch_fetcher: one MT_NEXT exchange.  A reply that is neither data nor   *)
(* an end is asked again at once; MT_CLEANUP and MT_CLOSE are only noted in *)
(* exit and look like the end of the group to the caller.                   *)
EndsInput(e)  == e \in {"Done", "Cleanup", "Close"}
AsksAgain(e)  == e \notin {"NextData", "Done", "Cleanup", "Close", "Error"}

\* Mutant: the end of the session looks like the end of the group.
NoteNoExit(e) == exit' = exit

NoteExit(e) ==
  exit' = CASE e = "Cleanup" -> "session" [] e = "Close" -> "closed" [] OTHER -> exit

BatchBad == resp.body = "badcell"

\* InputRowSet::from_proto / reload: the batch replaces the rows, cursor on its first.
LoadBatch == rows' = resp.rows /\ cur' = 1

\* A context call returned Err: the UDF propagates it, or carries on.
UdfSeesError ==
  \/ EndDispatch(<<"udf">>)
  \/ UdfMaySwallow /\ ~returned /\ GoTo("InUdf")

(* first_nonempty_input: zero-row batches are skipped; a group without rows *)
(* runs nothing.  A fetch or decode error leaves run_group at once.         *)
FirstBatchReply ==
  /\ pc = "FirstBatch"
  /\ \E e \in Events :
       /\ Outcome(e)
       /\ \/ /\ AsksAgain(e)
             /\ UNCHANGED <<pc, errors, rows, cur, exit>>
          \/ /\ e = "NextData" /\ ~BatchBad
             /\ LoadBatch
             /\ GoTo(IF rows' = <<>> THEN "FirstBatch" ELSE "RunOnce")
             /\ UNCHANGED exit
          \/ /\ EndsInput(e)
             /\ NoteExit(e)
             /\ GoTo("GroupEnd")
             /\ UNCHANGED <<rows, cur>>
          \/ /\ e = "Error" \/ (e = "NextData" /\ BatchBad)
             /\ EndDispatch(<<"udf">>)
             /\ UNCHANGED <<rows, cur, exit>>
  /\ UNCHANGED <<shape, started, outputVars, returned, recorded, historyVars,
                 calls>>

\* Mutant: the recorded error outlives the row that recorded it.
RunOnceKeepingError ==
  /\ pc = "RunOnce"
  /\ returned' = FALSE
  /\ runs' = runs + 1
  /\ visited' = IF Scalar THEN Append(visited, rows[cur]) ELSE visited
  /\ GoTo("InUdf")
  /\ UNCHANGED <<wireVars, shape, inputVars, outputVars, exit, recorded, accepted, calls>>

(* run_once: an error recorded on an earlier row is dropped before run().   *)
RunOnce ==
  /\ pc = "RunOnce"
  /\ recorded' = 0
  /\ returned' = FALSE
  /\ runs' = runs + 1
  /\ visited' = IF Scalar THEN Append(visited, rows[cur]) ELSE visited
  /\ GoTo("InUdf")
  /\ UNCHANGED <<wireVars, shape, inputVars, outputVars, exit, accepted, calls>>

-----------------------------------------------------------------------------
(* The UDF inside run().                                                    *)
ContextCall ==
  /\ pc = "InUdf"
  /\ ~returned
  /\ calls < MaxCalls
  /\ calls' = calls + 1

\* Mutant: the limit itself still fits.
PushFlushingLate(c) ==
  /\ buffer' = Append(buffer, CurrentRowNumber)
  /\ cost' = cost + c
  /\ IF cost' > FlushLimit
     THEN GoTo("Flush") /\ UNCHANGED accepted
     ELSE UNCHANGED <<pc, errors>> /\ accepted' = Append(accepted, CurrentRowNumber)

(* push_output_row: buffer the row under the current row number and flush   *)
(* once the estimate reaches the limit.  emit_batch buffers its rows one    *)
(* after the other under one row number, with the same check after each.    *)
PushOutputRow(c) ==
  /\ buffer' = Append(buffer, CurrentRowNumber)
  /\ cost' = cost + c
  /\ IF cost' >= FlushLimit
     THEN GoTo("Flush") /\ UNCHANGED accepted
     ELSE UNCHANGED <<pc, errors>> /\ accepted' = Append(accepted, CurrentRowNumber)

\* emit: only an EMITS script may call it, any number of times.
UdfEmit(c) ==
  /\ ContextCall
  /\ ~Returns
  /\ PushOutputRow(c)
  /\ UNCHANGED <<wireVars, shape, inputVars, exit, returned, recorded, runs, visited>>

\* set_return: the run shim of a RETURNS script passes its value, once, last.
UdfSetReturn(c) ==
  /\ pc = "InUdf"
  /\ Returns
  /\ ~returned
  /\ returned' = TRUE
  /\ PushOutputRow(c)
  /\ UNCHANGED <<wireVars, shape, inputVars, exit, recorded, runs, visited, calls>>

(* emit_flusher and EmitBuffer::flush: whatever event answers MT_EMIT, the  *)
(* exchange succeeded; the buffer is emptied even when it did not.          *)
FlushReply ==
  /\ pc = "Flush"
  /\ \E e \in Events :
       /\ Outcome(e)
       /\ IF e = "Error"
          THEN UdfSeesError /\ UNCHANGED accepted
          ELSE GoTo("InUdf") /\ accepted' = Append(accepted, buffer[Len(buffer)])
  /\ buffer' = <<>>
  /\ cost' = 0
  /\ UNCHANGED <<shape, inputVars, exit, returned, recorded, runs, visited, calls>>

(* next() of a SET script: the first call presents the row the cursor is on, *)
(* later ones advance it, and a drained batch is refilled from the database. *)
PresentsCurrent == ~started /\ rows # <<>>
CanAdvanceShort == cur + 1 < Len(rows)   \* mutant: the last row of a batch is left out
CanAdvance      == cur < Len(rows)

UdfNext ==
  /\ ContextCall
  /\ ~Scalar
  /\ started' = TRUE
  /\ \/ /\ PresentsCurrent
        /\ visited' = Append(visited, rows[cur])
        /\ UNCHANGED <<pc, errors, cur>>
     \/ /\ started /\ CanAdvance
        /\ cur' = cur + 1
        /\ visited' = Append(visited, rows[cur'])
        /\ UNCHANGED <<pc, errors>>
     \/ /\ ~PresentsCurrent /\ ~(started /\ CanAdvance)
        /\ GoTo("Next")
        /\ UNCHANGED <<cur, visited>>
  /\ UNCHANGED <<wireVars, shape, rows, outputVars, exit, returned, recorded, runs, accepted>>

(* refill inside next(): false only when the fetcher says the input ended.  *)
NextReply ==
  /\ pc = "Next"
  /\ \E e \in Events :
       /\ Outcome(e)
       /\ \/ /\ AsksAgain(e)
             /\ UNCHANGED <<pc, errors, rows, cur, exit, visited>>
          \/ /\ e = "NextData" /\ ~BatchBad
             /\ LoadBatch
             /\ IF rows' = <<>>
                THEN GoTo("Next") /\ UNCHANGED visited
                ELSE GoTo("InUdf") /\ visited' = Append(visited, rows'[1])
             /\ UNCHANGED exit
          \/ /\ EndsInput(e)
             /\ NoteExit(e)
             /\ GoTo("InUdf")
             /\ UNCHANGED <<rows, cur, visited>>
          \/ /\ e = "Error" \/ (e = "NextData" /\ BatchBad)
             /\ UdfSeesError
             /\ UNCHANGED <<rows, cur, exit, visited>>
  /\ UNCHANGED <<shape, started, outputVars, returned, recorded, runs, accepted, calls>>

(* connection(): one MT_IMPORT exchange in the middle of run().  Everything *)
(* but credentials with a kind is an Err, which is also recorded.           *)
UdfConnection ==
  /\ ContextCall
  /\ GoTo("Import")
  /\ UNCHANGED <<wireVars, shape, inputVars, outputVars, exit, returned, recorded,
                 runs, visited, accepted>>

Resolved(e) == e = "ConnInfo" /\ resp.body # "nokind"

ImportReply ==
  /\ pc = "Import"
  /\ \E e \in Events :
       /\ Outcome(e)
       /\ IF Resolved(e)
          THEN GoTo("InUdf") /\ UNCHANGED recorded
          ELSE UdfSeesError /\ recorded' = runs
  /\ UNCHANGED <<shape, calls, inputVars, outputVars, exit, returned, historyVars>>

(* cluster_ip() or connect_back() failed: no exchange with the database, but *)
(* the error is recorded too.                                                *)
UdfConnectBackFails ==
  /\ ContextCall
  /\ recorded' = runs
  /\ UdfSeesError
  /\ UNCHANGED <<wireVars, shape, inputVars, outputVars, exit, returned, historyVars>>

-----------------------------------------------------------------------------
(* run() returned.                                                          *)

(* drive_group_rows after Ok: a SET group is over; a SCALAR one advances to *)
(* its next row, which may be in a batch not fetched yet.                   *)
UdfReturnsOk ==
  /\ pc = "InUdf"
  /\ Returns => returned
  /\ \/ ~Scalar /\ GoTo("GroupEnd") /\ UNCHANGED cur
     \/ Scalar /\ CanAdvance /\ cur' = cur + 1 /\ GoTo("RunOnce")
     \/ Scalar /\ ~CanAdvance /\ GoTo("Advance") /\ UNCHANGED cur
  /\ UNCHANGED <<wireVars, shape, calls, rows, started, outputVars, exit, returned, recorded,
                 historyVars>>

\* Mutant: a noted MT_CLEANUP is looked at before the result of run().
UdfFailsBehindExit ==
  /\ pc = "InUdf"
  /\ ~returned
  /\ EndDispatch(IF exit = "session" THEN <<>> ELSE <<"udf">>)
  /\ UNCHANGED <<wireVars, shape, calls, dispatchVars>>

(* run() fails: the UDF's own error, a panic, or a context call refused      *)
(* before it changed anything.  The group ends before exit is looked at.     *)
UdfFails ==
  /\ pc = "InUdf"
  /\ ~returned
  /\ EndDispatch(<<"udf">>)
  /\ UNCHANGED <<wireVars, shape, calls, dispatchVars>>

(* advance_row's refill for a SCALAR script.                                *)
AdvanceReply ==
  /\ pc = "Advance"
  /\ \E e \in Events :
       /\ Outcome(e)
       /\ \/ /\ AsksAgain(e)
             /\ UNCHANGED <<pc, errors, rows, cur, exit>>
          \/ /\ e = "NextData" /\ ~BatchBad
             /\ LoadBatch
             /\ GoTo(IF rows' = <<>> THEN "Advance" ELSE "RunOnce")
             /\ UNCHANGED exit
          \/ /\ EndsInput(e)
             /\ NoteExit(e)
             /\ GoTo("GroupEnd")
             /\ UNCHANGED <<rows, cur>>
          \/ /\ e = "Error" \/ (e = "NextData" /\ BatchBad)
             /\ EndDispatch(<<"udf">>)
             /\ UNCHANGED <<rows, cur, exit>>
  /\ UNCHANGED <<shape, calls, started, outputVars, returned, recorded, historyVars>>

\* Mutant: the residual output of the group is forgotten.
GroupEndWithoutFlush ==
  /\ pc = "GroupEnd"
  /\ \/ exit = "session" /\ EndDispatch(<<>>)
     \/ exit = "closed" /\ EndDispatch(<<"dbclose">>)
     \/ exit = "none" /\ GoTo("GroupDone")
  /\ UNCHANGED <<wireVars, shape, calls, dispatchVars>>

(* run_group after the rows: a noted exit ends the session without the tail *)
(* flush; otherwise the residual output goes out before MT_DONE.            *)
GroupEnd ==
  /\ pc = "GroupEnd"
  /\ \/ exit = "session" /\ EndDispatch(<<>>)
     \/ exit = "closed" /\ EndDispatch(<<"dbclose">>)
     \/ exit = "none" /\ GoTo(IF buffer = <<>> THEN "GroupDone" ELSE "TailFlush")
  /\ UNCHANGED <<wireVars, shape, calls, dispatchVars>>

(* tail_flush: again any event counts as the acknowledgement.               *)
TailFlushReply ==
  /\ pc = "TailFlush"
  /\ \E e \in Events :
       /\ Outcome(e)
       /\ IF e = "Error" THEN EndDispatch(<<"wire">>) ELSE GoTo("GroupDone")
  /\ buffer' = <<>>
  /\ cost' = 0
  /\ UNCHANGED <<shape, calls, inputVars, exit, returned, recorded, historyVars>>

(* run_udf: MT_DONE closes the group; anything but an end opens the next.   *)
GroupDoneReply ==
  /\ pc = "GroupDone"
  /\ \E e \in Events :
       /\ Outcome(e)
       /\ EndsSession(e) \/ (e \notin EndEvents /\ GoTo("GroupOpen"))
  /\ UNCHANGED <<shape, calls, dispatchVars>>

UdfStep ==
  \/ \E c \in RowCosts : UdfEmit(c) \/ UdfSetReturn(c)
  \/ UdfNext \/ UdfConnection \/ UdfConnectBackFails \/ UdfReturnsOk \/ UdfFails

DispatchStep ==
  \/ GroupOpenReply \/ FirstBatchReply \/ RunOnce \/ FlushReply \/ NextReply \/ ImportReply
  \/ AdvanceReply \/ GroupEnd \/ TailFlushReply \/ GroupDoneReply

DispatchTypeOK ==
  /\ rows \in Seq(Nat) /\ cur \in Nat \ {0} /\ started \in BOOLEAN
  /\ buffer \in Seq(Nat) /\ cost \in Nat
  /\ exit \in {"none", "session", "closed"}
  /\ returned \in BOOLEAN
  /\ recorded \in Nat /\ runs \in Nat
  /\ visited \in Seq(Nat) /\ accepted \in Seq(Nat)
=============================================================================
