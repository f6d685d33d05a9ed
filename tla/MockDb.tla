-------------------------------- MODULE MockDb --------------------------------
(***************************************************************************)
(* The mock engine of the benches and fixtures, exa-mock-db: a REP peer    *)
(* that drives one client through the handshake, one run cycle per group   *)
(* of pre-encoded input, and the end.  Composed with the client of Session *)
(* in place of its Database: what the mock answers is one of Database's    *)
(* answers, and its own control decides which.                             *)
(*                                                                         *)
(* Row i of the input (from 0) carries number i on the wire, so that 0 is  *)
(* the number of its first row there; Session's database numbers the rows  *)
(* of each group from 1, and has 0 for no row.                             *)
(***************************************************************************)
EXTENDS Session, SequencesExt

CONSTANTS
  InputRows,    \* encode: rows
  Encoded,      \* encode: cycles
  Cycles,       \* run cycles of the harness: the encoded ones, then some without frames
  RowBytes,     \* the byte cost of each input row (RowSource::write_row)
  FrameLimit    \* EMIT_LIMIT_BYTES

ASSUME MockAssumption ==
  /\ InputRows \in Nat /\ Cycles \in Nat /\ Encoded \in 1..Cycles /\ FrameLimit \in Nat
  /\ RowBytes \in [0..(InputRows - 1) -> Nat]

VARIABLES
  phase,      \* the call of the harness and the request it waits for
  result,     \* what the harness got: "none" yet, "ok", or a MockError
  cycle,      \* run cycles completed
  pos,        \* FrameCursor::pos
  emits,      \* MT_EMIT frames of this cycle, acknowledged and kept
  observed    \* EmitCollector: the row numbers of each completed cycle

mockVars == <<phase, result, cycle, pos, emits, observed>>

-----------------------------------------------------------------------------
(* payload.rs encode.                                                       *)

\* Rows of cycle c (from 0) begin here; a cycle behind the encoded ones has none.
FirstRow(c) == IF c < Encoded THEN (InputRows * c) \div Encoded ELSE InputRows

\* Mutant: the numbers restart in every frame.
PutRowRestarting(frames, i) ==
  LET table == Append(frames.table, Len(frames.table))
      bytes == frames.bytes + RowBytes[i]
  IN  IF bytes > FrameLimit
      THEN [full |-> Append(frames.full, table), table |-> <<>>, bytes |-> 0]
      ELSE [full |-> frames.full, table |-> table, bytes |-> bytes]

\* A frame is complete with the row that crosses the limit.
PutRow(frames, i) ==
  LET table == Append(frames.table, i)
      bytes == frames.bytes + RowBytes[i]
  IN  IF bytes > FrameLimit
      THEN [full |-> Append(frames.full, table), table |-> <<>>, bytes |-> 0]
      ELSE [full |-> frames.full, table |-> table, bytes |-> bytes]

\* Mutant: the rows behind the last full frame are left out.
FullFrames(c) ==
  FoldLeft(PutRow, [full |-> <<>>, table |-> <<>>, bytes |-> 0],
           [j \in 1..(FirstRow(c + 1) - FirstRow(c)) |-> FirstRow(c) + j - 1]).full

\* The MT_NEXT frames of a cycle; a cycle without rows has none.
Encode(c) ==
  LET frames == FoldLeft(PutRow, [full |-> <<>>, table |-> <<>>, bytes |-> 0],
                         [j \in 1..(FirstRow(c + 1) - FirstRow(c)) |-> FirstRow(c) + j - 1])
  IN  frames.full \o (IF frames.table = <<>> THEN <<>> ELSE <<frames.table>>)

(* Row numbers on the wire and in Session's groups.  Output emitted on no   *)
(* row (CurrentRowNumber 0) goes out as 0 in the code too, which the mock's *)
(* sink would take for the first row of the input; it cannot happen here,   *)
(* because the mock serves no frame without rows.                           *)
GroupNumbers(c, numbers) == [j \in DOMAIN numbers |-> numbers[j] - FirstRow(c) + 1]
OnTheWire(c, locals) ==
  [j \in DOMAIN locals |-> IF locals[j] = 0 THEN 0 ELSE locals[j] + FirstRow(c) - 1]

-----------------------------------------------------------------------------
MockInit ==
  /\ Init
  /\ phase = "MT_CLIENT" /\ result = "none"
  /\ cycle = 0 /\ pos = 0 /\ emits = <<>> /\ observed = <<>>

Reply(type, body, numbers) ==
  Answer([type |-> type, body |-> body, conn |-> 1, rows |-> GroupNumbers(cycle, numbers)])

Asked(type) == wire = "asked" /\ req.type = type

(* The harness calls run_cycle once for each encoded cycle, then with no    *)
(* frames at all, then finish.                                              *)
NextCall(done) == phase' = IF done < Cycles THEN "MT_RUN" ELSE "finish"

\* Session::handshake
Handshake ==
  /\ \/ /\ phase = "MT_CLIENT" /\ Asked("MT_CLIENT")
        /\ Reply("MT_INFO", "info", <<>>)
        /\ phase' = "MT_META"
     \/ /\ phase = "MT_META" /\ Asked("MT_META")
        /\ Reply("MT_META", "data", <<>>)
        /\ NextCall(0)
  /\ UNCHANGED <<result, cycle, pos, emits, observed>>

(* run_cycle: MT_RUN opens it, then MT_NEXT and MT_EMIT are served in any   *)
(* order until MT_DONE.                                                     *)
OpenCycle ==
  /\ phase = "MT_RUN" /\ Asked("MT_RUN")
  /\ Reply("MT_RUN", "none", <<>>)
  /\ phase' = "rows"
  /\ pos' = 0 /\ emits' = <<>>
  /\ UNCHANGED <<result, cycle, observed>>

ServeNext ==
  /\ phase = "rows" /\ Asked("MT_NEXT")
  /\ IF pos < Len(Encode(cycle))
     THEN Reply("MT_NEXT", "table", Encode(cycle)[pos + 1]) /\ pos' = pos + 1
     ELSE Reply("MT_DONE", "none", <<>>) /\ UNCHANGED pos
  /\ UNCHANGED <<phase, result, cycle, emits, observed>>

KeepEmit ==
  /\ phase = "rows" /\ Asked("MT_EMIT")
  /\ Reply("MT_EMIT", "none", <<>>)
  /\ emits' = Append(emits, req.rows)
  /\ UNCHANGED <<phase, result, cycle, pos, observed>>

\* The frames go to the sink once the cycle is over.
CloseCycle ==
  /\ phase = "rows" /\ Asked("MT_DONE")
  /\ Reply("MT_DONE", "none", <<>>)
  /\ observed' = Append(observed, OnTheWire(cycle, FlattenSeq(emits)))
  /\ cycle' = cycle + 1
  /\ NextCall(cycle')
  /\ UNCHANGED <<result, pos, emits>>

\* Session::finish
FinishSession ==
  /\ \/ /\ phase = "finish" /\ Asked("MT_RUN")
        /\ Reply("MT_CLEANUP", "none", <<>>)
        /\ phase' = "MT_FINISHED"
        /\ UNCHANGED result
     \/ /\ phase = "MT_FINISHED" /\ Asked("MT_FINISHED")
        /\ Reply("MT_FINISHED", "none", <<>>)
        /\ phase' = "over" /\ result' = "ok"
  /\ UNCHANGED <<cycle, pos, emits, observed>>

\* The request each call of the harness waits for.
Expected ==
  CASE phase = "rows"   -> {"MT_NEXT", "MT_EMIT", "MT_DONE"}
    [] phase = "finish" -> {"MT_RUN"}
    [] OTHER            -> {phase}

(* expect: anything else is an error of the harness, which drops the socket *)
(* and leaves the request unanswered.                                       *)
RefuseRequest ==
  /\ phase # "over" /\ wire = "asked" /\ req.type \notin Expected
  /\ phase' = "over" /\ result' = "Unexpected"
  /\ UNCHANGED <<wireVars, dbVars, cycle, pos, emits, observed>>

\* decode: an MT_CLOSE of the client, in whatever call.
Closed ==
  /\ phase # "over" /\ "MT_CLOSE" \in finals
  /\ phase' = "over" /\ result' = "Closed"
  /\ UNCHANGED <<wireVars, dbVars, cycle, pos, emits, observed>>

MockStep ==
  /\ Handshake \/ OpenCycle \/ ServeNext \/ KeepEmit \/ CloseCycle \/ FinishSession
     \/ RefuseRequest \/ Closed
  /\ UNCHANGED <<runtimeVars, dispatchVars, callVars, endVars>>

\* The mock answers at once: a receive of the client gives up only when it has gone.
ClientOfMock ==
  /\ ClientStep
  /\ wire' = "stuck" => phase = "over"
  /\ UNCHANGED mockVars

\* Both sides have ended; anything else that stops is a deadlock.
BothOver == pc = "Exited" /\ phase = "over" /\ UNCHANGED <<vars, mockVars>>

MockNext == MockStep \/ ClientOfMock \/ BothOver

MockSpec == MockInit /\ [][MockNext]_<<vars, mockVars>>

-----------------------------------------------------------------------------
(* What the mock answers to what, and with which payload.                   *)
MockAnswers ==
  {<<"MT_CLIENT", "MT_INFO", "info">>, <<"MT_META", "MT_META", "data">>,
   <<"MT_RUN", "MT_RUN", "none">>, <<"MT_RUN", "MT_CLEANUP", "none">>,
   <<"MT_NEXT", "MT_NEXT", "table">>, <<"MT_NEXT", "MT_DONE", "none">>,
   <<"MT_EMIT", "MT_EMIT", "none">>, <<"MT_DONE", "MT_DONE", "none">>,
   <<"MT_FINISHED", "MT_FINISHED", "none">>}

(* The tables of Session admit the mock's answers, and a batch of Session   *)
(* has room for each of its frames.                                         *)
AdmitsMock ==
  /\ 1 \in ConnIds
  /\ \A a \in MockAnswers : a[2] \in MayAnswer[a[1]] /\ a[3] \in Bodies[a[2]]
  /\ \A c \in 0..(Cycles - 1) : \A i \in DOMAIN Encode(c) : Len(Encode(c)[i]) <= MaxBatch

(* The mock is a database as the protocol has it, so that what holds for    *)
(* every session of Session holds for the sessions of the benches: each of  *)
(* its answers is one the protocol allows there, with the rows numbered on  *)
(* from the ones before (exa-mock-db session.rs, payload.rs encode).        *)
ImplementsSession == Spec

(* Every row the harness encoded, over cycles, frames and the client's      *)
(* batches and flushes, comes back to its sink: in each cycle the sink sees *)
(* exactly the rows the UDF emitted, and of a scalar RETURNS script one     *)
(* value for each input row, under its number, in order                     *)
(* (tests/fixtures.rs asserts it of one input).                             *)
RowsCollected ==
  /\ pc = "GroupDone" /\ wire = "answered" =>
       observed[cycle] = OnTheWire(cycle - 1, accepted)
  /\ result = "ok" =>
       /\ Len(observed) = Cycles
       /\ Scalar /\ Returns => FlattenSeq(observed) = [j \in 1..InputRows |-> j - 1]
       /\ ~Scalar /\ Returns =>
            \A c \in 1..Cycles : Len(observed[c]) = IF FirstRow(c - 1) < FirstRow(c) THEN 1 ELSE 0
=============================================================================
