------------------------------ MODULE ConnectBack ------------------------------
(***************************************************************************)
(* Connect-back: connect_back.rs, a blocking connection over one Tokio     *)
(* runtime of one thread.  Every operation drives a future with block_on   *)
(* and catches its panics; query_for_each hands the rows it fetched to a   *)
(* callback of the UDF, which may use other connections meanwhile.         *)
(*                                                                         *)
(* calls is the stack of operations under way, the innermost last.  The    *)
(* driver (exarrow-rs) and the database behind it are the environment.     *)
(***************************************************************************)
EXTENDS Naturals, SequencesExt

CONSTANTS
  Conns,        \* connections the UDF may hold
  Results,      \* query results: sequences of batches [rows, bad]
  MaxCalls      \* bound: connect-back operations of one UDF call

ASSUME BackAssumption ==
  Results \subseteq Seq([rows : Seq(Nat), bad : BOOLEAN]) /\ MaxCalls \in Nat

VARIABLES
  conns,        \* Conns |-> "none" or "open"
  calls,        \* operations under way: [op, conn, phase, result, todo, rows, got]
  statements,   \* Conns |-> prepared statements the server holds for it
  lost,         \* Conns |-> statements whose close failed or panicked away
  last,         \* the operation that returned last, with its outcome
  made,         \* operations made (bounded by MaxCalls)
  aborted       \* a panic left a destructor of the host: the process is gone

backVars == <<conns, calls, statements, lost, last, made, aborted>>

Nothing == [op |-> "none", outcome |-> "ok", result |-> <<>>, got |-> <<>>]

BackInit ==
  /\ conns = [c \in Conns |-> "none"]
  /\ calls = <<>>
  /\ statements = [c \in Conns |-> 0]
  /\ lost = [c \in Conns |-> 0]
  /\ last = Nothing
  /\ made = 0
  /\ aborted = FALSE

\* The least element of a set of numbers, or default when there is none.
FirstOr(S, default) == IF S = {} THEN default ELSE Min(S)

-----------------------------------------------------------------------------
Top == Last(calls)

\* The UDF runs: no operation is under way, or the innermost is in its callback.
UdfRuns == ~aborted /\ (calls # <<>> => Top.phase = "callback")

\* An operation borrows its connection exclusively.
Borrowed(c) == \E i \in DOMAIN calls : calls[i].conn = c

Begin(op, c, phase) ==
  /\ calls' = Append(calls, [op |-> op, conn |-> c, phase |-> phase,
                             result |-> <<>>, todo |-> <<>>, rows |-> <<>>, got |-> <<>>])
  /\ made' = IF op = "drop" THEN made ELSE made + 1

Replace(call) == calls' = Append(Front(calls), call) /\ UNCHANGED last

Return(outcome) ==
  /\ calls' = Front(calls)
  /\ last' = [op |-> Top.op, outcome |-> outcome, result |-> Top.result, got |-> Top.got]

Operations == {"query", "execute", "transaction", "batch"}

(* Phases in which a call is inside block_on.                               *)
Driving == {"drive", "prepare", "execute", "close"}

FirstPhase(op) == IF op = "batch" THEN "prepare" ELSE "drive"

OpenConnection(c) ==
  /\ UdfRuns /\ made < MaxCalls
  /\ conns[c] = "none" /\ ~Borrowed(c)
  /\ Begin("open", c, "drive")
  /\ UNCHANGED <<conns, statements, lost, last, aborted>>

Operate(op, c) ==
  /\ UdfRuns /\ made < MaxCalls
  /\ conns[c] = "open" /\ ~Borrowed(c)
  /\ Begin(op, c, FirstPhase(op))
  /\ UNCHANGED <<conns, statements, lost, last, aborted>>

\* execute_batch of no rows, or of a value without a Parameter: no driver call.
BatchWithoutDriver(c) ==
  /\ UdfRuns /\ made < MaxCalls
  /\ conns[c] = "open" /\ ~Borrowed(c)
  /\ \E outcome \in {"ok", "error"} : last' = [Nothing EXCEPT !.op = "batch", !.outcome = outcome]
  /\ made' = made + 1
  /\ UNCHANGED <<conns, calls, statements, lost, aborted>>

\* Drop: shutdown is driven in the destructor; not counted as a call.
DropConnection(c) ==
  /\ UdfRuns
  /\ conns[c] = "open" /\ ~Borrowed(c)
  /\ Begin("drop", c, "drive")
  /\ UNCHANGED <<conns, statements, lost, last, aborted>>

-----------------------------------------------------------------------------
(* What block_on returns: the driver's answer, or the panic catch_unwind    *)
(* turned into an error.                                                    *)
DriverAnswers ==
  /\ calls # <<>> /\ Top.phase = "drive" /\ Top.op \in {"open", "execute", "transaction"}
  /\ \E outcome \in {"ok", "error"} :
       /\ Return(outcome)
       /\ conns' = IF Top.op = "open" /\ outcome = "ok" THEN [conns EXCEPT ![Top.conn] = "open"]
                                                        ELSE conns
  /\ UNCHANGED <<statements, lost, made, aborted>>

\* The destructor ignores an error, and does not catch a panic.
ShutdownAnswers ==
  /\ calls # <<>> /\ Top.phase = "drive" /\ Top.op = "drop"
  /\ Return("ok")
  /\ conns' = [conns EXCEPT ![Top.conn] = "none"]
  /\ statements' = [statements EXCEPT ![Top.conn] = 0]
  /\ lost' = [lost EXCEPT ![Top.conn] = 0]
  /\ aborted' \in BOOLEAN
  /\ UNCHANGED made

\* Mutant: the rows are handed over while the fetch is still driven.
FetchAnswersStreaming ==
  /\ calls # <<>> /\ Top.phase = "drive" /\ Top.op = "query"
  /\ \/ Return("error")
     \/ \E result \in Results :
          /\ calls' = Append(calls, [Top EXCEPT !.phase = "stream", !.result = result, !.todo = result])
          /\ UNCHANGED last
  /\ UNCHANGED <<conns, statements, lost, made, aborted>>

\* query_for_each: fetch_all materialises every batch before the first row.
FetchAnswers ==
  /\ calls # <<>> /\ Top.phase = "drive" /\ Top.op = "query"
  /\ \/ Return("error")
     \/ \E result \in Results : Replace([Top EXCEPT !.phase = "stream", !.result = result, !.todo = result])
  /\ UNCHANGED <<conns, statements, lost, made, aborted>>

Streaming == calls # <<>> /\ Top.phase = "stream"

\* Mutant: a batch that does not convert is passed over.
NextBatchSkippingBad ==
  /\ Streaming /\ Top.rows = <<>> /\ Top.todo # <<>>
  /\ Replace([Top EXCEPT !.rows = IF Head(Top.todo).bad THEN <<>> ELSE Head(Top.todo).rows,
                         !.todo = Tail(Top.todo)])
  /\ UNCHANGED <<conns, statements, lost, made, aborted>>

\* record_batch_to_rows converts a whole batch before its first row is served.
NextBatch ==
  /\ Streaming /\ Top.rows = <<>> /\ Top.todo # <<>>
  /\ IF Head(Top.todo).bad
     THEN Return("error")
     ELSE Replace([Top EXCEPT !.rows = Head(Top.todo).rows, !.todo = Tail(Top.todo)])
  /\ UNCHANGED <<conns, statements, lost, made, aborted>>

ServeRow ==
  /\ Streaming /\ Top.rows # <<>>
  /\ Replace([Top EXCEPT !.phase = "callback", !.rows = Tail(Top.rows),
                         !.got = Append(Top.got, Head(Top.rows))])
  /\ UNCHANGED <<conns, statements, lost, made, aborted>>

CallbackReturns ==
  /\ calls # <<>> /\ Top.phase = "callback"
  /\ Replace([Top EXCEPT !.phase = "stream"]) \/ Return("error")
  /\ UNCHANGED <<conns, statements, lost, made, aborted>>

QueryReturns ==
  /\ Streaming /\ Top.rows = <<>> /\ Top.todo = <<>>
  /\ Return("ok")
  /\ UNCHANGED <<conns, statements, lost, made, aborted>>

-----------------------------------------------------------------------------
(* execute_batch: prepare, execute, close the statement whatever execute    *)
(* said, return what execute said.  A panic leaves at once.                 *)
Prepared ==
  /\ calls # <<>> /\ Top.phase = "prepare"
  /\ \/ Return("error") /\ UNCHANGED statements
     \/ /\ Replace([Top EXCEPT !.phase = "execute"])
        /\ statements' = [statements EXCEPT ![Top.conn] = @ + 1]
  /\ UNCHANGED <<conns, lost, made, aborted>>

\* Mutant: `?` on the result of the execution.
ExecutedOrReturned ==
  /\ calls # <<>> /\ Top.phase = "execute"
  /\ Return("error") \/ Replace([Top EXCEPT !.phase = "close", !.got = <<"ok">>])
  /\ UNCHANGED <<conns, statements, lost, made, aborted>>

\* The result is kept in got, where no row of a query is.
Executed ==
  /\ calls # <<>> /\ Top.phase = "execute"
  /\ \/ \E outcome \in {"ok", "error"} :
          Replace([Top EXCEPT !.phase = "close", !.got = <<outcome>>]) /\ UNCHANGED lost
     \/ Return("error") /\ lost' = [lost EXCEPT ![Top.conn] = @ + 1]
  /\ UNCHANGED <<conns, statements, made, aborted>>

Closed ==
  /\ calls # <<>> /\ Top.phase = "close"
  /\ \/ /\ Return(Top.got[1])
        /\ statements' = [statements EXCEPT ![Top.conn] = @ - 1]
        /\ UNCHANGED lost
     \/ /\ Return(Top.got[1]) \/ Return("error")
        /\ lost' = [lost EXCEPT ![Top.conn] = @ + 1]
        /\ UNCHANGED statements
  /\ UNCHANGED <<conns, made, aborted>>

BackStep ==
  /\ ~aborted
  /\ \/ \E c \in Conns : \/ OpenConnection(c) \/ DropConnection(c) \/ BatchWithoutDriver(c)
                         \/ \E op \in Operations : Operate(op, c)
     \/ DriverAnswers \/ ShutdownAnswers \/ FetchAnswers \/ NextBatch \/ ServeRow
     \/ CallbackReturns \/ QueryReturns \/ Prepared \/ Executed \/ Closed

-----------------------------------------------------------------------------
(* One thread drives one future: a callback never runs inside block_on, so  *)
(* that an operation it starts never blocks the runtime within itself, and  *)
(* neither does the shutdown of a connection it drops.                      *)
OneBlockOn == Cardinality({i \in DOMAIN calls : calls[i].phase \in Driving}) <= 1

RowsOf(batches) == FlattenSeq([i \in DOMAIN batches |-> batches[i].rows])

\* The rows before the first batch that does not convert.
Convertible(batches) ==
  RowsOf(SubSeq(batches, 1,
    FirstOr({i \in DOMAIN batches : batches[i].bad}, Len(batches) + 1) - 1))

(* query_for_each serves rows in the order of the result, each once, and    *)
(* stops at the first error of a conversion or of the callback; it returns  *)
(* Ok only when the callback has seen every row.                            *)
RowsUntilError ==
  /\ \A i \in DOMAIN calls :
       calls[i].op = "query" => IsPrefix(calls[i].got, Convertible(calls[i].result))
  /\ last.op = "query" =>
       /\ IsPrefix(last.got, Convertible(last.result))
       /\ last.outcome = "ok" => last.got = RowsOf(last.result)

(* execute_batch closes what it prepared, also when the execution fails:    *)
(* the server holds no statement of an idle connection but those whose      *)
(* close failed, or that a panic of the driver left behind.                 *)
StatementsClosed == \A c \in Conns : ~Borrowed(c) => statements[c] = lost[c]
=============================================================================
