------------------------------ MODULE EmitBuffer ------------------------------
(***************************************************************************)
(* The emit buffer of one group: rowset.rs EmitBuffer under                *)
(* HostContextBridge::push_output_row (row path) and push_batch (Arrow     *)
(* path), both filling one table of type blocks and flushing it as one     *)
(* MT_EMIT when the byte estimate reaches the limit, and dispatch.rs       *)
(* tail_flush at the end of the group.                                     *)
(***************************************************************************)
EXTENDS TypeBlocks

CONSTANTS
  Rows,        \* rows the UDF may emit one at a time, acceptable or not
  Batches,     \* Arrow batches it may emit: sequences of acceptable rows
  NullSpans,   \* bytes an Arrow string array may keep under its NULL cells
  Limit,       \* EMIT_BUFFER_LIMIT_BYTES
  MaxCalls     \* bound: emit and emit_batch calls

VARIABLES
  table,      \* EmitBuffer::table
  estimate,   \* EmitBuffer::byte_estimate
  batch,      \* push_batch under way: its rows, how many are accounted, how many packed
  mode,       \* "idle", "batch", "flush" (MT_EMIT under way), "tail" (the last one), "closed"
  calls,      \* emit calls so far; the input row each of them belongs to
  given,      \* history: rows emitted, as the database is to read them
  queue,      \* history: the ones not flushed yet
  sent        \* history: rows the database has read from the tables it received

vars == <<table, estimate, batch, mode, calls, given, queue, sent>>

-----------------------------------------------------------------------------
(* Byte costs: the constants above value_byte_cost.                        *)
RowNumberBytes == 10

ValueCost(value) ==
  CASE value.variant = "Null"      -> 0
    [] value.variant = "Bool"      -> 1
    [] value.variant = "Int32"     -> 4
    [] value.variant \in {"Int64", "Double"} -> 8
    [] value.variant = "String"    -> value.n
    [] value.variant = "Numeric"   -> 40 + value.n[2]
    [] value.variant = "Date"      -> 10
    [] value.variant = "Timestamp" -> 29

RowCost(row) == FoldLeft(LAMBDA sum, value : sum + ValueCost(value), RowNumberBytes, row)

RowsCost(rows) == FoldLeft(LAMBDA sum, row : sum + RowCost(row), 0, rows)

-----------------------------------------------------------------------------
(* check_output_row.                                                       *)
\* Mutant: only the number of values is checked.
AcceptedByArity(row) == Len(row) = Len(Columns)

Accepted(row) ==
  /\ Len(row) = Len(Columns)
  /\ \A c \in DOMAIN Columns : ColumnAccepts(Columns[c], row[c])

\* Rows are tuples of SDK values, and a batch holds rows that fit its columns.
ASSUME EmitAssumption ==
  /\ Limit \in Nat \ {0}
  /\ MaxCalls \in Nat
  /\ NullSpans \subseteq Nat
  /\ \A row \in Rows :
       /\ Len(row) \in Nat /\ DOMAIN row = 1..Len(row)
       /\ \A c \in DOMAIN row : IsValue(row[c])
  /\ \A rows \in Batches :
       rows \in Seq(Rows) \ {<<>>} /\ \A r \in DOMAIN rows : Accepted(rows[r])

\* What the database is to read of a row.
Delivery(row, number) ==
  [cells  |-> [c \in DOMAIN row |->
                Reading(IF c \in DOMAIN Columns THEN Columns[c] ELSE "none", row[c])],
   number |-> number]

Deliveries(rows, number) == [r \in DOMAIN rows |-> Delivery(rows[r], number)]

NoBatch == [rows |-> <<>>, done |-> 0, packed |-> 0]

Init ==
  /\ table = EmptyTable
  /\ estimate = 0
  /\ batch = NoBatch
  /\ mode = "idle"
  /\ calls = 0
  /\ given = <<>> /\ queue = <<>> /\ sent = <<>>

Put(deliveries) == given' = given \o deliveries /\ queue' = queue \o deliveries

\* The call that is under way, or the next one.
ContextCall ==
  /\ mode = "idle"
  /\ calls < MaxCalls
  /\ calls' = calls + 1

-----------------------------------------------------------------------------
(* emit and set_return: push_output_row.  A refused row changes nothing.   *)
EmitRow(row) ==
  /\ ContextCall
  /\ Accepted(row)
  /\ table' = PushRow(table, row, calls)
  /\ estimate' = estimate + RowCost(row)
  /\ mode' = IF estimate' >= Limit THEN "flush" ELSE "idle"
  /\ Put(<<Delivery(row, calls)>>)
  /\ UNCHANGED <<batch, sent>>

\* Bytes under a NULL exist in string columns only.
HoldsNullString(rows) ==
  \E r \in DOMAIN rows : \E c \in DOMAIN Columns :
    rows[r][c].variant = "Null" /\ Columns[c] \in {"String", "Char"}

\* Mutant: the fast path forgets what is already buffered.
BatchFitsAlone(cost) == cost < Limit

BatchFits(cost) == estimate + cost < Limit

(* push_batch, when the whole batch cannot reach the limit: its cost comes  *)
(* from the columns, an upper bound that includes the bytes under NULLs.    *)
EmitSmallBatch(rows, span) ==
  /\ ContextCall
  /\ span > 0 => HoldsNullString(rows)
  /\ BatchFits(RowsCost(rows) + span)
  /\ estimate' = estimate + RowsCost(rows) + span
  /\ table' = Pack(table, rows, calls)
  /\ Put(Deliveries(rows, calls))
  /\ UNCHANGED <<batch, mode, sent>>

\* push_batch, otherwise: row by row.
EmitLargeBatch(rows, span) ==
  /\ ContextCall
  /\ span > 0 => HoldsNullString(rows)
  /\ ~BatchFits(RowsCost(rows) + span)
  /\ batch' = [NoBatch EXCEPT !.rows = rows]
  /\ mode' = "batch"
  /\ UNCHANGED <<table, estimate, given, queue, sent>>

\* Mutant: after a flush the batch goes on one row too far.
BatchPackedSkipping(done) ==
  /\ table' = Pack(table, SubSeq(batch.rows, batch.packed + 1, done), calls - 1)
  /\ batch' = [batch EXCEPT !.done = done + 1, !.packed = done + 1]

\* The rows accounted since the last pack go into the table.
BatchPacked(done) ==
  /\ table' = Pack(table, SubSeq(batch.rows, batch.packed + 1, done), calls - 1)
  /\ batch' = [batch EXCEPT !.done = done, !.packed = done]

BatchRow ==
  /\ mode = "batch"
  /\ batch.done < Len(batch.rows)
  /\ LET row == batch.rows[batch.done + 1]
     IN  /\ estimate' = estimate + RowCost(row)
         /\ Put(<<Delivery(row, calls - 1)>>)
  /\ IF estimate' >= Limit
     THEN mode' = "flush" /\ BatchPacked(batch.done + 1)
     ELSE /\ batch' = [batch EXCEPT !.done = @ + 1]
          /\ UNCHANGED <<mode, table>>
  /\ UNCHANGED <<calls, sent>>

BatchEnd ==
  /\ mode = "batch"
  /\ batch.done = Len(batch.rows)
  /\ table' = Pack(table, SubSeq(batch.rows, batch.packed + 1, batch.done), calls - 1)
  /\ batch' = NoBatch
  /\ mode' = "idle"
  /\ UNCHANGED <<estimate, calls, given, queue, sent>>

-----------------------------------------------------------------------------
(* flush: the table goes out, and is cleared whether or not the exchange    *)
(* succeeds.                                                               *)

\* Mutant: a failed flush keeps its rows for the next one.
ClearedIfSent(received) ==
  IF received THEN table' = EmptyTable /\ estimate' = 0 ELSE UNCHANGED <<table, estimate>>

Cleared(received) == table' = EmptyTable /\ estimate' = 0

Flush(received) ==
  /\ mode \in {"flush", "tail"}
  /\ Cleared(received)
  /\ queue' = <<>>
  /\ sent' = IF received THEN sent \o Decode(table) ELSE sent
  /\ batch' = IF received THEN batch ELSE NoBatch
  /\ mode' = CASE mode = "tail"                      -> "closed"
               [] mode = "flush" /\ batch' # NoBatch -> "batch"
               [] OTHER                              -> "idle"
  /\ UNCHANGED <<calls, given>>

\* Mutant: the rest of the group's output is forgotten.
TailFlushNothing ==
  /\ mode = "idle"
  /\ mode' = "closed"
  /\ UNCHANGED <<table, estimate, batch, calls, given, queue, sent>>

\* run_group's end: what is left goes out before MT_DONE.
TailFlush ==
  /\ mode = "idle"
  /\ mode' = IF table.rows = 0 THEN "closed" ELSE "tail"
  /\ UNCHANGED <<table, estimate, batch, calls, given, queue, sent>>

Closed == mode = "closed" /\ UNCHANGED vars

Next ==
  \/ \E row \in Rows : EmitRow(row)
  \/ \E rows \in Batches, span \in NullSpans :
       EmitSmallBatch(rows, span) \/ EmitLargeBatch(rows, span)
  \/ BatchRow \/ BatchEnd
  \/ \E received \in BOOLEAN : Flush(received)
  \/ TailFlush \/ Closed

Spec == Init /\ [][Next]_vars

-----------------------------------------------------------------------------
Modes == {"idle", "batch", "flush", "tail", "closed"}

\* Type invariant.
TypeOK ==
  /\ IsTable(table)
  /\ estimate \in Nat
  /\ batch.done \in 0..Len(batch.rows) /\ batch.packed \in 0..batch.done
  /\ batch.rows \in Batches \cup {<<>>}
  /\ mode \in Modes
  /\ calls \in 0..MaxCalls

(* Between two calls of the UDF, and while a batch is read, less than the   *)
(* limit is buffered: the flush is never late by a row, on either path and  *)
(* however the two are mixed (should_flush, push_batch).                    *)
NeverLate == mode \notin {"flush"} => estimate < Limit

(* The estimate and the table never fall out of step, although a large      *)
(* batch is accounted row by row and packed in slices: outside that loop     *)
(* every row counted is in the table a flush sends, and the estimate is      *)
(* zero exactly when there is none (account, pack, clear).                   *)
EstimateInStep ==
  /\ mode # "batch" => table.rows = Len(queue)
  /\ estimate = 0 <=> queue = <<>>

(* Whatever the rows and batches emitted, their types, NULLs and the flush  *)
(* boundaries between them, the database reads back exactly the rows the    *)
(* UDF emitted, in order, each with its own values and row number, and no   *)
(* group is closed with rows of it still buffered                           *)
(* (EmitBuffer, InputRowSet::from_proto, specs/runtime/emit-arrow-batch).   *)
Stream == INSTANCE RowStream WITH out <- sent, over <- mode = "closed"
ImplementsRowStream == Stream!Spec

-----------------------------------------------------------------------------
(* The bytes of a table on the wire: EmitTable::encoded_len without its     *)
(* length prefixes.                                                        *)
VarintBytes(n) ==
  CASE n \in 0..127 -> 1
    [] n < 0        -> 10      \* prost sign-extends a negative int32 or int64
    [] OTHER        -> 2       \* enough for the numbers of the model

BytesOf(lengths) == FoldLeft(LAMBDA sum, n : sum + n, 0, lengths)

\* A text: its key, its length and its bytes.
TextBytes(text) ==
  2 + (CASE Len(text) = 3 -> 10
         [] Len(text) = 8 -> 20 + text[7]
         [] Len(text) = 4 -> 3 + text[3]      \* at least: one digit before the point
         [] OTHER         -> text[1])

WireBytes(t) ==
  LET lengths(s, cost(_)) == BytesOf([i \in DOMAIN s |-> cost(s[i])])
  IN  Len(t.nulls) + Len(t.blocks["bool"]) + 8 * Len(t.blocks["double"])
        + lengths(t.numbers, VarintBytes) + lengths(t.blocks["string"], TextBytes)
        + lengths(t.blocks["int32"], VarintBytes) + lengths(t.blocks["int64"], VarintBytes)

(* The estimate "stays an upper bound on the frame"                         *)
(* (specs/_decision/029-fix-emit-row-number.md:15).                         *)
EstimateBoundsFrame == mode = "flush" => WireBytes(table) <= estimate
=============================================================================
