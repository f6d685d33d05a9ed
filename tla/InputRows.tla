------------------------------ MODULE InputRows ------------------------------
(***************************************************************************)
(* The input rows of one group: rowset.rs InputRowSet, loaded and reloaded *)
(* from MT_NEXT batches, its cursor (advance_row for a SCALAR script,      *)
(* next() for a SET script), and the typed getters of the SDK's context on *)
(* the current row.  The database packs its batches as TypeBlocks has it;  *)
(* a text may not be UTF-8 and the row numbers may be missing.             *)
(***************************************************************************)
EXTENDS TypeBlocks

CONSTANTS
  Batches,      \* batches the database may send: rows, numbers, the texts that are not UTF-8
  Int64Max,     \* bound: the largest INT64
  MaxBatches    \* bound: batches of a group

\* The variant a declared type decodes to.
VariantOf(type) ==
  CASE type = "Char"    -> "String"
    [] type = "Boolean" -> "Bool"
    [] OTHER            -> type

\* A row of the database: NULL or a value of its type in every column.
OfColumns(row) ==
  /\ DOMAIN row = DOMAIN Columns
  /\ \A c \in DOMAIN Columns :
       row[c].variant \in {"Null", VariantOf(Columns[c])} /\ IsValue(row[c])

ASSUME InputAssumption ==
  /\ MaxBatches \in Nat /\ Int64Max \in Nat
  /\ \A b \in Batches :
       /\ b.rows \in Seq(Range(b.rows)) /\ \A r \in DOMAIN b.rows : OfColumns(b.rows[r])
       /\ b.numbers \in {<<>>} \cup [1..Len(b.rows) -> Nat]

VARIABLES
  scalar,     \* the input axis: the framework advances, or the UDF calls next()
  input,      \* the InputRowSet
  started,    \* HostContextBridge::started
  mode,       \* "open" (first_nonempty_input), "run", "refill", "over"
  fetched,    \* batches the database has sent
  ended,      \* the database has ended the group
  behind,     \* history: the batch behind the row numbers of input
  stream,     \* history: rows of the batches that could be decoded
  seen,       \* history: rows presented, as the UDF reads them
  told        \* history: the UDF, or the framework, was told that the input is over

vars == <<scalar, input, started, mode, fetched, ended, behind, stream, seen, told>>

-----------------------------------------------------------------------------
(* A batch on the wire and decoded.                                         *)
Packed(batch) == [Pack(EmptyTable, batch.rows, 0) EXCEPT !.numbers = batch.numbers]

\* A decoded cell: <<>> for NULL, else the variant and what it carries.
TypedCell(c, cell) == IF cell = <<>> THEN <<>> ELSE <<VariantOf(Columns[c]), cell[1]>>

\* Row-major: InputRowSet::cells.
Cells(batch) ==
  LET rows == Decode(Packed(batch))
  IN  FlattenSeq([r \in DOMAIN rows |->
                    [c \in DOMAIN Columns |-> TypedCell(c, rows[r].cells[c])]])

NumbersOf(batch) ==
  LET table == Packed(batch) IN [r \in DOMAIN batch.rows |-> NumberOf(table, r)]

Decodable(batch) == batch.bad = 0

NoInput == [cells |-> <<>>, rows |-> 0, numbers |-> <<>>, current |-> 0]
NoBatch == [rows |-> <<>>, numbers |-> <<>>, bad |-> 0]

\* InputRowSet::decode: the cursor on the first row.
Loaded(batch) ==
  [cells |-> Cells(batch), rows |-> Len(batch.rows), numbers |-> NumbersOf(batch), current |-> 0]

\* Mutant: decoded in place, over the cells of the batch before.
RefusedInPlace(batch) == input' = [input EXCEPT !.cells = Cells(batch)]

\* reload: the cells are taken before the new batch is decoded.
Refused(batch) == input' = [input EXCEPT !.cells = <<>>]

-----------------------------------------------------------------------------
(* The current row.                                                         *)
CurrentNumber ==
  IF input.current < input.rows THEN input.numbers[input.current + 1] ELSE 0

Outcome(kind, n) == [kind |-> kind, n |-> n]

\* The variants each typed getter takes.
Takes == [i64 |-> {"Int32", "Int64"}, f64 |-> {"Double"}, string |-> {"String"}, bool |-> {"Bool"},
          decimal |-> {"Numeric"}, date |-> {"Date"}, timestamp |-> {"Timestamp"}]

\* Mutant: a DECIMAL is read as its digits.
ReadsUnscaled(accessor, cell) ==
  CASE cell = <<>> -> Outcome("null", 0)
    [] cell # <<>> /\ cell[1] \in Takes[accessor] -> Outcome("value", cell[2])
    [] cell # <<>> /\ accessor = "i64" /\ cell[1] = "Numeric" -> Outcome("value", cell[2][1])
    [] OTHER -> Outcome("error", 0)

(* context.rs get_i64 .. get_timestamp: strict in the variant; get_i64 also *)
(* takes a DECIMAL without a fraction that fits.                            *)
Reads(accessor, cell) ==
  CASE cell = <<>> -> Outcome("null", 0)
    [] cell # <<>> /\ cell[1] \in Takes[accessor] -> Outcome("value", cell[2])
    [] /\ cell # <<>> /\ accessor = "i64" /\ cell[1] = "Numeric"
       /\ cell[2][2] = 0 /\ cell[2][1] \in (-Int64Max - 1)..Int64Max -> Outcome("value", cell[2][1])
    [] OTHER -> Outcome("error", 0)

(* get: no current row is an error.  A row count without the cells behind   *)
(* it is a slice out of bounds, which panics.                               *)
Get(accessor, c) ==
  LET first == input.current * Len(Columns)
  IN  IF input.current >= input.rows THEN Outcome("error", 0)
      ELSE IF first + Len(Columns) > Len(input.cells) THEN Outcome("panic", 0)
      ELSE Reads(accessor, input.cells[first + c])

\* Mutant: one row too early.
CanAdvanceEarly == input.current + 2 < input.rows

\* InputRowSet::advance
CanAdvance == input.current + 1 < input.rows

-----------------------------------------------------------------------------
\* A row as the UDF reads it off a row set.
RowAt(rowset, i) ==
  [cells  |-> SubSeq(rowset.cells, i * Len(Columns) + 1, (i + 1) * Len(Columns)),
   number |-> rowset.numbers[i + 1]]

\* The rows of a batch as the database means them.
AsDecoded(type, value) ==
  CASE value.variant = "Null" \/ type = "Unsupported" -> <<>>
    [] value.variant = "Timestamp" -> <<"Timestamp", Instant(value.n)>>
    [] OTHER -> <<VariantOf(type), value.n>>

Meant(batch) ==
  [r \in DOMAIN batch.rows |->
     [cells  |-> [c \in DOMAIN Columns |-> AsDecoded(Columns[c], batch.rows[r][c])],
      number |-> IF batch.numbers = <<>> THEN r - 1 ELSE batch.numbers[r]]]

(* What the database packs, the runtime unpacks: of every batch it can      *)
(* decode, each row of cells and each number is the one meant.              *)
DecodesFaithfully ==
  \A b \in Batches : Decodable(b) =>
    \A i \in 0..(Len(b.rows) - 1) : RowAt(Loaded(b), i) = Meant(b)[i + 1]

Present(rowset, i) == seen' = Append(seen, RowAt(rowset, i))

Init ==
  /\ scalar \in BOOLEAN
  /\ input = NoInput /\ started = FALSE /\ mode = "open"
  /\ fetched = 0 /\ ended = FALSE
  /\ behind = NoBatch /\ stream = <<>> /\ seen = <<>> /\ told = FALSE

\* An answer to MT_NEXT: a batch, the end of the group, or a failed exchange.
FetchesBatch(batch) == ~ended /\ fetched < MaxBatches /\ fetched' = fetched + 1 /\ UNCHANGED ended
FetchesEnd == ended' = TRUE /\ UNCHANGED fetched
FetchFails == UNCHANGED <<fetched, ended>>

Loads(batch) ==
  /\ input' = Loaded(batch)
  /\ behind' = batch
  /\ stream' = stream \o Meant(batch)

(* first_nonempty_input: zero-row batches are skipped, an error ends the     *)
(* group, and so does an input without rows.                                 *)
Open(batch) ==
  /\ mode = "open"
  /\ FetchesBatch(batch)
  /\ \/ /\ ~Decodable(batch)
        /\ mode' = "over"
        /\ UNCHANGED <<input, behind, stream, seen>>
     \/ /\ Decodable(batch) /\ batch.rows = <<>>
        /\ UNCHANGED <<mode, input, behind, stream, seen>>
     \/ /\ Decodable(batch) /\ batch.rows # <<>>
        /\ Loads(batch)
        /\ mode' = "run"
        /\ IF scalar THEN Present(input', 0) ELSE UNCHANGED seen
  /\ UNCHANGED <<scalar, started, told>>

OpenEnds ==
  /\ mode = "open"
  /\ \/ FetchesEnd /\ told' = TRUE
     \/ FetchFails /\ UNCHANGED told
  /\ mode' = "over"
  /\ UNCHANGED <<scalar, input, started, behind, stream, seen>>

(* next() of a SET script, advance_row behind each run() of a SCALAR one:   *)
(* the next row of the batch, or a refill.                                  *)
Advance ==
  /\ mode = "run"
  /\ started' = TRUE
  /\ \/ /\ ~scalar /\ ~started /\ input.rows > 0
        /\ Present(input, input.current)
        /\ UNCHANGED <<input, mode>>
     \/ /\ (scalar \/ started) /\ CanAdvance
        /\ input' = [input EXCEPT !.current = @ + 1]
        /\ Present(input', input'.current)
        /\ UNCHANGED mode
     \/ /\ (scalar \/ started) /\ ~CanAdvance
        /\ mode' = "refill"
        /\ UNCHANGED <<input, seen>>
  /\ UNCHANGED <<scalar, fetched, ended, behind, stream, told>>

\* The error goes to the SET script, which may carry on, or ends a SCALAR group.
Fails == mode' \in (IF scalar THEN {"over"} ELSE {"run", "over"})

(* refill: until a batch with rows has been loaded.                         *)
Refill(batch) ==
  /\ mode = "refill"
  /\ FetchesBatch(batch)
  /\ \/ /\ ~Decodable(batch)
        /\ Refused(batch)
        /\ Fails
        /\ UNCHANGED <<behind, stream, seen>>
     \/ /\ Decodable(batch)
        /\ Loads(batch)
        /\ IF batch.rows = <<>>
           THEN UNCHANGED <<mode, seen>>
           ELSE mode' = "run" /\ Present(input', 0)
  /\ UNCHANGED <<scalar, started, told>>

RefillEnds ==
  /\ mode = "refill"
  /\ \/ FetchesEnd /\ told' = TRUE /\ mode' = (IF scalar THEN "over" ELSE "run")
     \/ FetchFails /\ Fails /\ UNCHANGED told
  /\ UNCHANGED <<scalar, input, started, behind, stream, seen>>

\* The UDF returns from a SET run, or fails.
RunEnds ==
  /\ mode = "run"
  /\ mode' = "over"
  /\ UNCHANGED <<scalar, input, started, fetched, ended, behind, stream, seen, told>>

Over == mode = "over" /\ UNCHANGED vars

Next ==
  \/ \E batch \in Batches : Open(batch) \/ Refill(batch)
  \/ OpenEnds \/ Advance \/ RefillEnds \/ RunEnds \/ Over

Spec == Init /\ [][Next]_vars

-----------------------------------------------------------------------------
(* Whatever the UDF makes of an error of next(), a getter never mixes rows: *)
(* what it returns is what the database put in that column of the very row  *)
(* whose number an emit would carry, not a cell of the batch that could not *)
(* be decoded nor of another row, and never another number than the         *)
(* column's (InputRowSet::reload, row, current_row_number, get_i64).         *)
ReadsOwnRow ==
  mode = "run" =>
    \A accessor \in DOMAIN Takes, c \in DOMAIN Columns :
      LET got == Get(accessor, c)
      IN  got.kind \in {"value", "null"} =>
            \E row \in Range(Meant(behind)) :
              LET cell == row.cells[c]
              IN  /\ row.number = CurrentNumber
                  /\ got.kind = "null" <=> cell = <<>>
                  /\ got.kind = "value" =>
                       \/ cell[1] \in Takes[accessor] /\ got.n = cell[2]
                       \/ accessor = "i64" /\ cell[1] = "Numeric" /\ cell[2] = <<got.n, 0>>

(* Rows reach the UDF with the values and numbers the database gave them,   *)
(* in order and once each, over batch seams, zero-row batches and batches   *)
(* that were refused, and the input is over only after the last of them.    *)
Rows == INSTANCE RowCursor WITH over <- told
ImplementsRowCursor == Rows!Spec
=============================================================================
