------------------------------ MODULE TypeBlocks ------------------------------
(***************************************************************************)
(* The wire layout of rows: EmitTable's type blocks, filled by the row     *)
(* path (rowset.rs push_costed) and by the Arrow path (emit_pack.rs pack), *)
(* and read back by InputRowSet::decode.  Each block holds the non-NULL    *)
(* cells of the columns that share it, row after row; NULLs live in a      *)
(* row-major bitmap.                                                       *)
(*                                                                         *)
(* A value is its variant and what that carries: a string its length, a    *)
(* date its day number, an integer itself, a decimal <<unscaled, scale>>,  *)
(* a timestamp <<v, unit>>, v of the units of which a second has so many.   *)
(*                                                                         *)
(* A text of the string block is the numbers its fields spell: <<length>>   *)
(* of a string, <<year, month, day>>, the same with <<hour, minute, second,*)
(* digits, fraction>> behind it, and <<sign, whole, scale, fraction>>.      *)
(***************************************************************************)
EXTENDS Calendar, FiniteSets, SequencesExt

CONSTANTS
  Columns,     \* the declared types of the output columns
  IntMax       \* bound: the largest INT32, 2^31 - 1 in the code

Types == {"Numeric", "Date", "Timestamp", "String", "Char", "Boolean", "Int32", "Int64",
          "Double", "Unsupported"}

ASSUME LayoutAssumption == Columns \in Seq(Types) /\ IntMax \in Nat

Blocks == {"string", "bool", "int32", "int64", "double"}

BlockOf(type) ==
  CASE type \in {"Numeric", "Date", "Timestamp", "String", "Char"} -> "string"
    [] type = "Boolean" -> "bool"
    [] type = "Int32"   -> "int32"
    [] type = "Int64"   -> "int64"
    [] type = "Double"  -> "double"
    [] OTHER            -> "none"

Value(variant, n) == [variant |-> variant, n |-> n]
NullValue == Value("Null", 0)

\* The units a second has of an Arrow timestamp, chrono's nanoseconds among them.
Units == {1, 1000, 1000000, 1000000000}

\* A Value of the SDK: what each variant carries.
IsValue(value) ==
  \/ value.variant = "Null"
  \/ value.variant = "Int32" /\ value.n \in (-IntMax - 1)..IntMax
  \/ value.variant \in {"Int64", "Double", "Bool", "Date"} /\ value.n \in Int
  \/ value.variant = "String" /\ value.n \in Nat
  \/ value.variant = "Numeric" /\ value.n \in Int \X Nat
  \/ value.variant = "Timestamp" /\ value.n \in Int \X Units

\* check_output_row.
ColumnAccepts(type, value) ==
  \/ value.variant = "Null" \/ type = "Unsupported"
  \/ type = "Int32" /\ value.variant = "Int32"
  \/ type = "Int32" /\ value.variant = "Int64" /\ value.n \in (-IntMax - 1)..IntMax
  \/ type \in {"Int64", "Numeric"} /\ value.variant \in {"Int32", "Int64"}
  \/ type \in {"String", "Char"} /\ value.variant = "String"
  \/ type = "Boolean" /\ value.variant = "Bool"
  \/ type \in {"Numeric", "Double", "Date", "Timestamp"} /\ value.variant = type

\* Vec::get: a row too short for its columns reads as NULL at the end.
CellAt(row, c) == IF c \in DOMAIN row THEN row[c] ELSE NullValue

EmptyTable ==
  [rows |-> 0, nulls |-> <<>>, numbers |-> <<>>, blocks |-> [b \in Blocks |-> <<>>]]

-----------------------------------------------------------------------------
(* What a cell leaves in its block.                                        *)

\* `as i32` keeps the low 32 bits.
WrapInt32(n) == ((n + IntMax + 1) % (2 * (IntMax + 1))) - IntMax - 1

\* value_to_i64: the integer variants keep their value.
IntegerOf(value) == IF value.variant \in {"Int32", "Int64"} THEN value.n ELSE 0

Day    == 86400
Second == 1000000000    \* in nanoseconds

DateText(date) == <<date.year, date.month, date.day>>

\* Mutant: microseconds, as TIMESTAMP_EMIT once had them.
MicrosecondText(date, sod, nanos) ==
  DateText(date) \o <<sod \div 3600, sod \div 60 % 60, sod % 60, 6, nanos \div 1000>>

\* write_hms_nanos: nine digits of the second, whatever the column's precision.
TimestampText(date, sod, nanos) ==
  DateText(date) \o <<sod \div 3600, sod \div 60 % 60, sod % 60, 9, nanos>>

\* Ten to the power of a scale.
Pow10(scale) ==
  LET power[k \in 0..scale] == IF k = 0 THEN 1 ELSE 10 * power[k - 1] IN power[scale]

\* Mutant: the sign is the one of the digits before the point.
DecimalTextSignOfWhole(d) ==
  LET magnitude == IF d[1] < 0 THEN -d[1] ELSE d[1]
  IN  <<IF d[1] <= -Pow10(d[2]) THEN -1 ELSE 1,
        magnitude \div Pow10(d[2]), d[2], magnitude % Pow10(d[2])>>

\* write_decimal: the sign, then exactly scale digits behind the point.
DecimalText(d) ==
  LET magnitude == IF d[1] < 0 THEN -d[1] ELSE d[1]
  IN  <<IF d[1] < 0 THEN -1 ELSE 1, magnitude \div Pow10(d[2]), d[2], magnitude % Pow10(d[2])>>

\* Mutant: `/` and `%` where the code has the euclidean pair.
TruncatedParts(t) ==
  LET secs == IF t[1] < 0 THEN -((-t[1]) \div t[2]) ELSE t[1] \div t[2]
      rest == t[1] - secs * t[2]
  IN  <<secs, (IF rest < 0 THEN -rest ELSE rest) * (Second \div t[2])>>

\* timestamp_parts: whole seconds, rounded down, and nanoseconds.
TimestampParts(t) == <<t[1] \div t[2], (t[1] % t[2]) * (Second \div t[2])>>

\* The instant itself, as chrono holds it.
Instant(t) == <<t[1] \div t[2], (t[1] % t[2]) * (Second \div t[2])>>

\* write_block_value: the text of a value, an integer's in a NUMERIC column included.
TextOf(value) ==
  CASE value.variant = "Date" -> DateText(DateOf(value.n))
    [] value.variant = "Timestamp" ->
         LET at == Instant(value.n)
         IN  TimestampText(DateOf(at[1] \div Day), at[1] % Day, at[2])
    [] value.variant = "Numeric" -> DecimalText(value.n)
    [] value.variant \in {"Int32", "Int64"} -> DecimalText(<<value.n, 0>>)
    [] OTHER -> <<value.n>>

\* push_cell, by the declared type: the block entry of a non-NULL value.
EntryOf(type, value) ==
  CASE BlockOf(type) = "string" -> TextOf(value)
    [] type = "Int32" -> WrapInt32(IntegerOf(value))
    [] type = "Int64" -> IntegerOf(value)
    [] OTHER          -> value.n

\* The non-NULL cells of a row that go to block b, as <<declared type, value>>.
BlockCells(b, row) ==
  FlattenSeq([c \in DOMAIN Columns |->
    IF BlockOf(Columns[c]) = b /\ CellAt(row, c).variant # "Null"
    THEN <<<<Columns[c], CellAt(row, c)>>>> ELSE <<>>])

\* What those cells leave in the block.
Entries(cells) == [i \in DOMAIN cells |-> EntryOf(cells[i][1], cells[i][2])]

NullBits(row) == [c \in DOMAIN Columns |-> CellAt(row, c).variant = "Null"]

\* push_costed: one row, cell by cell.
PushRow(table, row, number) ==
  [rows    |-> table.rows + 1,
   nulls   |-> table.nulls \o NullBits(row),
   numbers |-> Append(table.numbers, number),
   blocks  |-> [b \in Blocks |-> table.blocks[b] \o Entries(BlockCells(b, row))]]

-----------------------------------------------------------------------------
(* The Arrow path: a block at a time over all the rows.                    *)

\* Mutant: the cells of a block column after column.
BatchCellsByColumn(b, rows) ==
  FlattenSeq([c \in DOMAIN Columns |->
    IF BlockOf(Columns[c]) # b THEN <<>>
    ELSE LET filled == SelectSeq([r \in DOMAIN rows |-> CellAt(rows[r], c)],
                                 LAMBDA v : v.variant # "Null")
         IN  [i \in DOMAIN filled |-> <<Columns[c], filled[i]>>]])

\* pack_fixed, pack_bools, pack_strings: row by row over the columns of the block.
BatchCells(b, rows) == FlattenSeq([r \in DOMAIN rows |-> BlockCells(b, rows[r])])

\* write_date32, write_timestamp: the years 0 to 9999 are written from the year
\* cache, the others left to chrono.
CivilDate(cache, day) ==
  LET date == DateIn(cache, day) IN IF date.year \in 0..9999 THEN date ELSE DateOf(day)

\* pack_strings: one cache for the dates and the timestamps of a call.
PackString(packed, cell) ==
  LET value == cell[2]
      parts == IF value.variant = "Timestamp" THEN TimestampParts(value.n) ELSE <<0, 0>>
      day   == IF value.variant = "Date" THEN value.n ELSE parts[1] \div Day
      cache == YearOf(packed.cache, day)
      text  == IF value.variant = "Date" THEN DateText(CivilDate(cache, day))
               ELSE TimestampText(CivilDate(cache, day), parts[1] % Day, parts[2])
  IN  IF value.variant \in {"Date", "Timestamp"}
      THEN [cache |-> cache, texts |-> Append(packed.texts, text)]
      ELSE [packed EXCEPT !.texts = Append(@, TextOf(value))]

PackStrings(rows) ==
  FoldLeft(PackString, [cache |-> NoYear, texts |-> <<>>], BatchCells("string", rows)).texts

PackFixed(b, rows) ==
  LET cells == BatchCells(b, rows) IN [i \in DOMAIN cells |-> cells[i][2].n]

Pack(table, rows, number) ==
  [rows    |-> table.rows + Len(rows),
   nulls   |-> table.nulls \o FlattenSeq([r \in DOMAIN rows |-> NullBits(rows[r])]),
   numbers |-> table.numbers \o [r \in DOMAIN rows |-> number],
   blocks  |-> [b \in Blocks |-> table.blocks[b] \o
                  (IF b = "string" THEN PackStrings(rows) ELSE PackFixed(b, rows))]]

-----------------------------------------------------------------------------
(* Reading back: InputRowSet::decode.  A cell is <<>> for NULL, <<n>>       *)
(* otherwise.                                                              *)
IsNull(table, r, c) == table.nulls[(r - 1) * Len(Columns) + c]

\* The running cursor of a block at a cell: the non-NULL cells of the block up to it.
Cursor(table, r, c) ==
  Cardinality({p \in (1..r) \X (DOMAIN Columns) :
    /\ p[1] < r \/ p[2] <= c
    /\ BlockOf(Columns[p[2]]) = BlockOf(Columns[c])
    /\ ~IsNull(table, p[1], p[2])})

\* A decimal's text, Decimal::try_from: the digits without the point.
IsDecimalText(text) == Len(text) = 4

DecimalOf(text) == <<text[1] * (text[2] * Pow10(text[3]) + text[4]), text[3]>>

IsDateText(text) ==
  Len(text) = 3 /\ text[2] \in 1..12 /\ text[3] \in 1..MonthLength(text[1], text[2])

\* fast_parse_timestamp: up to nine digits of the second.
IsTimestampText(text) ==
  /\ Len(text) = 8 /\ IsDateText(SubSeq(text, 1, 3))
  /\ text[4] \in 0..23 /\ text[5] \in 0..59 /\ text[6] \in 0..59 /\ text[7] \in 0..9

InstantOf(text) ==
  <<DayNumber(Date(text[1], text[2], text[3])) * Day + text[4] * 3600 + text[5] * 60 + text[6],
    text[8] * Pow10(9 - text[7])>>

\* decode_string_block: a text that does not parse as its type is NULL.
TextCell(type, text) ==
  CASE type = "Numeric"   -> IF IsDecimalText(text) THEN <<DecimalOf(text)>> ELSE <<>>
    [] type = "Date"      -> IF IsDateText(text)
                             THEN <<DayNumber(Date(text[1], text[2], text[3]))>> ELSE <<>>
    [] type = "Timestamp" -> IF IsTimestampText(text) THEN <<InstantOf(text)>> ELSE <<>>
    [] OTHER              -> text

\* A block entry as a cell of its column.
CellFrom(type, entry) == IF BlockOf(type) = "string" THEN TextCell(type, entry) ELSE <<entry>>

\* What is to be read of a value: nothing for a NULL.
Reading(type, value) ==
  CASE value.variant = "Null" \/ type = "Unsupported"              -> <<>>
    [] type = "Numeric" /\ value.variant \in {"Int32", "Int64"}     -> <<<<value.n, 0>>>>
    [] type = "Timestamp" /\ value.variant = "Timestamp"            -> <<Instant(value.n)>>
    [] OTHER                                                        -> <<value.n>>

CellOf(table, r, c) ==
  LET type   == Columns[c]
      block  == table.blocks[BlockOf(type)]
      cursor == Cursor(table, r, c)
      entry  == IF cursor \in DOMAIN block THEN block[cursor]
                ELSE IF BlockOf(type) = "string" THEN <<0>> ELSE 0
  IN  IF IsNull(table, r, c) \/ type = "Unsupported" THEN <<>> ELSE CellFrom(type, entry)

\* A table without a number for every row falls back to indices within it.
NumberOf(table, r) == IF Len(table.numbers) >= table.rows THEN table.numbers[r] ELSE r - 1

Decode(table) ==
  [r \in 1..table.rows |->
     [cells |-> [c \in DOMAIN Columns |-> CellOf(table, r, c)], number |-> NumberOf(table, r)]]

IsTable(t) ==
  /\ t.rows \in Nat /\ t.nulls \in Seq(BOOLEAN) /\ t.numbers \in Seq(Nat)
  /\ DOMAIN t.blocks = Blocks
  /\ t.blocks["string"] \in Seq(Seq(Int))
  /\ \A b \in Blocks \ {"string"} : t.blocks[b] \in Seq(Int)
=============================================================================
