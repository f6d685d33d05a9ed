----------------------------- MODULE InputProofs -----------------------------
(***************************************************************************)
(* The input rows of a group, for all columns, batches and ways a batch    *)
(* can fail: a getter reads the current row of the batch the row numbers   *)
(* are of, and the rows reach the UDF as RowCursor promises.  First, a     *)
(* batch decodes to the rows the database means, by the layout of          *)
(* TypeBlocksProofs; then, where the cursor stands.                        *)
(***************************************************************************)
EXTENDS InputRows, TypeBlocksProofs

\* Rows as the database means them.
MeantRows == UNION {Range(Meant(b)) : b \in Batches}

NothingLoaded ==
  /\ mode \in {"open", "over"}
  /\ input = NoInput /\ behind = NoBatch /\ started = FALSE
  /\ stream = <<>> /\ seen = <<>>

\* The framework starts on the first row, a SET script before it.
AtARow == scalar \/ started

\* Rows of the current batch presented so far.
Shown == IF AtARow /\ input.rows > 0 THEN input.current + 1 ELSE 0

IsRowSet(rowset) ==
  rowset = [cells |-> rowset.cells, rows |-> rowset.rows,
            numbers |-> rowset.numbers, current |-> rowset.current]

(* The row set is the batch the row numbers are of; its cells are that      *)
(* batch's, or gone with a batch that could not be decoded, and then the    *)
(* cursor is behind the last row.                                           *)
HoldsBatch ==
  /\ mode \in {"run", "refill", "over"}
  /\ behind \in Batches /\ Decodable(behind)
  /\ IsRowSet(input)
  /\ input.rows = Len(behind.rows) /\ input.numbers = NumbersOf(behind)
  /\ input.current \in Nat
  /\ input.current = 0 \/ input.current < input.rows
  /\ \/ input.cells = Cells(behind)
     \/ input.cells = <<>> /\ AtARow /\ ~CanAdvance
  /\ mode = "refill" => AtARow /\ ~CanAdvance
  /\ ~AtARow => input.current = 0

(* The batch is the end of the stream, and what has been presented is the   *)
(* stream up to the current row.                                            *)
InOrder ==
  /\ stream \in Seq(MeantRows)
  /\ input.rows <= Len(stream)
  /\ \A i \in 1..input.rows : stream[Len(stream) - input.rows + i] = Meant(behind)[i]
  /\ seen = SubSeq(stream, 1, Len(stream) - input.rows + Shown)

CursorInv ==
  /\ scalar \in BOOLEAN /\ started \in BOOLEAN
  /\ NothingLoaded \/ (HoldsBatch /\ InOrder)

-----------------------------------------------------------------------------
(* What a batch decodes to.                                                  *)

\* A row of the database fits its columns, and its cells are read as they are meant.
LEMMA OfColumnsFits ==
  ASSUME NEW row, OfColumns(row)
  PROVE  /\ Fits(row)
         /\ \A c \in DOMAIN Columns :
              TypedCell(c, Reading(Columns[c], CellAt(row, c))) = AsDecoded(Columns[c], row[c])
<1>1. ASSUME NEW c \in DOMAIN Columns
      PROVE  /\ ColumnAccepts(Columns[c], CellAt(row, c)) /\ IsValue(CellAt(row, c))
             /\ TypedCell(c, Reading(Columns[c], CellAt(row, c))) = AsDecoded(Columns[c], row[c])
  <2> DEFINE type  == Columns[c]
             value == row[c]
  <2>1. CellAt(row, c) = value /\ type \in Types
    BY LayoutAssumption DEF OfColumns, CellAt
  <2>2. value.variant \in {"Null", VariantOf(type)} /\ IsValue(value)
    BY DEF OfColumns
  <2> HIDE DEF value
  <2>3. ColumnAccepts(type, value)
    <3> HIDE DEF type
    <3>1. QED BY <2>1, <2>2 DEF ColumnAccepts, VariantOf, Types
  <2>4. TypedCell(c, Reading(type, value)) = AsDecoded(type, value)
    <3>1. CASE value.variant = "Null" \/ type = "Unsupported"
      <4>1. value.variant = "Null"
        BY <2>2, <3>1 DEF VariantOf, IsValue
      <4>2. Reading(type, value) = <<>> /\ AsDecoded(type, value) = <<>>
        BY <4>1 DEF Reading, AsDecoded
      <4>3. QED BY <4>2 DEF TypedCell
    <3>2. CASE ~(value.variant = "Null" \/ type = "Unsupported")
      <4>1. value.variant = VariantOf(type)
        BY <2>2, <3>2
      <4>2. CASE type = "Timestamp"
        <5>1. value.variant = "Timestamp" /\ VariantOf(type) = "Timestamp"
          BY <4>1, <4>2 DEF VariantOf
        <5>2. Reading(type, value) = <<Instant(value.n)>>
          BY <3>2, <4>2, <5>1 DEF Reading
        <5>3. TypedCell(c, <<Instant(value.n)>>) = <<"Timestamp", Instant(value.n)>>
          BY <5>1 DEF TypedCell
        <5>4. QED BY <3>2, <5>1, <5>2, <5>3 DEF AsDecoded
      <4>3. CASE type # "Timestamp"
        <5>1. value.variant # "Timestamp" /\ ~(type = "Numeric" /\ value.variant \in {"Int32", "Int64"})
          <6> HIDE DEF type
          <6>1. QED BY <2>1, <4>1, <4>3 DEF VariantOf, Types
        <5>2. Reading(type, value) = <<value.n>>
          BY <3>2, <5>1 DEF Reading
        <5>3. TypedCell(c, <<value.n>>) = <<VariantOf(type), value.n>>
          BY DEF TypedCell
        <5>4. QED BY <3>2, <5>1, <5>2, <5>3 DEF AsDecoded
      <4>4. QED BY <4>2, <4>3
    <3>3. QED BY <3>1, <3>2
  <2>5. QED BY <2>1, <2>2, <2>3, <2>4 DEF value
<1>2. QED BY <1>1 DEF Fits

\* The cells do not depend on the numbers.
LEMMA NumbersApart ==
  ASSUME NEW t, NEW u, u.nulls = t.nulls, u.blocks = t.blocks, NEW r, NEW c
  PROVE  CellOf(u, r, c) = CellOf(t, r, c)
<1>1. \A i, k : IsNull(u, i, k) = IsNull(t, i, k)
  BY DEF IsNull
<1>2. Cursor(u, r, c) = Cursor(t, r, c)
  BY <1>1 DEF Cursor
<1>3. QED BY <1>1, <1>2, Zenon DEF CellOf

LEMMA BatchDecoded ==
  ASSUME NEW b \in Batches
  PROVE  /\ Len(b.rows) \in Nat /\ DOMAIN b.rows = 1..Len(b.rows)
         /\ DOMAIN Decode(Packed(b)) = 1..Len(b.rows)
         /\ \A r \in 1..Len(b.rows), c \in DOMAIN Columns :
              TypedCell(c, Decode(Packed(b))[r].cells[c]) = AsDecoded(Columns[c], b.rows[r][c])
         /\ Packed(b).rows = Len(b.rows) /\ Packed(b).numbers = b.numbers
<1> DEFINE n == Len(b.rows)
           t == Pack(EmptyTable, b.rows, 0)
           S == {RowMeant(b.rows[i], 0) : i \in 1..n}
           u == Packed(b)
<1>1. /\ b.rows \in Seq(Range(b.rows)) /\ n \in Nat /\ DOMAIN b.rows = 1..n
      /\ \A r \in 1..n : OfColumns(b.rows[r])
  BY InputAssumption
<1>2. \A r \in 1..n : Fits(b.rows[r]) /\ RowMeant(b.rows[r], 0) \in S
  BY <1>1, OfColumnsFits
<1> HIDE DEF S
<1>3. Layout(EmptyTable) /\ Decode(EmptyTable) \in Seq(S) /\ Decode(EmptyTable) = <<>>
  BY EmptyLayout
<1>4. Layout(t) /\ Decode(t) = Decode(EmptyTable) \o RowsMeant(b.rows, 0)
  <2>1. 0 \in Nat
    OBVIOUS
  <2>2. QED BY <1>1, <1>2, <1>3, <2>1, RowsReadBack
<1>5. RowsMeant(b.rows, 0) = [i \in 1..n |-> RowMeant(b.rows[i], 0)]
  BY DEF RowsMeant
<1>6. RowsMeant(b.rows, 0) \in Seq(S)
  BY <1>1, <1>2, <1>5
<1>7. Decode(t) = RowsMeant(b.rows, 0)
  BY <1>3, <1>4, <1>6, ConcatEmptySeq
<1>8. t.rows = n
  BY <1>1 DEF Pack, EmptyTable
<1> HIDE DEF t
<1>9. t = [rows |-> t.rows, nulls |-> t.nulls, numbers |-> t.numbers,
           blocks |-> [k \in Blocks |-> t.blocks[k]]]
  BY <1>4 DEF Layout
<1>10. u = [t EXCEPT !.numbers = b.numbers]
  BY DEF Packed, t
<1>11. u.rows = n /\ u.numbers = b.numbers /\ u.nulls = t.nulls /\ u.blocks = t.blocks
  BY <1>8, <1>9, <1>10
<1> HIDE DEF u
<1>12. \A r, c : CellOf(u, r, c) = CellOf(t, r, c)
  BY <1>11, NumbersApart, Zenon
<1>13. ASSUME NEW r \in 1..n, NEW c \in DOMAIN Columns
       PROVE  Decode(u)[r].cells[c] = Reading(Columns[c], CellAt(b.rows[r], c))
  <2>1. Decode(u)[r].cells[c] = CellOf(u, r, c)
    BY <1>11 DEF Decode
  <2>2. Decode(t)[r].cells[c] = CellOf(t, r, c)
    BY <1>8 DEF Decode
  <2>3. Decode(t)[r] = RowMeant(b.rows[r], 0)
    BY <1>5, <1>7
  <2>4. RowMeant(b.rows[r], 0).cells[c] = Reading(Columns[c], CellAt(b.rows[r], c))
    BY DEF RowMeant
  <2>5. QED BY <1>12, <2>1, <2>2, <2>3, <2>4, Zenon
<1>14. \A r \in 1..n, c \in DOMAIN Columns :
         TypedCell(c, Decode(u)[r].cells[c]) = AsDecoded(Columns[c], b.rows[r][c])
  <2> TAKE r \in 1..n, c \in DOMAIN Columns
  <2>1. TypedCell(c, Reading(Columns[c], CellAt(b.rows[r], c))) = AsDecoded(Columns[c], b.rows[r][c])
    BY <1>1, OfColumnsFits
  <2>2. QED BY <1>13, <2>1, Zenon
<1>15. DOMAIN Decode(u) = 1..n
  BY <1>11 DEF Decode
<1>16. QED BY <1>1, <1>11, <1>14, <1>15, Zenon DEF u

LEMMA Slice ==
  ASSUME NEW S, NEW s \in Seq(S), NEW m \in Nat, NEW w \in Nat, m + w <= Len(s)
  PROVE  /\ SubSeq(s, m + 1, m + w) \in Seq(S) /\ Len(SubSeq(s, m + 1, m + w)) = w
         /\ \A j \in 1..w : SubSeq(s, m + 1, m + w)[j] = s[m + j]
OBVIOUS

\* One width more.
LEMMA NextMultiple ==
  ASSUME NEW k \in Int, NEW width \in Int
  PROVE  (k - 1) * width + width = k * width
OBVIOUS

\* Rows of one width, one after the other, are found at multiples of it.
LEMMA RowsApart ==
  ASSUME NEW S, NEW seqs \in Seq(Seq(S)), NEW width \in Nat,
         \A i \in 1..Len(seqs) : Len(seqs[i]) = width,
         NEW i \in Nat, i < Len(seqs)
  PROVE  SubSeq(FlattenSeq(seqs), i * width + 1, (i + 1) * width) = seqs[i + 1]
<1> DEFINE n == Len(seqs)
<1>1. PICK f : Unrolls(f, S, seqs)
  BY Flattening, Zenon
<1>2. /\ n \in Nat /\ f \in [0..n -> Seq(S)] /\ f[0] = <<>> /\ f[n] = FlattenSeq(seqs)
      /\ \A k \in 1..n : f[k] = f[k - 1] \o seqs[k] /\ seqs[k] \in Seq(S)
  BY <1>1, LenProperties, ElementOfSeq DEF Unrolls
<1> DEFINE Bad == {k \in 0..n : Len(f[k]) # k * width}
<1>3. Bad = {}
  <2>1. SUFFICES ASSUME Bad # {} PROVE FALSE
    OBVIOUS
  <2>2. PICK k \in Bad : \A m \in Bad : k <= m
    <3>1. Bad \in SUBSET Nat
      OBVIOUS
    <3>2. QED BY <2>1, <3>1, LeastNumber, Zenon
  <2>3. k # 0
    BY <1>2, <2>2
  <2>4. k \in 1..n /\ k - 1 \in 0..n /\ ~(k <= k - 1)
    BY <2>2, <2>3
  <2>5. Len(f[k - 1]) = (k - 1) * width
    BY <2>2, <2>4
  <2>6. f[k - 1] \in Seq(S) /\ seqs[k] \in Seq(S) /\ f[k] = f[k - 1] \o seqs[k] /\ Len(seqs[k]) = width
    BY <1>2, <2>4
  <2>7. Len(f[k]) = Len(f[k - 1]) + Len(seqs[k])
    <3> DEFINE g == f[k - 1]
               h == seqs[k]
    <3>1. g \in Seq(S) /\ h \in Seq(S) /\ f[k] = g \o h
      BY <2>6
    <3> HIDE DEF g, h
    <3>2. Len(g \o h) = Len(g) + Len(h)
      BY <3>1, ConcatProperties
    <3>3. QED BY <3>1, <3>2, Zenon DEF g, h
  <2>8. (k - 1) * width + width = k * width
    <3>1. k \in Int /\ width \in Int
      BY <2>4
    <3>2. QED BY <3>1, NextMultiple, Zenon
  <2>9. QED BY <2>2, <2>5, <2>6, <2>7, <2>8
<1>4. \A k \in 0..n : Len(f[k]) = k * width
  BY <1>3
<1>5. Chain(f, n, S)
  BY <1>2, Zenon DEF Chain
<1>6. i \in 0..n /\ i + 1 \in 0..n /\ i + 1 \in 1..n /\ (i + 1) - 1 = i /\ n \in (i + 1)..n
  BY <1>2
<1>7. Begins(f[i + 1], f[n])
  BY <1>2, <1>5, <1>6, ChainGrows
<1> DEFINE a == f[i]
           m == seqs[i + 1]
           all == f[n]
           from == i * width
           p == SubSeq(all, from + 1, from + width)
<1>8. /\ a \in Seq(S) /\ m \in Seq(S) /\ all \in Seq(S) /\ f[i + 1] = a \o m
      /\ Len(a) = from /\ Len(m) = width /\ Len(f[i + 1]) = (i + 1) * width
      /\ Len(all) = n * width
  <2>1. a \in Seq(S) /\ m \in Seq(S) /\ all \in Seq(S) /\ f[i + 1] = a \o m
    <3>1. n \in 0..n
      BY <1>2
    <3>2. a \in Seq(S) /\ all \in Seq(S)
      BY <1>2, <1>6, <3>1, Zenon
    <3>3. f[i + 1] = f[(i + 1) - 1] \o m /\ m \in Seq(S)
      BY <1>2, <1>6, Zenon
    <3>4. QED BY <1>6, <3>2, <3>3, Zenon
  <2>2. Len(a) = from /\ Len(f[i + 1]) = (i + 1) * width /\ Len(all) = n * width
    BY <1>2, <1>4, <1>6
  <2>3. Len(m) = width
    BY <1>6, Zenon
  <2>4. QED BY <2>1, <2>2, <2>3, Zenon
<1>9. from \in Nat /\ (i + 1) * width = from + width
  BY <1>6
<1> HIDE DEF a, m, all, from
<1>10. /\ from + width <= Len(all) /\ Len(all) \in Nat
       /\ \A j \in 1..(from + width) : all[j] = (a \o m)[j]
  BY <1>7, <1>8, <1>9 DEF Begins, all
<1>11. \A j \in 1..width : (a \o m)[from + j] = m[j]
  <2>1. \A j \in 1..Len(m) : (a \o m)[Len(a) + j] = m[j]
    BY <1>8, ConcatLater
  <2>2. QED BY <1>8, <2>1, Zenon
<1>12. \A j \in 1..width : all[from + j] = m[j]
  <2> TAKE j \in 1..width
  <2>1. from + j \in 1..(from + width)
    BY <1>9
  <2>2. QED BY <1>10, <1>11, <2>1, Zenon
<1>13. p \in Seq(S) /\ Len(p) = width /\ \A j \in 1..width : p[j] = all[from + j]
  BY <1>8, <1>9, <1>10, Slice
<1> HIDE DEF p
<1>14. p = m
  BY <1>8, <1>12, <1>13, SeqEqual
<1>15. QED BY <1>2, <1>9, <1>14, Zenon DEF p, m, all, from

(* What the database packs, the runtime unpacks: of every batch that can be   *)
(* decoded, each row of cells and each number is the one meant, for any       *)
(* columns, NULLs and number of rows, and with or without row numbers         *)
(* (InputRowSet::decode).                                                     *)
THEOREM BatchesDecode == DecodesFaithfully
<1> SUFFICES ASSUME NEW b \in Batches, NEW i \in 0..(Len(b.rows) - 1)
             PROVE  RowAt(Loaded(b), i) = Meant(b)[i + 1]
  BY DEF DecodesFaithfully
<1> DEFINE n == Len(b.rows)
           seqs == [r \in 1..n |-> [c \in DOMAIN Columns |-> AsDecoded(Columns[c], b.rows[r][c])]]
           S == {AsDecoded(Columns[c], b.rows[r][c]) : r \in 1..n, c \in 1..Width}
           rows == Decode(Packed(b))
<1>1. /\ n \in Nat /\ DOMAIN b.rows = 1..n /\ DOMAIN rows = 1..n
      /\ \A r \in 1..n, c \in DOMAIN Columns :
           TypedCell(c, rows[r].cells[c]) = AsDecoded(Columns[c], b.rows[r][c])
      /\ Packed(b).rows = n /\ Packed(b).numbers = b.numbers
  BY BatchDecoded
<1>2. i \in Nat /\ i < n /\ i + 1 \in 1..n /\ (i + 1) - 1 = i
  BY <1>1
<1>3. Width \in Nat /\ DOMAIN Columns = 1..Width /\ Width = Len(Columns)
  BY ColumnNumbers DEF Width
<1> HIDE DEF rows
<1>4. Cells(b) = FlattenSeq(seqs)
  <2>1. Cells(b) = FlattenSeq([r \in DOMAIN rows |->
                                 [c \in DOMAIN Columns |-> TypedCell(c, rows[r].cells[c])]])
    BY DEF Cells, rows
  <2>2. [r \in DOMAIN rows |-> [c \in DOMAIN Columns |-> TypedCell(c, rows[r].cells[c])]] = seqs
    BY <1>1
  <2>3. QED BY <2>1, <2>2, Zenon
<1>5. seqs \in Seq(Seq(S)) /\ Len(seqs) = n /\ \A r \in 1..n : Len(seqs[r]) = Width
  <2>1. ASSUME NEW r \in 1..n PROVE seqs[r] \in Seq(S) /\ Len(seqs[r]) = Width
    <3> DEFINE s == [c \in 1..Width |-> AsDecoded(Columns[c], b.rows[r][c])]
    <3>1. s \in [1..Width -> S]
      OBVIOUS
    <3>2. seqs[r] = s
      BY <1>3
    <3> HIDE DEF s, S, seqs
    <3>3. s \in Seq(S) /\ Len(s) = Width
      BY <1>3, <3>1
    <3>4. QED BY <3>2, <3>3, Zenon
  <2> HIDE DEF S
  <2>2. \A r \in 1..n : seqs[r] \in Seq(S) /\ Len(seqs[r]) = Width
    <3> HIDE DEF seqs
    <3>1. QED BY <2>1
  <2>3. seqs \in [1..n -> Seq(S)]
    BY <2>2
  <2> HIDE DEF seqs
  <2>4. QED BY <1>1, <2>2, <2>3
<1>6. SubSeq(Cells(b), i * Len(Columns) + 1, (i + 1) * Len(Columns)) = seqs[i + 1]
  <2> HIDE DEF seqs, S
  <2>1. SubSeq(FlattenSeq(seqs), i * Width + 1, (i + 1) * Width) = seqs[i + 1]
    BY <1>2, <1>3, <1>5, RowsApart
  <2>2. QED BY <1>3, <1>4, <2>1
<1>7. NumbersOf(b)[i + 1] = IF b.numbers = <<>> THEN i ELSE b.numbers[i + 1]
  <2>1. NumbersOf(b)[i + 1] = NumberOf(Packed(b), i + 1)
    BY <1>1, <1>2 DEF NumbersOf
  <2>2. NumberOf(Packed(b), i + 1)
          = IF Len(b.numbers) >= n THEN b.numbers[i + 1] ELSE (i + 1) - 1
    BY <1>1 DEF NumberOf
  <2>3. b.numbers = <<>> \/ b.numbers \in [1..n -> Nat]
    BY InputAssumption
  <2>4. CASE b.numbers = <<>>
    <3>1. ~(Len(b.numbers) >= n)
      BY <1>1, <1>2, <2>4
    <3>2. QED BY <1>2, <2>1, <2>2, <2>4, <3>1
  <2>5. CASE b.numbers # <<>>
    <3>1. Len(b.numbers) = n
      BY <1>1, <2>3, <2>5
    <3>2. QED BY <1>1, <2>1, <2>2, <2>5, <3>1
  <2>6. QED BY <2>4, <2>5
<1>8. Meant(b)[i + 1] = [cells |-> seqs[i + 1],
                         number |-> IF b.numbers = <<>> THEN i ELSE b.numbers[i + 1]]
  BY <1>1, <1>2 DEF Meant
<1>9. RowAt(Loaded(b), i) =
        [cells  |-> SubSeq(Cells(b), i * Len(Columns) + 1, (i + 1) * Len(Columns)),
         number |-> NumbersOf(b)[i + 1]]
  BY Zenon DEF RowAt, Loaded
<1>10. QED BY <1>6, <1>7, <1>8, <1>9, Zenon

-----------------------------------------------------------------------------
LEMMA MeantIsSeq ==
  ASSUME NEW b \in Batches
  PROVE  /\ Len(b.rows) \in Nat
         /\ Meant(b) \in Seq(MeantRows) /\ Len(Meant(b)) = Len(b.rows)
<1>1. b.rows \in Seq(Range(b.rows))
  BY InputAssumption
<1>2. Len(b.rows) \in Nat /\ DOMAIN b.rows = 1..Len(b.rows)
  BY <1>1
<1> DEFINE n == Len(b.rows)
           m == Meant(b)
<1>3. DOMAIN m = 1..n /\ m = [i \in 1..n |-> m[i]]
  BY <1>2 DEF Meant
<1> HIDE DEF m
<1>4. \A i \in 1..n : m[i] \in MeantRows
  BY <1>3 DEF MeantRows, Range, m
<1>5. m \in [1..n -> MeantRows]
  BY <1>3, <1>4
<1>6. m \in Seq(MeantRows) /\ Len(m) = n
  BY <1>2, <1>5
<1>7. QED BY <1>2, <1>6 DEF m

\* A row set read row by row is the batch it was loaded from.
LEMMA RowIsMeant ==
  ASSUME NEW b \in Batches, Decodable(b), NEW rowset,
         rowset.cells = Cells(b), rowset.numbers = NumbersOf(b),
         NEW i \in Nat, i < Len(b.rows)
  PROVE  RowAt(rowset, i) = Meant(b)[i + 1]
<1>1. i \in 0..(Len(b.rows) - 1)
  BY MeantIsSeq
<1>2. RowAt(Loaded(b), i) = Meant(b)[i + 1]
  BY <1>1, BatchesDecode DEF DecodesFaithfully
<1>3. RowAt(rowset, i) = RowAt(Loaded(b), i)
  BY DEF RowAt, Loaded
<1>4. QED BY <1>2, <1>3

-----------------------------------------------------------------------------
\* A loaded batch: the cursor on its first row.
LEMMA LoadedKeeps ==
  ASSUME NEW b \in Batches, Decodable(b),
         stream \in Seq(MeantRows), Loads(b), seen = stream
  PROVE  /\ stream' \in Seq(MeantRows) /\ Len(stream') = Len(stream) + Len(b.rows)
         /\ SubSeq(stream', 1, Len(stream)) = stream
         /\ \A i \in 1..Len(b.rows) : stream'[Len(stream) + i] = Meant(b)[i]
         /\ IsRowSet(input') /\ input'.rows = Len(b.rows) /\ input'.current = 0
         /\ input'.cells = Cells(b) /\ input'.numbers = NumbersOf(b)
         /\ b.rows # <<>> <=> Len(b.rows) > 0
         /\ b.rows # <<>> =>
              Append(seen, RowAt(input', 0)) = SubSeq(stream', 1, Len(stream) + 1)
<1> DEFINE m == Meant(b)
           n == Len(b.rows)
           s == stream'
<1>1. n \in Nat /\ m \in Seq(MeantRows) /\ Len(m) = n
  BY MeantIsSeq
<1>2. /\ IsRowSet(input') /\ input'.rows = n /\ input'.current = 0
      /\ input'.cells = Cells(b) /\ input'.numbers = NumbersOf(b)
  BY DEF Loads, Loaded, IsRowSet
<1>3. s = stream \o m
  BY DEF Loads
<1>4. b.rows # <<>> <=> n > 0
  <2>1. b.rows \in Seq(Range(b.rows))
    BY InputAssumption
  <2>2. QED BY <2>1, EmptySeq
<1> HIDE DEF m, s
<1>5. /\ s \in Seq(MeantRows) /\ Len(s) = Len(stream) + n
      /\ \A i \in 1..Len(stream) : s[i] = stream[i]
      /\ \A i \in 1..n : s[Len(stream) + i] = m[i]
  <2>1. /\ stream \o m \in Seq(MeantRows) /\ Len(stream \o m) = Len(stream) + Len(m)
        /\ \A i \in 1..Len(stream) : (stream \o m)[i] = stream[i]
        /\ \A i \in 1..Len(m) : (stream \o m)[Len(stream) + i] = m[i]
    <3>1. stream \in Seq(MeantRows) /\ m \in Seq(MeantRows)
      BY <1>1
    <3>2. stream \o m \in Seq(MeantRows) /\ Len(stream \o m) = Len(stream) + Len(m)
      BY <3>1, ConcatProperties
    <3>3. \A i \in 1..Len(stream) : (stream \o m)[i] = stream[i]
      BY <3>1, ConcatFirst, Zenon
    <3>4. \A i \in 1..Len(m) : (stream \o m)[Len(stream) + i] = m[i]
      BY <3>1, ConcatLater, Zenon
    <3>5. QED BY <3>2, <3>3, <3>4
  <2>2. QED BY <1>1, <1>3, <2>1
<1>6. SubSeq(s, 1, Len(stream)) = stream
  <2>1. \A i \in 1..Len(stream) : s[i] \in MeantRows
    BY <1>1, <1>5
  <2>2. /\ SubSeq(s, 1, Len(stream)) \in Seq(MeantRows)
        /\ Len(SubSeq(s, 1, Len(stream))) = Len(stream)
        /\ \A i \in 1..Len(stream) : SubSeq(s, 1, Len(stream))[i] = s[i]
    BY <2>1, <1>5
  <2>3. QED BY <1>5, <2>2, SeqEqual
<1>7. ASSUME b.rows # <<>>
      PROVE  Append(seen, RowAt(input', 0)) = SubSeq(s, 1, Len(stream) + 1)
  <2>1. 0 < n /\ 0 \in Nat /\ 0 + 1 = 1
    BY <1>4, <1>7
  <2>2. RowAt(input', 0) = m[1]
    BY <1>2, <2>1, RowIsMeant DEF m
  <2>3. s[Len(stream) + 1] = m[1] /\ Len(stream) \in Nat /\ Len(stream) < Len(s)
    BY <1>1, <1>5, <2>1
  <2>4. Append(SubSeq(s, 1, Len(stream)), s[Len(stream) + 1]) = SubSeq(s, 1, Len(stream) + 1)
    BY <1>5, <2>3, OneMore
  <2>5. QED BY <1>6, <2>2, <2>3, <2>4
<1>8. QED BY <1>1, <1>2, <1>4, <1>5, <1>6, <1>7 DEF m, s

\* Nothing of the current batch is left to present behind its last row.
LEMMA AllShown ==
  ASSUME HoldsBatch, InOrder, AtARow, ~CanAdvance
  PROVE  seen = stream
<1>1. /\ input.rows \in Nat /\ input.current \in Nat /\ Len(stream) \in Nat
      /\ stream \in Seq(MeantRows) /\ input.rows <= Len(stream)
  BY MeantIsSeq DEF HoldsBatch, InOrder
<1>2. Shown = input.rows
  BY <1>1 DEF HoldsBatch, Shown, CanAdvance
<1>3. seen = SubSeq(stream, 1, Len(stream))
  BY <1>1, <1>2 DEF InOrder
<1>4. QED BY <1>1, <1>3, SubSeqFull

LEMMA OpenKeeps ==
  ASSUME CursorInv, NEW b \in Batches, Open(b)
  PROVE  CursorInv'
<1>1. NothingLoaded /\ UNCHANGED <<scalar, started>> /\ scalar \in BOOLEAN /\ started \in BOOLEAN
  BY DEF CursorInv, HoldsBatch, Open
<1>2. CASE mode' \in {"open", "over"} /\ UNCHANGED <<input, behind, stream, seen>>
  BY <1>1, <1>2 DEF CursorInv, NothingLoaded
<1>3. CASE /\ Decodable(b) /\ b.rows # <<>> /\ Loads(b) /\ mode' = "run"
           /\ IF scalar THEN Present(input', 0) ELSE UNCHANGED seen
  <2>1. stream \in Seq(MeantRows) /\ seen = stream /\ Len(stream) = 0
    BY <1>1 DEF NothingLoaded
  <2>2. behind' = b
    BY <1>3 DEF Loads
  <2>3. /\ stream' \in Seq(MeantRows) /\ Len(stream') = Len(b.rows) /\ Len(b.rows) > 0
        /\ \A i \in 1..Len(b.rows) : stream'[0 + i] = Meant(b)[i]
        /\ IsRowSet(input') /\ input'.rows = Len(b.rows) /\ input'.current = 0
        /\ input'.cells = Cells(b) /\ input'.numbers = NumbersOf(b)
        /\ Append(seen, RowAt(input', 0)) = SubSeq(stream', 1, 0 + 1)
        /\ Len(b.rows) \in Nat
    BY <1>3, <2>1, LoadedKeeps, MeantIsSeq
  <2>4. started = FALSE \/ started = TRUE
    BY <1>1
  <2>5. HoldsBatch'
    BY <1>3, <2>2, <2>3 DEF HoldsBatch
  <2>6. InOrder'
    <3>1. Len(stream') - input'.rows = 0
      BY <2>3
    <3>2. \A i \in 1..input'.rows : stream'[Len(stream') - input'.rows + i] = Meant(behind')[i]
      BY <2>2, <2>3, <3>1
    <3>3. CASE scalar
      <4>1. Shown' = 1 /\ seen' = SubSeq(stream', 1, 0 + 1)
        BY <1>1, <1>3, <2>3, <3>3 DEF Shown, AtARow, Present
      <4>2. QED BY <2>3, <3>1, <3>2, <4>1 DEF InOrder
    <3>4. CASE ~scalar
      <4>1. Shown' = 0 /\ seen' = <<>>
        BY <1>1, <1>3, <3>4 DEF Shown, AtARow, NothingLoaded
      <4>2. SubSeq(stream', 1, 0) = <<>>
        BY SubSeqEmpty
      <4>3. QED BY <2>3, <3>1, <3>2, <4>1, <4>2 DEF InOrder
    <3>5. QED BY <3>3, <3>4
  <2>7. QED BY <1>1, <2>5, <2>6 DEF CursorInv
<1>4. QED BY <1>2, <1>3 DEF Open, NothingLoaded

\* The steps that leave the stream alone: the rows of the batch one by one.
LEMMA AdvanceKeeps ==
  ASSUME CursorInv, Advance
  PROVE  /\ CursorInv'
         /\ \/ UNCHANGED seen
            \/ Len(seen) < Len(stream) /\ seen' = SubSeq(stream, 1, Len(seen) + 1)
<1>1. /\ HoldsBatch /\ InOrder /\ mode = "run" /\ scalar \in BOOLEAN /\ started' = TRUE
      /\ UNCHANGED <<scalar, behind, stream>>
  BY DEF CursorInv, NothingLoaded, Advance
<1> DEFINE before == Len(stream) - input.rows
<1>2. /\ input.rows \in Nat /\ input.current \in Nat /\ Len(stream) \in Nat /\ before \in Nat
      /\ input.rows = Len(behind.rows) /\ Len(stream) = before + input.rows
  BY <1>1, MeantIsSeq DEF HoldsBatch, InOrder
<1>3. ASSUME NEW i \in Nat, i < input.rows, input.cells = Cells(behind), NEW rowset,
             rowset.cells = input.cells, rowset.numbers = input.numbers,
             seen = SubSeq(stream, 1, before + i), seen' = Append(seen, RowAt(rowset, i))
      PROVE  /\ seen' = SubSeq(stream, 1, before + (i + 1))
             /\ Len(seen) < Len(stream) /\ seen' = SubSeq(stream, 1, Len(seen) + 1)
  <2> DEFINE k == before + i
  <2>1. /\ k \in Nat /\ k < Len(stream) /\ k + 1 = before + (i + 1) /\ i + 1 \in 1..input.rows
    <3> HIDE DEF before
    <3>1. /\ i \in Nat /\ i < input.rows /\ input.rows \in Nat
          /\ before \in Nat /\ Len(stream) = before + input.rows
      BY <1>2, <1>3
    <3>2. QED BY <3>1
  <2>2. RowAt(rowset, i) = Meant(behind)[i + 1]
    <3>1. behind \in Batches /\ Decodable(behind) /\ rowset.cells = Cells(behind)
          /\ rowset.numbers = NumbersOf(behind) /\ i < Len(behind.rows)
      BY <1>1, <1>2, <1>3 DEF HoldsBatch
    <3>2. QED BY <1>3, <3>1, RowIsMeant, Zenon
  <2>3. stream[k + 1] = Meant(behind)[i + 1]
    BY <1>1, <2>1 DEF InOrder
  <2> HIDE DEF before
  <2>4. stream \in Seq(MeantRows)
    BY <1>1 DEF InOrder
  <2>5. Append(SubSeq(stream, 1, k), stream[k + 1]) = SubSeq(stream, 1, k + 1)
    BY <2>1, <2>4, OneMore
  <2>6. Len(seen) = k
    BY <1>3, <2>1, <2>4
  <2>7. QED BY <1>3, <2>1, <2>2, <2>3, <2>5, <2>6
<1>4. CASE ~scalar /\ ~started /\ input.rows > 0 /\ Present(input, input.current)
           /\ UNCHANGED <<input, mode>>
  <2>1. input.current = 0 /\ input.cells = Cells(behind) /\ Shown = 0
    BY <1>1, <1>4 DEF HoldsBatch, AtARow, Shown
  <2>2. seen = SubSeq(stream, 1, before + 0)
    BY <1>1, <2>1 DEF InOrder
  <2>3. seen' = Append(seen, RowAt(input, 0))
    BY <1>4, <2>1 DEF Present
  <2>4. /\ seen' = SubSeq(stream, 1, before + 1)
        /\ Len(seen) < Len(stream) /\ seen' = SubSeq(stream, 1, Len(seen) + 1)
    <3>1. 0 \in Nat /\ 0 < input.rows /\ 0 + 1 = 1
      BY <1>2, <1>4
    <3> HIDE DEF before
    <3>2. QED BY <1>3, <2>1, <2>2, <2>3, <3>1
  <2>5. Shown' = 1
    BY <1>1, <1>4, <2>1 DEF Shown, AtARow
  <2>6. InOrder' /\ HoldsBatch'
    BY <1>1, <1>4, <2>1, <2>4, <2>5 DEF InOrder, HoldsBatch, AtARow
  <2>7. QED BY <1>1, <2>4, <2>6 DEF CursorInv
<1>5. CASE /\ scalar \/ started
           /\ CanAdvance /\ input' = [input EXCEPT !.current = @ + 1]
           /\ Present(input', input'.current) /\ UNCHANGED mode
  <2>1. input.cells = Cells(behind) /\ AtARow /\ AtARow'
    BY <1>1, <1>5 DEF HoldsBatch, AtARow
  <2>2. input.current + 1 < input.rows
    BY <1>5 DEF CanAdvance
  <2>3. Shown = input.current + 1
    BY <1>2, <2>1, <2>2 DEF Shown
  <2>4. /\ IsRowSet(input') /\ input'.current = input.current + 1 /\ input'.cells = input.cells
        /\ input'.rows = input.rows /\ input'.numbers = input.numbers
    BY <1>1, <1>5 DEF HoldsBatch, IsRowSet
  <2> DEFINE i == input.current + 1
  <2>5. i \in Nat /\ i < input.rows /\ input'.current = i
    BY <1>2, <2>2, <2>4
  <2>6. seen = SubSeq(stream, 1, before + i) /\ seen' = Append(seen, RowAt(input', i))
    BY <1>1, <1>5, <2>3, <2>4 DEF InOrder, Present
  <2>7. /\ seen' = SubSeq(stream, 1, before + (i + 1))
        /\ Len(seen) < Len(stream) /\ seen' = SubSeq(stream, 1, Len(seen) + 1)
    <3> HIDE DEF before, i
    <3>1. QED BY <1>3, <2>1, <2>4, <2>5, <2>6
  <2>8. Shown' = i + 1
    BY <1>2, <2>1, <2>4, <2>5 DEF Shown
  <2> HIDE DEF i
  <2>9. InOrder'
    BY <1>1, <2>4, <2>7, <2>8 DEF InOrder
  <2>10. HoldsBatch'
    BY <1>1, <1>5, <2>1, <2>4, <2>5 DEF HoldsBatch
  <2>11. QED BY <1>1, <2>7, <2>9, <2>10 DEF CursorInv
<1>6. CASE (scalar \/ started) /\ ~CanAdvance /\ mode' = "refill" /\ UNCHANGED <<input, seen>>
  <2>1. AtARow /\ AtARow' /\ Shown' = Shown /\ CanAdvance' = CanAdvance
    BY <1>1, <1>6 DEF AtARow, Shown, CanAdvance
  <2>2. InOrder' /\ HoldsBatch'
    BY <1>1, <1>6, <2>1 DEF InOrder, HoldsBatch
  <2>3. QED BY <1>1, <1>6, <2>2 DEF CursorInv
<1>7. QED BY <1>4, <1>5, <1>6 DEF Advance

\* A refill hands over the rows of the next batch, or loses only cells nobody reads.
LEMMA RefillKeeps ==
  ASSUME CursorInv, NEW b \in Batches, Refill(b)
  PROVE  /\ CursorInv'
         /\ \/ UNCHANGED <<stream, seen>>
            \/ /\ seen = stream /\ Len(stream') > Len(stream)
               /\ SubSeq(stream', 1, Len(stream)) = stream
               /\ seen' = SubSeq(stream', 1, Len(seen) + 1)
<1>1. /\ HoldsBatch /\ InOrder /\ mode = "refill" /\ AtARow /\ ~CanAdvance
      /\ scalar \in BOOLEAN /\ started \in BOOLEAN /\ UNCHANGED <<scalar, started>>
  BY DEF CursorInv, NothingLoaded, HoldsBatch, Refill
<1>2. AtARow' /\ seen = stream /\ stream \in Seq(MeantRows)
  BY <1>1, AllShown DEF AtARow, InOrder
<1>3. CASE ~Decodable(b) /\ Refused(b) /\ Fails /\ UNCHANGED <<behind, stream, seen>>
  <2>1. /\ IsRowSet(input') /\ input'.current = input.current /\ input'.cells = <<>>
        /\ input'.rows = input.rows /\ input'.numbers = input.numbers
    BY <1>1, <1>3 DEF HoldsBatch, IsRowSet, Refused
  <2>2. mode' \in {"run", "over"}
    BY <1>3 DEF Fails
  <2>3. Shown' = Shown /\ CanAdvance' = CanAdvance
    BY <1>1, <1>2, <2>1 DEF Shown, CanAdvance
  <2>4. InOrder'
    BY <1>1, <1>3, <2>1, <2>3 DEF InOrder
  <2>5. HoldsBatch'
    BY <1>1, <1>2, <1>3, <2>1, <2>2, <2>3 DEF HoldsBatch
  <2>6. QED BY <1>1, <1>3, <2>4, <2>5 DEF CursorInv
<1>4. CASE /\ Decodable(b) /\ Loads(b)
           /\ IF b.rows = <<>> THEN UNCHANGED <<mode, seen>>
              ELSE mode' = "run" /\ Present(input', 0)
  <2> DEFINE n == Len(b.rows)
             k == Len(stream)
  <2>1. /\ stream' \in Seq(MeantRows) /\ Len(stream') = k + n
        /\ SubSeq(stream', 1, k) = stream
        /\ \A i \in 1..n : stream'[k + i] = Meant(b)[i]
        /\ IsRowSet(input') /\ input'.rows = n /\ input'.current = 0
        /\ input'.cells = Cells(b) /\ input'.numbers = NumbersOf(b)
        /\ b.rows # <<>> <=> n > 0
        /\ b.rows # <<>> => Append(seen, RowAt(input', 0)) = SubSeq(stream', 1, k + 1)
        /\ n \in Nat /\ k \in Nat
    BY <1>2, <1>4, LoadedKeeps, MeantIsSeq
  <2>2. behind' = b
    BY <1>4 DEF Loads
  <2> HIDE DEF n, k
  <2>3. Len(stream') - input'.rows = k
    BY <2>1
  <2>4. b.rows = <<>> => ~CanAdvance'
    BY <2>1 DEF CanAdvance
  <2>5. Shown' = IF b.rows = <<>> THEN 0 ELSE 1
    BY <1>2, <2>1 DEF Shown
  <2>6. seen' = SubSeq(stream', 1, k + Shown')
    <3>1. CASE b.rows = <<>>
      BY <1>2, <1>4, <2>1, <2>5, <3>1
    <3>2. CASE b.rows # <<>>
      BY <1>4, <2>1, <2>5, <3>2 DEF Present
    <3>3. QED BY <3>1, <3>2
  <2>7. InOrder'
    BY <2>1, <2>2, <2>3, <2>6 DEF InOrder
  <2>8. mode' \in {"run", "refill"} /\ (b.rows # <<>> => mode' = "run")
    BY <1>1, <1>4
  <2>9. HoldsBatch'
    <3>1. /\ mode' \in {"run", "refill", "over"}
          /\ mode' = "refill" => AtARow' /\ ~CanAdvance'
      BY <1>2, <2>4, <2>8
    <3>2. Decodable(behind)'
      BY <1>4, <2>2 DEF Decodable
    <3>3. (input.rows = Len(behind.rows) /\ input.numbers = NumbersOf(behind)
           /\ input.cells = Cells(behind))'
      BY <2>1, <2>2, Zenon DEF n
    <3>4. input'.current \in Nat /\ input'.current = 0 /\ IsRowSet(input)'
      BY <2>1
    <3>5. behind' \in Batches
      BY <2>2
    <3>6. QED BY <3>1, <3>2, <3>3, <3>4, <3>5, Zenon DEF HoldsBatch
  <2>10. \/ UNCHANGED <<stream, seen>>
         \/ /\ Len(stream') > k /\ seen' = SubSeq(stream', 1, k + 1)
    <3>1. CASE b.rows = <<>>
      <4>1. stream' = SubSeq(stream', 1, k)
        BY <2>1, <3>1, SubSeqFull
      <4>2. QED BY <1>4, <2>1, <3>1, <4>1
    <3>2. CASE b.rows # <<>>
      BY <2>1, <2>5, <2>6, <3>2
    <3>3. QED BY <3>1, <3>2
  <2>11. QED BY <1>1, <1>2, <2>1, <2>7, <2>9, <2>10 DEF CursorInv, k
<1>5. QED BY <1>3, <1>4 DEF Refill

\* Every other step leaves what has been read as it is, and an end that is told is one.
LEMMA EndKeeps ==
  ASSUME CursorInv, OpenEnds \/ RefillEnds \/ RunEnds \/ Over \/ UNCHANGED vars
  PROVE  /\ CursorInv' /\ UNCHANGED <<stream, seen>>
         /\ UNCHANGED told \/ (told' = TRUE /\ seen = stream)
<1>1. UNCHANGED <<scalar, input, started, behind, stream, seen>>
  BY DEF OpenEnds, RefillEnds, RunEnds, Over, vars
<1>2. AtARow' = AtARow /\ Shown' = Shown /\ CanAdvance' = CanAdvance
  BY <1>1 DEF AtARow, Shown, CanAdvance
<1>3. InOrder => InOrder'
  BY <1>1, <1>2 DEF InOrder
<1>4. CASE NothingLoaded
  <2>1. NothingLoaded' /\ (UNCHANGED told \/ (told' = TRUE /\ seen = stream))
    BY <1>1, <1>4 DEF NothingLoaded, OpenEnds, RefillEnds, RunEnds, Over, vars
  <2>2. QED BY <1>1, <2>1 DEF CursorInv
<1>5. CASE HoldsBatch /\ InOrder
  <2>1. mode' = mode \/ mode' \in {"run", "over"}
    BY DEF OpenEnds, RefillEnds, RunEnds, Over, Fails, vars
  <2>2. HoldsBatch'
    BY <1>1, <1>2, <1>5, <2>1 DEF HoldsBatch
  <2>3. UNCHANGED told \/ (told' = TRUE /\ mode = "refill")
    BY <1>5 DEF HoldsBatch, OpenEnds, RefillEnds, RunEnds, Over, vars
  <2>4. mode = "refill" => seen = stream
    BY <1>5, AllShown DEF HoldsBatch
  <2>5. QED BY <1>1, <1>3, <1>5, <2>2, <2>3, <2>4 DEF CursorInv
<1>6. QED BY <1>4, <1>5 DEF CursorInv

LEMMA CursorInitially == Init => CursorInv
  BY DEF Init, CursorInv, NothingLoaded

LEMMA CursorStep == CursorInv /\ [Next]_vars => CursorInv'
<1> SUFFICES ASSUME CursorInv, [Next]_vars
             PROVE  CursorInv'
  OBVIOUS
<1>1. QED BY OpenKeeps, RefillKeeps, AdvanceKeeps, EndKeeps DEF Next

-----------------------------------------------------------------------------
\* An element of a slice.
LEMMA CellOfSlice ==
  ASSUME NEW s, NEW a \in Nat, NEW n \in Nat, NEW c \in 1..n
  PROVE  SubSeq(s, a + 1, a + n)[c] = s[a + c]
  OBVIOUS

(* However the UDF takes an error of next(), a getter returns the cell of   *)
(* the row whose number an emit would carry, converted only where the value *)
(* stays the same (InputRowSet::reload, row, current_row_number, get_i64).  *)
THEOREM GettersReadTheirRow == Spec => []ReadsOwnRow
<1>1. CursorInv => ReadsOwnRow
  <2> SUFFICES ASSUME CursorInv, mode = "run",
                      NEW accessor \in DOMAIN Takes, NEW c \in DOMAIN Columns,
                      Get(accessor, c).kind \in {"value", "null"}
               PROVE  \E row \in Range(Meant(behind)) :
                        LET cell == row.cells[c]
                            got  == Get(accessor, c)
                        IN  /\ row.number = CurrentNumber
                            /\ got.kind = "null" <=> cell = <<>>
                            /\ got.kind = "value" =>
                                 \/ cell[1] \in Takes[accessor] /\ got.n = cell[2]
                                 \/ accessor = "i64" /\ cell[1] = "Numeric" /\ cell[2] = <<got.n, 0>>
    BY DEF ReadsOwnRow
  <2> DEFINE n     == Len(Columns)
             i     == input.current
             first == i * n
             cell  == input.cells[first + c]
  <2>1. /\ HoldsBatch /\ i \in Nat /\ input.rows \in Nat
        /\ n \in Nat \ {0} /\ c \in 1..n /\ first \in Nat
    <3>1. HoldsBatch /\ n \in Nat \ {0} /\ c \in 1..n
      BY LayoutAssumption DEF CursorInv, NothingLoaded
    <3>2. i \in Nat /\ input.rows \in Nat
      BY <3>1, MeantIsSeq DEF HoldsBatch
    <3>3. QED BY <3>1, <3>2
  <2>2. /\ i < input.rows /\ ~(first + n > Len(input.cells))
        /\ Get(accessor, c) = Reads(accessor, cell)
    <3>1. CASE i >= input.rows
      <4>1. Get(accessor, c).kind = "error"
        BY <3>1 DEF Get, Outcome
      <4>2. QED BY <4>1
    <3>2. CASE ~(i >= input.rows) /\ first + n > Len(input.cells)
      <4>1. Get(accessor, c).kind = "panic"
        BY <3>2 DEF Get, Outcome
      <4>2. QED BY <4>1
    <3>3. CASE ~(i >= input.rows) /\ ~(first + n > Len(input.cells))
      <4>1. Get(accessor, c) = Reads(accessor, cell)
        BY <3>3 DEF Get
      <4>2. QED BY <2>1, <3>3, <4>1
    <3>4. QED BY <3>1, <3>2, <3>3
  <2>3. input.cells = Cells(behind)
    <3>1. CASE input.cells = <<>>
      <4>1. Len(input.cells) = 0
        BY <3>1
      <4>2. first + n > 0
        BY <2>1
      <4>3. QED BY <2>2, <4>1, <4>2
    <3>2. QED BY <2>1, <3>1 DEF HoldsBatch
  <2> DEFINE row == Meant(behind)[i + 1]
  <2>4. RowAt(input, i) = row
    BY <2>1, <2>2, <2>3, RowIsMeant DEF HoldsBatch
  <2>5. i + 1 \in DOMAIN Meant(behind)
    BY <2>1, <2>2, MeantIsSeq DEF HoldsBatch
  <2>6. row \in Range(Meant(behind)) /\ row.number = CurrentNumber
    <3>1. row.number = input.numbers[i + 1]
      BY <2>4 DEF RowAt
    <3>2. QED BY <2>2, <2>5, <3>1 DEF Range, CurrentNumber
  <2>7. row.cells[c] = cell
    <3>1. row.cells = SubSeq(input.cells, first + 1, (i + 1) * n)
      BY <2>4 DEF RowAt
    <3>2. (i + 1) * n = first + n
      BY <2>1
    <3> HIDE DEF first, n
    <3>3. SubSeq(input.cells, first + 1, first + n)[c] = input.cells[first + c]
      BY <2>1, CellOfSlice
    <3>4. QED BY <3>1, <3>2, <3>3
  <2>8. cell = AsDecoded(Columns[c], behind.rows[i + 1][c])
    <3>1. Meant(behind)[i + 1].cells[c] = AsDecoded(Columns[c], behind.rows[i + 1][c])
      BY <2>5 DEF Meant
    <3>2. QED BY <2>7, <3>1
  <2> HIDE DEF cell, row
  <2>9. cell # <<>> /\ cell[1] = "Numeric" => cell[2] = <<cell[2][1], cell[2][2]>>
    <3>1. i + 1 \in DOMAIN behind.rows
      BY <2>5 DEF Meant
    <3>2. Columns[c] = "Numeric" /\ behind.rows[i + 1][c].variant # "Null"
            => behind.rows[i + 1][c].n \in Int \X Int
      <4>1. behind.rows[i + 1][c].variant \in {"Null", VariantOf(Columns[c])}
            /\ IsValue(behind.rows[i + 1][c])
        BY <2>1, <3>1, InputAssumption DEF HoldsBatch, OfColumns
      <4>2. QED BY <4>1 DEF VariantOf, IsValue
    <3>3. cell # <<>> /\ cell[1] = "Numeric"
            => /\ Columns[c] = "Numeric" /\ behind.rows[i + 1][c].variant # "Null"
               /\ cell[2] = behind.rows[i + 1][c].n
      BY <2>8 DEF AsDecoded, VariantOf
    <3>4. QED BY <3>2, <3>3
  <2>10. /\ Reads(accessor, cell).kind = "null" <=> cell = <<>>
         /\ Reads(accessor, cell).kind = "value" =>
              \/ cell[1] \in Takes[accessor] /\ Reads(accessor, cell).n = cell[2]
              \/ /\ accessor = "i64" /\ cell[1] = "Numeric"
                 /\ cell[2] = <<Reads(accessor, cell).n, 0>>
    <3>1. CASE cell = <<>>
      BY <3>1 DEF Reads, Outcome
    <3>2. CASE cell # <<>>
      BY <2>9, <3>2 DEF Reads, Outcome
    <3>3. QED BY <3>1, <3>2
  <2>11. QED BY <2>2, <2>6, <2>7, <2>10
<1>2. QED BY <1>1, CursorInitially, CursorStep, PTL DEF Spec

(* The rows of all decodable batches reach the UDF in order and once each,  *)
(* with the values and numbers the database gave them, and the input is     *)
(* over only behind the last of them (first_nonempty_input, next,           *)
(* advance_row, refill).                                                    *)
THEOREM RowsReachTheUdf == Spec => ImplementsRowCursor
<1>1. Init => Rows!Init
  BY DEF Init, Rows!Init
<1>2. CursorInv /\ [Next]_vars => [Rows!Next]_Rows!vars
  <2> SUFFICES ASSUME CursorInv, [Next]_vars
               PROVE  Rows!Next \/ UNCHANGED <<stream, seen, told>>
    BY DEF Rows!vars
  <2>1. ASSUME NEW b \in Batches, Open(b)
        PROVE  Rows!Next \/ UNCHANGED <<stream, seen, told>>
    <3>1. NothingLoaded /\ UNCHANGED told
      BY <2>1 DEF CursorInv, HoldsBatch, Open
    <3>2. stream \in Seq(MeantRows) /\ seen = stream /\ Len(stream) = 0 /\ Len(seen) = 0
      BY <3>1 DEF NothingLoaded
    <3>3. CASE Decodable(b) /\ b.rows # <<>> /\ Loads(b)
               /\ IF scalar THEN Present(input', 0) ELSE UNCHANGED seen
      <4>1. /\ Len(stream') = Len(stream) + Len(b.rows) /\ Len(b.rows) > 0 /\ Len(b.rows) \in Nat
            /\ SubSeq(stream', 1, Len(stream)) = stream
            /\ Append(seen, RowAt(input', 0)) = SubSeq(stream', 1, Len(seen) + 1)
        BY <3>2, <3>3, LoadedKeeps, MeantIsSeq
      <4>2. QED BY <3>1, <3>2, <3>3, <4>1 DEF Rows!Next, Rows!Arrive, Present
    <3>4. QED BY <2>1, <3>1, <3>3 DEF Open
  <2>2. ASSUME NEW b \in Batches, Refill(b)
        PROVE  Rows!Next \/ UNCHANGED <<stream, seen, told>>
    <3>1. UNCHANGED told
      BY <2>2 DEF Refill
    <3>2. QED BY <2>2, <3>1, RefillKeeps DEF Rows!Next, Rows!Arrive
  <2>3. CASE Advance
    <3>1. UNCHANGED <<told, stream>>
      BY <2>3 DEF Advance
    <3>2. QED BY <2>3, <3>1, AdvanceKeeps DEF Rows!Next, Rows!Present
  <2>4. CASE OpenEnds \/ RefillEnds \/ RunEnds \/ Over \/ UNCHANGED vars
    BY <2>4, EndKeeps DEF Rows!Next, Rows!End
  <2>5. QED BY <2>1, <2>2, <2>3, <2>4 DEF Next
<1>3. QED
  BY <1>1, <1>2, CursorInitially, CursorStep, PTL DEF Spec, ImplementsRowCursor, Rows!Spec
=============================================================================
