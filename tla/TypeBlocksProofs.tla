-------------------------- MODULE TypeBlocksProofs --------------------------
(***************************************************************************)
(* The layout of type blocks for all columns, all rows and tables of any   *)
(* length: what has been pushed or packed reads back row by row, whatever  *)
(* NULLs the rows hold and whatever columns share a block.  On the way:    *)
(* the calendar of the Arrow packer for every day, its year cache, and     *)
(* what the texts of decimals, dates and timestamps parse back to.         *)
(***************************************************************************)
EXTENDS TypeBlocks, FiniteSetTheorems, SequenceTheorems, WellFoundedInduction, TLAPS

-----------------------------------------------------------------------------
(* Sequences.                                                              *)

LEMMA LeastNumber ==
  ASSUME NEW S \in SUBSET Nat, S # {}
  PROVE  \E n \in S : \A m \in S : n <= m
<1>1. PICK n \in S : \A m \in S : <<m, n>> \notin OpToRel(<, Nat)
  BY NatLessThanWellFounded, WFMin, Zenon
<1>2. \A m \in S : ~(m < n)
  BY <1>1 DEF OpToRel
<1>3. QED BY <1>2

\* h is FlattenSeq's recursion over the first n sequences.
Flattens(h, n, seqs) ==
  h = [i \in 1..n |-> IF i = 1 THEN seqs[i] ELSE h[i - 1] \o seqs[i]]

LEMMA FlatteningExists == ASSUME NEW seqs, NEW k \in Nat PROVE \E h : Flattens(h, k, seqs)
<1> DEFINE Missing == {n \in Nat : ~\E h : Flattens(h, n, seqs)}
<1>1. SUFFICES ASSUME Missing # {}
               PROVE  FALSE
  OBVIOUS
<1>2. PICK n \in Missing : \A m \in Missing : n <= m
  <2>1. Missing \in SUBSET Nat
    OBVIOUS
  <2>2. QED BY <1>1, <2>1, LeastNumber, Zenon
<1>3. n # 0
  <2>1. Flattens([i \in 1..0 |-> <<>>], 0, seqs)
    BY DEF Flattens
  <2>2. QED BY <1>2, <2>1
<1>4. PICK h : Flattens(h, n - 1, seqs)
  <2>1. n \in Nat /\ n - 1 \in Nat /\ ~(n <= n - 1)
    BY <1>2, <1>3
  <2>2. n - 1 \notin Missing
    BY <1>2, <2>1, Zenon
  <2>3. QED BY <2>1, <2>2, Zenon
<1> DEFINE g == [i \in 1..n |-> IF i < n THEN h[i]
                                ELSE IF n = 1 THEN seqs[n] ELSE h[n - 1] \o seqs[n]]
<1>5. \A i \in 1..n : g[i] = IF i = 1 THEN seqs[i] ELSE g[i - 1] \o seqs[i]
  <2> TAKE i \in 1..n
  <2>1. CASE i < n
    <3>1. i \in 1..(n - 1) /\ g[i] = h[i] /\ (i # 1 => i - 1 \in 1..n /\ i - 1 < n)
      BY <1>2, <2>1
    <3>2. i # 1 => g[i - 1] = h[i - 1]
      BY <3>1
    <3>3. h[i] = IF i = 1 THEN seqs[i] ELSE h[i - 1] \o seqs[i]
      BY <1>4, <3>1, Zenon DEF Flattens
    <3>4. QED BY <3>1, <3>2, <3>3, Zenon
  <2>2. CASE i = n
    BY <1>2, <1>3, <2>2
  <2>3. QED BY <1>2, <2>1, <2>2
<1>6. Flattens(g, n, seqs)
  BY <1>5, Zenon DEF Flattens
<1>7. QED BY <1>2, <1>6

(* What FlattenSeq returns, one sequence after the other.                   *)
Unrolls(f, S, seqs) ==
  /\ f \in [0..Len(seqs) -> Seq(S)]
  /\ f[0] = <<>> /\ f[Len(seqs)] = FlattenSeq(seqs)
  /\ \A i \in 1..Len(seqs) : f[i] = f[i - 1] \o seqs[i]

LEMMA Flattening == ASSUME NEW S, NEW seqs \in Seq(Seq(S)) PROVE \E f : Unrolls(f, S, seqs)
<1> DEFINE n == Len(seqs)
           h == CHOOSE h : Flattens(h, n, seqs)
           f == [i \in 0..n |-> IF i = 0 THEN <<>> ELSE h[i]]
<1>1. n \in Nat /\ \A i \in 1..n : seqs[i] \in Seq(S)
  BY ElementOfSeq
<1>2. Flattens(h, n, seqs)
  BY <1>1, FlatteningExists, Zenon
<1>3. n # 0 => FlattenSeq(seqs) = h[n]
  BY Zenon DEF FlattenSeq, Flattens
<1>4. n = 0 => FlattenSeq(seqs) = <<>>
  BY DEF FlattenSeq
<1> HIDE DEF h, n
<1>5. \A i \in 1..n : h[i] = IF i = 1 THEN seqs[i] ELSE h[i - 1] \o seqs[i]
  BY <1>2 DEF Flattens
<1>6. \A i \in 0..n : f[i] \in Seq(S)
  <2> DEFINE Bad == {i \in 0..n : f[i] \notin Seq(S)}
  <2>1. SUFFICES ASSUME Bad # {}
                 PROVE  FALSE
    OBVIOUS
  <2>2. PICK i \in Bad : \A j \in Bad : i <= j
    <3>1. Bad \in SUBSET Nat
      BY <1>1
    <3>2. QED BY <2>1, <3>1, LeastNumber, Zenon
  <2>3. i \in 1..n
    <3>1. f[0] = <<>>
      BY <1>1
    <3>2. QED BY <1>1, <2>2, <3>1
  <2>4. i = 1 \/ (i - 1 \in 0..n /\ i - 1 # 0 /\ ~(i <= i - 1))
    BY <1>1, <2>3
  <2>5. i = 1 \/ f[i - 1] \in Seq(S)
    BY <2>2, <2>4, Zenon
  <2>6. i = 1 \/ h[i - 1] \in Seq(S)
    BY <2>4, <2>5
  <2>7. h[i] \in Seq(S)
    <3>1. seqs[i] \in Seq(S) /\ h[i] = IF i = 1 THEN seqs[i] ELSE h[i - 1] \o seqs[i]
      BY <1>1, <1>5, <2>3
    <3>2. i # 1 => h[i - 1] \o seqs[i] \in Seq(S)
      BY <2>6, <3>1, ConcatProperties, Zenon
    <3>3. QED BY <3>1, <3>2
  <2>8. QED BY <2>2, <2>3, <2>7
<1>7. f \in [0..n -> Seq(S)] /\ f[0] = <<>>
  BY <1>1, <1>6
<1>8. \A i \in 1..n : f[i] = f[i - 1] \o seqs[i]
  <2> TAKE i \in 1..n
  <2>1. i \in 0..n /\ i - 1 \in 0..n /\ f[i] = h[i] /\ (i # 1 => f[i - 1] = h[i - 1])
    BY <1>1
  <2>2. CASE i = 1
    <3>1. f[i - 1] = <<>> /\ f[i] = seqs[i] /\ seqs[i] \in Seq(S)
      BY <1>1, <1>5, <2>1, <2>2
    <3>2. QED BY <3>1, ConcatEmptySeq
  <2>3. CASE i # 1
    BY <1>5, <2>1, <2>3
  <2>4. QED BY <2>2, <2>3
<1>9. f[n] = FlattenSeq(seqs)
  BY <1>1, <1>3, <1>4
<1> HIDE DEF f
<1>10. QED BY <1>7, <1>8, <1>9, Zenon DEF n, Unrolls

(* What is appended to leaves what was there.                               *)
Chain(f, n, S) ==
  /\ f \in [0..n -> Seq(S)]
  /\ \A i \in 1..n : \E more \in Seq(S) : f[i] = f[i - 1] \o more

Begins(s, t) == Len(s) <= Len(t) /\ \A i \in 1..Len(s) : t[i] = s[i]

LEMMA ChainGrows ==
  ASSUME NEW S, NEW n \in Nat, NEW f, Chain(f, n, S), NEW j \in 0..n
  PROVE  \A k \in j..n : Begins(f[j], f[k])
<1> DEFINE Grows(k) == Begins(f[j], f[k])
           Bad == {k \in j..n : ~Grows(k)}
<1>1. SUFFICES ASSUME Bad # {}
               PROVE  FALSE
  OBVIOUS
<1>2. PICK k \in Bad : \A m \in Bad : k <= m
  <2>1. Bad \in SUBSET Nat
    OBVIOUS
  <2>2. QED BY <1>1, <2>1, LeastNumber, Zenon
<1>3. k # j
  <2>1. Grows(j)
    <3>1. f[j] \in Seq(S)
      BY DEF Chain
    <3>2. QED BY <3>1 DEF Begins
  <2>2. QED BY <1>2, <2>1
<1>4. k \in 1..n /\ k - 1 \in j..n /\ ~(k <= k - 1)
  BY <1>2, <1>3
<1>5. Grows(k - 1)
  BY <1>2, <1>4, Zenon
<1> DEFINE s == f[k - 1]
           u == f[j]
<1>6. s \in Seq(S) /\ u \in Seq(S)
  <2>1. k - 1 \in 0..n /\ j \in 0..n
    BY <1>4
  <2>2. QED BY <2>1, Zenon DEF Chain
<1>a. PICK m \in Seq(S) : f[k] = s \o m
  BY <1>4, Zenon DEF Chain
<1>7. Len(u) <= Len(s) /\ \A i \in 1..Len(u) : s[i] = u[i]
  BY <1>5 DEF Begins
<1> HIDE DEF s, u
<1>8. Len(s \o m) = Len(s) + Len(m)
      /\ \A i \in 1..(Len(s) + Len(m)) : (s \o m)[i] = IF i <= Len(s) THEN s[i] ELSE m[i - Len(s)]
  BY <1>6, <1>a, ConcatProperties, Zenon
<1>9. Len(s) \in Nat /\ Len(u) \in Nat /\ Len(m) \in Nat
  BY <1>6, <1>a, LenProperties
<1>10. Len(u) <= Len(s \o m) /\ \A i \in 1..Len(u) : (s \o m)[i] = u[i]
  BY <1>7, <1>8, <1>9
<1>11. Grows(k)
  BY <1>a, <1>10 DEF u, Begins
<1>12. QED BY <1>2, <1>11

-----------------------------------------------------------------------------
(* The cells of a row.                                                     *)

Width == Len(Columns)

Stores(b, row, c) == BlockOf(Columns[c]) = b /\ CellAt(row, c).variant # "Null"

CellSet(b, row) == {<<Columns[c], CellAt(row, c)>> : c \in {k \in 1..Width : Stores(b, row, k)}}

LEMMA ColumnNumbers == Width \in Nat /\ DOMAIN Columns = 1..Width
  BY LayoutAssumption DEF Width

\* How many cells of the block the first columns of a row hold.
Counts(at, b, row) ==
  /\ at \in [0..Width -> Nat] /\ at[0] = 0
  /\ \A c \in 1..Width : at[c] = IF Stores(b, row, c) THEN at[c - 1] + 1 ELSE at[c - 1]

\* The cell of a column is the last of those up to it.
LEMMA CellsOfRow ==
  ASSUME NEW row, NEW b
  PROVE  /\ BlockCells(b, row) \in Seq(CellSet(b, row))
         /\ \E at : /\ Counts(at, b, row) /\ at[Width] = Len(BlockCells(b, row))
                    /\ \A c \in 1..Width : Stores(b, row, c) =>
                         /\ at[c] \in 1..Len(BlockCells(b, row))
                         /\ BlockCells(b, row)[at[c]] = <<Columns[c], CellAt(row, c)>>
<1> DEFINE S == CellSet(b, row)
           cell(c) == <<Columns[c], CellAt(row, c)>>
           one == [c \in 1..Width |-> IF Stores(b, row, c) THEN <<cell(c)>> ELSE <<>>]
<1>1. BlockCells(b, row) = FlattenSeq(one)
  BY ColumnNumbers DEF BlockCells, Stores
<1>2. \A c \in 1..Width : Stores(b, row, c) => cell(c) \in S
  BY DEF CellSet
<1>3. \A c \in 1..Width : one[c] \in Seq(S)
  BY <1>2
<1>4. one \in Seq(Seq(S)) /\ Len(one) = Width
  BY <1>3, ColumnNumbers
<1> HIDE DEF S
<1>5. PICK f \in [0..Width -> Seq(S)] :
        /\ f[0] = <<>>
        /\ \A c \in 1..Width : f[c] = f[c - 1] \o one[c]
        /\ f[Width] = FlattenSeq(one)
  <2>1. PICK f : Unrolls(f, S, one)
    BY <1>4, Flattening, Zenon
  <2>2. QED BY <1>4, <2>1, Zenon DEF Unrolls
<1> DEFINE at == [c \in 0..Width |-> Len(f[c])]
<1>6. at \in [0..Width -> Nat] /\ at[0] = 0 /\ at[Width] = Len(BlockCells(b, row))
  BY <1>1, <1>5, ColumnNumbers
<1>7. ASSUME NEW c \in 1..Width, Stores(b, row, c)
      PROVE  /\ at[c] = at[c - 1] + 1 /\ at[c] \in 1..Len(BlockCells(b, row))
             /\ BlockCells(b, row)[at[c]] = cell(c)
  <2>1. c \in 0..Width /\ c - 1 \in 0..Width /\ Width \in c..Width /\ Width \in Nat
    BY ColumnNumbers
  <2>2. f[c] = f[c - 1] \o <<cell(c)>>
    BY <1>5, <1>7
  <2>3. f[c - 1] \in Seq(S) /\ f[c] \in Seq(S) /\ cell(c) \in S
    BY <1>2, <1>5, <1>7, <2>1
  <2> DEFINE s == f[c - 1]
  <2>4. f[c] = Append(s, cell(c))
    BY <2>2, <2>3, AppendIsConcat
  <2> HIDE DEF cell, s
  <2>5. Len(f[c]) = Len(s) + 1 /\ f[c][Len(s) + 1] = cell(c) /\ Len(s) \in Nat
    <3>1. s \in Seq(S)
      BY <2>3 DEF s
    <3>2. QED BY <2>3, <2>4, <3>1, AppendProperties
  <2>6. Len(f[c]) <= Len(f[Width]) /\ \A i \in 1..Len(f[c]) : f[Width][i] = f[c][i]
    <3>1. Chain(f, Width, S)
      BY <1>3, <1>5, Zenon DEF Chain
    <3>2. Begins(f[c], f[Width])
      BY <2>1, <3>1, ChainGrows, Zenon
    <3>3. QED BY <3>2 DEF Begins
  <2>7. f[Width] \in Seq(S)
    BY <1>5, <2>1
  <2>8. at[c] = Len(s) + 1 /\ at[c - 1] = Len(s)
    BY <2>1, <2>5 DEF s
  <2>9. f[Width] = BlockCells(b, row)
    BY <1>1, <1>5
  <2>10. QED BY <2>5, <2>6, <2>7, <2>8, <2>9
<1>8. ASSUME NEW c \in 1..Width, ~Stores(b, row, c)
      PROVE  at[c] = at[c - 1]
  <2>1. c \in 0..Width /\ c - 1 \in 0..Width /\ f[c - 1] \in Seq(S)
    BY <1>5, ColumnNumbers
  <2>2. f[c] = f[c - 1]
    <3>1. f[c] = f[c - 1] \o <<>>
      BY <1>5, <1>8
    <3>2. QED BY <2>1, <3>1, ConcatEmptySeq
  <2>3. QED BY <2>1, <2>2
<1>9. BlockCells(b, row) \in Seq(S)
  <2>1. Width \in 0..Width
    BY ColumnNumbers
  <2>2. QED BY <1>1, <1>5, <2>1
<1>10. Counts(at, b, row)
  <2> HIDE DEF at
  <2>1. QED BY <1>6, <1>7, <1>8 DEF Counts
<1> HIDE DEF at
<1>11. QED BY <1>6, <1>7, <1>9, <1>10, Zenon DEF S

LEMMA ConcatFirst ==
  ASSUME NEW S, NEW s \in Seq(S), NEW m \in Seq(S), NEW i \in 1..Len(s)
  PROVE  (s \o m)[i] = s[i]
<1>1. Len(s) \in Nat /\ Len(m) \in Nat
  BY LenProperties
<1>2. QED BY <1>1, ConcatProperties

LEMMA ConcatLater ==
  ASSUME NEW S, NEW s \in Seq(S), NEW m \in Seq(S), NEW i \in 1..Len(m)
  PROVE  (s \o m)[Len(s) + i] = m[i]
<1>1. Len(s) \in Nat /\ Len(m) \in Nat
  BY LenProperties
<1>2. Len(s) + i \in 1..(Len(s) + Len(m)) /\ ~(Len(s) + i <= Len(s)) /\ Len(s) + i - Len(s) = i
  BY <1>1
<1>3. QED BY <1>2, ConcatProperties

-----------------------------------------------------------------------------
(* The layout of a table.                                                  *)

EntrySet(b) == IF b = "string" THEN Seq(Int) ELSE Int

\* The non-NULL cells of block b in the rows before r and the first c columns of r.
CellsUpTo(t, b, r, c) ==
  {p \in (1..r) \X (1..Width) :
     /\ p[1] < r \/ p[2] <= c
     /\ BlockOf(Columns[p[2]]) = b
     /\ ~IsNull(t, p[1], p[2])}

(* A bit and a number for every row and an entry for every non-NULL cell.   *)
Layout(t) ==
  /\ t = [rows |-> t.rows, nulls |-> t.nulls, numbers |-> t.numbers,
          blocks |-> [b \in Blocks |-> t.blocks[b]]]
  /\ t.rows \in Nat /\ t.nulls \in Seq(BOOLEAN) /\ t.numbers \in Seq(Nat)
  /\ Len(t.nulls) = t.rows * Width /\ Len(t.numbers) = t.rows
  /\ \A b \in Blocks : /\ t.blocks[b] \in Seq(EntrySet(b))
                       /\ Len(t.blocks[b]) = Cardinality(CellsUpTo(t, b, t.rows, Width))

\* The entries of a row belong into their blocks.
Storable(row) ==
  \A c \in 1..Width : CellAt(row, c).variant # "Null" /\ BlockOf(Columns[c]) \in Blocks =>
    EntryOf(Columns[c], CellAt(row, c)) \in EntrySet(BlockOf(Columns[c]))

\* What is read back of a row.
ReadBack(row, number) ==
  [cells  |-> [c \in DOMAIN Columns |->
                IF CellAt(row, c).variant = "Null" \/ Columns[c] = "Unsupported" THEN <<>>
                ELSE CellFrom(Columns[c], EntryOf(Columns[c], CellAt(row, c)))],
   number |-> number]

LEMMA LayoutIsTable == ASSUME NEW t, Layout(t) PROVE IsTable(t)
<1>1. DOMAIN t.blocks = Blocks
  <2>1. t.blocks = [b \in Blocks |-> t.blocks[b]]
    BY DEF Layout
  <2>2. QED BY <2>1
<1>2. "string" \in Blocks /\ EntrySet("string") = Seq(Int)
      /\ \A b \in Blocks \ {"string"} : EntrySet(b) = Int
  BY DEF Blocks, EntrySet
<1>3. QED BY <1>1, <1>2 DEF Layout, IsTable

(* The table EmitBuffer starts with, and is left with by a flush.           *)
LEMMA EmptyLayout == Layout(EmptyTable) /\ Decode(EmptyTable) = <<>>
<1> DEFINE t == EmptyTable
<1>1. t.rows = 0 /\ t.nulls = <<>> /\ t.numbers = <<>> /\ t.blocks = [b \in Blocks |-> <<>>]
  BY DEF EmptyTable
<1>2. t = [rows |-> t.rows, nulls |-> t.nulls, numbers |-> t.numbers,
           blocks |-> [b \in Blocks |-> t.blocks[b]]]
  BY DEF EmptyTable
<1> HIDE DEF t
<1>3. \A b \in Blocks : t.blocks[b] \in Seq(EntrySet(b)) /\ Len(t.blocks[b]) = 0
  BY <1>1
<1>4. \A b \in Blocks : Cardinality(CellsUpTo(t, b, 0, Width)) = 0
  <2> TAKE b \in Blocks
  <2>1. CellsUpTo(t, b, 0, Width) = {}
    BY DEF CellsUpTo
  <2>2. QED BY <2>1, FS_EmptySet
<1>5. t.rows * Width = 0
  BY <1>1, ColumnNumbers
<1>6. Layout(t)
  BY <1>1, <1>2, <1>3, <1>4, <1>5 DEF Layout
<1>7. Decode(t) = <<>>
  BY <1>1 DEF Decode
<1>8. QED BY <1>6, <1>7 DEF t

LEMMA CellsUpToFinite ==
  ASSUME NEW t, NEW b, NEW r \in Nat, NEW c
  PROVE  /\ IsFiniteSet(CellsUpTo(t, b, r, c)) /\ Cardinality(CellsUpTo(t, b, r, c)) \in Nat
<1>1. IsFiniteSet(1..r) /\ IsFiniteSet(1..Width)
  BY FS_Interval, ColumnNumbers
<1>2. IsFiniteSet((1..r) \X (1..Width))
  BY <1>1, FS_Product
<1>3. CellsUpTo(t, b, r, c) \in SUBSET ((1..r) \X (1..Width))
  BY DEF CellsUpTo
<1>4. IsFiniteSet(CellsUpTo(t, b, r, c))
  BY <1>2, <1>3, FS_Subset, Zenon
<1>5. QED BY <1>4, FS_CardinalityType

\* The bit of a cell.
LEMMA BitIndex ==
  ASSUME NEW R \in Nat, NEW r \in 1..R, NEW c \in 1..Width
  PROVE  (r - 1) * Width + c \in 1..(R * Width)
<1>1. Width \in Nat \ {0} /\ r - 1 \in Nat /\ R - r \in Nat
  BY ColumnNumbers
<1>2. \A a \in Nat, w \in Nat : a * w \in Nat
  OBVIOUS
<1>3. (r - 1) * Width \in Nat /\ (R - r) * Width \in Nat
  BY <1>1, <1>2
<1>4. R * Width = (r - 1) * Width + (R - r) * Width + Width
  BY <1>1
<1>5. QED BY <1>1, <1>3, <1>4

\* Pushing a row leaves the bits and the cells of the rows before it.
LEMMA BitsOfRow ==
  ASSUME NEW row
  PROVE  /\ NullBits(row) \in Seq(BOOLEAN) /\ Len(NullBits(row)) = Width
         /\ \A c \in 1..Width : NullBits(row)[c] = (CellAt(row, c).variant = "Null")
<1>1. NullBits(row) = [c \in 1..Width |-> CellAt(row, c).variant = "Null"]
  BY ColumnNumbers, Zenon DEF NullBits
<1>2. \A c \in 1..Width : NullBits(row)[c] = (CellAt(row, c).variant = "Null")
  BY <1>1, Zenon
<1>3. NullBits(row) \in [1..Width -> BOOLEAN]
  BY <1>1, Zenon
<1>4. NullBits(row) \in Seq(BOOLEAN) /\ Len(NullBits(row)) = Width
  BY <1>3, ColumnNumbers
<1>5. QED BY <1>2, <1>4, Zenon

LEMMA PushKeepsBits ==
  ASSUME NEW t, Layout(t), NEW row, NEW number \in Nat,
         NEW r \in 1..t.rows, NEW c \in 1..Width
  PROVE  IsNull(PushRow(t, row, number), r, c) = IsNull(t, r, c)
<1> DEFINE i == (r - 1) * Width + c
           bits == NullBits(row)
<1>1. t.nulls \in Seq(BOOLEAN) /\ bits \in Seq(BOOLEAN)
  BY BitsOfRow DEF Layout
<1>2. i \in 1..Len(t.nulls)
  BY BitIndex DEF Layout
<1> HIDE DEF bits, i
<1>3. (t.nulls \o bits)[i] = t.nulls[i]
  BY <1>1, <1>2, ConcatFirst, Zenon
<1>4. PushRow(t, row, number).nulls = t.nulls \o bits
  BY DEF PushRow, bits
<1>5. QED BY <1>3, <1>4, Zenon DEF IsNull, Width, i

LEMMA NewBits ==
  ASSUME NEW t, Layout(t), NEW row, NEW number \in Nat, NEW c \in 1..Width
  PROVE  IsNull(PushRow(t, row, number), t.rows + 1, c) = (CellAt(row, c).variant = "Null")
<1> DEFINE bits == NullBits(row)
<1>1. t.nulls \in Seq(BOOLEAN) /\ bits \in Seq(BOOLEAN) /\ c \in 1..Len(bits)
  BY BitsOfRow DEF Layout
<1> HIDE DEF bits
<1>2. (t.nulls \o bits)[Len(t.nulls) + c] = bits[c]
  BY <1>1, ConcatLater, Zenon
<1>3. PushRow(t, row, number).nulls = t.nulls \o bits
  BY DEF PushRow, bits
<1>4. ((t.rows + 1) - 1) * Width + c = Len(t.nulls) + c
  BY ColumnNumbers DEF Layout
<1>5. IsNull(PushRow(t, row, number), t.rows + 1, c) = bits[c]
  BY <1>2, <1>3, <1>4, Zenon DEF IsNull, Width
<1>6. QED BY <1>5, BitsOfRow, Zenon DEF bits

LEMMA PushKeepsCells ==
  ASSUME NEW t, Layout(t), NEW row, NEW number \in Nat, NEW b, NEW r \in 0..t.rows, NEW c
  PROVE  CellsUpTo(PushRow(t, row, number), b, r, c) = CellsUpTo(t, b, r, c)
<1>1. t.rows \in Nat
  BY DEF Layout
<1>2. \A p \in (1..r) \X (1..Width) :
        IsNull(PushRow(t, row, number), p[1], p[2]) = IsNull(t, p[1], p[2])
  BY <1>1, PushKeepsBits
<1>3. QED BY <1>2, Zenon DEF CellsUpTo

\* One column further.
LEMMA NextCell ==
  ASSUME NEW t, NEW b, NEW r \in Nat \ {0}, NEW c \in 1..Width
  PROVE  Cardinality(CellsUpTo(t, b, r, c)) =
           IF BlockOf(Columns[c]) = b /\ ~IsNull(t, r, c)
           THEN Cardinality(CellsUpTo(t, b, r, c - 1)) + 1
           ELSE Cardinality(CellsUpTo(t, b, r, c - 1))
<1> DEFINE here == BlockOf(Columns[c]) = b /\ ~IsNull(t, r, c)
           new  == CellsUpTo(t, b, r, c)
           old  == CellsUpTo(t, b, r, c - 1)
<1>1. Width \in Nat
  BY ColumnNumbers
<1>2. <<r, c>> \notin old
  BY <1>1 DEF CellsUpTo
<1>3. ASSUME NEW p \in (1..r) \X (1..Width)
      PROVE  (p[1] < r \/ p[2] <= c) <=> (p[1] < r \/ p[2] <= c - 1 \/ p = <<r, c>>)
  BY <1>1, <1>3
<1>4. <<r, c>> \in (1..r) \X (1..Width)
  OBVIOUS
<1>5. CASE here
  <2>1. new = old \cup {<<r, c>>}
    <3>1. \A p : p \in new <=> p \in old \cup {<<r, c>>}
      BY <1>3, <1>4, <1>5 DEF CellsUpTo
    <3>2. QED BY <3>1
  <2>2. Cardinality(new) = Cardinality(old) + 1
    <3>1. IsFiniteSet(old)
      BY CellsUpToFinite
    <3> HIDE DEF old, new
    <3>2. QED BY <1>2, <2>1, <3>1, FS_AddElement, Zenon
  <2>3. QED BY <1>5, <2>2
<1>6. CASE ~here
  <2>1. new = old
    <3>1. \A p : p \in new <=> p \in old
      BY <1>3, <1>6 DEF CellsUpTo
    <3>2. QED BY <3>1
  <2>2. QED BY <1>6, <2>1
<1>7. QED BY <1>5, <1>6

\* One row further.
LEMMA NextRow ==
  ASSUME NEW t, NEW b, NEW r \in Nat
  PROVE  CellsUpTo(t, b, r + 1, 0) = CellsUpTo(t, b, r, Width)
<1>1. Width \in Nat
  BY ColumnNumbers
<1>2. \A p : /\ p \in (1..r) \X (1..Width)
             /\ p[1] < r \/ p[2] <= Width
             <=> /\ p \in (1..(r + 1)) \X (1..Width)
                 /\ p[1] < r + 1 \/ p[2] <= 0
  BY <1>1
<1>3. QED BY <1>2 DEF CellsUpTo

(* The cells of the pushed row follow those of the table.                   *)
LEMMA PushCounts ==
  ASSUME NEW t, Layout(t), NEW row, NEW number \in Nat, NEW b, NEW at, Counts(at, b, row)
  PROVE  \A c \in 0..Width :
           Cardinality(CellsUpTo(PushRow(t, row, number), b, t.rows + 1, c))
             = Cardinality(CellsUpTo(t, b, t.rows, Width)) + at[c]
<1> DEFINE u == PushRow(t, row, number)
           n(c) == Cardinality(CellsUpTo(u, b, t.rows + 1, c))
           before == Cardinality(CellsUpTo(t, b, t.rows, Width))
           Bad == {c \in 0..Width : n(c) # before + at[c]}
<1>1. t.rows \in Nat /\ t.rows \in 0..t.rows /\ t.rows + 1 \in Nat \ {0} /\ Width \in Nat
  BY ColumnNumbers DEF Layout
<1>2. before \in Nat /\ \A c : n(c) \in Nat
  BY <1>1, CellsUpToFinite
<1>3. n(0) = before
  BY <1>1, NextRow, PushKeepsCells
<1>4. ASSUME NEW c \in 1..Width
      PROVE  n(c) = IF Stores(b, row, c) THEN n(c - 1) + 1 ELSE n(c - 1)
  <2>1. IsNull(u, t.rows + 1, c) <=> CellAt(row, c).variant = "Null"
    BY NewBits, Zenon
  <2> HIDE DEF u
  <2>2. QED BY <1>1, <2>1, NextCell DEF Stores
<1> HIDE DEF n, before
<1>5. SUFFICES ASSUME Bad # {}
               PROVE  FALSE
  BY DEF n, before
<1>6. PICK c \in Bad : \A m \in Bad : c <= m
  <2>1. Bad \in SUBSET Nat
    OBVIOUS
  <2>2. QED BY <1>5, <2>1, LeastNumber, Zenon
<1>7. c # 0
  BY <1>2, <1>3, <1>6 DEF Counts
<1>8. c \in 1..Width /\ c - 1 \in 0..Width /\ ~(c <= c - 1)
  BY <1>1, <1>6, <1>7
<1>9. n(c - 1) = before + at[c - 1]
  BY <1>6, <1>8
<1>10. at[c - 1] \in Nat /\ at[c] = IF Stores(b, row, c) THEN at[c - 1] + 1 ELSE at[c - 1]
  BY <1>8 DEF Counts
<1>11. n(c) = before + at[c]
  BY <1>2, <1>4, <1>8, <1>9, <1>10
<1>12. QED BY <1>6, <1>11

\* What a row leaves in a block.
LEMMA EntriesOfRow ==
  ASSUME NEW row, Storable(row), NEW b \in Blocks
  PROVE  /\ Entries(BlockCells(b, row)) \in Seq(EntrySet(b))
         /\ Len(Entries(BlockCells(b, row))) = Len(BlockCells(b, row))
         /\ Len(BlockCells(b, row)) \in Nat
         /\ \A i \in 1..Len(BlockCells(b, row)) :
              Entries(BlockCells(b, row))[i]
                = EntryOf(BlockCells(b, row)[i][1], BlockCells(b, row)[i][2])
<1> DEFINE cells == BlockCells(b, row)
           n == Len(cells)
<1>1. cells \in Seq(CellSet(b, row))
  BY CellsOfRow
<1>2. n \in Nat /\ DOMAIN cells = 1..n /\ \A i \in 1..n : cells[i] \in CellSet(b, row)
  BY <1>1, LenProperties, ElementOfSeq
<1>3. \A i \in 1..n : EntryOf(cells[i][1], cells[i][2]) \in EntrySet(b)
  <2> TAKE i \in 1..n
  <2>1. PICK c \in 1..Width : Stores(b, row, c) /\ cells[i] = <<Columns[c], CellAt(row, c)>>
    BY <1>2 DEF CellSet
  <2>2. EntryOf(Columns[c], CellAt(row, c)) \in EntrySet(b)
    BY <2>1 DEF Storable, Stores
  <2>3. QED BY <2>1, <2>2
<1>4. Entries(cells) = [i \in 1..n |-> EntryOf(cells[i][1], cells[i][2])]
  BY <1>2 DEF Entries
<1>5. Entries(cells) \in [1..n -> EntrySet(b)]
  BY <1>3, <1>4
<1>6. Entries(cells) \in Seq(EntrySet(b)) /\ Len(Entries(cells)) = n
  BY <1>2, <1>5
<1>7. \A i \in 1..n : Entries(cells)[i] = EntryOf(cells[i][1], cells[i][2])
  BY <1>4, Zenon
<1>8. QED BY <1>2, <1>6, <1>7

LEMMA PushKeepsLayout ==
  ASSUME NEW t, Layout(t), NEW row, Storable(row), NEW number \in Nat
  PROVE  Layout(PushRow(t, row, number))
<1> DEFINE u == PushRow(t, row, number)
<1>1. u = [rows |-> u.rows, nulls |-> u.nulls, numbers |-> u.numbers,
           blocks |-> [b \in Blocks |-> u.blocks[b]]]
  BY DEF PushRow
<1>2. u.rows = t.rows + 1 /\ t.rows \in Nat
  BY DEF PushRow, Layout
<1>3. u.nulls \in Seq(BOOLEAN) /\ Len(u.nulls) = u.rows * Width
  <2> DEFINE bits == NullBits(row)
  <2>1. bits \in Seq(BOOLEAN) /\ Len(bits) = Width /\ t.nulls \in Seq(BOOLEAN)
    BY BitsOfRow DEF Layout
  <2>2. u.nulls = t.nulls \o bits
    BY DEF PushRow
  <2> HIDE DEF bits, u
  <2>3. u.nulls \in Seq(BOOLEAN) /\ Len(u.nulls) = Len(t.nulls) + Width
    BY <2>1, <2>2, ConcatProperties
  <2>4. Len(t.nulls) = t.rows * Width
    BY DEF Layout
  <2>5. QED BY <1>2, <2>3, <2>4, ColumnNumbers
<1>4. u.numbers \in Seq(Nat) /\ Len(u.numbers) = u.rows
  <2>1. u.numbers = Append(t.numbers, number) /\ t.numbers \in Seq(Nat) /\ Len(t.numbers) = t.rows
    BY DEF PushRow, Layout
  <2>2. QED BY <1>2, <2>1, AppendProperties
<1>5. ASSUME NEW b \in Blocks
      PROVE  /\ u.blocks[b] \in Seq(EntrySet(b))
             /\ Len(u.blocks[b]) = Cardinality(CellsUpTo(u, b, u.rows, Width))
  <2> DEFINE new == Entries(BlockCells(b, row))
  <2>1. new \in Seq(EntrySet(b)) /\ Len(new) = Len(BlockCells(b, row))
    BY EntriesOfRow
  <2>2. t.blocks[b] \in Seq(EntrySet(b))
        /\ Len(t.blocks[b]) = Cardinality(CellsUpTo(t, b, t.rows, Width))
    BY DEF Layout
  <2>3. u.blocks[b] = t.blocks[b] \o new
    BY DEF PushRow
  <2>4. PICK at : Counts(at, b, row) /\ at[Width] = Len(BlockCells(b, row))
    BY CellsOfRow, Zenon
  <2>5. Cardinality(CellsUpTo(u, b, t.rows + 1, Width))
          = Cardinality(CellsUpTo(t, b, t.rows, Width)) + at[Width]
    BY <2>4, PushCounts, ColumnNumbers
  <2> HIDE DEF new, u
  <2>6. u.blocks[b] \in Seq(EntrySet(b)) /\ Len(u.blocks[b]) = Len(t.blocks[b]) + Len(new)
    BY <2>1, <2>2, <2>3, ConcatProperties
  <2>7. QED BY <1>2, <2>1, <2>2, <2>4, <2>5, <2>6
<1> HIDE DEF u
<1>6. Layout(u)
  BY <1>1, <1>2, <1>3, <1>4, <1>5 DEF Layout
<1>7. QED BY <1>6 DEF u

(* The cells of the rows before a pushed row read back as they did.          *)
LEMMA PushKeepsOldCells ==
  ASSUME NEW t, Layout(t), NEW row, Storable(row), NEW number \in Nat,
         NEW r \in 1..t.rows, NEW c \in 1..Width
  PROVE  CellOf(PushRow(t, row, number), r, c) = CellOf(t, r, c)
<1> DEFINE u == PushRow(t, row, number)
           b == BlockOf(Columns[c])
           k == Cursor(t, r, c)
<1>1. IsNull(u, r, c) = IsNull(t, r, c)
  BY PushKeepsBits
<1>2. t.rows \in Nat /\ r \in 0..t.rows /\ r \in Nat /\ DOMAIN Columns = 1..Width /\ Width \in Nat
  BY ColumnNumbers DEF Layout
<1>3. Cursor(u, r, c) = k
  <2>1. Cursor(t, r, c) = Cardinality(CellsUpTo(t, b, r, c))
        /\ Cursor(u, r, c) = Cardinality(CellsUpTo(u, b, r, c))
    BY <1>2, Zenon DEF Cursor, CellsUpTo
  <2>2. QED BY <1>2, <2>1, PushKeepsCells
<1>4. CASE Columns[c] = "Unsupported" \/ IsNull(t, r, c)
  BY <1>1, <1>4 DEF CellOf
<1>5. CASE Columns[c] # "Unsupported" /\ ~IsNull(t, r, c)
  <2>1. b \in Blocks
    BY <1>2, <1>5, LayoutAssumption DEF Types, Blocks, BlockOf
  <2>2. k \in Nat /\ k <= Len(t.blocks[b])
    <3>1. k = Cardinality(CellsUpTo(t, b, r, c))
      BY <1>2, Zenon DEF Cursor, CellsUpTo
    <3>2. CellsUpTo(t, b, r, c) \in SUBSET CellsUpTo(t, b, t.rows, Width)
      BY <1>2 DEF CellsUpTo
    <3>3. IsFiniteSet(CellsUpTo(t, b, t.rows, Width)) /\ k \in Nat
      BY <1>2, <3>1, CellsUpToFinite
    <3>4. Cardinality(CellsUpTo(t, b, r, c)) <= Cardinality(CellsUpTo(t, b, t.rows, Width))
      BY <3>2, <3>3, FS_Subset, Zenon
    <3>5. QED BY <2>1, <3>1, <3>3, <3>4 DEF Layout
  <2> DEFINE old == t.blocks[b]
             new == Entries(BlockCells(b, row))
  <2>3. old \in Seq(EntrySet(b)) /\ new \in Seq(EntrySet(b))
    BY <2>1, EntriesOfRow DEF Layout
  <2>4. u.blocks[b] = old \o new
    BY <2>1 DEF PushRow
  <2> HIDE DEF old, new, u, k
  <2>5. (k \in DOMAIN old <=> k \in DOMAIN (old \o new))
        /\ (k \in DOMAIN old => (old \o new)[k] = old[k])
    <3>1. Len(old) \in Nat /\ DOMAIN old = 1..Len(old) /\ Len(new) \in Nat
          /\ DOMAIN (old \o new) = 1..(Len(old) + Len(new))
      BY <2>3, ConcatProperties, LenProperties
    <3>2. k \in 1..Len(old) => (old \o new)[k] = old[k]
      BY <2>3, ConcatFirst
    <3>3. k <= Len(old)
      BY <2>2 DEF old
    <3>4. QED BY <2>2, <3>1, <3>2, <3>3
  <2> DEFINE default == IF b = "string" THEN <<0>> ELSE 0
  <2>6. CellOf(u, r, c) = CellFrom(Columns[c], IF k \in DOMAIN u.blocks[b] THEN u.blocks[b][k] ELSE default)
    BY <1>1, <1>3, <1>5, Zenon DEF CellOf
  <2>7. CellOf(t, r, c) = CellFrom(Columns[c], IF k \in DOMAIN old THEN old[k] ELSE default)
    BY <1>5, Zenon DEF CellOf, k, old
  <2>8. QED BY <2>4, <2>5, <2>6, <2>7 DEF u
<1>6. QED BY <1>4, <1>5

(* The pushed row reads back as what its values leave.                       *)
LEMMA PushedCell ==
  ASSUME NEW t, Layout(t), NEW row, Storable(row), NEW number \in Nat, NEW c \in 1..Width
  PROVE  CellOf(PushRow(t, row, number), t.rows + 1, c) = ReadBack(row, number).cells[c]
<1> DEFINE u == PushRow(t, row, number)
           b == BlockOf(Columns[c])
           r == t.rows + 1
           value == CellAt(row, c)
           cells == BlockCells(b, row)
<1>1. IsNull(u, r, c) <=> value.variant = "Null"
  BY NewBits, Zenon
<1>2. t.rows \in Nat /\ DOMAIN Columns = 1..Width /\ Width \in Nat /\ Width \in 0..Width
      /\ c \in 0..Width
  BY ColumnNumbers DEF Layout
<1>3. ReadBack(row, number).cells[c] =
        IF value.variant = "Null" \/ Columns[c] = "Unsupported" THEN <<>>
        ELSE CellFrom(Columns[c], EntryOf(Columns[c], value))
  BY <1>2, Zenon DEF ReadBack
<1>4. CASE Columns[c] = "Unsupported" \/ value.variant = "Null"
  BY <1>1, <1>3, <1>4 DEF CellOf
<1>5. CASE Columns[c] # "Unsupported" /\ value.variant # "Null"
  <2>1. b \in Blocks
    BY <1>2, <1>5, LayoutAssumption DEF Types, Blocks, BlockOf
  <2>2. PICK at : /\ Counts(at, b, row)
                  /\ at[c] \in 1..Len(cells) /\ cells[at[c]] = <<Columns[c], value>>
    <3>1. Stores(b, row, c)
      BY <1>5 DEF Stores
    <3>2. QED BY <3>1, CellsOfRow, Zenon
  <2>3. Cursor(u, r, c) = Len(t.blocks[b]) + at[c]
    <3>1. Cursor(u, r, c) = Cardinality(CellsUpTo(u, b, r, c))
      BY <1>2, Zenon DEF Cursor, CellsUpTo
    <3>2. Cardinality(CellsUpTo(u, b, r, c)) = Cardinality(CellsUpTo(t, b, t.rows, Width)) + at[c]
      BY <1>2, <2>2, PushCounts
    <3>3. QED BY <2>1, <3>1, <3>2 DEF Layout
  <2> DEFINE old == t.blocks[b]
             new == Entries(cells)
             k   == Len(old) + at[c]
  <2>4. old \in Seq(EntrySet(b)) /\ new \in Seq(EntrySet(b)) /\ at[c] \in 1..Len(new)
        /\ new[at[c]] = EntryOf(Columns[c], value)
    <3>1. new[at[c]] = EntryOf(cells[at[c]][1], cells[at[c]][2])
      BY <2>1, <2>2, EntriesOfRow
    <3>2. QED BY <2>1, <2>2, <3>1, EntriesOfRow DEF Layout
  <2>5. u.blocks[b] = old \o new
    BY <2>1 DEF PushRow
  <2> HIDE DEF old, new, u
  <2>6. k \in DOMAIN (old \o new) /\ (old \o new)[k] = EntryOf(Columns[c], value)
    <3>1. Len(old) \in Nat /\ Len(new) \in Nat /\ DOMAIN (old \o new) = 1..(Len(old) + Len(new))
      BY <2>4, ConcatProperties, LenProperties
    <3>2. (old \o new)[k] = new[at[c]]
      BY <2>4, ConcatLater
    <3>3. QED BY <2>4, <3>1, <3>2
  <2>7. Cursor(u, r, c) = k
    BY <2>3 DEF old
  <2> DEFINE default == IF b = "string" THEN <<0>> ELSE 0
  <2> HIDE DEF k
  <2>8. CellOf(u, r, c) = CellFrom(Columns[c], IF k \in DOMAIN u.blocks[b] THEN u.blocks[b][k] ELSE default)
    BY <1>1, <1>5, <2>7, Zenon DEF CellOf
  <2>9. CellOf(u, r, c) = CellFrom(Columns[c], EntryOf(Columns[c], value))
    BY <2>5, <2>6, <2>8
  <2>10. QED BY <1>3, <1>5, <2>9 DEF u
<1>6. QED BY <1>4, <1>5

LEMMA AsFunction == ASSUME NEW S, NEW s \in Seq(S) PROVE s = [i \in 1..Len(s) |-> s[i]]
  OBVIOUS

\* A sequence of all the rows of a pushed table.
LEMMA PushReadsBack ==
  ASSUME NEW t, Layout(t), NEW row, Storable(row), NEW number \in Nat,
         NEW S, Decode(t) \in Seq(S), ReadBack(row, number) \in S
  PROVE  /\ Layout(PushRow(t, row, number))
         /\ Decode(PushRow(t, row, number)) = Append(Decode(t), ReadBack(row, number))
<1> DEFINE u == PushRow(t, row, number)
           x == ReadBack(row, number)
           n == t.rows
           one(v, r) == [cells |-> [c \in DOMAIN Columns |-> CellOf(v, r, c)], number |-> NumberOf(v, r)]
<1>1. Layout(u)
  BY PushKeepsLayout
<1>2. n \in Nat /\ u.rows = n + 1 /\ u.numbers = Append(t.numbers, number)
      /\ t.numbers \in Seq(Nat) /\ Len(t.numbers) = n
  BY DEF PushRow, Layout
<1>3. ASSUME NEW r \in 1..n
      PROVE  one(u, r) = one(t, r)
  <2>1. \A c \in DOMAIN Columns : CellOf(u, r, c) = CellOf(t, r, c)
    BY PushKeepsOldCells, ColumnNumbers
  <2>2. NumberOf(u, r) = NumberOf(t, r)
    <3> HIDE DEF u
    <3>1. QED BY <1>2, AppendProperties DEF NumberOf
  <2> HIDE DEF u
  <2>3. QED BY <2>1, <2>2
<1>4. one(u, n + 1) = x
  <2>1. \A c \in DOMAIN Columns : CellOf(u, n + 1, c) = x.cells[c]
    BY PushedCell, ColumnNumbers
  <2>2. NumberOf(u, n + 1) = number
    <3> HIDE DEF u
    <3>1. QED BY <1>2, AppendProperties DEF NumberOf
  <2>3. x = [cells |-> [c \in DOMAIN Columns |-> x.cells[c]], number |-> number]
    BY DEF ReadBack
  <2> HIDE DEF u, x
  <2>4. QED BY <2>1, <2>2, <2>3
<1> HIDE DEF u, x
<1>5. Decode(t) = [r \in 1..n |-> one(t, r)] /\ Decode(u) = [r \in 1..(n + 1) |-> one(u, r)]
  BY <1>2 DEF Decode
<1> HIDE DEF one
<1>6. Len(Decode(t)) = n
  BY <1>2, <1>5
<1>7. /\ Append(Decode(t), x) \in Seq(S) /\ Len(Append(Decode(t), x)) = n + 1
      /\ \A r \in 1..n : Append(Decode(t), x)[r] = one(t, r)
      /\ Append(Decode(t), x)[n + 1] = x
  <2>1. x \in S
    BY DEF x
  <2>2. \A r \in 1..n : Decode(t)[r] = one(t, r)
    BY <1>5
  <2>3. QED BY <1>6, <2>1, <2>2, AppendProperties
<1>8. Decode(u) = Append(Decode(t), x)
  <2> DEFINE a == Append(Decode(t), x)
  <2>1. /\ a \in Seq(S) /\ Len(a) = n + 1
        /\ \A r \in 1..n : a[r] = one(t, r)
        /\ a[n + 1] = x
    BY <1>7
  <2> HIDE DEF a
  <2>2. a = [r \in 1..(n + 1) |-> a[r]]
    BY <2>1, AsFunction
  <2>3. ASSUME NEW r \in 1..(n + 1)
        PROVE  a[r] = one(u, r)
    <3>1. CASE r = n + 1
      BY <1>4, <2>1, <3>1
    <3>2. CASE r # n + 1
      <4>1. r \in 1..n
        BY <1>2, <3>2
      <4>2. QED BY <1>3, <2>1, <4>1
    <3>3. QED BY <3>1, <3>2
  <2>4. Decode(u) = a
    BY <1>5, <2>2, <2>3
  <2>5. QED BY <2>4 DEF a
<1>9. QED BY <1>1, <1>8 DEF u, x

-----------------------------------------------------------------------------
(* A batch packed a block at a time is its rows pushed one by one.          *)

\* A function on the first numbers is a sequence.
LEMMA FunctionIsSeq ==
  ASSUME NEW T, NEW n \in Nat, NEW f \in [1..n -> T]
  PROVE  f \in Seq(T) /\ Len(f) = n
OBVIOUS

LEMMA EntriesConcat ==
  ASSUME NEW S, NEW s \in Seq(S), NEW m \in Seq(S)
  PROVE  Entries(s \o m) = Entries(s) \o Entries(m)
<1> DEFINE T == {EntryOf(x[1], x[2]) : x \in S}
           es == Entries(s)
           em == Entries(m)
           ea == Entries(s \o m)
<1>1. /\ Len(s) \in Nat /\ DOMAIN s = 1..Len(s) /\ Len(m) \in Nat /\ DOMAIN m = 1..Len(m)
      /\ s \o m \in Seq(S) /\ DOMAIN (s \o m) = 1..(Len(s) + Len(m))
      /\ \A i \in 1..Len(s) : s[i] \in S
      /\ \A i \in 1..Len(m) : m[i] \in S
  BY ConcatProperties, LenProperties, ElementOfSeq
<1>2. /\ es = [i \in 1..Len(s) |-> EntryOf(s[i][1], s[i][2])]
      /\ em = [i \in 1..Len(m) |-> EntryOf(m[i][1], m[i][2])]
      /\ ea = [i \in 1..(Len(s) + Len(m)) |-> EntryOf((s \o m)[i][1], (s \o m)[i][2])]
  BY <1>1 DEF Entries
<1>3. es \in Seq(T) /\ em \in Seq(T) /\ Len(es) = Len(s) /\ Len(em) = Len(m)
  <2>1. es \in [1..Len(s) -> T] /\ em \in [1..Len(m) -> T]
    BY <1>1, <1>2
  <2> HIDE DEF T, es, em
  <2>2. QED BY <1>1, <2>1, FunctionIsSeq, Zenon
<1>4. \A i \in 1..(Len(s) + Len(m)) : (es \o em)[i] = ea[i]
  <2> TAKE i \in 1..(Len(s) + Len(m))
  <2>1. (es \o em)[i] = IF i <= Len(s) THEN es[i] ELSE em[i - Len(s)]
    <3> HIDE DEF T, es, em
    <3>1. QED BY <1>3, ConcatProperties
  <2>2. (s \o m)[i] = IF i <= Len(s) THEN s[i] ELSE m[i - Len(s)]
    BY ConcatProperties
  <2> HIDE DEF T, es, em, ea
  <2>3. CASE i <= Len(s)
    BY <1>1, <1>2, <2>1, <2>2, <2>3
  <2>4. CASE ~(i <= Len(s))
    <3>1. i - Len(s) \in 1..Len(m)
      BY <1>1, <2>4
    <3>2. QED BY <1>2, <2>1, <2>2, <2>4, <3>1
  <2>5. QED BY <2>3, <2>4
<1> HIDE DEF T, es, em, ea
<1>5. es \o em = [i \in 1..(Len(s) + Len(m)) |-> (es \o em)[i]]
  <2>1. es \o em \in Seq(T) /\ Len(es \o em) = Len(es) + Len(em)
    BY <1>3, ConcatProperties, Zenon
  <2>2. QED BY <1>3, <2>1, AsFunction
<1>6. es \o em = ea
  BY <1>2, <1>4, <1>5
<1>7. QED BY <1>6 DEF es, em, ea

LEMMA OneMore ==
  ASSUME NEW S, NEW s \in Seq(S), NEW k \in Nat, k < Len(s)
  PROVE  Append(SubSeq(s, 1, k), s[k + 1]) = SubSeq(s, 1, k + 1)
<1>1. /\ 1 \in 1..Len(s) /\ k + 1 \in 1..Len(s) /\ (k + 1) - 1 = k
      /\ s[k + 1] \in S /\ \A i \in 1..k : s[i] \in S
  OBVIOUS
<1>2. SubSeq(s, 1, k + 1) = SubSeq(s, 1, k) \o <<s[k + 1]>>
  BY <1>1, SubSeqRecursiveSecond
<1>3. SubSeq(s, 1, k) \in Seq(S)
  BY <1>1, SubSeqProperties
<1>4. QED BY <1>1, <1>2, <1>3, AppendIsConcat

\* The first of two sequences.
LEMMA FirstPart ==
  ASSUME NEW S, NEW s \in Seq(S), NEW m \in Seq(S)
  PROVE  SubSeq(s \o m, 1, Len(s)) = s
<1> DEFINE a == s \o m
           p == SubSeq(a, 1, Len(s))
<1>1. a \in Seq(S) /\ Len(a) = Len(s) + Len(m) /\ Len(s) \in Nat /\ Len(m) \in Nat
      /\ \A i \in 1..Len(s) : a[i] = s[i]
  BY ConcatProperties, LenProperties, ConcatFirst
<1> HIDE DEF a
<1>2. \A i \in 1..Len(s) : a[i] \in S
  BY <1>1
<1>3. p \in Seq(S) /\ Len(p) = Len(s) /\ \A i \in 1..Len(s) : p[i] = a[i]
  BY <1>1, <1>2, SubSeqProperties
<1> HIDE DEF p
<1>4. p = s
  BY <1>1, <1>3, SeqEqual
<1>5. QED BY <1>4 DEF p, a

\* The second of two sequences.
LEMMA LastPart ==
  ASSUME NEW S, NEW s \in Seq(S), NEW m \in Seq(S)
  PROVE  SubSeq(s \o m, Len(s) + 1, Len(s \o m)) = m
<1> DEFINE a == s \o m
           p == SubSeq(a, Len(s) + 1, Len(a))
<1>1. /\ a \in Seq(S) /\ Len(s) \in Nat /\ Len(m) \in Nat /\ Len(a) = Len(s) + Len(m)
      /\ \A i \in 1..Len(m) : a[Len(s) + i] = m[i]
  BY ConcatLater, ConcatProperties, LenProperties
<1> HIDE DEF a
<1>2. p \in Seq(S) /\ Len(p) = Len(m) /\ \A i \in 1..Len(m) : p[i] = a[Len(s) + i]
  BY <1>1
<1> HIDE DEF p
<1>3. p = m
  BY <1>1, <1>2, SeqEqual
<1>4. QED BY <1>3 DEF p, a

LEMMA EntriesType ==
  ASSUME NEW S, NEW s \in Seq(S)
  PROVE  Entries(s) \in Seq({EntryOf(x[1], x[2]) : x \in S}) /\ Len(Entries(s)) = Len(s)
<1> DEFINE T == {EntryOf(x[1], x[2]) : x \in S}
<1>1. Len(s) \in Nat /\ DOMAIN s = 1..Len(s) /\ \A i \in 1..Len(s) : s[i] \in S
  BY LenProperties, ElementOfSeq
<1>2. Entries(s) = [i \in 1..Len(s) |-> EntryOf(s[i][1], s[i][2])]
  BY <1>1 DEF Entries
<1>3. Entries(s) \in [1..Len(s) -> T]
  BY <1>1, <1>2
<1> HIDE DEF T
<1>4. Entries(s) \in Seq(T) /\ Len(Entries(s)) = Len(s)
  BY <1>1, <1>3
<1>5. QED BY <1>4 DEF T

\* Appending a row's entries to those of the rows before.
LEMMA OneMoreRow ==
  ASSUME NEW E, NEW old \in Seq(E), NEW S, NEW s \in Seq(S), NEW m \in Seq(S)
  PROVE  old \o Entries(s \o m) = (old \o Entries(s)) \o Entries(m)
<1> DEFINE T == {EntryOf(x[1], x[2]) : x \in S}
<1>1. Entries(s) \in Seq(T) /\ Entries(m) \in Seq(T)
  BY EntriesType
<1> HIDE DEF T
<1>2. Entries(s) \in Seq(E \cup T) /\ Entries(m) \in Seq(E \cup T) /\ old \in Seq(E \cup T)
  BY <1>1, SeqMonotonic
<1>3. (old \o Entries(s)) \o Entries(m) = old \o (Entries(s) \o Entries(m))
  BY <1>2, ConcatAssociative
<1>4. Entries(s \o m) = Entries(s) \o Entries(m)
  BY EntriesConcat
<1>5. QED BY <1>3, <1>4

PacksAlike(rows) ==
  \A b \in Blocks :
    (IF b = "string" THEN PackStrings(rows) ELSE PackFixed(b, rows)) = Entries(BatchCells(b, rows))

BlockRows(b, rows) == [r \in DOMAIN rows |-> BlockCells(b, rows[r])]
BitRows(rows) == [r \in DOMAIN rows |-> NullBits(rows[r])]

\* F and B run through what the rows put in each block and in the bitmap.
Unrolled(F, B, C, rows) ==
  /\ \A b \in Blocks : Unrolls(F[b], C, BlockRows(b, rows))
  /\ Unrolls(B, BOOLEAN, BitRows(rows))

LEMMA RowsUnroll ==
  ASSUME NEW X, NEW rows \in Seq(X)
  PROVE  \E C, F, B : Unrolled(F, B, C, rows)
<1> DEFINE C == UNION {CellSet(b, rows[i]) : b \in Blocks, i \in 1..Len(rows)}
           F == [b \in Blocks |-> CHOOSE f : Unrolls(f, C, BlockRows(b, rows))]
<1>1. Len(rows) \in Nat /\ DOMAIN rows = 1..Len(rows)
  BY LenProperties
<1>2. ASSUME NEW b \in Blocks
      PROVE  Unrolls(F[b], C, BlockRows(b, rows))
  <2>1. \A i \in 1..Len(rows) : BlockCells(b, rows[i]) \in Seq(C)
    <3> TAKE i \in 1..Len(rows)
    <3>1. BlockCells(b, rows[i]) \in Seq(CellSet(b, rows[i]))
      BY CellsOfRow
    <3>2. CellSet(b, rows[i]) \subseteq C
      OBVIOUS
    <3> HIDE DEF C
    <3>3. QED BY <3>1, <3>2, SeqMonotonic, Zenon
  <2> HIDE DEF C
  <2>2. BlockRows(b, rows) \in [1..Len(rows) -> Seq(C)]
    BY <1>1, <2>1 DEF BlockRows
  <2>3. BlockRows(b, rows) \in Seq(Seq(C))
    BY <1>1, <2>2
  <2>4. \E f : Unrolls(f, C, BlockRows(b, rows))
    BY <2>3, Flattening, Zenon
  <2>5. QED BY <2>4, Zenon
<1>3. \E B : Unrolls(B, BOOLEAN, BitRows(rows))
  <2>1. BitRows(rows) \in [1..Len(rows) -> Seq(BOOLEAN)]
    BY <1>1, BitsOfRow DEF BitRows
  <2>2. BitRows(rows) \in Seq(Seq(BOOLEAN))
    BY <1>1, <2>1
  <2>3. QED BY <2>2, Flattening, Zenon
<1> HIDE DEF C, F
<1>4. QED BY <1>2, <1>3, Zenon DEF Unrolled

\* The table behind the first k rows of a batch.
Stage(t, number, F, B, k) ==
  [rows    |-> t.rows + k,
   nulls   |-> t.nulls \o B[k],
   numbers |-> t.numbers \o [i \in 1..k |-> number],
   blocks  |-> [b \in Blocks |-> t.blocks[b] \o Entries(F[b][k])]]

LEMMA FirstStage ==
  ASSUME NEW t, Layout(t), NEW number, NEW F, NEW B, B[0] = <<>>, \A b \in Blocks : F[b][0] = <<>>
  PROVE  Stage(t, number, F, B, 0) = t
<1>1. Entries(<<>>) = <<>>
  BY DEF Entries
<1>2. t.rows + 0 = t.rows /\ t.nulls \o B[0] = t.nulls
  BY ConcatEmptySeq DEF Layout
<1>3. [i \in 1..0 |-> number] = <<>>
  OBVIOUS
<1>4. t.numbers \o [i \in 1..0 |-> number] = t.numbers
  <2>1. t.numbers \in Seq(Nat)
    BY DEF Layout
  <2>2. QED BY <1>3, <2>1, ConcatEmptySeq, Zenon
<1>5. \A b \in Blocks : t.blocks[b] \o Entries(F[b][0]) = t.blocks[b]
  <2> TAKE b \in Blocks
  <2>1. t.blocks[b] \in Seq(EntrySet(b))
    BY DEF Layout
  <2>2. QED BY <1>1, <2>1, ConcatEmptySeq
<1>6. [b \in Blocks |-> t.blocks[b] \o Entries(F[b][0])] = [b \in Blocks |-> t.blocks[b]]
  BY <1>5
<1>7. QED BY <1>2, <1>4, <1>6, Zenon DEF Stage, Layout

LEMMA NextStage ==
  ASSUME NEW t, Layout(t), NEW X, NEW rows \in Seq(X), NEW number \in Nat, NEW C, NEW F, NEW B,
         Unrolled(F, B, C, rows),
         NEW k \in 1..Len(rows)
  PROVE  Stage(t, number, F, B, k) = PushRow(Stage(t, number, F, B, k - 1), rows[k], number)
<1> DEFINE u == Stage(t, number, F, B, k - 1)
<1>1. /\ Len(rows) \in Nat /\ DOMAIN rows = 1..Len(rows)
      /\ k \in 0..Len(rows) /\ k - 1 \in 0..Len(rows) /\ k - 1 \in Nat
  BY LenProperties
<1>2. Len(BitRows(rows)) = Len(rows) /\ \A b \in Blocks : Len(BlockRows(b, rows)) = Len(rows)
  BY <1>1 DEF BitRows, BlockRows
<1>9. (\A b \in Blocks : Unrolls(F[b], C, BlockRows(b, rows))) /\ Unrolls(B, BOOLEAN, BitRows(rows))
  BY DEF Unrolled
<1>3. t.rows + k = u.rows + 1
  BY <1>1 DEF Stage, Layout
<1>4. t.nulls \o B[k] = u.nulls \o NullBits(rows[k])
  <2>1. B[k] = B[k - 1] \o NullBits(rows[k])
    BY <1>1, <1>2, <1>9 DEF Unrolls, BitRows
  <2>2. B[k - 1] \in Seq(BOOLEAN) /\ NullBits(rows[k]) \in Seq(BOOLEAN) /\ t.nulls \in Seq(BOOLEAN)
    BY <1>1, <1>2, <1>9, BitsOfRow DEF Unrolls, Layout
  <2>3. (t.nulls \o B[k - 1]) \o NullBits(rows[k]) = t.nulls \o (B[k - 1] \o NullBits(rows[k]))
    <3> DEFINE x == t.nulls
               y == B[k - 1]
               z == NullBits(rows[k])
    <3>1. x \in Seq(BOOLEAN) /\ y \in Seq(BOOLEAN) /\ z \in Seq(BOOLEAN)
      BY <2>2
    <3> HIDE DEF x, y, z
    <3>2. (x \o y) \o z = x \o (y \o z)
      BY <3>1, ConcatAssociative
    <3>3. QED BY <3>2 DEF x, y, z
  <2>4. QED BY <2>1, <2>3, Zenon DEF Stage
<1>5. t.numbers \o [i \in 1..k |-> number] = Append(u.numbers, number)
  <2> DEFINE some == [i \in 1..(k - 1) |-> number]
  <2>1. some \in Seq(Nat) /\ Len(some) = k - 1
    BY <1>1
  <2>2. [i \in 1..k |-> number] = Append(some, number)
    BY <1>1
  <2>3. t.numbers \in Seq(Nat)
    BY DEF Layout
  <2> HIDE DEF some
  <2>4. t.numbers \o Append(some, number) = Append(t.numbers \o some, number)
    <3>1. Append(some, number) = some \o <<number>> /\ <<number>> \in Seq(Nat)
      BY <2>1, AppendIsConcat
    <3>2. t.numbers \o some \in Seq(Nat)
      BY <2>1, <2>3, ConcatProperties
    <3>3. Append(t.numbers \o some, number) = (t.numbers \o some) \o <<number>>
      BY <3>2, AppendIsConcat
    <3>4. (t.numbers \o some) \o <<number>> = t.numbers \o (some \o <<number>>)
      <4> DEFINE x == t.numbers
                 z == <<number>>
      <4>1. x \in Seq(Nat) /\ z \in Seq(Nat)
        BY <2>3, <3>1
      <4> HIDE DEF x, z
      <4>2. (x \o some) \o z = x \o (some \o z)
        BY <2>1, <4>1, ConcatAssociative
      <4>3. QED BY <4>2 DEF x, z
    <3>5. QED BY <3>1, <3>3, <3>4, Zenon
  <2>5. u.numbers = t.numbers \o some
    BY DEF Stage, some
  <2>6. QED BY <2>2, <2>4, <2>5
<1>6. ASSUME NEW b \in Blocks
      PROVE  t.blocks[b] \o Entries(F[b][k]) = u.blocks[b] \o Entries(BlockCells(b, rows[k]))
  <2>1. Unrolls(F[b], C, BlockRows(b, rows)) /\ Len(BlockRows(b, rows)) = Len(rows)
    BY <1>2, <1>9
  <2>2. BlockRows(b, rows)[k] = BlockCells(b, rows[k])
    BY <1>1 DEF BlockRows
  <2>3. F[b][k] = F[b][k - 1] \o BlockCells(b, rows[k])
    BY <1>1, <2>1, <2>2 DEF Unrolls
  <2>4. F[b][k - 1] \in Seq(C)
    BY <1>1, <2>1 DEF Unrolls
  <2> DEFINE S == C \cup CellSet(b, rows[k])
  <2>5. F[b][k - 1] \in Seq(S) /\ BlockCells(b, rows[k]) \in Seq(S)
    <3>1. BlockCells(b, rows[k]) \in Seq(CellSet(b, rows[k]))
      BY CellsOfRow
    <3>2. QED BY <2>4, <3>1, SeqMonotonic
  <2>6. t.blocks[b] \in Seq(EntrySet(b))
    BY DEF Layout
  <2> HIDE DEF S
  <2>7. t.blocks[b] \o Entries(F[b][k - 1] \o BlockCells(b, rows[k]))
          = (t.blocks[b] \o Entries(F[b][k - 1])) \o Entries(BlockCells(b, rows[k]))
    <3> DEFINE x == F[b][k - 1]
               y == BlockCells(b, rows[k])
               old == t.blocks[b]
               E == EntrySet(b)
    <3>1. x \in Seq(S) /\ y \in Seq(S) /\ old \in Seq(E)
      BY <2>5, <2>6
    <3> HIDE DEF x, y, old, E
    <3>2. old \o Entries(x \o y) = (old \o Entries(x)) \o Entries(y)
      BY <3>1, OneMoreRow
    <3>3. QED BY <3>2 DEF x, y, old
  <2>8. u.blocks[b] = t.blocks[b] \o Entries(F[b][k - 1])
    BY DEF Stage
  <2>9. QED BY <2>3, <2>7, <2>8
<1> HIDE DEF u
<1>7. Stage(t, number, F, B, k) = PushRow(u, rows[k], number)
  BY <1>3, <1>4, <1>5, <1>6 DEF Stage, PushRow
<1>8. QED BY <1>7 DEF u

\* What is read back of rows that belong to one call.
ReadBacks(rows, number) == [i \in 1..Len(rows) |-> ReadBack(rows[i], number)]

LEMMA LastStage ==
  ASSUME NEW t, Layout(t), NEW X, NEW rows \in Seq(X), NEW number \in Nat, PacksAlike(rows),
         NEW C, NEW F, NEW B, Unrolled(F, B, C, rows)
  PROVE  Stage(t, number, F, B, Len(rows)) = Pack(t, rows, number)
<1>1. DOMAIN rows = 1..Len(rows) /\ Len(rows) \in Nat
  BY LenProperties
<1>2. Len(BitRows(rows)) = Len(rows) /\ \A b \in Blocks : Len(BlockRows(b, rows)) = Len(rows)
  BY <1>1 DEF BitRows, BlockRows
<1>3. B[Len(rows)] = FlattenSeq(BitRows(rows))
  BY <1>2 DEF Unrolls, Unrolled
<1>4. ASSUME NEW b \in Blocks
      PROVE  Entries(F[b][Len(rows)]) = IF b = "string" THEN PackStrings(rows) ELSE PackFixed(b, rows)
  <2>1. F[b][Len(rows)] = FlattenSeq(BlockRows(b, rows))
    BY <1>2 DEF Unrolls, Unrolled
  <2>2. FlattenSeq(BlockRows(b, rows)) = BatchCells(b, rows)
    BY Zenon DEF BatchCells, BlockRows
  <2>3. QED BY <2>1, <2>2, Zenon DEF PacksAlike
<1>5. [i \in 1..Len(rows) |-> number] = [r \in DOMAIN rows |-> number]
  BY <1>1, Zenon
<1>6. FlattenSeq(BitRows(rows)) = FlattenSeq([r \in DOMAIN rows |-> NullBits(rows[r])])
  BY Zenon DEF BitRows
<1>7. [b \in Blocks |-> t.blocks[b] \o Entries(F[b][Len(rows)])]
        = [b \in Blocks |-> t.blocks[b] \o
             (IF b = "string" THEN PackStrings(rows) ELSE PackFixed(b, rows))]
  BY <1>4
<1>8. QED BY <1>3, <1>5, <1>6, <1>7, Zenon DEF Stage, Pack

(* A concatenation, one element of its second part at a time.                *)
LEMMA ConcatGrows ==
  ASSUME NEW S, NEW q \in Seq(S), NEW d \in Seq(S), NEW k \in 1..Len(d)
  PROVE  /\ SubSeq(q \o d, 1, Len(q) + (k - 1)) \in Seq(S)
         /\ Append(SubSeq(q \o d, 1, Len(q) + (k - 1)), d[k]) = SubSeq(q \o d, 1, Len(q) + k)
<1> DEFINE s == q \o d
           j == Len(q) + (k - 1)
<1>1. Len(q) \in Nat /\ Len(d) \in Nat
  BY LenProperties
<1>2. s \in Seq(S) /\ Len(s) = Len(q) + Len(d)
  BY ConcatProperties
<1>3. s[Len(q) + k] = d[k]
  BY ConcatLater
<1>4. j \in Nat /\ j < Len(s) /\ j + 1 = Len(q) + k
  BY <1>1, <1>2
<1> HIDE DEF s, j
<1>5. Append(SubSeq(s, 1, j), s[j + 1]) = SubSeq(s, 1, j + 1)
  BY <1>2, <1>4, OneMore
<1>6. SubSeq(s, 1, j) \in Seq(S)
  <2>1. \A i \in 1..j : s[i] \in S
    BY <1>1, <1>2, <1>4, ElementOfSeq
  <2>2. QED BY <1>4, <2>1, SubSeqProperties
<1>7. QED BY <1>3, <1>4, <1>5, <1>6 DEF s, j

LEMMA ConcatWhole ==
  ASSUME NEW S, NEW q \in Seq(S), NEW d \in Seq(S)
  PROVE  SubSeq(q \o d, 1, Len(q) + Len(d)) = q \o d
<1> DEFINE s == q \o d
<1>1. s \in Seq(S) /\ Len(s) = Len(q) + Len(d)
  BY ConcatProperties
<1> HIDE DEF s
<1>2. SubSeq(s, 1, Len(s)) = s
  BY <1>1, SubSeqFull
<1>3. QED BY <1>1, <1>2 DEF s

(* What has been packed reads back behind what was there.                    *)
LEMMA PackReadsBack ==
  ASSUME NEW t, Layout(t), NEW X, NEW rows \in Seq(X), NEW number \in Nat, PacksAlike(rows),
         NEW S, Decode(t) \in Seq(S),
         \A i \in 1..Len(rows) : Storable(rows[i]) /\ ReadBack(rows[i], number) \in S
  PROVE  /\ Layout(Pack(t, rows, number))
         /\ Decode(Pack(t, rows, number)) = Decode(t) \o ReadBacks(rows, number)
<1>1. PICK C, F, B : Unrolled(F, B, C, rows)
  BY RowsUnroll, Zenon
<1> DEFINE q == Decode(t)
           d == ReadBacks(rows, number)
           m == Len(q)
           n == Len(rows)
           T(k) == Stage(t, number, F, B, k)
           s == q \o d
           Q(k) == SubSeq(s, 1, m + k)
           Good(k) == Layout(T(k)) /\ Decode(T(k)) = Q(k)
           Bad == {k \in 0..n : ~Good(k)}
<1>3. n \in Nat /\ m \in Nat
  BY LenProperties
<1>4. d \in Seq(S) /\ Len(d) = n
  <2>1. d \in [1..n -> S]
    BY DEF ReadBacks
  <2> HIDE DEF d
  <2>2. QED BY <1>3, <2>1
<1>5. \A i \in 1..n : d[i] = ReadBack(rows[i], number)
  BY DEF ReadBacks
<1>16. q \in Seq(S)
  OBVIOUS
<1> HIDE DEF d, q
<1>7. Good(0)
  <2>1. T(0) = t
    <3>2. B[0] = <<>> /\ \A b \in Blocks : F[b][0] = <<>>
      BY <1>1 DEF Unrolls, Unrolled
    <3>3. QED BY <3>2, FirstStage
  <2>2. Q(0) = q
    <3>1. SubSeq(q \o d, 1, Len(q)) = q
      BY <1>4, <1>16, FirstPart
    <3>2. m + 0 = Len(q)
      BY <1>3
    <3>3. QED BY <3>1, <3>2
  <2>3. Layout(t) /\ Decode(t) = Q(0)
    BY <2>2, Zenon DEF q
  <2> HIDE DEF Q, T, q
  <2>5. 0 = 0 /\ T(0) = t /\ Decode(t) = Q(0)
    BY <2>1, <2>3, Zenon
  <2>6. Decode(T(0)) = Q(0) /\ Layout(T(0))
    BY <2>1, <2>3, Zenon
  <2>4. QED BY <2>6, Zenon
<1>8. ASSUME NEW k \in 1..n, Good(k - 1)
      PROVE  Good(k)
  <2>1. T(k) = PushRow(T(k - 1), rows[k], number)
    <3>1. k \in 1..Len(rows)
      OBVIOUS
    <3>2. QED BY <1>1, <3>1, NextStage
  <2>3. Q(k - 1) \in Seq(S) /\ Append(Q(k - 1), d[k]) = Q(k)
    <3>1. k \in 1..Len(d)
      BY <1>4
    <3>2. QED BY <1>4, <1>16, <3>1, ConcatGrows
  <2>5. Storable(rows[k]) /\ ReadBack(rows[k], number) \in S /\ d[k] = ReadBack(rows[k], number)
    BY <1>5
  <2>6. Layout(T(k - 1)) /\ Decode(T(k - 1)) = Q(k - 1)
    BY <1>8
  <2> HIDE DEF T, Q
  <2>7. /\ Layout(PushRow(T(k - 1), rows[k], number))
        /\ Decode(PushRow(T(k - 1), rows[k], number))
             = Append(Decode(T(k - 1)), ReadBack(rows[k], number))
    BY <2>3, <2>5, <2>6, PushReadsBack
  <2>8. QED BY <2>1, <2>3, <2>5, <2>6, <2>7
<1>9. Bad = {}
  <2> HIDE DEF Good
  <2>1. SUFFICES ASSUME Bad # {}
                 PROVE  FALSE
    OBVIOUS
  <2>2. PICK k \in Bad : \A j \in Bad : k <= j
    <3>1. Bad \in SUBSET Nat
      BY <1>3
    <3>2. QED BY <2>1, <3>1, LeastNumber, Zenon
  <2>3. k \in 1..n /\ k - 1 \in 0..n /\ ~(k <= k - 1)
    BY <1>3, <1>7, <2>2
  <2>4. Good(k - 1)
    BY <2>2, <2>3
  <2>5. QED BY <1>8, <2>2, <2>3, <2>4
<1>10. Good(n)
  <2> HIDE DEF Good
  <2>1. QED BY <1>3, <1>9
<1>11. Q(n) = s
  <2>1. SubSeq(q \o d, 1, Len(q) + Len(d)) = q \o d
    BY <1>4, <1>16, ConcatWhole, Zenon
  <2>2. QED BY <1>4, <2>1, Zenon
<1>12. T(n) = Pack(t, rows, number)
  BY <1>1, LastStage
<1> HIDE DEF T, Q
<1>13. QED BY <1>10, <1>11, <1>12 DEF d, q

-----------------------------------------------------------------------------
(* The first day of a year, and the days before a month of it.               *)
YearStart(year) == 365 * (year - 1970) + LeapYearsUpTo(year - 1) - LeapYearsUpTo(1969)

LeapDays(year) == IF IsLeap(year) THEN 1 ELSE 0

LEMMA YearLengths ==
  ASSUME NEW year \in Int
  PROVE  /\ YearStart(year) \in Int /\ YearLength(IsLeap(year)) = 365 + LeapDays(year)
         /\ YearStart(year + 1) = YearStart(year) + 365 + LeapDays(year)
BY DEF YearStart, LeapYearsUpTo, YearLength, LeapDays, IsLeap

LEMMA YearStartType == \A year \in Int : YearStart(year) \in Int /\ LeapDays(year) \in 0..1
BY YearLengths DEF LeapDays

LEMMA YearsApart ==
  ASSUME NEW early \in Int, NEW late \in Int, early < late
  PROVE  YearStart(early) + 365 + LeapDays(early) <= YearStart(late)
<1>1. YearStart(early + 1) <= YearStart(late)
  BY DEF YearStart, LeapYearsUpTo
<1>2. QED BY <1>1, YearLengths

\* The days before a month: civil_from_days counts them from the 1st of March.
LEMMA MonthTable ==
  ASSUME NEW leap \in BOOLEAN, NEW month \in Int, 1 <= month, month <= 12
  PROVE  DaysBeforeMonth(leap)[month] =
           IF month <= 2 THEN 31 * (month - 1)
           ELSE (153 * (month - 3) + 2) \div 5 + 59 + (IF leap THEN 1 ELSE 0)
<1>1. \/ month = 1 \/ month = 2 \/ month = 3 \/ month = 4 \/ month = 5 \/ month = 6 \/ month = 7
      \/ month = 8 \/ month = 9 \/ month = 10 \/ month = 11 \/ month = 12
  OBVIOUS
<1>2. QED BY <1>1 DEF DaysBeforeMonth

LEMMA MonthEnds ==
  ASSUME NEW year \in Int, NEW month \in Int, 1 <= month, month <= 12
  PROVE  /\ MonthLength(year, month) \in 28..31
         /\ DaysBeforeMonth(IsLeap(year))[month] + MonthLength(year, month) =
              IF month < 12 THEN DaysBeforeMonth(IsLeap(year))[month + 1] ELSE 365 + LeapDays(year)
<1>1. \/ month = 1 \/ month = 2 \/ month = 3 \/ month = 4 \/ month = 5 \/ month = 6 \/ month = 7
      \/ month = 8 \/ month = 9 \/ month = 10 \/ month = 11 \/ month = 12
  OBVIOUS
<1>2. IsLeap(year) \in BOOLEAN
  BY DEF IsLeap
<1>3. QED BY <1>1, <1>2 DEF DaysBeforeMonth, MonthLength, LeapDays

-----------------------------------------------------------------------------
LEMMA EraYear ==
  ASSUME NEW doe \in Int, 0 <= doe, doe <= 146096, NEW y \in Int, y = YearOfEra(doe),
         NEW doy \in Int, doy = doe - (365 * y + y \div 4 - y \div 100)
  PROVE  /\ 0 <= y /\ y <= 399 /\ 0 <= doy /\ doy <= 365
         /\ doy = 365 => (y + 1) % 4 = 0 /\ ((y + 1) % 100 # 0 \/ y = 399)
BY DEF YearOfEra

IsDate(d) == /\ d = Date(d.year, d.month, d.day)
             /\ d.year \in Int /\ d.month \in 1..12 /\ d.day \in 1..MonthLength(d.year, d.month)

LEMMA MonthOfDay ==
  ASSUME NEW doy \in Int, 0 <= doy, doy <= 365, NEW mp \in Int, mp = (5 * doy + 2) \div 153
  PROVE  /\ 0 <= mp /\ mp <= 11
         /\ (153 * mp + 2) \div 5 <= doy
         /\ mp <= 10 => doy < (153 * (mp + 1) + 2) \div 5
         /\ doy < 306 <=> mp < 10
OBVIOUS

(* civil_from_days names a date of the calendar, and the one of that day.    *)
LEMMA CivilDay ==
  ASSUME NEW days \in Int
  PROVE  IsDate(CivilFromDays(days)) /\ DayNumber(CivilFromDays(days)) = days
<1> DEFINE z   == days + 719468
           era == z \div 146097
           doe == z % 146097
           y   == YearOfEra(doe)
           doy == doe - (365 * y + y \div 4 - y \div 100)
           mp  == (5 * doy + 2) \div 153
           month == IF mp < 10 THEN mp + 3 ELSE mp - 9
           year  == y + era * 400 + (IF month <= 2 THEN 1 ELSE 0)
           day   == doy - (153 * mp + 2) \div 5 + 1
<1>1. CivilFromDays(days) = Date(year, month, day)
  BY DEF CivilFromDays
<1>2. /\ z \in Int /\ era \in Int /\ doe \in Int /\ 0 <= doe /\ doe <= 146096
      /\ days = 146097 * era + doe - 719468
  OBVIOUS
<1> HIDE DEF z, era, doe
<1>3. y \in Int
  BY <1>2 DEF YearOfEra
<1>4. doy \in Int
  BY <1>2, <1>3
<1>5. /\ 0 <= y /\ y <= 399 /\ 0 <= doy /\ doy <= 365
      /\ doy = 365 => (y + 1) % 4 = 0 /\ ((y + 1) % 100 # 0 \/ y = 399)
  BY <1>2, <1>3, <1>4, EraYear
<1>6. doe = 365 * y + y \div 4 - y \div 100 + doy
  BY <1>2, <1>3
<1> HIDE DEF y, doy
<1>7. mp \in Int
  BY <1>4
<1>8. /\ 0 <= mp /\ mp <= 11 /\ (153 * mp + 2) \div 5 <= doy
      /\ mp <= 10 => doy < (153 * (mp + 1) + 2) \div 5
      /\ doy < 306 <=> mp < 10
  BY <1>4, <1>5, <1>7, MonthOfDay
<1> HIDE DEF mp
<1>9. /\ month \in Int /\ 1 <= month /\ month <= 12 /\ (month <= 2 <=> mp >= 10)
      /\ mp < 10 => month = mp + 3
      /\ mp >= 10 => month = mp - 9
  BY <1>7, <1>8
<1> HIDE DEF month
<1>10. /\ year \in Int /\ (mp < 10 => year = y + era * 400) /\ (mp >= 10 => year = y + era * 400 + 1)
  BY <1>2, <1>3, <1>7, <1>9
<1>11. day \in Int /\ day = doy - (153 * mp + 2) \div 5 + 1
  BY <1>4, <1>7
<1> HIDE DEF year, day
<1>12. /\ mp < 10 => year % 4 = y % 4 /\ year % 100 = y % 100 /\ year % 400 = y
       /\ mp >= 10 => /\ year % 4 = (y + 1) % 4 /\ year % 100 = (y + 1) % 100
                      /\ year % 400 = (y + 1) % 400
  BY <1>2, <1>3, <1>5, <1>10
<1>13. IsLeap(year) \in BOOLEAN
  BY DEF IsLeap
<1>14. /\ DaysBeforeMonth(IsLeap(year))[month] =
            IF month <= 2 THEN 31 * (month - 1)
            ELSE (153 * (month - 3) + 2) \div 5 + 59 + LeapDays(year)
       /\ month < 12 => DaysBeforeMonth(IsLeap(year))[month + 1] =
            IF month <= 1 THEN 31 * month
            ELSE (153 * (month - 2) + 2) \div 5 + 59 + LeapDays(year)
  BY <1>9, <1>13, MonthTable DEF LeapDays
<1>15. LeapDays(year) \in 0..1 /\ (IsLeap(year) <=> LeapDays(year) = 1)
  BY DEF LeapDays
<1>16. day >= 1
  BY <1>4, <1>7, <1>8, <1>11
<1>17. day <= MonthLength(year, month)
  <2>1. /\ MonthLength(year, month) \in 28..31
        /\ DaysBeforeMonth(IsLeap(year))[month] + MonthLength(year, month) =
             IF month < 12 THEN DaysBeforeMonth(IsLeap(year))[month + 1] ELSE 365 + LeapDays(year)
    BY <1>9, <1>10, MonthEnds
  <2>2. CASE mp < 9
    BY <1>4, <1>7, <1>8, <1>9, <1>11, <1>14, <1>15, <2>1, <2>2
  <2>3. CASE mp = 9
    BY <1>4, <1>7, <1>8, <1>9, <1>11, <1>14, <1>15, <2>1, <2>3
  <2>4. CASE mp = 10
    BY <1>4, <1>7, <1>8, <1>9, <1>11, <1>14, <1>15, <2>1, <2>4
  <2>5. CASE mp = 11
    <3>1. month = 2 /\ day = doy - 337 + 1
      BY <1>9, <1>11, <2>5
    <3>2. doy = 365 => IsLeap(year)
      BY <1>3, <1>5, <1>10, <1>12, <2>5 DEF IsLeap
    <3>3. MonthLength(year, month) = 28 + LeapDays(year)
      BY <3>1, <1>15 DEF MonthLength
    <3>4. QED BY <1>4, <1>5, <1>15, <3>1, <3>2, <3>3
  <2>6. QED BY <1>7, <1>8, <2>2, <2>3, <2>4, <2>5
<1>18. IsDate(Date(year, month, day))
  <2>1. MonthLength(year, month) \in Int
    BY <1>9, <1>10, MonthEnds
  <2>2. QED BY <1>9, <1>10, <1>11, <1>16, <1>17, <2>1 DEF IsDate, Date
<1>19. DayNumber(Date(year, month, day)) = days
  <2>1. DayNumber(Date(year, month, day)) =
          YearStart(year) + DaysBeforeMonth(IsLeap(year))[month] + day - 1
    BY DEF DayNumber, YearStart, Date
  <2>2. CASE mp < 10
    <3>1. YearStart(year) + LeapDays(year) = 365 * (year - 1970) + LeapYearsUpTo(year) - 477
      BY <1>10 DEF YearStart, LeapDays, LeapYearsUpTo, IsLeap
    <3>2. LeapYearsUpTo(year) = y \div 4 - y \div 100 + 97 * era
      BY <1>2, <1>3, <1>5, <1>10, <2>2 DEF LeapYearsUpTo
    <3>3. DaysBeforeMonth(IsLeap(year))[month] = (153 * mp + 2) \div 5 + 59 + LeapDays(year)
      BY <1>7, <1>9, <1>14, <2>2
    <3>4. YearStart(year) \in Int
      BY <1>10, YearLengths
    <3>5. YearStart(year) + LeapDays(year) = 365 * (y + era * 400 - 1970) + y \div 4 - y \div 100 + 97 * era - 477
      BY <1>2, <1>3, <1>10, <2>2, <3>1, <3>2
    <3>6. QED
      BY <1>2, <1>3, <1>4, <1>6, <1>7, <1>11, <1>15, <2>1, <3>3, <3>4, <3>5
  <2>3. CASE mp >= 10
    <3>1. YearStart(year) = 365 * (year - 1970) + LeapYearsUpTo(year - 1) - 477
      BY <1>10 DEF YearStart, LeapYearsUpTo
    <3>2. LeapYearsUpTo(year - 1) = y \div 4 - y \div 100 + 97 * era
      BY <1>2, <1>3, <1>5, <1>10, <2>3 DEF LeapYearsUpTo
    <3>3. DaysBeforeMonth(IsLeap(year))[month] = 31 * (mp - 10)
      BY <1>7, <1>9, <1>14, <2>3
    <3>4. (153 * mp + 2) \div 5 = 306 + 31 * (mp - 10)
      BY <1>7, <1>8, <2>3
    <3>5. QED
      BY <1>2, <1>3, <1>4, <1>6, <1>7, <1>10, <1>11, <2>1, <2>3, <3>1, <3>2, <3>3, <3>4
  <2>4. QED BY <1>7, <2>2, <2>3
<1>20. QED BY <1>1, <1>18, <1>19

LEMMA DateType == ASSUME NEW date, IsDate(date)
  PROVE /\ date.year \in Int /\ date.month \in Int /\ date.day \in Int
        /\ 1 <= date.month /\ date.month <= 12 /\ 1 <= date.day /\ date.day <= MonthLength(date.year, date.month)
        /\ MonthLength(date.year, date.month) \in Int /\ MonthLength(date.year, date.month) <= 31
<1>1. date.year \in Int /\ date.month \in Int /\ 1 <= date.month /\ date.month <= 12
  BY DEF IsDate
<1>2. MonthLength(date.year, date.month) \in 28..31
  BY <1>1, MonthEnds
<1>3. QED BY <1>1, <1>2 DEF IsDate

\* The days of a year before a date of it.
DayOfYear(date) == DaysBeforeMonth(IsLeap(date.year))[date.month] + date.day - 1

LEMMA DayWithinYear ==
  ASSUME NEW date, IsDate(date)
  PROVE  /\ DayOfYear(date) \in Int /\ 0 <= DayOfYear(date) /\ DayOfYear(date) < 365 + LeapDays(date.year)
         /\ DayNumber(date) = YearStart(date.year) + DayOfYear(date)
         /\ DaysBeforeMonth(IsLeap(date.year))[date.month] <= DayOfYear(date)
         /\ date.month < 12 => DayOfYear(date) < DaysBeforeMonth(IsLeap(date.year))[date.month + 1]
<1>1. /\ date.year \in Int /\ date.month \in Int /\ date.day \in Int
      /\ 1 <= date.month /\ date.month <= 12 /\ 1 <= date.day /\ date.day <= MonthLength(date.year, date.month)
      /\ MonthLength(date.year, date.month) \in Int
  BY DateType
<1> DEFINE year == date.year
           month == date.month
           before == DaysBeforeMonth(IsLeap(year))
<1>2. IsLeap(year) \in BOOLEAN
  BY DEF IsLeap
<1>3. /\ before[month] = IF month <= 2 THEN 31 * (month - 1)
                         ELSE (153 * (month - 3) + 2) \div 5 + 59 + LeapDays(year)
      /\ month < 12 => before[month + 1] =
            IF month <= 1 THEN 31 * month
            ELSE (153 * (month - 2) + 2) \div 5 + 59 + LeapDays(year)
  BY <1>1, <1>2, MonthTable DEF LeapDays
<1>4. before[month] + MonthLength(year, month) = IF month < 12 THEN before[month + 1] ELSE 365 + LeapDays(year)
  BY <1>1, MonthEnds
<1>5. LeapDays(year) \in 0..1
  BY DEF LeapDays
<1>12. year \in Int /\ month \in Int /\ 1 <= month /\ month <= 12
  BY <1>1
<1> HIDE DEF year, month, before
<1>7. before[month] \in Int /\ 0 <= before[month] /\ (month < 12 => before[month + 1] \in Int /\ before[month + 1] <= 365 + LeapDays(year))
  BY <1>3, <1>5, <1>12
<1>8. DayOfYear(date) = before[month] + date.day - 1
  BY DEF DayOfYear, before, month, year
<1>9. date.day <= MonthLength(year, month) /\ 1 <= date.day /\ date.day \in Int /\ MonthLength(year, month) \in Int /\ month \in Int /\ LeapDays(year) \in Int
  BY <1>1, <1>5 DEF year, month
<1>6. DayNumber(date) = YearStart(year) + DayOfYear(date)
  <2>1. DayNumber(date) = YearStart(year) + before[month] + date.day - 1
    BY DEF DayNumber, YearStart, year, before, month
  <2>2. YearStart(year) \in Int
    BY <1>12, YearStartType
  <2>3. QED BY <1>7, <1>8, <1>9, <2>1, <2>2
<1>10. /\ DayOfYear(date) \in Int /\ 0 <= DayOfYear(date) /\ DayOfYear(date) < 365 + LeapDays(year)
       /\ before[month] <= DayOfYear(date)
       /\ month < 12 => DayOfYear(date) < before[month + 1]
  BY <1>4, <1>7, <1>8, <1>9
<1>11. QED BY <1>6, <1>10 DEF before, month, year

(* No two dates have the same number.                                        *)
LEMMA OneDateADay ==
  ASSUME NEW x, IsDate(x), NEW y, IsDate(y), DayNumber(x) = DayNumber(y)
  PROVE  x = y
<1>1. /\ x.year \in Int /\ x.month \in Int /\ x.day \in Int /\ 1 <= x.month /\ x.month <= 12
      /\ y.year \in Int /\ y.month \in Int /\ y.day \in Int /\ 1 <= y.month /\ y.month <= 12
  BY DateType
<1>2. /\ YearStart(x.year) \in Int /\ YearStart(y.year) \in Int
      /\ x.year < y.year => YearStart(x.year) + 365 + LeapDays(x.year) <= YearStart(y.year)
      /\ y.year < x.year => YearStart(y.year) + 365 + LeapDays(y.year) <= YearStart(x.year)
  <2>1. x.year < y.year => YearStart(x.year) + 365 + LeapDays(x.year) <= YearStart(y.year)
    BY <1>1, YearsApart
  <2>2. y.year < x.year => YearStart(y.year) + 365 + LeapDays(y.year) <= YearStart(x.year)
    BY <1>1, YearsApart
  <2>3. QED BY <1>1, <2>1, <2>2, YearStartType
<1>3. LeapDays(x.year) \in Int /\ LeapDays(y.year) \in Int
  BY DEF LeapDays
<1>4. x.year = y.year
  BY <1>1, <1>2, <1>3, DayWithinYear
<1>5. DayOfYear(x) = DayOfYear(y)
  BY <1>2, <1>4, DayWithinYear
<1> DEFINE before == DaysBeforeMonth(IsLeap(x.year))
<1>6. \A m \in Int : 1 <= m /\ m <= 12 =>
        before[m] = IF m <= 2 THEN 31 * (m - 1)
                    ELSE (153 * (m - 3) + 2) \div 5 + 59 + LeapDays(x.year)
  <2>1. IsLeap(x.year) \in BOOLEAN
    BY DEF IsLeap
  <2>2. QED BY <2>1, MonthTable DEF LeapDays
<1>7. LeapDays(x.year) \in 0..1
  BY DEF LeapDays
<1>8. /\ before[x.month] <= DayOfYear(x) /\ before[y.month] <= DayOfYear(x)
      /\ x.month < 12 => DayOfYear(x) < before[x.month + 1]
      /\ y.month < 12 => DayOfYear(x) < before[y.month + 1]
  BY <1>4, <1>5, DayWithinYear
<1>9. DayOfYear(x) \in Int
  BY DayWithinYear
<1> HIDE DEF before
<1>10. x.month = y.month
  <2>1. ~(x.month < y.month)
    <3>1. SUFFICES ASSUME x.month < y.month PROVE FALSE
      OBVIOUS
    <3>2. before[x.month + 1] <= before[y.month]
      BY <1>1, <1>6, <1>7, <3>1
    <3>3. before[x.month + 1] \in Int /\ before[y.month] \in Int
      BY <1>1, <1>6, <1>7, <3>1
    <3>4. QED BY <1>1, <1>8, <1>9, <3>1, <3>2, <3>3
  <2>2. ~(y.month < x.month)
    <3>1. SUFFICES ASSUME y.month < x.month PROVE FALSE
      OBVIOUS
    <3>2. before[y.month + 1] <= before[x.month]
      BY <1>1, <1>6, <1>7, <3>1
    <3>3. before[y.month + 1] \in Int /\ before[x.month] \in Int
      BY <1>1, <1>6, <1>7, <3>1
    <3>4. QED BY <1>1, <1>8, <1>9, <3>1, <3>2, <3>3
  <2>3. QED BY <1>1, <2>1, <2>2
<1>11. x.day = y.day
  <2>1. before[x.month] \in Int
    BY <1>1, <1>6, <1>7
  <2>2. before[x.month] + x.day - 1 = before[x.month] + y.day - 1
    BY <1>4, <1>5, <1>10 DEF DayOfYear, before
  <2>3. QED BY <1>1, <2>1, <2>2
<1>12. QED BY <1>4, <1>10, <1>11 DEF IsDate

(* One day further is the next date.                                         *)
LEMMA NextDate ==
  ASSUME NEW date, IsDate(date)
  PROVE  IsDate(NextDay(date)) /\ DayNumber(NextDay(date)) = DayNumber(date) + 1
<1> DEFINE y == date.year
           m == date.month
           d == date.day
           before == DaysBeforeMonth(IsLeap(y))
<1>1. /\ y \in Int /\ m \in Int /\ d \in Int
      /\ 1 <= m /\ m <= 12 /\ 1 <= d /\ d <= MonthLength(y, m) /\ MonthLength(y, m) \in Int
  BY DateType
<1>2. before[m] + MonthLength(y, m) = IF m < 12 THEN before[m + 1] ELSE 365 + LeapDays(y)
  BY <1>1, MonthEnds
<1>3. DayNumber(date) = YearStart(y) + before[m] + d - 1
  BY DEF DayNumber, YearStart
<1>4. YearStart(y) \in Int /\ YearStart(y + 1) = YearStart(y) + 365 + LeapDays(y) /\ LeapDays(y) \in Int
  BY <1>1, YearLengths, YearStartType
<1>5. before[m] \in Int
  BY <1>1 DEF DaysBeforeMonth, IsLeap
<1>6. \A year \in Int, month \in Int, day \in Int :
        1 <= month /\ month <= 12 /\ 1 <= day /\ day <= MonthLength(year, month)
          => /\ IsDate(Date(year, month, day))
             /\ DayNumber(Date(year, month, day))
                  = YearStart(year) + DaysBeforeMonth(IsLeap(year))[month] + day - 1
  <2> TAKE year \in Int, month \in Int, day \in Int
  <2> HAVE 1 <= month /\ month <= 12 /\ 1 <= day /\ day <= MonthLength(year, month)
  <2>1. MonthLength(year, month) \in Int
    BY MonthEnds
  <2>2. QED BY <2>1 DEF IsDate, Date, DayNumber, YearStart
<1>7. CASE d < MonthLength(y, m)
  <2>1. NextDay(date) = Date(y, m, d + 1)
    BY <1>7 DEF NextDay
  <2>2. /\ IsDate(Date(y, m, d + 1))
        /\ DayNumber(Date(y, m, d + 1)) = YearStart(y) + before[m] + (d + 1) - 1
    <3> HIDE DEF y, m, d
    <3>1. QED BY <1>1, <1>6, <1>7 DEF before
  <2> HIDE DEF y, m, d, before
  <2>3. QED BY <1>1, <1>3, <1>4, <1>5, <2>1, <2>2
<1>8. CASE ~(d < MonthLength(y, m)) /\ m < 12
  <2>1. NextDay(date) = Date(y, m + 1, 1)
    BY <1>8 DEF NextDay
  <2>2. IsDate(Date(y, m + 1, 1)) /\ DayNumber(Date(y, m + 1, 1)) = YearStart(y) + before[m + 1]
    <3> HIDE DEF y, m, d
    <3>1. m + 1 \in Int /\ 1 <= m + 1 /\ m + 1 <= 12
      BY <1>1, <1>8
    <3>2. 1 <= MonthLength(y, m + 1)
      BY <1>1, <3>1, MonthEnds
    <3>3. DayNumber(Date(y, m + 1, 1)) = YearStart(y) + before[m + 1] + 1 - 1
      BY <1>1, <1>6, <3>1, <3>2 DEF before
    <3>4. before[m + 1] \in Int
      BY <3>1 DEF before, DaysBeforeMonth, IsLeap
    <3>5. QED BY <1>1, <1>4, <1>6, <3>1, <3>2, <3>3, <3>4
  <2> HIDE DEF y, m, d, before
  <2>3. QED BY <1>1, <1>2, <1>3, <1>4, <1>5, <1>8, <2>1, <2>2
<1>9. CASE ~(d < MonthLength(y, m)) /\ ~(m < 12)
  <2>1. NextDay(date) = Date(y + 1, 1, 1)
    BY <1>9 DEF NextDay
  <2>2. IsDate(Date(y + 1, 1, 1)) /\ DayNumber(Date(y + 1, 1, 1)) = YearStart(y + 1)
    <3> HIDE DEF y, m, d
    <3>1. y + 1 \in Int /\ 1 <= MonthLength(y + 1, 1)
      BY <1>1, MonthEnds
    <3>2. DaysBeforeMonth(IsLeap(y + 1))[1] = 0
      BY DEF DaysBeforeMonth
    <3>3. YearStart(y + 1) \in Int
      BY <3>1, YearStartType
    <3>4. QED BY <1>6, <3>1, <3>2, <3>3
  <2> HIDE DEF y, m, d, before
  <2>3. QED BY <1>1, <1>2, <1>3, <1>4, <1>5, <1>9, <2>1, <2>2
<1>10. QED BY <1>7, <1>8, <1>9

(* civil_from_days follows the proleptic Gregorian calendar chrono has, from  *)
(* any day to any other: day 0 is 1970-01-01, the date of the next day is the *)
(* next date, and the number of a day's date is the day.                      *)
THEOREM CivilFromDaysFollowsCalendar == \A first, last \in Int : FollowsCalendar(first, last)
<1>1. CivilFromDays(0) = Date(1970, 1, 1)
  <2>1. IsDate(Date(1970, 1, 1)) /\ DayNumber(Date(1970, 1, 1)) = 0
    <3>1. YearStart(1970) = 0
      BY DEF YearStart, LeapYearsUpTo
    <3>2. DaysBeforeMonth(IsLeap(1970))[1] = 0 /\ MonthLength(1970, 1) = 31
      BY DEF DaysBeforeMonth, MonthLength
    <3>3. QED BY <3>1, <3>2 DEF IsDate, Date, DayNumber, YearStart
  <2>2. IsDate(CivilFromDays(0)) /\ DayNumber(CivilFromDays(0)) = 0
    BY CivilDay
  <2>3. QED BY <2>1, <2>2, OneDateADay
<1>2. ASSUME NEW d \in Int
      PROVE  CivilFromDays(d + 1) = NextDay(CivilFromDays(d)) /\ DayNumber(CivilFromDays(d)) = d
  <2>1. IsDate(CivilFromDays(d)) /\ DayNumber(CivilFromDays(d)) = d
    BY CivilDay
  <2>2. IsDate(NextDay(CivilFromDays(d))) /\ DayNumber(NextDay(CivilFromDays(d))) = d + 1
    BY <2>1, NextDate
  <2>3. IsDate(CivilFromDays(d + 1)) /\ DayNumber(CivilFromDays(d + 1)) = d + 1
    BY CivilDay
  <2>4. QED BY <2>1, <2>2, <2>3, OneDateADay
<1>3. QED BY <1>1, <1>2 DEF FollowsCalendar

(* The date of a day, wherever it is taken from.                             *)
LEMMA DateOfDay ==
  ASSUME NEW days \in Int
  PROVE  /\ IsDate(DateOf(days)) /\ DayNumber(DateOf(days)) = days
         /\ \A date : IsDate(date) /\ DayNumber(date) = days => date = DateOf(days)
<1> DEFINE y == 1970 + (400 * days) \div 146097
           S == [year : LET y1 == 1970 + (400 * days) \div 146097 IN y1 - 1 .. y1 + 1, month : 1..12, day : 1..31]
           c == CivilFromDays(days)
           Is(date) == date.day <= MonthLength(date.year, date.month) /\ DayNumber(date) = days
<1>1. IsDate(c) /\ DayNumber(c) = days
  BY CivilDay
<1> HIDE DEF c
<1>2. /\ c.year \in Int /\ c.month \in Int /\ c.day \in Int
      /\ 1 <= c.month /\ c.month <= 12 /\ 1 <= c.day /\ c.day <= MonthLength(c.year, c.month)
      /\ MonthLength(c.year, c.month) \in Int /\ MonthLength(c.year, c.month) <= 31
  BY <1>1, DateType
<1>3. c.year \in (y - 1)..(y + 1)
  <2>1. /\ YearStart(c.year) <= days /\ days < YearStart(c.year) + 365 + LeapDays(c.year)
        /\ YearStart(c.year) \in Int
    <3>1. YearStart(c.year) \in Int
      BY <1>2, YearStartType
    <3>2. /\ DayOfYear(c) \in Int /\ 0 <= DayOfYear(c) /\ DayOfYear(c) < 365 + LeapDays(c.year)
          /\ days = YearStart(c.year) + DayOfYear(c)
      BY <1>1, DayWithinYear
    <3>3. LeapDays(c.year) \in 0..1
      BY <1>2, YearStartType
    <3>4. QED BY <3>1, <3>2, <3>3
  <2>2. LeapDays(c.year) \in 0..1
    BY DEF LeapDays
  <2>3. YearStart(c.year) = 365 * (c.year - 1970) + (c.year - 1) \div 4 - (c.year - 1) \div 100 + (c.year - 1) \div 400 - 477
    BY <1>2 DEF YearStart, LeapYearsUpTo
  <2>4. QED BY <1>2, <2>1, <2>2, <2>3
<1>4. c \in S /\ Is(c)
  BY <1>1, <1>2, <1>3 DEF IsDate, Date
<1>5. DateOf(days) \in S /\ Is(DateOf(days))
  <2> HIDE DEF Is
  <2>1. (CHOOSE date \in S : Is(date)) \in S /\ Is(CHOOSE date \in S : Is(date))
    BY <1>4
  <2>2. DateOf(days) = CHOOSE date \in S : Is(date)
    BY DEF DateOf, Is
  <2>3. QED BY <2>1, <2>2
<1>6. IsDate(DateOf(days)) /\ DayNumber(DateOf(days)) = days
  <2>1. y \in Int
    OBVIOUS
  <2>2. \A date \in S : Is(date) => IsDate(date)
    <3> TAKE date \in S
    <3>1. date = Date(date.year, date.month, date.day) /\ date.year \in Int /\ date.month \in 1..12 /\ date.day \in 1..31
      BY <2>1 DEF Date
    <3>2. MonthLength(date.year, date.month) \in 28..31
      BY <3>1, MonthEnds
    <3>3. QED BY <3>1, <3>2 DEF IsDate
  <2>3. QED BY <1>5, <2>2
<1>7. QED BY <1>6, OneDateADay

\* A cache holds the year of the last conversion, or none.
Knows(cache) ==
  \/ cache = NoYear
  \/ \E year \in Int : cache = [start |-> YearStart(year), len |-> YearLength(IsLeap(year)),
                                year |-> year, leap |-> IsLeap(year)]

LEMMA CacheMisses == ASSUME NEW days \in Int PROVE ~Hits(NoYear, days)
BY DEF Hits, NoYear

\* After a conversion it holds the year of that day.
LEMMA CacheFilled ==
  ASSUME NEW cache, Knows(cache), NEW days \in Int
  PROVE  LET year == DateOf(days).year
         IN  YearOf(cache, days) = [start |-> YearStart(year), len |-> YearLength(IsLeap(year)),
                                    year |-> year, leap |-> IsLeap(year)]
<1> DEFINE date == DateOf(days)
           entry(year) == [start |-> YearStart(year), len |-> YearLength(IsLeap(year)),
                           year |-> year, leap |-> IsLeap(year)]
<1>1. IsDate(date) /\ DayNumber(date) = days
  BY DateOfDay
<1> HIDE DEF date
<1>2. date.year \in Int
  BY <1>1, DateType
<1>3. /\ DayOfYear(date) \in Int /\ 0 <= DayOfYear(date)
      /\ DayOfYear(date) < 365 + LeapDays(date.year)
      /\ days = YearStart(date.year) + DayOfYear(date)
  BY <1>1, DayWithinYear
<1>4. CASE Hits(cache, days)
  <2>1. PICK year \in Int : cache = entry(year)
    BY <1>4, CacheMisses DEF Knows
  <2>2. YearStart(year) <= days /\ days < YearStart(year) + YearLength(IsLeap(year))
    BY <1>4, <2>1 DEF Hits
  <2>3. YearLength(IsLeap(year)) = 365 + LeapDays(year)
    BY YearLengths
  <2>4. /\ YearStart(year) \in Int /\ YearStart(date.year) \in Int
        /\ LeapDays(year) \in 0..1 /\ LeapDays(date.year) \in 0..1
    BY <1>2, YearStartType
  <2>5. ~(year < date.year)
    <3>1. year < date.year => YearStart(year) + 365 + LeapDays(year) <= YearStart(date.year)
      BY <1>2, YearsApart
    <3>2. QED BY <1>2, <1>3, <2>2, <2>3, <2>4, <3>1
  <2>6. ~(date.year < year)
    <3>1. date.year < year => YearStart(date.year) + 365 + LeapDays(date.year) <= YearStart(year)
      BY <1>2, YearsApart
    <3>2. QED BY <1>2, <1>3, <2>2, <2>4, <3>1
  <2>7. year = date.year
    BY <1>2, <2>5, <2>6
  <2>8. YearOf(cache, days) = cache
    BY <1>4 DEF YearOf
  <2>9. QED BY <2>1, <2>7, <2>8 DEF date
<1>5. CASE ~Hits(cache, days)
  <2>1. CivilFromDays(days) = date
    <3>1. IsDate(CivilFromDays(days)) /\ DayNumber(CivilFromDays(days)) = days
      BY CivilDay
    <3>2. QED BY <1>1, <3>1, OneDateADay
  <2>2. YearOf(cache, days) =
          [start |-> days - (DaysBeforeMonth(IsLeap(date.year))[date.month] + date.day - 1),
           len |-> YearLength(IsLeap(date.year)), year |-> date.year, leap |-> IsLeap(date.year)]
    BY <1>5, <2>1, Zenon DEF YearOf
  <2>3. days - DayOfYear(date) = YearStart(date.year)
    <3>1. YearStart(date.year) \in Int
      BY <1>2, YearStartType
    <3>2. QED BY <1>3, <3>1
  <2>4. QED BY <2>2, <2>3 DEF DayOfYear, date
<1>6. QED BY <1>4, <1>5

(* Whatever year an earlier conversion left in it, the year cache finds the   *)
(* date of the day, and holds that day's year for the next one (YearCache).   *)
THEOREM CachedDate ==
  ASSUME NEW cache, Knows(cache), NEW days \in Int
  PROVE  /\ Knows(YearOf(cache, days))
         /\ CivilDate(YearOf(cache, days), days) = DateOf(days)
<1> DEFINE date == DateOf(days)
           year == date.year
           now  == YearOf(cache, days)
           before == DaysBeforeMonth(IsLeap(year))
           Is(m) == before[m] <= DayOfYear(date) /\ (m < 12 => DayOfYear(date) < before[m + 1])
           found == CHOOSE m \in 1..12 : Is(m)
<1>1. IsDate(date) /\ DayNumber(date) = days
  BY DateOfDay
<1>2. now = [start |-> YearStart(year), len |-> YearLength(IsLeap(year)),
             year |-> year, leap |-> IsLeap(year)]
  BY CacheFilled
<1> HIDE DEF date, now
<1>3. /\ year \in Int /\ date.month \in Int /\ date.day \in Int
      /\ 1 <= date.month /\ date.month <= 12
  BY <1>1, DateType
<1>4. Knows(now)
  BY <1>2, <1>3 DEF Knows
<1>5. /\ DayOfYear(date) \in Int /\ days = YearStart(year) + DayOfYear(date) /\ Is(date.month)
  BY <1>1, DayWithinYear
<1>6. days - now.start = DayOfYear(date)
  <2>1. YearStart(year) \in Int
    BY <1>3, YearStartType
  <2>2. now.start = YearStart(year)
    BY <1>2
  <2>3. QED BY <1>5, <2>1, <2>2
<1>7. found \in 1..12 /\ Is(found)
  <2>1. date.month \in 1..12 /\ Is(date.month)
    BY <1>3, <1>5
  <2> HIDE DEF Is
  <2>2. QED BY <2>1
<1> HIDE DEF found
<1>8. found = date.month
  <2>1. \A m \in Int : 1 <= m /\ m <= 12 =>
          before[m] = IF m <= 2 THEN 31 * (m - 1)
                      ELSE (153 * (m - 3) + 2) \div 5 + 59 + LeapDays(year)
    <3>1. IsLeap(year) \in BOOLEAN
      BY DEF IsLeap
    <3>2. QED BY <3>1, MonthTable DEF LeapDays
  <2>2. LeapDays(year) \in 0..1
    BY DEF LeapDays
  <2> HIDE DEF before
  <2>3. found \in Int /\ 1 <= found /\ found <= 12
    BY <1>7
  <2>4. ~(found < date.month)
    <3>1. SUFFICES ASSUME found < date.month PROVE FALSE
      OBVIOUS
    <3>2. /\ before[found + 1] <= before[date.month]
          /\ before[found + 1] \in Int /\ before[date.month] \in Int
      BY <1>3, <2>1, <2>2, <2>3, <3>1
    <3>3. QED BY <1>3, <1>5, <1>7, <2>3, <3>1, <3>2
  <2>5. ~(date.month < found)
    <3>1. SUFFICES ASSUME date.month < found PROVE FALSE
      OBVIOUS
    <3>2. /\ before[date.month + 1] <= before[found]
          /\ before[date.month + 1] \in Int /\ before[found] \in Int
      BY <1>3, <2>1, <2>2, <2>3, <3>1
    <3>3. QED BY <1>3, <1>5, <1>7, <2>3, <3>1, <3>2
  <2>6. QED BY <1>3, <2>3, <2>4, <2>5
<1>9. DateIn(now, days) = Date(year, found, DayOfYear(date) - before[found] + 1)
  <2>1. now.leap = IsLeap(year) /\ now.year = year
    BY <1>2
  <2>2. QED BY <1>6, <2>1, Zenon DEF DateIn, found
<1>10. DayOfYear(date) - before[date.month] + 1 = date.day
  <2>1. before[date.month] \in Int
    <3>1. IsLeap(year) \in BOOLEAN
      BY DEF IsLeap
    <3>2. QED BY <1>3, <3>1, MonthTable
  <2>2. DayOfYear(date) = before[date.month] + date.day - 1
    BY DEF DayOfYear
  <2> HIDE DEF before
  <2>3. QED BY <1>3, <2>1, <2>2
<1>11. DateIn(now, days) = date
  BY <1>1, <1>8, <1>9, <1>10 DEF IsDate
<1>12. CivilDate(now, days) = DateOf(days)
  BY <1>11 DEF CivilDate, date
<1>13. QED BY <1>4, <1>12 DEF now

-----------------------------------------------------------------------------
(* The string block of the Arrow path, text by text.                        *)
NothingPacked == [cache |-> NoYear, texts |-> <<>>]

PackedOver(g, D, cells) ==
  g = [s \in SUBSET D |->
         IF s = {} THEN NothingPacked
         ELSE PackString(g[s \ {Max(s)}], cells[Max(s)])]

LEMMA MaxOfUpTo == ASSUME NEW n \in Nat, NEW s \in SUBSET (1..n), n \in s PROVE Max(s) = n
<1> DEFINE Top(x) == \A y \in s : x >= y
<1>1. n \in s /\ Top(n)
  OBVIOUS
<1>2. \A x \in s : Top(x) => x = n
  OBVIOUS
<1> HIDE DEF Top
<1>3. (CHOOSE x \in s : Top(x)) \in s /\ Top(CHOOSE x \in s : Top(x))
  BY <1>1
<1>4. Max(s) = CHOOSE x \in s : Top(x)
  BY Zenon DEF Max, Top
<1>5. QED BY <1>2, <1>3, <1>4

LEMMA PackedOverExists == ASSUME NEW cells, NEW k \in Nat PROVE \E g : PackedOver(g, 1..k, cells)
<1> DEFINE Missing == {n \in Nat : ~\E g : PackedOver(g, 1..n, cells)}
<1>1. SUFFICES ASSUME Missing # {}
               PROVE  FALSE
  OBVIOUS
<1>2. PICK n \in Missing : \A m \in Missing : n <= m
  <2>1. Missing \in SUBSET Nat
    OBVIOUS
  <2>2. QED BY <1>1, <2>1, LeastNumber, Zenon
<1>3. n # 0
  <2>1. PackedOver([s \in SUBSET (1..0) |-> NothingPacked], 1..0, cells)
    <3>1. \A s \in SUBSET (1..0) : s = {}
      OBVIOUS
    <3>2. QED BY <3>1, Zenon DEF PackedOver
  <2>2. QED BY <1>2, <2>1
<1>4. PICK g : PackedOver(g, 1..(n - 1), cells)
  <2>1. n \in Nat /\ n - 1 \in Nat /\ ~(n <= n - 1)
    BY <1>2, <1>3
  <2>2. n - 1 \notin Missing
    BY <1>2, <2>1, Zenon
  <2>3. QED BY <2>1, <2>2, Zenon
<1> DEFINE h == [s \in SUBSET (1..n) |->
                   IF n \in s THEN PackString(g[s \ {n}], cells[n]) ELSE g[s]]
<1>5. n \in Nat \ {0}
  BY <1>2, <1>3
<1>6. ASSUME NEW s \in SUBSET (1..n)
      PROVE  h[s] = IF s = {} THEN NothingPacked
                    ELSE PackString(h[s \ {Max(s)}], cells[Max(s)])
  <2>1. CASE n \in s
    <3>1. Max(s) = n
      BY <1>5, <2>1, MaxOfUpTo
    <3>2. s \ {n} \in SUBSET (1..n) /\ n \notin s \ {n}
      OBVIOUS
    <3>3. h[s \ {n}] = g[s \ {n}]
      BY <3>2, Zenon
    <3>4. QED BY <2>1, <3>1, <3>3, Zenon
  <2>2. CASE n \notin s
    <3>1. s \in SUBSET (1..(n - 1))
      BY <1>5, <2>2
    <3>2. s \ {Max(s)} \in SUBSET (1..n) /\ n \notin s \ {Max(s)}
      BY <2>2
    <3>3. h[s \ {Max(s)}] = g[s \ {Max(s)}] /\ h[s] = g[s]
      BY <2>2, <3>2, Zenon
    <3>4. g[s] = IF s = {} THEN NothingPacked ELSE PackString(g[s \ {Max(s)}], cells[Max(s)])
      BY <1>4, <3>1, Zenon DEF PackedOver
    <3>5. QED BY <3>3, <3>4, Zenon
  <2>3. QED BY <2>1, <2>2
<1>7. PackedOver(h, 1..n, cells)
  <2>1. h = [s \in SUBSET (1..n) |->
               IF s = {} THEN NothingPacked ELSE PackString(h[s \ {Max(s)}], cells[Max(s)])]
    BY <1>6, Zenon
  <2> HIDE DEF h
  <2>2. QED BY <2>1, Zenon DEF PackedOver
<1>8. QED BY <1>2, <1>7

\* The packing of the cells, one after the other.
PacksInTurn(f, cells) ==
  /\ f[0] = NothingPacked
  /\ \A i \in 1..Len(cells) : f[i] = PackString(f[i - 1], cells[i])
  /\ f[Len(cells)] = FoldLeft(PackString, NothingPacked, cells)

LEMMA PackingInTurn == ASSUME NEW S, NEW cells \in Seq(S) PROVE \E f : PacksInTurn(f, cells)
<1> DEFINE n == Len(cells)
           g == CHOOSE x : PackedOver(x, 1..n, cells)
           f == [i \in 0..n |-> g[1..i]]
<1>1. n \in Nat /\ DOMAIN cells = 1..n
  BY LenProperties
<1>2. PackedOver(g, 1..n, cells)
  BY <1>1, PackedOverExists, Zenon
<1>3. FoldLeft(PackString, NothingPacked, cells) = g[1..n]
  <2>1. FoldLeft(PackString, NothingPacked, cells)
          = (CHOOSE x : PackedOver(x, DOMAIN cells, cells))[DOMAIN cells]
    BY Zenon DEF FoldLeft, MapThenFoldSet, PackedOver
  <2>2. QED BY <1>1, <2>1, Zenon
<1> HIDE DEF g
<1>4. \A s \in SUBSET (1..n) :
        g[s] = IF s = {} THEN NothingPacked ELSE PackString(g[s \ {Max(s)}], cells[Max(s)])
  BY <1>2, Zenon DEF PackedOver
<1>5. f[0] = NothingPacked
  <2>1. 1..0 = {} /\ 0 \in 0..n
    BY <1>1
  <2>2. f[0] = g[{}]
    BY <2>1
  <2>3. QED BY <1>4, <2>2
<1>6. ASSUME NEW i \in 1..n PROVE f[i] = PackString(f[i - 1], cells[i])
  <2>1. 1..i \in SUBSET (1..n) /\ 1..i # {} /\ (1..i) \ {i} = 1..(i - 1) /\ i \in Nat
        /\ i \in 1..i /\ i \in 0..n /\ i - 1 \in 0..n
    <3>1. i \in Nat /\ 1 <= i /\ i <= n /\ n \in Nat
      BY <1>1
    <3>2. \A x : x \in (1..i) \ {i} <=> x \in 1..(i - 1)
      BY <3>1
    <3>3. (1..i) \ {i} = 1..(i - 1)
      BY <3>2
    <3>4. i \in 1..i /\ 1..i \subseteq 1..n
      BY <3>1
    <3>5. i \in 0..n /\ i - 1 \in 0..n
      BY <3>1
    <3>6. QED BY <3>1, <3>3, <3>4, <3>5
  <2>2. Max(1..i) = i
    BY <2>1, MaxOfUpTo
  <2>3. g[1..i] = PackString(g[1..(i - 1)], cells[i])
    BY <1>4, <2>1, <2>2, Zenon
  <2>4. f[i] = g[1..i] /\ f[i - 1] = g[1..(i - 1)]
    BY <2>1
  <2>5. QED BY <2>3, <2>4, Zenon
<1>7. f[n] = g[1..n]
  BY <1>1
<1> HIDE DEF f
<1>8. PacksInTurn(f, cells)
  BY <1>3, <1>5, <1>6, <1>7, Zenon DEF PacksInTurn
<1>9. QED BY <1>8

(* Whatever the cache held before, a value is written as the row path has it. *)
LEMMA PackedText ==
  ASSUME NEW packed, Knows(packed.cache), packed = [cache |-> packed.cache, texts |-> packed.texts],
         NEW cell, IsValue(cell[2])
  PROVE  /\ Knows(PackString(packed, cell).cache)
         /\ PackString(packed, cell).texts = Append(packed.texts, TextOf(cell[2]))
         /\ PackString(packed, cell) = [cache |-> PackString(packed, cell).cache,
                                        texts |-> PackString(packed, cell).texts]
<1> DEFINE value == cell[2]
           parts == IF value.variant = "Timestamp" THEN TimestampParts(value.n) ELSE <<0, 0>>
           day   == IF value.variant = "Date" THEN value.n ELSE parts[1] \div Day
           now   == YearOf(packed.cache, day)
           text  == IF value.variant = "Date" THEN DateText(CivilDate(now, day))
                    ELSE TimestampText(CivilDate(now, day), parts[1] % Day, parts[2])
<1>1. PackString(packed, cell) =
        IF value.variant \in {"Date", "Timestamp"}
        THEN [cache |-> now, texts |-> Append(packed.texts, text)]
        ELSE [packed EXCEPT !.texts = Append(@, TextOf(value))]
  BY Zenon DEF PackString
<1>2. CASE value.variant = "Date"
  <2>1. value.n \in Int
    BY <1>2 DEF IsValue
  <2>2. day = value.n
    BY <1>2
  <2>3. Knows(now) /\ CivilDate(now, day) = DateOf(value.n)
    BY <2>1, <2>2, CachedDate
  <2>4. TextOf(value) = DateText(DateOf(value.n))
    BY <1>2 DEF TextOf
  <2>5. text = TextOf(value)
    BY <1>2, <2>3, <2>4, Zenon
  <2> HIDE DEF now, text, value
  <2>6. QED BY <1>1, <1>2, <2>3, <2>5 DEF value
<1>3. CASE value.variant = "Timestamp"
  <2>1. value.n \in Int \X Units
    BY <1>3 DEF IsValue
  <2>2. parts = Instant(value.n)
    BY <1>3, Zenon DEF TimestampParts, Instant
  <2>3. day = Instant(value.n)[1] \div Day
    BY <1>3, <2>2
  <2>4. day \in Int
    <3>1. Instant(value.n)[1] \in Int
      BY <2>1 DEF Instant, Units
    <3>2. QED BY <2>3, <3>1 DEF Day
  <2>5. Knows(now) /\ CivilDate(now, day) = DateOf(day)
    BY <2>4, CachedDate
  <2>6. TextOf(value) = TimestampText(DateOf(day), Instant(value.n)[1] % Day, Instant(value.n)[2])
    BY <1>3, <2>3 DEF TextOf
  <2>7. text = TextOf(value)
    BY <1>3, <2>2, <2>5, <2>6, Zenon
  <2> HIDE DEF now, text, value
  <2>8. QED BY <1>1, <1>3, <2>5, <2>7 DEF value
<1>4. CASE value.variant \notin {"Date", "Timestamp"}
  <2>1. PackString(packed, cell) = [packed EXCEPT !.texts = Append(@, TextOf(value))]
    BY <1>1, <1>4, Zenon
  <2> HIDE DEF value
  <2>2. QED BY <2>1 DEF value
<1>5. QED BY <1>2, <1>3, <1>4

LEMMA TextsInTurn ==
  ASSUME NEW S, NEW cells \in Seq(S), \A i \in 1..Len(cells) : IsValue(cells[i][2])
  PROVE  FoldLeft(PackString, NothingPacked, cells).texts = [i \in 1..Len(cells) |-> TextOf(cells[i][2])]
<1> DEFINE n == Len(cells)
           T == {TextOf(cells[i][2]) : i \in 1..n}
           texts(k) == [i \in 1..k |-> TextOf(cells[i][2])]
<1>1. n \in Nat
  BY LenProperties
<1>2. PICK f : PacksInTurn(f, cells)
  BY PackingInTurn
<1> DEFINE Good(k) == /\ Knows(f[k].cache) /\ f[k].texts = texts(k)
                      /\ f[k] = [cache |-> f[k].cache, texts |-> f[k].texts]
           Bad == {k \in 0..n : ~Good(k)}
<1>3. Good(0)
  <2>1. f[0] = [cache |-> NoYear, texts |-> <<>>]
    BY <1>2 DEF PacksInTurn, NothingPacked
  <2>2. texts(0) = <<>>
    OBVIOUS
  <2> HIDE DEF texts
  <2>3. QED BY <2>1, <2>2 DEF Knows
<1>4. ASSUME NEW k \in 1..n, Good(k - 1)
      PROVE  Good(k)
  <2>1. f[k] = PackString(f[k - 1], cells[k])
    BY <1>2 DEF PacksInTurn
  <2>2. IsValue(cells[k][2])
    OBVIOUS
  <2>3. /\ Knows(f[k - 1].cache) /\ f[k - 1] = [cache |-> f[k - 1].cache, texts |-> f[k - 1].texts]
        /\ f[k - 1].texts = texts(k - 1)
    BY <1>4
  <2> HIDE DEF texts
  <2>4. /\ Knows(PackString(f[k - 1], cells[k]).cache)
        /\ PackString(f[k - 1], cells[k]).texts = Append(f[k - 1].texts, TextOf(cells[k][2]))
        /\ PackString(f[k - 1], cells[k]) = [cache |-> PackString(f[k - 1], cells[k]).cache,
                                             texts |-> PackString(f[k - 1], cells[k]).texts]
    BY <2>2, <2>3, PackedText
  <2>5. Append(texts(k - 1), TextOf(cells[k][2])) = texts(k)
    <3>1. \A i \in 1..n : TextOf(cells[i][2]) \in T
      OBVIOUS
    <3> HIDE DEF T
    <3>2. k - 1 \in Nat /\ k \in Nat /\ k <= n /\ n \in Nat
      BY <1>1
    <3>3. texts(k - 1) \in [1..(k - 1) -> T]
      BY <3>1, <3>2 DEF texts
    <3>4. texts(k - 1) \in Seq(T) /\ Len(texts(k - 1)) = k - 1
      BY <3>2, <3>3
    <3>5. Append(texts(k - 1), TextOf(cells[k][2]))
            = [i \in 1..k |-> IF i = k THEN TextOf(cells[k][2]) ELSE texts(k - 1)[i]]
      BY <3>1, <3>2, <3>4
    <3>6. \A i \in 1..k : (IF i = k THEN TextOf(cells[k][2]) ELSE texts(k - 1)[i]) = TextOf(cells[i][2])
      BY <3>2 DEF texts
    <3>7. QED BY <3>5, <3>6 DEF texts
  <2>6. QED BY <2>1, <2>3, <2>4, <2>5, Zenon
<1>5. Bad = {}
  <2> HIDE DEF Good
  <2>1. SUFFICES ASSUME Bad # {}
                 PROVE  FALSE
    OBVIOUS
  <2>2. PICK k \in Bad : \A j \in Bad : k <= j
    <3>1. Bad \in SUBSET Nat
      BY <1>1
    <3>2. QED BY <2>1, <3>1, LeastNumber, Zenon
  <2>3. k \in 1..n /\ k - 1 \in 0..n /\ ~(k <= k - 1)
    BY <1>1, <1>3, <2>2
  <2>4. Good(k - 1)
    BY <2>2, <2>3
  <2>5. QED BY <1>4, <2>2, <2>3, <2>4
<1>6. Good(n)
  <2> HIDE DEF Good
  <2>1. QED BY <1>1, <1>5
<1>7. f[n] = FoldLeft(PackString, NothingPacked, cells)
  BY <1>2 DEF PacksInTurn
<1>8. QED BY <1>6, <1>7, Zenon

-----------------------------------------------------------------------------
(* What a value leaves in its block reads back as that value.               *)
PowersUpTo(p, n) == p = [k \in 0..n |-> IF k = 0 THEN 1 ELSE 10 * p[k - 1]]

LEMMA PowersExist == ASSUME NEW k \in Nat PROVE \E p : PowersUpTo(p, k) /\ p[k] \in Nat \ {0}
<1> DEFINE Has(n) == \E p : PowersUpTo(p, n) /\ p[n] \in Nat \ {0}
           Missing == {n \in Nat : ~Has(n)}
<1>1. SUFFICES ASSUME Missing # {}
               PROVE  FALSE
  OBVIOUS
<1>2. PICK n \in Missing : \A m \in Missing : n <= m
  <2>1. Missing \in SUBSET Nat
    OBVIOUS
  <2>2. QED BY <1>1, <2>1, LeastNumber, Zenon
<1>3. n # 0
  <2>1. PowersUpTo([k0 \in 0..0 |-> 1], 0)
    BY DEF PowersUpTo
  <2>2. [k0 \in 0..0 |-> 1][0] = 1
    OBVIOUS
  <2>3. Has(0)
    BY <2>1, <2>2
  <2>4. QED BY <1>2, <2>3
<1>4. PICK p : PowersUpTo(p, n - 1) /\ p[n - 1] \in Nat \ {0}
  <2>1. n \in Nat /\ n - 1 \in Nat /\ ~(n <= n - 1)
    BY <1>2, <1>3
  <2>2. n - 1 \notin Missing
    BY <1>2, <2>1, Zenon
  <2>3. QED BY <2>1, <2>2, Zenon
<1> DEFINE q == [i \in 0..n |-> IF i = n THEN 10 * p[n - 1] ELSE p[i]]
<1>5. n \in Nat \ {0}
  BY <1>2, <1>3
<1>6. ASSUME NEW i \in 0..n PROVE q[i] = IF i = 0 THEN 1 ELSE 10 * q[i - 1]
  <2>1. CASE i = n
    BY <1>5, <2>1
  <2>2. CASE i # n
    <3>1. i \in 0..(n - 1) /\ q[i] = p[i] /\ (i # 0 => i - 1 \in 0..n /\ i - 1 # n)
      BY <1>5, <2>2
    <3>2. i # 0 => q[i - 1] = p[i - 1]
      BY <3>1
    <3>3. p[i] = IF i = 0 THEN 1 ELSE 10 * p[i - 1]
      BY <1>4, <3>1, Zenon DEF PowersUpTo
    <3>4. QED BY <3>1, <3>2, <3>3, Zenon
  <2>3. QED BY <2>1, <2>2
<1>7. PowersUpTo(q, n)
  <2>1. q = [i \in 0..n |-> IF i = 0 THEN 1 ELSE 10 * q[i - 1]]
    BY <1>6, Zenon
  <2> HIDE DEF q
  <2>2. QED BY <2>1, Zenon DEF PowersUpTo
<1>8. q[n] \in Nat \ {0}
  BY <1>4, <1>5
<1>9. QED BY <1>2, <1>7, <1>8

\* Two functions that follow the recursion are the same.
LEMMA PowersAgree ==
  ASSUME NEW n \in Nat, NEW p, PowersUpTo(p, n), NEW q, PowersUpTo(q, n)
  PROVE  p[n] = q[n]
<1> DEFINE Bad == {k \in 0..n : p[k] # q[k]}
<1>1. Bad = {}
  <2>1. SUFFICES ASSUME Bad # {}
                 PROVE  FALSE
    OBVIOUS
  <2>2. PICK k \in Bad : \A j \in Bad : k <= j
    <3>1. Bad \in SUBSET Nat
      OBVIOUS
    <3>2. QED BY <2>1, <3>1, LeastNumber, Zenon
  <2>3. k \in 0..n /\ p[k] # q[k]
    BY <2>2
  <2>4. /\ p[k] = IF k = 0 THEN 1 ELSE 10 * p[k - 1]
        /\ q[k] = IF k = 0 THEN 1 ELSE 10 * q[k - 1]
    BY <2>3, Zenon DEF PowersUpTo
  <2>5. k # 0 /\ k - 1 \in 0..n /\ ~(k <= k - 1)
    BY <2>3, <2>4
  <2>6. p[k - 1] = q[k - 1]
    BY <2>2, <2>5, Zenon
  <2>7. QED BY <2>3, <2>4, <2>5, <2>6
<1>2. QED BY <1>1

LEMMA PowerType == ASSUME NEW scale \in Nat PROVE Pow10(scale) \in Nat \ {0}
<1> DEFINE p == CHOOSE p : PowersUpTo(p, scale)
<1>1. Pow10(scale) = p[scale]
  BY Zenon DEF Pow10, PowersUpTo
<1>2. PICK q : PowersUpTo(q, scale) /\ q[scale] \in Nat \ {0}
  BY PowersExist
<1>3. PowersUpTo(p, scale)
  BY <1>2, Zenon
<1> HIDE DEF p
<1>4. p[scale] = q[scale]
  BY <1>2, <1>3, PowersAgree
<1>5. QED BY <1>1, <1>2, <1>4

LEMMA PowerOfZero == Pow10(0) = 1
<1> DEFINE p == CHOOSE p : PowersUpTo(p, 0)
<1>1. Pow10(0) = p[0]
  BY Zenon DEF Pow10, PowersUpTo
<1>2. PowersUpTo([k \in 0..0 |-> 1], 0)
  BY DEF PowersUpTo
<1>3. PowersUpTo(p, 0)
  BY <1>2, Zenon
<1> HIDE DEF p
<1>4. p[0] = IF 0 = 0 THEN 1 ELSE 10 * p[0 - 1]
  BY <1>3 DEF PowersUpTo
<1>5. QED BY <1>1, <1>4

LEMMA DivMod ==
  ASSUME NEW m \in Nat, NEW k \in Nat \ {0}
  PROVE  m \div k \in Nat /\ m % k \in Nat /\ (m \div k) * k + (m % k) = m
<1>1. m \in Int /\ k \in Int /\ k > 0 /\ m >= 0
  OBVIOUS
<1>2. (m \div k) * k + (m % k) = m
  BY <1>1
<1>3. m % k \in Nat
  BY <1>1
<1>4. m \div k \in Nat
  BY <1>1
<1>5. QED BY <1>2, <1>3, <1>4

LEMMA DecimalReadsBack ==
  ASSUME NEW u \in Int, NEW s \in Nat
  PROVE  /\ DecimalText(<<u, s>>) \in Seq(Int)
         /\ IsDecimalText(DecimalText(<<u, s>>))
         /\ DecimalOf(DecimalText(<<u, s>>)) = <<u, s>>
<1> DEFINE magnitude == IF u < 0 THEN -u ELSE u
           power == Pow10(s)
           sign  == IF u < 0 THEN -1 ELSE 1
           text  == DecimalText(<<u, s>>)
<1>1. magnitude \in Nat /\ sign \in Int /\ sign * magnitude = u
  OBVIOUS
<1>2. power \in Nat \ {0}
  BY PowerType
<1>3. text = <<sign, magnitude \div power, s, magnitude % power>>
  BY DEF DecimalText
<1> HIDE DEF magnitude, power, sign, text
<1>4. /\ magnitude \div power \in Nat /\ magnitude % power \in Nat
      /\ (magnitude \div power) * power + (magnitude % power) = magnitude
  BY <1>1, <1>2, DivMod
<1>5. text \in Seq(Int) /\ Len(text) = 4
  BY <1>1, <1>3, <1>4
<1>6. /\ text[1] = sign /\ text[2] = magnitude \div power /\ text[3] = s
      /\ text[4] = magnitude % power
  BY <1>3
<1>7. DecimalOf(text) = <<sign * ((magnitude \div power) * power + (magnitude % power)), s>>
  BY <1>6 DEF DecimalOf, power
<1>8. DecimalOf(text) = <<u, s>>
  BY <1>1, <1>4, <1>7
<1>9. QED BY <1>5, <1>8 DEF IsDecimalText, text

LEMMA DateReadsBack ==
  ASSUME NEW days \in Int
  PROVE  /\ DateText(DateOf(days)) \in Seq(Int)
         /\ IsDateText(DateText(DateOf(days)))
         /\ LET text == DateText(DateOf(days)) IN DayNumber(Date(text[1], text[2], text[3])) = days
<1> DEFINE date == DateOf(days)
<1>1. IsDate(date) /\ DayNumber(date) = days
  BY DateOfDay
<1> HIDE DEF date
<1>2. date.year \in Int /\ date.month \in Int /\ date.day \in Int
  BY <1>1, DateType
<1>3. DateText(date) = <<date.year, date.month, date.day>>
  BY DEF DateText
<1>4. DateText(date) \in Seq(Int) /\ Len(DateText(date)) = 3
  BY <1>2, <1>3
<1>5. /\ DateText(date)[1] = date.year /\ DateText(date)[2] = date.month
      /\ DateText(date)[3] = date.day
  BY <1>3
<1>6. IsDateText(DateText(date))
  BY <1>1, <1>4, <1>5 DEF IsDateText, IsDate
<1>7. Date(date.year, date.month, date.day) = date
  BY <1>1 DEF IsDate
<1>8. QED BY <1>1, <1>4, <1>5, <1>6, <1>7, Zenon DEF date

LEMMA ConcatParts ==
  ASSUME NEW S, NEW s \in Seq(S), NEW m \in Seq(S)
  PROVE  LET whole == s \o m
         IN  /\ whole \in Seq(S) /\ Len(whole) = Len(s) + Len(m)
             /\ \A i \in 1..Len(s) : whole[i] = s[i]
             /\ \A i \in 1..Len(m) : whole[Len(s) + i] = m[i]
             /\ SubSeq(whole, 1, Len(s)) = s
BY ConcatProperties, ConcatFirst, ConcatLater, FirstPart

LEMMA TextOfTimestamp ==
  ASSUME NEW date, date.year \in Int, date.month \in Int, date.day \in Int,
         NEW sod \in Int, NEW nanos \in Int
  PROVE  LET text == TimestampText(date, sod, nanos)
         IN  /\ text = <<date.year, date.month, date.day, sod \div 3600, (sod \div 60) % 60,
                         sod % 60, 9, nanos>>
             /\ text \in Seq(Int) /\ Len(text) = 8
             /\ SubSeq(text, 1, 3) = DateText(date)
<1> DEFINE h == sod \div 3600
           m == (sod \div 60) % 60
           s == sod % 60
           tail == <<h, m, s, 9, nanos>>
           all == <<date.year, date.month, date.day, h, m, s, 9, nanos>>
           head == <<date.year, date.month, date.day>>
<1>1. h \in Int /\ m \in Int /\ s \in Int
  OBVIOUS
<1>2. TimestampText(date, sod, nanos) = head \o tail
  BY DEF TimestampText, DateText
<1> HIDE DEF h, m, s
<1>8. date.year \in Int /\ date.month \in Int /\ date.day \in Int
  OBVIOUS
<1>9. head \in Seq(Int) /\ Len(head) = 3 /\ tail \in Seq(Int) /\ Len(tail) = 5
  BY <1>1
<1>4. all \in Seq(Int) /\ Len(all) = 8
  BY <1>1
<1>10. /\ head[1] = all[1] /\ head[2] = all[2] /\ head[3] = all[3]
       /\ tail[1] = all[4] /\ tail[2] = all[5] /\ tail[3] = all[6] /\ tail[4] = all[7] /\ tail[5] = all[8]
  BY <1>1
<1> HIDE DEF head, tail, all
<1> DEFINE whole == head \o tail
           S == Int
<1>11. /\ whole \in Seq(S) /\ Len(whole) = 8
       /\ whole[1] = head[1] /\ whole[2] = head[2] /\ whole[3] = head[3]
       /\ whole[4] = tail[1] /\ whole[5] = tail[2] /\ whole[6] = tail[3]
       /\ whole[7] = tail[4] /\ whole[8] = tail[5]
       /\ SubSeq(whole, 1, 3) = head
  <2>1. head \in Seq(S) /\ tail \in Seq(S) /\ Len(head) = 3 /\ Len(tail) = 5
    BY <1>9
  <2> HIDE DEF S
  <2>2. /\ whole \in Seq(S) /\ Len(whole) = Len(head) + Len(tail)
        /\ \A i \in 1..Len(head) : whole[i] = head[i]
        /\ \A i \in 1..Len(tail) : whole[Len(head) + i] = tail[i]
        /\ SubSeq(whole, 1, Len(head)) = head
    BY <2>1, ConcatParts, Zenon
  <2> HIDE DEF whole
  <2>3. QED BY <2>1, <2>2
<1> HIDE DEF whole
<1>3. whole = all
  <2>1. whole \in Seq(Int) /\ Len(whole) = 8 /\ \A i \in 1..8 : whole[i] = all[i]
    BY <1>10, <1>11
  <2>2. QED BY <1>4, <2>1, SeqEqual
<1>5. SubSeq(whole, 1, 3) = head
  BY <1>11
<1>6. TimestampText(date, sod, nanos) = all /\ whole = all
  BY <1>2, <1>3 DEF whole
<1>7. QED BY <1>4, <1>5, <1>6 DEF DateText, head, all, h, m, s

\* The day and the second of the day.
LEMMA DayAndSecond ==
  ASSUME NEW secs \in Int
  PROVE  /\ secs \div Day \in Int /\ secs % Day \in Int /\ 0 <= secs % Day /\ secs % Day <= 86399
         /\ secs = (secs \div Day) * 86400 + (secs % Day)
BY DEF Day

LEMMA TimestampReadsBack ==
  ASSUME NEW at \in Int \X Int
  PROVE  LET text == TimestampText(DateOf(at[1] \div Day), at[1] % Day, at[2])
         IN  text \in Seq(Int) /\ IsTimestampText(text) /\ InstantOf(text) = at
<1> DEFINE secs == at[1]
           nanos == at[2]
           day  == secs \div Day
           sod  == secs % Day
           date == DateOf(day)
           text == TimestampText(date, sod, nanos)
<1>1. secs \in Int /\ nanos \in Int /\ at = <<secs, nanos>>
  OBVIOUS
<1> HIDE DEF secs, nanos
<1>2. day \in Int /\ sod \in Int /\ 0 <= sod /\ sod <= 86399 /\ secs = day * 86400 + sod
  BY <1>1, DayAndSecond
<1> HIDE DEF day, sod
<1>3. IsDate(date) /\ DayNumber(date) = day /\ IsDateText(DateText(date))
  <2>1. day \in Int
    BY <1>2
  <2>2. IsDate(date) /\ DayNumber(date) = day
    BY <2>1, DateOfDay
  <2>3. IsDateText(DateText(date))
    BY <2>1, DateReadsBack
  <2>4. QED BY <2>2, <2>3
<1> HIDE DEF date
<1>4. /\ date.year \in Int /\ date.month \in Int /\ date.day \in Int
      /\ Date(date.year, date.month, date.day) = date
  BY <1>3, DateType DEF IsDate
<1>5. /\ text = <<date.year, date.month, date.day, sod \div 3600, (sod \div 60) % 60,
                  sod % 60, 9, nanos>>
      /\ text \in Seq(Int) /\ Len(text) = 8 /\ SubSeq(text, 1, 3) = DateText(date)
  BY <1>1, <1>2, <1>4, TextOfTimestamp
<1> HIDE DEF text
<1>6. /\ text[1] = date.year /\ text[2] = date.month /\ text[3] = date.day
      /\ text[4] = sod \div 3600 /\ text[5] = (sod \div 60) % 60 /\ text[6] = sod % 60
      /\ text[7] = 9 /\ text[8] = nanos
  BY <1>5
<1>7. IsTimestampText(text)
  <2>1. sod \div 3600 \in 0..23 /\ (sod \div 60) % 60 \in 0..59 /\ sod % 60 \in 0..59
    BY <1>2
  <2>2. IsDateText(SubSeq(text, 1, 3))
    <3>1. SubSeq(text, 1, 3) = DateText(date)
      BY <1>5
    <3>2. QED BY <1>3, <3>1
  <2>3. QED BY <1>5, <1>6, <2>1, <2>2 DEF IsTimestampText
<1>8. (sod \div 3600) * 3600 + ((sod \div 60) % 60) * 60 + (sod % 60) = sod
  BY <1>2
<1>9. DayNumber(Date(text[1], text[2], text[3])) = day
  BY <1>3, <1>4, <1>6
<1>10. text[8] * Pow10(9 - text[7]) = nanos
  <2>1. 9 - text[7] = 0
    BY <1>6
  <2>2. Pow10(9 - text[7]) = 1
    BY <2>1, PowerOfZero, Zenon
  <2>3. QED BY <1>1, <1>6, <2>2
<1>11. day * Day + text[4] * 3600 + text[5] * 60 + text[6] = secs
  <2>1. text[4] * 3600 + text[5] * 60 + text[6] = sod
    BY <1>6, <1>8
  <2>2. text[4] \in Int /\ text[5] \in Int /\ text[6] \in Int
    BY <1>2, <1>6
  <2>3. QED BY <1>2, <2>1, <2>2 DEF Day
<1>12. InstantOf(text) = <<secs, nanos>>
  <2>1. InstantOf(text) =
          <<DayNumber(Date(text[1], text[2], text[3])) * Day + text[4] * 3600 + text[5] * 60 + text[6],
            text[8] * Pow10(9 - text[7])>>
    BY DEF InstantOf
  <2>2. QED BY <1>9, <1>10, <1>11, <2>1
<1>13. text \in Seq(Int) /\ IsTimestampText(text) /\ InstantOf(text) = at
  BY <1>1, <1>5, <1>7, <1>12
<1>14. QED BY <1>13, Zenon DEF text, date, day, sod, secs, nanos

(* An accepted value reads back as itself, in its column's terms.            *)
LEMMA InstantType ==
  ASSUME NEW t \in Int \X Units
  PROVE  Instant(t) \in Int \X Int
<1>1. t[1] \in Int /\ (t[2] = 1 \/ t[2] = 1000 \/ t[2] = 1000000 \/ t[2] = 1000000000)
  BY DEF Units
<1>2. t[1] \div t[2] \in Int /\ (t[1] % t[2]) * (1000000000 \div t[2]) \in Int
  BY <1>1
<1>3. QED BY <1>2 DEF Instant, Second

LEMMA WrapKeeps == ASSUME NEW n \in (-IntMax - 1)..IntMax PROVE WrapInt32(n) = n
<1>1. IntMax \in Nat /\ n \in Int /\ -IntMax - 1 <= n /\ n <= IntMax
  BY LayoutAssumption
<1> DEFINE x == n + IntMax + 1
           k == 2 * (IntMax + 1)
<1>2. x \in Nat /\ k \in Nat \ {0} /\ x < k
  BY <1>1
<1>3. WrapInt32(n) = (x % k) - IntMax - 1
  BY DEF WrapInt32
<1> HIDE DEF x, k
<1>4. x % k = x
  BY <1>2
<1>5. (x % k) - IntMax - 1 = n
  BY <1>1, <1>4 DEF x
<1>6. QED BY <1>3, <1>5

LEMMA ValueReadsBack ==
  ASSUME NEW type \in Types, type # "Unsupported", NEW value, value.variant # "Null",
         ColumnAccepts(type, value), IsValue(value)
  PROVE  /\ BlockOf(type) \in Blocks
         /\ EntryOf(type, value) \in EntrySet(BlockOf(type))
         /\ CellFrom(type, EntryOf(type, value)) = Reading(type, value)
<1> DEFINE good == /\ BlockOf(type) \in Blocks
                   /\ EntryOf(type, value) \in EntrySet(BlockOf(type))
                   /\ CellFrom(type, EntryOf(type, value)) = Reading(type, value)
<1>1. CASE type = "Numeric"
  <2>1. BlockOf(type) = "string" /\ EntryOf(type, value) = TextOf(value)
    BY <1>1 DEF BlockOf, EntryOf
  <2>2. CASE value.variant = "Numeric"
    <3>1. PICK u \in Int, s \in Nat : value.n = <<u, s>>
      BY <2>2 DEF IsValue
    <3>2. TextOf(value) = DecimalText(<<u, s>>)
      BY <2>2, <3>1 DEF TextOf
    <3>3. /\ DecimalText(<<u, s>>) \in Seq(Int) /\ IsDecimalText(DecimalText(<<u, s>>))
          /\ DecimalOf(DecimalText(<<u, s>>)) = <<u, s>>
      BY DecimalReadsBack
    <3>4. Reading(type, value) = <<<<u, s>>>>
      BY <1>1, <2>2, <3>1 DEF Reading
    <3>5. CellFrom(type, TextOf(value)) = <<<<u, s>>>>
      BY <1>1, <2>1, <3>2, <3>3, Zenon DEF CellFrom, TextCell
    <3>6. QED BY <2>1, <3>2, <3>3, <3>4, <3>5 DEF EntrySet, Blocks
  <2>3. CASE value.variant \in {"Int32", "Int64"}
    <3>1. value.n \in Int
      BY <2>3, LayoutAssumption DEF IsValue
    <3>2. TextOf(value) = DecimalText(<<value.n, 0>>)
      BY <2>3 DEF TextOf
    <3>3. /\ DecimalText(<<value.n, 0>>) \in Seq(Int) /\ IsDecimalText(DecimalText(<<value.n, 0>>))
          /\ DecimalOf(DecimalText(<<value.n, 0>>)) = <<value.n, 0>>
      BY <3>1, DecimalReadsBack
    <3>4. Reading(type, value) = <<<<value.n, 0>>>>
      BY <1>1, <2>3 DEF Reading
    <3>5. CellFrom(type, TextOf(value)) = <<<<value.n, 0>>>>
      BY <1>1, <2>1, <3>2, <3>3, Zenon DEF CellFrom, TextCell
    <3>6. QED BY <2>1, <3>2, <3>3, <3>4, <3>5 DEF EntrySet, Blocks
  <2>4. QED BY <1>1, <2>2, <2>3 DEF ColumnAccepts
<1>2. CASE type = "Date"
  <2>1. BlockOf(type) = "string" /\ EntryOf(type, value) = TextOf(value)
    BY <1>2 DEF BlockOf, EntryOf
  <2>2. value.variant = "Date" /\ value.n \in Int
    BY <1>2 DEF ColumnAccepts, IsValue
  <2>3. TextOf(value) = DateText(DateOf(value.n))
    BY <2>2 DEF TextOf
  <2>4. /\ DateText(DateOf(value.n)) \in Seq(Int) /\ IsDateText(DateText(DateOf(value.n)))
        /\ LET text == DateText(DateOf(value.n))
           IN  DayNumber(Date(text[1], text[2], text[3])) = value.n
    BY <2>2, DateReadsBack
  <2>5. Reading(type, value) = <<value.n>>
    BY <1>2, <2>2 DEF Reading
  <2>6. CellFrom(type, TextOf(value)) = <<value.n>>
    <3>1. TextCell(type, TextOf(value)) = <<value.n>>
      <4> DEFINE text == DateText(DateOf(value.n))
      <4>1. IsDateText(text) /\ DayNumber(Date(text[1], text[2], text[3])) = value.n
        BY <2>4
      <4> HIDE DEF text
      <4>2. TextCell("Date", text) = <<value.n>>
        BY <4>1 DEF TextCell
      <4>3. QED BY <1>2, <2>3, <4>2 DEF text
    <3>2. QED BY <2>1, <3>1 DEF CellFrom
  <2>7. QED BY <2>1, <2>3, <2>4, <2>5, <2>6 DEF EntrySet, Blocks
<1>3. CASE type = "Timestamp"
  <2>1. BlockOf(type) = "string" /\ EntryOf(type, value) = TextOf(value)
    BY <1>3 DEF BlockOf, EntryOf
  <2>2. value.variant = "Timestamp" /\ value.n \in Int \X Units
    BY <1>3 DEF ColumnAccepts, IsValue
  <2> DEFINE at == Instant(value.n)
             text == TimestampText(DateOf(at[1] \div Day), at[1] % Day, at[2])
  <2>3. TextOf(value) = text
    BY <2>2 DEF TextOf
  <2>4. at \in Int \X Int
    BY <2>2, InstantType
  <2>5. Reading(type, value) = <<at>>
    BY <1>3, <2>2 DEF Reading
  <2> HIDE DEF at
  <2>6. text \in Seq(Int) /\ IsTimestampText(text) /\ InstantOf(text) = at
    BY <2>4, TimestampReadsBack
  <2> HIDE DEF text
  <2>7. CellFrom(type, text) = <<at>>
    BY <1>3, <2>1, <2>6 DEF CellFrom, TextCell
  <2>8. QED BY <2>1, <2>3, <2>5, <2>6, <2>7 DEF EntrySet, Blocks
<1>4. CASE type \in {"String", "Char"}
  <2>1. BlockOf(type) = "string" /\ EntryOf(type, value) = TextOf(value)
    BY <1>4 DEF BlockOf, EntryOf
  <2>2. value.variant = "String" /\ value.n \in Int
    BY <1>4 DEF ColumnAccepts, IsValue
  <2>3. TextOf(value) = <<value.n>> /\ Reading(type, value) = <<value.n>>
    BY <1>4, <2>2 DEF TextOf, Reading
  <2>4. CellFrom(type, <<value.n>>) = <<value.n>>
    BY <1>4, <2>1 DEF CellFrom, TextCell
  <2>5. <<value.n>> \in Seq(Int)
    BY <2>2
  <2>6. QED BY <2>1, <2>3, <2>4, <2>5 DEF EntrySet, Blocks
<1>5. CASE type = "Int32"
  <2>1. value.n \in (-IntMax - 1)..IntMax /\ value.variant \in {"Int32", "Int64"}
    BY <1>5 DEF ColumnAccepts, IsValue
  <2>2. BlockOf(type) = "int32" /\ EntryOf(type, value) = WrapInt32(value.n)
    BY <1>5, <2>1 DEF BlockOf, EntryOf, IntegerOf
  <2>3. WrapInt32(value.n) = value.n
    BY <2>1, WrapKeeps
  <2>4. value.n \in Int
    BY <2>1, LayoutAssumption
  <2>5. Reading(type, value) = <<value.n>>
    BY <1>5 DEF Reading
  <2>6. QED BY <2>2, <2>3, <2>4, <2>5 DEF EntrySet, Blocks, CellFrom
<1>6. CASE type = "Int64"
  <2>1. value.n \in Int /\ value.variant \in {"Int32", "Int64"}
    BY <1>6, LayoutAssumption DEF ColumnAccepts, IsValue
  <2>2. BlockOf(type) = "int64" /\ EntryOf(type, value) = value.n
    BY <1>6, <2>1 DEF BlockOf, EntryOf, IntegerOf
  <2>3. Reading(type, value) = <<value.n>>
    BY <1>6 DEF Reading
  <2>4. QED BY <2>1, <2>2, <2>3 DEF EntrySet, Blocks, CellFrom
<1>7. CASE type = "Boolean"
  <2>1. value.n \in Int
    BY <1>7 DEF ColumnAccepts, IsValue
  <2>2. BlockOf(type) = "bool" /\ EntryOf(type, value) = value.n
    BY <1>7 DEF BlockOf, EntryOf
  <2>3. Reading(type, value) = <<value.n>>
    BY <1>7 DEF Reading
  <2>4. QED BY <2>1, <2>2, <2>3 DEF EntrySet, Blocks, CellFrom
<1>8. CASE type = "Double"
  <2>1. value.n \in Int
    BY <1>8 DEF ColumnAccepts, IsValue
  <2>2. BlockOf(type) = "double" /\ EntryOf(type, value) = value.n
    BY <1>8 DEF BlockOf, EntryOf
  <2>3. Reading(type, value) = <<value.n>>
    BY <1>8 DEF Reading
  <2>4. QED BY <2>1, <2>2, <2>3 DEF EntrySet, Blocks, CellFrom
<1>9. QED BY <1>1, <1>2, <1>3, <1>4, <1>5, <1>6, <1>7, <1>8 DEF Types

-----------------------------------------------------------------------------
(* Rows of values their columns accept.                                     *)
Fits(row) ==
  \A c \in DOMAIN Columns : /\ ColumnAccepts(Columns[c], CellAt(row, c))
                            /\ IsValue(CellAt(row, c))

RowMeant(row, number) ==
  [cells  |-> [c \in DOMAIN Columns |-> Reading(Columns[c], CellAt(row, c))],
   number |-> number]

LEMMA FitsReadBack ==
  ASSUME NEW row, Fits(row), NEW number
  PROVE  Storable(row) /\ ReadBack(row, number) = RowMeant(row, number)
<1>1. ASSUME NEW c \in DOMAIN Columns,
             CellAt(row, c).variant # "Null", Columns[c] # "Unsupported"
      PROVE  /\ EntryOf(Columns[c], CellAt(row, c)) \in EntrySet(BlockOf(Columns[c]))
             /\ CellFrom(Columns[c], EntryOf(Columns[c], CellAt(row, c)))
                  = Reading(Columns[c], CellAt(row, c))
  <2> DEFINE type == Columns[c]
             value == CellAt(row, c)
  <2>1. type \in Types
    BY LayoutAssumption
  <2>2. ColumnAccepts(type, value) /\ IsValue(value) /\ value.variant # "Null" /\ type # "Unsupported"
    BY <1>1 DEF Fits
  <2> HIDE DEF type, value
  <2>3. /\ EntryOf(type, value) \in EntrySet(BlockOf(type))
        /\ CellFrom(type, EntryOf(type, value)) = Reading(type, value)
    BY <2>1, <2>2, ValueReadsBack
  <2>4. QED BY <2>3 DEF type, value
<1>2. \A c \in DOMAIN Columns :
        (IF CellAt(row, c).variant = "Null" \/ Columns[c] = "Unsupported" THEN <<>>
         ELSE CellFrom(Columns[c], EntryOf(Columns[c], CellAt(row, c))))
          = Reading(Columns[c], CellAt(row, c))
  <2> TAKE c \in DOMAIN Columns
  <2>1. CASE CellAt(row, c).variant = "Null" \/ Columns[c] = "Unsupported"
    BY <2>1 DEF Reading
  <2>2. CASE ~(CellAt(row, c).variant = "Null" \/ Columns[c] = "Unsupported")
    BY <1>1, <2>2
  <2>3. QED BY <2>1, <2>2
<1>3. Storable(row)
  <2>1. BlockOf("Unsupported") \notin Blocks
    BY DEF BlockOf, Blocks
  <2>2. QED BY <1>1, <2>1, ColumnNumbers DEF Storable
<1>4. ReadBack(row, number) = RowMeant(row, number)
  BY <1>2, Zenon DEF ReadBack, RowMeant
<1>5. QED BY <1>3, <1>4

LEMMA BatchCellsType ==
  ASSUME NEW X, NEW rows \in Seq(X), NEW b
  PROVE  BatchCells(b, rows) \in Seq(UNION {CellSet(b, rows[i]) : i \in 1..Len(rows)})
<1> DEFINE C == UNION {CellSet(b, rows[i]) : i \in 1..Len(rows)}
<1>1. Len(rows) \in Nat /\ DOMAIN rows = 1..Len(rows)
  BY LenProperties
<1>2. \A i \in 1..Len(rows) : BlockCells(b, rows[i]) \in Seq(C)
  <2> TAKE i \in 1..Len(rows)
  <2>1. BlockCells(b, rows[i]) \in Seq(CellSet(b, rows[i]))
    BY CellsOfRow
  <2>2. CellSet(b, rows[i]) \subseteq C
    OBVIOUS
  <2> HIDE DEF C
  <2>3. QED BY <2>1, <2>2, SeqMonotonic, Zenon
<1> HIDE DEF C
<1>3. BlockRows(b, rows) \in Seq(Seq(C)) /\ Len(BlockRows(b, rows)) = Len(rows)
  <2>1. BlockRows(b, rows) \in [1..Len(rows) -> Seq(C)]
    BY <1>1, <1>2 DEF BlockRows
  <2>2. QED BY <1>1, <2>1
<1>4. PICK f : Unrolls(f, C, BlockRows(b, rows))
  BY <1>3, Flattening, Zenon
<1>5. FlattenSeq(BlockRows(b, rows)) \in Seq(C)
  BY <1>1, <1>3, <1>4 DEF Unrolls
<1>6. BatchCells(b, rows) = FlattenSeq(BlockRows(b, rows))
  BY Zenon DEF BatchCells, BlockRows
<1>7. QED BY <1>5, <1>6, Zenon DEF C

(* For rows of values their columns accept the Arrow path leaves in every     *)
(* block what the row path leaves there, whatever their cells (emit_pack.rs   *)
(* pack beside rowset.rs push_costed).                                        *)
THEOREM FitsPackAlike ==
  ASSUME NEW X, NEW rows \in Seq(X), \A i \in 1..Len(rows) : Fits(rows[i])
  PROVE  PacksAlike(rows)
<1> SUFFICES ASSUME NEW b \in Blocks
             PROVE  (IF b = "string" THEN PackStrings(rows) ELSE PackFixed(b, rows))
                      = Entries(BatchCells(b, rows))
  BY DEF PacksAlike
<1> DEFINE C == UNION {CellSet(b, rows[i]) : i \in 1..Len(rows)}
           cells == BatchCells(b, rows)
           n == Len(cells)
<1>1. cells \in Seq(C)
  BY BatchCellsType
<1>2. \A x \in C : \E i \in 1..Len(rows), c \in 1..Width :
        /\ x = <<Columns[c], CellAt(rows[i], c)>>
        /\ BlockOf(Columns[c]) = b /\ CellAt(rows[i], c).variant # "Null"
  BY DEF CellSet, Stores
<1>3. \A x \in C : /\ x[1] \in Types /\ BlockOf(x[1]) = b /\ x[2].variant # "Null"
                   /\ ColumnAccepts(x[1], x[2]) /\ IsValue(x[2])
  <2> TAKE x \in C
  <2>1. PICK i \in 1..Len(rows), c \in 1..Width :
          /\ x = <<Columns[c], CellAt(rows[i], c)>>
          /\ BlockOf(Columns[c]) = b /\ CellAt(rows[i], c).variant # "Null"
    BY <1>2
  <2>2. x[1] = Columns[c] /\ x[2] = CellAt(rows[i], c)
    BY <2>1
  <2>3. c \in DOMAIN Columns /\ Columns[c] \in Types
    BY ColumnNumbers, LayoutAssumption
  <2>4. Fits(rows[i])
    OBVIOUS
  <2>5. ColumnAccepts(Columns[c], CellAt(rows[i], c)) /\ IsValue(CellAt(rows[i], c))
    BY <2>3, <2>4 DEF Fits
  <2>6. QED BY <2>1, <2>2, <2>3, <2>5, Zenon
<1> HIDE DEF C, cells
<1>4. n \in Nat /\ DOMAIN cells = 1..n /\ \A i \in 1..n : cells[i] \in C
  BY <1>1, LenProperties, ElementOfSeq
<1>5. Entries(cells) = [i \in 1..n |-> EntryOf(cells[i][1], cells[i][2])]
  BY <1>4 DEF Entries
<1>6. CASE b = "string"
  <2>1. \A i \in 1..n : IsValue(cells[i][2])
    BY <1>3, <1>4
  <2>2. FoldLeft(PackString, NothingPacked, cells).texts = [i \in 1..n |-> TextOf(cells[i][2])]
    BY <1>1, <2>1, TextsInTurn
  <2>3. \A i \in 1..n : EntryOf(cells[i][1], cells[i][2]) = TextOf(cells[i][2])
    <3> TAKE i \in 1..n
    <3> DEFINE type == cells[i][1]
               value == cells[i][2]
    <3>1. BlockOf(type) = "string"
      BY <1>3, <1>4, <1>6
    <3> HIDE DEF type, value
    <3>2. type # "Int32" /\ type # "Int64"
      BY <3>1 DEF BlockOf
    <3>3. EntryOf(type, value) = TextOf(value)
      BY <3>1, <3>2 DEF EntryOf
    <3>4. QED BY <3>3 DEF type, value
  <2>4. PackStrings(rows) = [i \in 1..n |-> TextOf(cells[i][2])]
    <3>1. PackStrings(rows) = FoldLeft(PackString, NothingPacked, BatchCells("string", rows)).texts
      BY Zenon DEF PackStrings, NothingPacked
    <3>2. QED BY <1>6, <2>2, <3>1, Zenon DEF cells
  <2>5. Entries(cells) = [i \in 1..n |-> TextOf(cells[i][2])]
    BY <1>5, <2>3
  <2>6. QED BY <1>6, <2>4, <2>5, Zenon DEF cells
<1>7. CASE b # "string"
  <2>1. PackFixed(b, rows) = [i \in 1..n |-> cells[i][2].n]
    <3>1. PackFixed(b, rows) = [i \in DOMAIN cells |-> cells[i][2].n]
      BY Zenon DEF PackFixed, cells
    <3>2. QED BY <1>4, <3>1, Zenon
  <2>2. \A i \in 1..n : EntryOf(cells[i][1], cells[i][2]) = cells[i][2].n
    <3> TAKE i \in 1..n
    <3> DEFINE type == cells[i][1]
               value == cells[i][2]
    <3>1. /\ type \in Types /\ BlockOf(type) = b /\ value.variant # "Null"
          /\ ColumnAccepts(type, value) /\ IsValue(value)
      BY <1>3, <1>4
    <3> HIDE DEF type, value
    <3>2. type \in {"Boolean", "Int32", "Int64", "Double"}
      BY <1>7, <3>1 DEF Types, BlockOf, Blocks
    <3>3. BlockOf(type) # "string"
      BY <1>7, <3>1
    <3>4. CASE type = "Int32"
      <4>1. value.n \in (-IntMax - 1)..IntMax /\ value.variant \in {"Int32", "Int64"}
        BY <3>1, <3>4 DEF ColumnAccepts, IsValue
      <4>2. EntryOf(type, value) = WrapInt32(value.n)
        BY <3>3, <3>4, <4>1 DEF EntryOf, IntegerOf
      <4>3. QED BY <4>1, <4>2, WrapKeeps DEF type, value
    <3>5. CASE type = "Int64"
      <4>1. value.variant \in {"Int32", "Int64"}
        BY <3>1, <3>5 DEF ColumnAccepts
      <4>2. EntryOf(type, value) = value.n
        BY <3>3, <3>5, <4>1 DEF EntryOf, IntegerOf
      <4>3. QED BY <4>2 DEF type, value
    <3>6. CASE type \in {"Boolean", "Double"}
      <4>1. EntryOf(type, value) = value.n
        BY <3>3, <3>6 DEF EntryOf
      <4>2. QED BY <4>1 DEF type, value
    <3>7. QED BY <3>2, <3>4, <3>5, <3>6
  <2>3. [i \in 1..n |-> EntryOf(cells[i][1], cells[i][2])] = [i \in 1..n |-> cells[i][2].n]
    BY <2>2
  <2>4. QED BY <1>5, <1>7, <2>1, <2>3, Zenon DEF cells
<1>8. QED BY <1>6, <1>7

-----------------------------------------------------------------------------
(* What reads back of a table: the rows, in order, as they are meant.        *)
RowsMeant(rows, number) == [i \in 1..Len(rows) |-> RowMeant(rows[i], number)]

(* A batch packed behind the rows of a table leaves a table again, and what   *)
(* InputRowSet::decode reads of it is what it read before and then the rows   *)
(* of the batch, each with its values, its NULLs and its row number.          *)
THEOREM RowsReadBack ==
  ASSUME NEW t, Layout(t), NEW S, Decode(t) \in Seq(S), NEW number \in Nat,
         NEW X, NEW rows \in Seq(X),
         \A i \in 1..Len(rows) : Fits(rows[i]) /\ RowMeant(rows[i], number) \in S
  PROVE  /\ Layout(Pack(t, rows, number))
         /\ Decode(Pack(t, rows, number)) = Decode(t) \o RowsMeant(rows, number)
<1>1. \A i \in 1..Len(rows) : Storable(rows[i]) /\ ReadBack(rows[i], number) = RowMeant(rows[i], number)
  BY FitsReadBack
<1>2. PacksAlike(rows)
  BY FitsPackAlike
<1>3. \A i \in 1..Len(rows) : Storable(rows[i]) /\ ReadBack(rows[i], number) \in S
  BY <1>1
<1>4. /\ Layout(Pack(t, rows, number))
      /\ Decode(Pack(t, rows, number)) = Decode(t) \o ReadBacks(rows, number)
  BY <1>2, <1>3, PackReadsBack
<1>5. ReadBacks(rows, number) = RowsMeant(rows, number)
  BY <1>1, Zenon DEF ReadBacks, RowsMeant
<1>6. QED BY <1>4, <1>5

(* The same of one row pushed by push_costed: NULLs of the rows before it and *)
(* columns that share a block never shift what is read.                       *)
THEOREM RowReadsBack ==
  ASSUME NEW t, Layout(t), NEW S, Decode(t) \in Seq(S), NEW number \in Nat,
         NEW row, Fits(row), RowMeant(row, number) \in S
  PROVE  /\ Layout(PushRow(t, row, number))
         /\ Decode(PushRow(t, row, number)) = Append(Decode(t), RowMeant(row, number))
<1>1. Storable(row) /\ ReadBack(row, number) = RowMeant(row, number)
  BY FitsReadBack
<1>2. ReadBack(row, number) \in S
  BY <1>1
<1>3. QED BY <1>1, <1>2, PushReadsBack
=============================================================================
