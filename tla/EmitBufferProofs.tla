--------------------------- MODULE EmitBufferProofs ---------------------------
(***************************************************************************)
(* The emit buffer for every limit and all rows and batches: the byte      *)
(* estimate stays below the limit outside a flush, and in step with the    *)
(* rows the table holds; the table decodes to the rows queued in it, and   *)
(* what the database reads is what was emitted.                            *)
(***************************************************************************)
EXTENDS EmitBuffer, TypeBlocksProofs

\* Rows as the queue holds them.
Queued == {Delivery(row, number) : row \in Rows, number \in Int}

(* A batch is walked in order: the rows behind packed are in the table, the *)
(* ones from there to done are accounted for only.  Outside a batch there   *)
(* are none of the latter, and a flush in the middle of one comes right     *)
(* after a pack.                                                           *)
BatchInv ==
  /\ batch \in [rows : Seq(Rows), done : Nat, packed : Nat]
  /\ batch.packed <= batch.done /\ batch.done <= Len(batch.rows)
  /\ mode # "batch" => batch.packed = batch.done

CountInv ==
  /\ mode \in Modes
  /\ calls \in Nat
  /\ estimate \in Nat
  /\ table.rows \in Nat
  /\ queue \in Seq(Queued)
  /\ table.rows = Len(queue) - (batch.done - batch.packed)
  /\ estimate = 0 <=> queue = <<>>

BufferInv == CountInv /\ BatchInv /\ NeverLate

-----------------------------------------------------------------------------
(* The byte costs: sums over the values of a row and over the rows of a     *)
(* batch, one number after the other.                                      *)

\* The greatest of some indices is one of them.
LEMMA MaxIsIn == ASSUME NEW n \in Nat, NEW s \in SUBSET (1..n), s # {} PROVE Max(s) \in s
<1> DEFINE Below == {n - x : x \in s}
           Top(x) == \A y \in s : x >= y
<1>1. Below \in SUBSET Nat /\ Below # {}
  <2>1. \A x \in s : n - x \in Nat
    OBVIOUS
  <2>2. QED BY <2>1
<1>2. PICK m \in Below : \A k \in Below : m <= k
  BY <1>1, LeastNumber, Zenon
<1>3. PICK x \in s : m = n - x
  BY <1>2
<1>4. Top(x)
  <2> SUFFICES ASSUME NEW y \in s PROVE x >= y
    OBVIOUS
  <2>1. n - x <= n - y
    BY <1>2, <1>3
  <2>2. x \in Nat /\ y \in Nat
    OBVIOUS
  <2>3. QED BY <2>1, <2>2
<1> HIDE DEF Top
<1>5. (CHOOSE y \in s : Top(y)) \in s
  BY <1>3, <1>4
<1>6. Max(s) = CHOOSE y \in s : Top(y)
  BY Zenon DEF Max, Top
<1>7. QED BY <1>5, <1>6

\* g adds up the weights, the last one first, as FoldLeft takes them.
Sums(g, n, base, weight) ==
  g = [s \in SUBSET (1..n) |-> IF s = {} THEN base ELSE g[s \ {Max(s)}] + weight[Max(s)]]

LEMMA SumsExist ==
  ASSUME NEW base, NEW weight, NEW k \in Nat
  PROVE  \E g : Sums(g, k, base, weight)
<1> DEFINE Missing == {n \in Nat : ~\E g : Sums(g, n, base, weight)}
<1>1. SUFFICES ASSUME Missing # {}
               PROVE  FALSE
  OBVIOUS
<1>2. PICK n \in Missing : \A m \in Missing : n <= m
  <2>1. Missing \in SUBSET Nat
    OBVIOUS
  <2>2. QED BY <1>1, <2>1, LeastNumber, Zenon
<1>3. n # 0
  <2>1. Sums([s \in SUBSET (1..0) |-> base], 0, base, weight)
    <3>1. \A s \in SUBSET (1..0) : s = {}
      OBVIOUS
    <3>2. QED BY <3>1, Zenon DEF Sums
  <2>2. QED BY <1>2, <2>1
<1>4. PICK g : Sums(g, n - 1, base, weight)
  <2>1. n \in Nat /\ n - 1 \in Nat /\ ~(n <= n - 1)
    BY <1>2, <1>3
  <2>2. n - 1 \notin Missing
    BY <1>2, <2>1, Zenon
  <2>3. QED BY <2>1, <2>2, Zenon
<1> DEFINE h == [s \in SUBSET (1..n) |-> IF n \in s THEN g[s \ {n}] + weight[n] ELSE g[s]]
<1>5. n \in Nat \ {0}
  BY <1>2, <1>3
<1>6. ASSUME NEW s \in SUBSET (1..n)
      PROVE  h[s] = IF s = {} THEN base ELSE h[s \ {Max(s)}] + weight[Max(s)]
  <2>1. CASE n \in s
    <3>1. Max(s) = n
      BY <1>5, <2>1, MaxOfUpTo
    <3>2. s \ {n} \in SUBSET (1..n) /\ n \notin s \ {n}
      OBVIOUS
    <3>3. h[s \ {n}] = g[s \ {n}]
      BY <3>2, Zenon
    <3>4. QED BY <2>1, <3>1, <3>3, Zenon
  <2>2. CASE n \notin s
    <3>1. s \in SUBSET (1..(n - 1))
      BY <1>5, <2>2
    <3>2. s \ {Max(s)} \in SUBSET (1..n) /\ n \notin s \ {Max(s)}
      BY <2>2
    <3>3. h[s \ {Max(s)}] = g[s \ {Max(s)}] /\ h[s] = g[s]
      BY <2>2, <3>2, Zenon
    <3>4. g[s] = IF s = {} THEN base ELSE g[s \ {Max(s)}] + weight[Max(s)]
      BY <1>4, <3>1, Zenon DEF Sums
    <3>5. QED BY <3>3, <3>4, Zenon
  <2>3. QED BY <2>1, <2>2
<1>7. Sums(h, n, base, weight)
  <2>1. h = [s \in SUBSET (1..n) |->
               IF s = {} THEN base ELSE h[s \ {Max(s)}] + weight[Max(s)]]
    BY <1>6, Zenon
  <2> HIDE DEF h
  <2>2. QED BY <2>1, Zenon DEF Sums
<1>8. QED BY <1>2, <1>7

\* A sum of natural numbers is one, and no smaller than its base and its last number.
LEMMA SumsType ==
  ASSUME NEW base \in Nat, NEW n \in Nat, NEW weight \in [1..n -> Nat],
         NEW g, Sums(g, n, base, weight)
  PROVE  /\ g[1..n] \in Nat /\ g[1..n] >= base
         /\ n # 0 => g[1..n] >= weight[n]
<1>1. \A s \in SUBSET (1..n) :
        g[s] = IF s = {} THEN base ELSE g[s \ {Max(s)}] + weight[Max(s)]
  BY Zenon DEF Sums
<1> DEFINE Bad == {m \in Nat : m <= n /\ ~(g[1..m] \in Nat /\ g[1..m] >= base)}
<1>2. ASSUME NEW m \in Nat \ {0}, m <= n
      PROVE  g[1..m] = g[1..(m - 1)] + weight[m] /\ weight[m] \in Nat
  <2>1. 1..m \in SUBSET (1..n) /\ 1..m # {} /\ m \in 1..m /\ m \in 1..n
    BY <1>2
  <2>2. Max(1..m) = m
    BY <2>1, MaxOfUpTo
  <2>3. (1..m) \ {m} = 1..(m - 1)
    <3>1. \A x : x \in (1..m) \ {m} <=> x \in 1..(m - 1)
      BY <1>2
    <3>2. QED BY <3>1
  <2>4. QED BY <1>1, <2>1, <2>2, <2>3
<1>3. Bad = {}
  <2> SUFFICES ASSUME Bad # {} PROVE FALSE
    OBVIOUS
  <2>1. Bad \in SUBSET Nat
    OBVIOUS
  <2>2. PICK m \in Bad : \A k \in Bad : m <= k
    BY <2>1, LeastNumber, Zenon
  <2>3. m # 0
    <3>1. 1..0 = {} /\ {} \in SUBSET (1..n)
      OBVIOUS
    <3>2. g[1..0] = base
      BY <1>1, <3>1
    <3>3. QED BY <2>2, <3>2
  <2>4. m - 1 \in Nat /\ m - 1 <= n /\ ~(m <= m - 1) /\ m <= n /\ m \in Nat \ {0}
    BY <2>2, <2>3
  <2>5. m - 1 \notin Bad
    BY <2>2, <2>4, Zenon
  <2>6. g[1..(m - 1)] \in Nat /\ g[1..(m - 1)] >= base
    BY <2>4, <2>5
  <2>7. g[1..m] = g[1..(m - 1)] + weight[m] /\ weight[m] \in Nat
    BY <1>2, <2>4
  <2>8. g[1..m] \in Nat /\ g[1..m] >= base
    BY <2>6, <2>7
  <2>9. QED BY <2>2, <2>8
<1>4. ASSUME NEW m \in Nat, m <= n PROVE g[1..m] \in Nat /\ g[1..m] >= base
  BY <1>3, <1>4
<1>5. ASSUME n # 0 PROVE g[1..n] >= weight[n]
  <2>1. n \in Nat \ {0} /\ n - 1 \in Nat /\ n - 1 <= n /\ n <= n
    BY <1>5
  <2>2. g[1..n] = g[1..(n - 1)] + weight[n] /\ weight[n] \in Nat
    BY <1>2, <2>1
  <2>3. g[1..(n - 1)] \in Nat
    BY <1>4, <2>1
  <2>4. QED BY <2>2, <2>3
<1>6. QED BY <1>4, <1>5

LEMMA ValueCostType == ASSUME NEW value, IsValue(value) PROVE ValueCost(value) \in Nat
  BY DEF IsValue, ValueCost

\* Every row costs something, its number at least.
LEMMA RowCostType ==
  ASSUME NEW row, DOMAIN row = 1..Len(row), Len(row) \in Nat,
         \A c \in DOMAIN row : IsValue(row[c])
  PROVE  RowCost(row) \in Nat \ {0}
<1> DEFINE n      == Len(row)
           weight == [c \in 1..n |-> ValueCost(row[c])]
           g      == CHOOSE x : Sums(x, n, RowNumberBytes, weight)
<1>1. weight \in [1..n -> Nat]
  BY ValueCostType
<1>2. Sums(g, n, RowNumberBytes, weight)
  BY SumsExist, Zenon
<1>3. \A x : Sums(x, n, RowNumberBytes, weight)
               <=> x = [s \in SUBSET (1..n) |-> IF s = {} THEN RowNumberBytes
                          ELSE x[s \ {Max(s)}] + ValueCost(row[Max(s)])]
  <2>1. \A s \in SUBSET (1..n) : s # {} => weight[Max(s)] = ValueCost(row[Max(s)])
    <3>1. \A s \in SUBSET (1..n) : s # {} => Max(s) \in 1..n
      BY MaxIsIn
    <3>2. QED BY <3>1
  <2> HIDE DEF weight
  <2> TAKE x
  <2>2. [s \in SUBSET (1..n) |-> IF s = {} THEN RowNumberBytes
                                 ELSE x[s \ {Max(s)}] + weight[Max(s)]]
        = [s \in SUBSET (1..n) |-> IF s = {} THEN RowNumberBytes
                                 ELSE x[s \ {Max(s)}] + ValueCost(row[Max(s)])]
    BY <2>1, Zenon
  <2>3. QED BY <2>2, Zenon DEF Sums
<1>4. RowCost(row) = g[1..n]
  <2>1. RowCost(row) =
          (CHOOSE x : x = [s \in SUBSET DOMAIN row |-> IF s = {} THEN RowNumberBytes
                             ELSE x[s \ {Max(s)}] + ValueCost(row[Max(s)])])[DOMAIN row]
    BY Zenon DEF RowCost, FoldLeft, MapThenFoldSet
  <2> DEFINE G(x) == Sums(x, n, RowNumberBytes, weight)
             H(x) == x = [s \in SUBSET (1..n) |-> IF s = {} THEN RowNumberBytes
                             ELSE x[s \ {Max(s)}] + ValueCost(row[Max(s)])]
  <2>2. \A x : G(x) <=> H(x)
    BY <1>3, Zenon
  <2>3. RowCost(row) = (CHOOSE x : H(x))[1..n]
    BY <2>1, Zenon
  <2>4. g = CHOOSE x : G(x)
    BY Zenon
  <2> HIDE DEF G, H, g
  <2>5. (CHOOSE x : G(x)) = (CHOOSE x : H(x))
    BY <2>2
  <2>6. QED BY <2>3, <2>4, <2>5, Zenon
<1>5. RowNumberBytes \in Nat \ {0}
  BY DEF RowNumberBytes
<1> HIDE DEF g, weight, n
<1>6. g[1..n] \in Nat /\ g[1..n] >= RowNumberBytes
  BY <1>1, <1>2, <1>5, SumsType DEF n
<1>7. QED BY <1>4, <1>5, <1>6

\* A batch of rows costs what its last row costs at least.
LEMMA RowsCostType ==
  ASSUME NEW rows, DOMAIN rows = 1..Len(rows), Len(rows) \in Nat \ {0},
         \A r \in DOMAIN rows : RowCost(rows[r]) \in Nat \ {0}
  PROVE  RowsCost(rows) \in Nat \ {0}
<1> DEFINE n      == Len(rows)
           weight == [r \in 1..n |-> RowCost(rows[r])]
           g      == CHOOSE x : Sums(x, n, 0, weight)
<1>1. weight \in [1..n -> Nat]
  OBVIOUS
<1>2. Sums(g, n, 0, weight)
  BY SumsExist, Zenon
<1>3. \A x : Sums(x, n, 0, weight)
               <=> x = [s \in SUBSET (1..n) |-> IF s = {} THEN 0
                          ELSE x[s \ {Max(s)}] + RowCost(rows[Max(s)])]
  <2>1. \A s \in SUBSET (1..n) : s # {} => weight[Max(s)] = RowCost(rows[Max(s)])
    <3>1. \A s \in SUBSET (1..n) : s # {} => Max(s) \in 1..n
      BY MaxIsIn
    <3>2. QED BY <3>1
  <2> HIDE DEF weight
  <2> TAKE x
  <2>2. [s \in SUBSET (1..n) |-> IF s = {} THEN 0
                                 ELSE x[s \ {Max(s)}] + weight[Max(s)]]
        = [s \in SUBSET (1..n) |-> IF s = {} THEN 0
                                 ELSE x[s \ {Max(s)}] + RowCost(rows[Max(s)])]
    BY <2>1, Zenon
  <2>3. QED BY <2>2, Zenon DEF Sums
<1>4. RowsCost(rows) = g[1..n]
  <2>1. RowsCost(rows) =
          (CHOOSE x : x = [s \in SUBSET DOMAIN rows |-> IF s = {} THEN 0
                             ELSE x[s \ {Max(s)}] + RowCost(rows[Max(s)])])[DOMAIN rows]
    BY Zenon DEF RowsCost, FoldLeft, MapThenFoldSet
  <2> DEFINE G(x) == Sums(x, n, 0, weight)
             H(x) == x = [s \in SUBSET (1..n) |-> IF s = {} THEN 0
                             ELSE x[s \ {Max(s)}] + RowCost(rows[Max(s)])]
  <2>2. \A x : G(x) <=> H(x)
    BY <1>3, Zenon
  <2>3. RowsCost(rows) = (CHOOSE x : H(x))[1..n]
    BY <2>1, Zenon
  <2>4. g = CHOOSE x : G(x)
    BY Zenon
  <2> HIDE DEF G, H, g
  <2>5. (CHOOSE x : G(x)) = (CHOOSE x : H(x))
    BY <2>2
  <2>6. QED BY <2>3, <2>4, <2>5, Zenon
<1>5. n \in Nat \ {0} /\ weight[n] \in Nat \ {0}
  OBVIOUS
<1> HIDE DEF g, weight, n
<1>6. g[1..n] \in Nat /\ g[1..n] >= weight[n]
  BY <1>1, <1>2, <1>5, SumsType
<1>7. QED BY <1>4, <1>5, <1>6

\* What a row of Rows and a batch of Batches cost.
LEMMA CostsPositive ==
  /\ \A row \in Rows : RowCost(row) \in Nat \ {0}
  /\ \A rows \in Batches : RowsCost(rows) \in Nat \ {0}
<1>1. ASSUME NEW row \in Rows PROVE RowCost(row) \in Nat \ {0}
  <2>1. /\ Len(row) \in Nat /\ DOMAIN row = 1..Len(row)
        /\ \A c \in DOMAIN row : IsValue(row[c])
    BY EmitAssumption
  <2>2. QED BY <2>1, RowCostType
<1>2. ASSUME NEW rows \in Batches PROVE RowsCost(rows) \in Nat \ {0}
  <2>1. rows \in Seq(Rows) \ {<<>>}
    BY EmitAssumption
  <2>2. Len(rows) \in Nat \ {0} /\ DOMAIN rows = 1..Len(rows)
    BY <2>1
  <2>3. \A r \in DOMAIN rows : RowCost(rows[r]) \in Nat \ {0}
    BY <1>1, <2>1, <2>2
  <2>4. QED BY <2>2, <2>3, RowsCostType
<1>3. QED BY <1>1, <1>2

-----------------------------------------------------------------------------
(* A slice of the accounted rows is as long as the distance it spans.       *)
LEMMA SliceLength ==
  ASSUME NEW s \in Seq(Rows), NEW m \in Nat, NEW n \in Nat, m <= n, n <= Len(s)
  PROVE  Len(SubSeq(s, m + 1, n)) = n - m
OBVIOUS

(* Packing adds exactly the rows packed.                                     *)
LEMMA PackRows ==
  ASSUME NEW t, NEW rows, NEW number
  PROVE  Pack(t, rows, number).rows = t.rows + Len(rows)
BY DEF Pack

(* A row handed over is queued behind the others.                            *)
LEMMA PutOne ==
  ASSUME queue \in Seq(Queued), NEW row \in Rows, NEW number \in Int,
         Put(<<Delivery(row, number)>>)
  PROVE  queue' \in Seq(Queued) /\ Len(queue') = Len(queue) + 1 /\ queue' # <<>>
<1> DEFINE d == Delivery(row, number)
<1>1. d \in Queued
  BY DEF Queued
<1> HIDE DEF d
<1>2. queue' = queue \o <<d>>
  BY DEF Put, d
<1>3. <<d>> \in Seq(Queued) /\ Len(<<d>>) = 1
  BY <1>1
<1>4. QED BY <1>2, <1>3

(* So are the rows of a batch.                                               *)
LEMMA PutMany ==
  ASSUME queue \in Seq(Queued), NEW rows \in Seq(Rows) \ {<<>>}, NEW number \in Int,
         Put(Deliveries(rows, number))
  PROVE  queue' \in Seq(Queued) /\ Len(queue') = Len(queue) + Len(rows) /\ queue' # <<>>
<1> DEFINE ds == Deliveries(rows, number)
<1>1. DOMAIN rows = 1..Len(rows) /\ Len(rows) \in Nat \ {0}
  OBVIOUS
<1>2. \A r \in 1..Len(rows) : Delivery(rows[r], number) \in Queued
  BY DEF Queued
<1>3. ds = [r \in 1..Len(rows) |-> Delivery(rows[r], number)]
  BY <1>1 DEF Deliveries
<1>4. ds \in Seq(Queued) /\ Len(ds) = Len(rows)
  BY <1>1, <1>2, <1>3
<1> HIDE DEF ds
<1>5. queue' = queue \o ds
  BY DEF Put, ds
<1>6. Len(queue') = Len(queue) + Len(rows) /\ queue' \in Seq(Queued)
  BY <1>4, <1>5, ConcatProperties
<1>7. queue' # <<>>
  BY <1>1, <1>6
<1>8. QED BY <1>6, <1>7

-----------------------------------------------------------------------------
LEMMA BufferInit == Init => BufferInv
<1> SUFFICES ASSUME Init PROVE BufferInv
  OBVIOUS
<1>1. table.rows = 0 /\ batch = NoBatch /\ queue = <<>> /\ estimate = 0 /\ mode = "idle"
  BY DEF Init, EmptyTable
<1>2. BatchInv
  BY <1>1 DEF BatchInv, NoBatch
<1>3. CountInv
  BY <1>1 DEF CountInv, NoBatch, Modes, Init
<1>4. QED BY <1>1, <1>2, <1>3, EmitAssumption DEF BufferInv, NeverLate

(* emit: the row is counted, put in the table, and the limit checked.        *)
LEMMA EmitRowKeeps == ASSUME BufferInv, NEW row \in Rows, EmitRow(row) PROVE BufferInv'
<1> USE DEF BufferInv
<1>1. RowCost(row) \in Nat \ {0} /\ Limit \in Nat \ {0} /\ calls \in Nat
  BY EmitAssumption, CostsPositive DEF CountInv
<1>2. queue' \in Seq(Queued) /\ Len(queue') = Len(queue) + 1 /\ queue' # <<>>
  BY <1>1, PutOne DEF EmitRow, CountInv
<1>3. table'.rows = table.rows + 1 /\ estimate' = estimate + RowCost(row) /\ batch' = batch
  BY DEF EmitRow, PushRow
<1>4. mode = "idle" /\ mode' = (IF estimate' >= Limit THEN "flush" ELSE "idle")
  BY DEF EmitRow, ContextCall
<1>5. calls' = calls + 1
  BY DEF EmitRow, ContextCall
<1>6. /\ estimate' \in Nat \ {0} /\ calls' \in Nat /\ table.rows \in Nat
      /\ table.rows = Len(queue) - (batch.done - batch.packed) /\ Len(queue) \in Nat
  BY <1>1, <1>3, <1>5 DEF CountInv
<1>7. batch.done \in Nat /\ batch.packed \in Nat
  BY DEF BatchInv
<1>8. table'.rows \in Nat /\ table'.rows = Len(queue') - (batch'.done - batch'.packed)
  BY <1>2, <1>3, <1>6, <1>7
<1>9. mode' \in Modes
  BY <1>4 DEF Modes
<1>10. CountInv'
  BY <1>2, <1>6, <1>8, <1>9 DEF CountInv
<1>11. BatchInv' /\ NeverLate'
  BY <1>1, <1>3, <1>4, <1>6 DEF BatchInv, NeverLate
<1>12. QED BY <1>10, <1>11

(* emit_batch, in one piece.                                                 *)
LEMMA SmallBatchKeeps ==
  ASSUME BufferInv, NEW rows \in Batches, NEW span \in NullSpans, EmitSmallBatch(rows, span)
  PROVE  BufferInv'
<1> USE DEF BufferInv
<1>1. /\ rows \in Seq(Rows) \ {<<>>} /\ RowsCost(rows) \in Nat \ {0} /\ span \in Nat
      /\ Limit \in Nat \ {0} /\ calls \in Nat
  BY EmitAssumption, CostsPositive DEF CountInv
<1>2. queue' \in Seq(Queued) /\ Len(queue') = Len(queue) + Len(rows) /\ queue' # <<>>
  BY <1>1, PutMany DEF EmitSmallBatch, CountInv
<1>3. table'.rows = table.rows + Len(rows)
  BY PackRows DEF EmitSmallBatch
<1>4. /\ estimate' = estimate + RowsCost(rows) + span /\ estimate' < Limit
      /\ mode = "idle" /\ mode' = "idle" /\ batch' = batch /\ calls' = calls + 1
  BY <1>1 DEF EmitSmallBatch, ContextCall, BatchFits, CountInv
<1>5. Len(rows) \in Nat \ {0}
  BY <1>1
<1>6. estimate' \in Nat \ {0} /\ table'.rows \in Nat
  BY <1>1, <1>3, <1>4, <1>5 DEF CountInv
<1>7. table'.rows = Len(queue') - (batch'.done - batch'.packed)
  <2>1. batch'.done - batch'.packed = 0 /\ batch.done - batch.packed = 0
    BY <1>4 DEF BatchInv
  <2>2. table.rows = Len(queue) /\ Len(queue) \in Nat
    BY <2>1 DEF CountInv
  <2>3. QED BY <1>2, <1>3, <1>5, <2>1, <2>2
<1>8. CountInv'
  BY <1>1, <1>2, <1>4, <1>6, <1>7 DEF CountInv, Modes
<1>9. BatchInv' /\ NeverLate'
  BY <1>4 DEF BatchInv, NeverLate
<1>10. QED BY <1>8, <1>9

(* emit_batch, row by row: nothing is accounted for yet.                     *)
LEMMA LargeBatchKeeps ==
  ASSUME BufferInv, NEW rows \in Batches, NEW span \in NullSpans, EmitLargeBatch(rows, span)
  PROVE  BufferInv'
<1> USE DEF BufferInv
<1>1. /\ mode = "idle" /\ mode' = "batch" /\ calls' = calls + 1
      /\ batch' = [rows |-> rows, done |-> 0, packed |-> 0]
      /\ UNCHANGED <<table, estimate, queue>>
  BY DEF EmitLargeBatch, ContextCall, NoBatch
<1>2. rows \in Seq(Rows) /\ Len(rows) \in Nat
  BY EmitAssumption
<1>3. BatchInv'
  BY <1>1, <1>2 DEF BatchInv
<1>4. CountInv'
  BY <1>1 DEF CountInv, BatchInv, Modes
<1>5. NeverLate'
  BY <1>1 DEF NeverLate
<1>6. QED BY <1>3, <1>4, <1>5

(* One row of the batch, packed with those before it when it fills the       *)
(* buffer.                                                                   *)
LEMMA BatchRowKeeps == ASSUME BufferInv, BatchRow PROVE BufferInv'
<1> USE DEF BufferInv
<1> DEFINE row  == batch.rows[batch.done + 1]
           done == batch.done + 1
<1>1. /\ mode = "batch" /\ batch.done < Len(batch.rows) /\ calls' = calls
      /\ batch.rows \in Seq(Rows) /\ batch.done \in Nat /\ batch.packed \in Nat
      /\ batch.packed <= batch.done /\ calls \in Nat
  BY DEF BatchRow, BatchInv, CountInv
<1>2. row \in Rows
  BY <1>1
<1>3. RowCost(row) \in Nat \ {0} /\ Limit \in Nat \ {0}
  BY <1>2, EmitAssumption, CostsPositive
<1>4. estimate' = estimate + RowCost(row) /\ Put(<<Delivery(row, calls - 1)>>)
  BY DEF BatchRow
<1>5. queue' \in Seq(Queued) /\ Len(queue') = Len(queue) + 1 /\ queue' # <<>>
  BY <1>1, <1>2, <1>4, PutOne DEF CountInv
<1>6. /\ estimate' \in Nat \ {0} /\ calls' \in Nat
      /\ table.rows \in Nat /\ Len(queue) \in Nat
      /\ table.rows = Len(queue) - (batch.done - batch.packed)
  BY <1>1, <1>3, <1>4 DEF CountInv
<1>7. CASE estimate' >= Limit
  <2>1. mode' = "flush" /\ BatchPacked(done)
    BY <1>7 DEF BatchRow
  <2>2. batch' = [batch EXCEPT !.done = done, !.packed = done]
    BY <2>1 DEF BatchPacked
  <2>3. table'.rows = table.rows + (done - batch.packed)
    <3>1. table'.rows = table.rows + Len(SubSeq(batch.rows, batch.packed + 1, done))
      BY <2>1, PackRows DEF BatchPacked
    <3>2. /\ batch.rows \in Seq(Rows) /\ batch.packed \in Nat /\ done \in Nat
          /\ batch.packed <= done /\ done <= Len(batch.rows)
      BY <1>1
    <3> HIDE DEF done
    <3>3. Len(SubSeq(batch.rows, batch.packed + 1, done)) = done - batch.packed
      BY <3>2, SliceLength
    <3>4. QED BY <3>1, <3>3, Zenon
  <2>4. BatchInv'
    <3>1. batch' = [rows |-> batch.rows, done |-> done, packed |-> done]
      BY <2>2 DEF BatchInv
    <3>2. done \in Nat /\ done <= Len(batch.rows)
      BY <1>1
    <3>3. QED BY <1>1, <2>1, <3>1, <3>2 DEF BatchInv
  <2>5. batch'.done - batch'.packed = 0
    BY <1>1, <2>2 DEF BatchInv
  <2>6. table'.rows \in Nat /\ table'.rows = Len(queue') - (batch'.done - batch'.packed)
    BY <1>1, <1>5, <1>6, <2>3, <2>5
  <2>7. CountInv'
    BY <1>5, <1>6, <2>1, <2>6 DEF CountInv, Modes
  <2>8. QED BY <2>1, <2>4, <2>7 DEF NeverLate
<1>8. CASE ~(estimate' >= Limit)
  <2>1. mode' = mode /\ table' = table /\ batch' = [batch EXCEPT !.done = done]
    BY <1>8 DEF BatchRow
  <2>2. batch' = [rows |-> batch.rows, done |-> done, packed |-> batch.packed]
    BY <2>1 DEF BatchInv
  <2>3. BatchInv'
    BY <1>1, <2>1, <2>2 DEF BatchInv
  <2>4. table'.rows = Len(queue') - (batch'.done - batch'.packed)
    BY <1>1, <1>5, <1>6, <2>1, <2>2
  <2>5. CountInv'
    BY <1>1, <1>5, <1>6, <2>1, <2>4 DEF CountInv, Modes
  <2>6. NeverLate'
    BY <1>3, <1>6, <1>8 DEF NeverLate
  <2>7. QED BY <2>3, <2>5, <2>6
<1>9. QED BY <1>7, <1>8

(* The rows that did not fill the buffer again are packed at the end.         *)
LEMMA BatchEndKeeps == ASSUME BufferInv, BatchEnd PROVE BufferInv'
<1> USE DEF BufferInv
<1>1. /\ mode = "batch" /\ mode' = "idle" /\ batch' = NoBatch
      /\ UNCHANGED <<estimate, calls, queue>>
      /\ batch.rows \in Seq(Rows) /\ batch.done \in Nat /\ batch.packed \in Nat
      /\ batch.packed <= batch.done /\ batch.done <= Len(batch.rows)
  BY DEF BatchEnd, BatchInv
<1>2. table'.rows = table.rows + Len(SubSeq(batch.rows, batch.packed + 1, batch.done))
  BY PackRows DEF BatchEnd
<1>3. table'.rows = table.rows + (batch.done - batch.packed)
  BY <1>1, <1>2, SliceLength
<1>4. CountInv'
  BY <1>1, <1>3 DEF CountInv, NoBatch, Modes
<1>5. BatchInv' /\ NeverLate'
  BY <1>1 DEF BatchInv, NeverLate, NoBatch
<1>6. QED BY <1>4, <1>5

(* A flush leaves nothing behind, sent or not.                                *)
LEMMA FlushKeeps == ASSUME BufferInv, NEW received \in BOOLEAN, Flush(received) PROVE BufferInv'
<1> USE DEF BufferInv
<1>1. /\ mode \in {"flush", "tail"} /\ table'.rows = 0 /\ estimate' = 0 /\ queue' = <<>>
      /\ calls' = calls
  BY DEF Flush, Cleared, EmptyTable
<1>2. batch' = batch \/ batch' = NoBatch
  BY DEF Flush
<1>3. mode' \in Modes
  BY DEF Flush, Modes
<1>4. batch.packed = batch.done
  BY <1>1 DEF BatchInv
<1>5. BatchInv'
  <2>1. CASE batch' = batch
    BY <1>4, <2>1 DEF BatchInv
  <2>2. CASE batch' = NoBatch
    BY <2>2 DEF BatchInv, NoBatch
  <2>3. QED BY <1>2, <2>1, <2>2
<1>6. CountInv'
  BY <1>1, <1>2, <1>3, <1>4 DEF CountInv, BatchInv, NoBatch
<1>7. NeverLate'
  BY <1>1, EmitAssumption DEF NeverLate
<1>8. QED BY <1>5, <1>6, <1>7

(* The end of the group moves on to the last flush, or closes.                *)
LEMMA TailFlushKeeps == ASSUME BufferInv, TailFlush PROVE BufferInv'
BY DEF BufferInv, TailFlush, CountInv, BatchInv, NeverLate, Modes

LEMMA BufferStep == BufferInv /\ [Next]_vars => BufferInv'
<1> SUFFICES ASSUME BufferInv, [Next]_vars PROVE BufferInv'
  OBVIOUS
<1>1. CASE UNCHANGED vars \/ Closed
  BY <1>1 DEF vars, Closed, BufferInv, CountInv, BatchInv, NeverLate
<1>2. CASE \E row \in Rows : EmitRow(row)
  BY <1>2, EmitRowKeeps
<1>3. CASE \E rows \in Batches, span \in NullSpans :
             EmitSmallBatch(rows, span) \/ EmitLargeBatch(rows, span)
  BY <1>3, SmallBatchKeeps, LargeBatchKeeps
<1>4. CASE \E received \in BOOLEAN : Flush(received)
  BY <1>4, FlushKeeps
<1>5. QED
  BY <1>1, <1>2, <1>3, <1>4, BatchRowKeeps, BatchEndKeeps, TailFlushKeeps DEF Next

-----------------------------------------------------------------------------
(* Whatever rows and batches are mixed, less than the limit is buffered       *)
(* outside a flush (push_output_row, push_batch).                             *)
THEOREM FlushesInTime == Spec => []NeverLate
<1>1. BufferInv => NeverLate
  BY DEF BufferInv
<1>2. QED BY <1>1, BufferInit, BufferStep, PTL DEF Spec

(* The estimate and the table stay in step with the rows not flushed yet      *)
(* (account, pack, clear).                                                    *)
THEOREM EstimateStaysInStep == Spec => []EstimateInStep
<1>1. BufferInv => EstimateInStep
  BY DEF BufferInv, CountInv, BatchInv, EstimateInStep
<1>2. QED BY <1>1, BufferInit, BufferStep, PTL DEF Spec

-----------------------------------------------------------------------------
(* What the table holds.                                                     *)
AcceptedRows == {row \in Rows : Accepted(row)}

\* A row the checks let through fits its columns, and is meant as it is queued.
LEMMA AcceptedFits ==
  ASSUME NEW row \in AcceptedRows, NEW number
  PROVE  Fits(row) /\ Delivery(row, number) = RowMeant(row, number)
<1>1. DOMAIN row = 1..Len(row) /\ \A c \in DOMAIN row : IsValue(row[c])
  BY EmitAssumption DEF AcceptedRows
<1>2. /\ Len(row) = Len(Columns)
      /\ \A c \in DOMAIN Columns : ColumnAccepts(Columns[c], row[c])
  BY DEF AcceptedRows, Accepted
<1>3. DOMAIN row = DOMAIN Columns
  BY <1>1, <1>2, ColumnNumbers, Zenon DEF Width
<1>4. \A c \in DOMAIN Columns : CellAt(row, c) = row[c]
  BY <1>3 DEF CellAt
<1>5. Fits(row)
  BY <1>1, <1>2, <1>3, <1>4 DEF Fits
<1>6. [c \in DOMAIN row |->
        Reading(IF c \in DOMAIN Columns THEN Columns[c] ELSE "none", row[c])]
        = [c \in DOMAIN Columns |-> Reading(Columns[c], CellAt(row, c))]
  BY <1>3, <1>4
<1>7. Delivery(row, number) = RowMeant(row, number)
  BY <1>6, Zenon DEF Delivery, RowMeant
<1>8. QED BY <1>5, <1>7

LEMMA DeliveriesMeant ==
  ASSUME NEW rows \in Seq(AcceptedRows), NEW number \in Int
  PROVE  /\ Deliveries(rows, number) = RowsMeant(rows, number)
         /\ Deliveries(rows, number) \in Seq(Queued)
         /\ Len(Deliveries(rows, number)) = Len(rows)
         /\ \A i \in 1..Len(rows) : /\ Deliveries(rows, number)[i] = Delivery(rows[i], number)
                                    /\ Fits(rows[i]) /\ RowMeant(rows[i], number) \in Queued
<1>1. /\ DOMAIN rows = 1..Len(rows) /\ Len(rows) \in Nat
      /\ \A i \in 1..Len(rows) : rows[i] \in AcceptedRows
  BY LenProperties, ElementOfSeq
<1>2. \A i \in 1..Len(rows) :
        Fits(rows[i]) /\ Delivery(rows[i], number) = RowMeant(rows[i], number)
  BY <1>1, AcceptedFits
<1>3. \A i \in 1..Len(rows) : Delivery(rows[i], number) \in Queued
  BY <1>1 DEF Queued, AcceptedRows
<1>4. Deliveries(rows, number) = [i \in 1..Len(rows) |-> Delivery(rows[i], number)]
  BY <1>1, Zenon DEF Deliveries
<1>5. RowsMeant(rows, number) = [i \in 1..Len(rows) |-> Delivery(rows[i], number)]
  BY <1>2 DEF RowsMeant
<1>6. QED BY <1>1, <1>2, <1>3, <1>4, <1>5

\* A slice of accepted rows, and the next row behind it.
LEMMA SliceGrows ==
  ASSUME NEW s \in Seq(AcceptedRows), NEW m \in Nat, NEW n \in Nat, m <= n, n <= Len(s)
  PROVE  /\ SubSeq(s, m + 1, n) \in Seq(AcceptedRows)
         /\ n < Len(s) => SubSeq(s, m + 1, n + 1) = Append(SubSeq(s, m + 1, n), s[n + 1])
OBVIOUS

LEMMA NothingPending ==
  ASSUME NEW s \in Seq(Rows), NEW n \in Nat, NEW number, NEW q \in Seq(Queued)
  PROVE  q \o Deliveries(SubSeq(s, n + 1, n), number) = q
<1>1. DOMAIN SubSeq(s, n + 1, n) = {}
  <2>1. SubSeq(s, n + 1, n) = <<>>
    OBVIOUS
  <2>2. QED BY <2>1
<1>2. Deliveries(SubSeq(s, n + 1, n), number) = <<>>
  BY <1>1 DEF Deliveries
<1>3. QED BY <1>2

\* The rows of a batch that are accounted for and not packed.
Pending == SubSeq(batch.rows, batch.packed + 1, batch.done)

(* The table reads back as the queue, but for the rows of a batch that are    *)
(* accounted for and not yet packed; a flush has something to send.           *)
TableInv ==
  /\ Layout(table)
  /\ Decode(table) \in Seq(Queued)
  /\ batch.rows \in Batches \cup {<<>>}
  /\ calls \in 0..MaxCalls
  /\ mode \in {"batch", "flush"} => calls > 0
  /\ mode \in {"flush", "tail"} => queue # <<>>
  /\ given \in Seq(Queued) /\ sent \in Seq(Queued)
  /\ queue = Decode(table) \o Deliveries(Pending, calls - 1)

LEMMA BatchesAccepted == ASSUME NEW rows \in Batches \cup {<<>>} PROVE rows \in Seq(AcceptedRows)
<1>1. CASE rows \in Batches
  <2>1. rows \in Seq(Rows) /\ \A r \in DOMAIN rows : Accepted(rows[r])
    BY <1>1, EmitAssumption
  <2>2. DOMAIN rows = 1..Len(rows) /\ Len(rows) \in Nat /\ rows = [i \in 1..Len(rows) |-> rows[i]]
    BY <2>1
  <2>3. \A i \in 1..Len(rows) : rows[i] \in AcceptedRows
    BY <2>1, <2>2, ElementOfSeq DEF AcceptedRows
  <2>4. QED BY <2>2, <2>3
<1>2. CASE rows = <<>>
  BY <1>2
<1>3. QED BY <1>1, <1>2

\* With nothing pending the queue is what the table reads back as.
LEMMA AllPacked ==
  ASSUME BufferInv, TableInv, batch.packed = batch.done
  PROVE  queue = Decode(table)
<1>1. batch.packed \in Nat /\ batch.rows \in Seq(Rows)
  BY DEF BufferInv, BatchInv
<1>2. queue = Decode(table) \o Deliveries(SubSeq(batch.rows, batch.packed + 1, batch.packed), calls - 1)
  BY DEF TableInv, Pending
<1>3. Decode(table) \in Seq(Queued)
  BY DEF TableInv
<1>4. Decode(table) \o Deliveries(SubSeq(batch.rows, batch.packed + 1, batch.packed), calls - 1)
        = Decode(table)
  <2> DEFINE n == batch.packed
             s == batch.rows
             q == Decode(table)
             number == calls - 1
  <2>1. s \in Seq(Rows) /\ n \in Nat /\ q \in Seq(Queued)
    BY <1>1, <1>3
  <2> HIDE DEF n, s, q, number
  <2>2. q \o Deliveries(SubSeq(s, n + 1, n), number) = q
    BY <2>1, NothingPending
  <2>3. QED BY <2>2, Zenon DEF n, s, q, number
<1>5. QED BY <1>2, <1>4, Zenon

LEMMA PackedStill ==
  ASSUME BufferInv', batch'.packed = batch'.done, Decode(table') \in Seq(Queued),
         queue' = Decode(table')
  PROVE  queue' = Decode(table') \o Deliveries(Pending', calls' - 1)
<1>1. batch'.packed \in Nat /\ batch'.rows \in Seq(Rows)
  BY DEF BufferInv, BatchInv
<1>2. Pending' = SubSeq(batch'.rows, batch'.packed + 1, batch'.packed)
  BY DEF Pending
<1> DEFINE q == Decode(table')
           s == batch'.rows
           n == batch'.packed
           number == calls' - 1
<1>3. q \in Seq(Queued) /\ s \in Seq(Rows) /\ n \in Nat
  BY <1>1
<1> HIDE DEF q, s, n, number
<1>4. q \o Deliveries(SubSeq(s, n + 1, n), number) = q
  BY <1>3, NothingPending, Zenon
<1>5. QED BY <1>2, <1>4, Zenon DEF q, s, n, number

LEMMA TableInit == Init => TableInv
<1> SUFFICES ASSUME Init PROVE TableInv
  OBVIOUS
<1>1. /\ table = EmptyTable /\ batch = NoBatch /\ queue = <<>> /\ mode = "idle" /\ calls = 0
      /\ given = <<>> /\ sent = <<>>
  BY DEF Init
<1>2. Layout(table) /\ Decode(table) = <<>>
  BY <1>1, EmptyLayout
<1>3. batch.rows = <<>> /\ batch.packed = 0 /\ batch.done = 0
  BY <1>1 DEF NoBatch
<1>4. queue = Decode(table) \o Deliveries(Pending, calls - 1)
  <2>1. batch.rows \in Seq(Rows) /\ batch.packed \in Nat /\ <<>> \in Seq(Queued)
    BY <1>3
  <2>2. <<>> \o Deliveries(SubSeq(batch.rows, batch.packed + 1, batch.packed), calls - 1) = <<>>
    BY <2>1, NothingPending, Zenon
  <2>3. Pending = SubSeq(batch.rows, batch.packed + 1, batch.packed)
    BY <1>3 DEF Pending
  <2>4. QED BY <1>1, <1>2, <2>2, <2>3, Zenon
<1>5. calls \in 0..MaxCalls
  BY <1>1, EmitAssumption
<1>6. QED BY <1>1, <1>2, <1>3, <1>4, <1>5 DEF TableInv

\* What is put behind the queue and the rows given.
LEMMA PutTypes ==
  ASSUME queue \in Seq(Queued), given \in Seq(Queued), NEW ds \in Seq(Queued), Put(ds)
  PROVE  queue' = queue \o ds /\ given' = given \o ds /\ given' \in Seq(Queued)
<1>1. queue' = queue \o ds /\ given' = given \o ds
  BY DEF Put
<1>2. QED BY <1>1, ConcatProperties

(* emit: the row is the next to be read.                                      *)
LEMMA EmitRowStores ==
  ASSUME BufferInv, BufferInv', TableInv, NEW row \in Rows, EmitRow(row)
  PROVE  TableInv'
<1> DEFINE d == Delivery(row, calls)
<1>1. /\ mode = "idle" /\ calls < MaxCalls /\ calls' = calls + 1 /\ Accepted(row)
      /\ table' = PushRow(table, row, calls) /\ Put(<<d>>)
      /\ batch' = batch /\ sent' = sent
  BY DEF EmitRow, ContextCall
<1>2. /\ calls \in Nat /\ queue \in Seq(Queued) /\ batch.packed = batch.done
      /\ MaxCalls \in Nat
  BY <1>1, EmitAssumption DEF BufferInv, CountInv, BatchInv
<1>3. row \in AcceptedRows
  BY <1>1 DEF AcceptedRows
<1>4. Fits(row) /\ d = RowMeant(row, calls)
  BY <1>3, AcceptedFits
<1>5. d \in Queued
  BY <1>2 DEF Queued
<1> HIDE DEF d
<1>6. queue = Decode(table)
  BY <1>2, AllPacked
<1>7. Layout(table) /\ Decode(table) \in Seq(Queued)
  BY DEF TableInv
<1>8. /\ Layout(PushRow(table, row, calls))
      /\ Decode(PushRow(table, row, calls)) = Append(Decode(table), d)
  <2>1. RowMeant(row, calls) \in Queued
    BY <1>4, <1>5
  <2>2. QED BY <1>2, <1>4, <1>7, <2>1, RowReadsBack
<1>9. <<d>> \in Seq(Queued)
  BY <1>5
<1>10. queue' = queue \o <<d>> /\ given' \in Seq(Queued)
  BY <1>1, <1>2, <1>9, PutTypes DEF TableInv
<1>11. Decode(table') = queue' /\ Layout(table') /\ Decode(table') \in Seq(Queued)
  <2>1. Append(Decode(table), d) = Decode(table) \o <<d>> /\ Append(Decode(table), d) \in Seq(Queued)
    BY <1>5, <1>7
  <2>2. Decode(table') = Append(Decode(table), d) /\ Layout(table')
    BY <1>1, <1>8, Zenon
  <2>3. queue' = Decode(table) \o <<d>>
    BY <1>6, <1>10, Zenon
  <2>4. QED BY <2>1, <2>2, <2>3, Zenon
<1>12. queue' = Decode(table') \o Deliveries(Pending', calls' - 1)
  BY <1>1, <1>2, <1>11, PackedStill
<1>13. calls' \in 0..MaxCalls /\ calls' > 0
  BY <1>1, <1>2
<1>14. queue' # <<>>
  BY <1>2, <1>9, <1>10
<1>15. QED BY <1>1, <1>10, <1>11, <1>12, <1>13, <1>14 DEF TableInv

(* emit_batch in one piece: so are the rows of the batch.                     *)
LEMMA SmallBatchStores ==
  ASSUME BufferInv, BufferInv', TableInv,
         NEW rows \in Batches, NEW span \in NullSpans, EmitSmallBatch(rows, span)
  PROVE  TableInv'
<1> DEFINE ds == Deliveries(rows, calls)
<1>1. /\ mode = "idle" /\ calls < MaxCalls /\ calls' = calls + 1
      /\ table' = Pack(table, rows, calls) /\ Put(ds)
      /\ batch' = batch /\ sent' = sent /\ mode' = mode
  BY DEF EmitSmallBatch, ContextCall
<1>2. /\ calls \in Nat /\ calls \in Int /\ queue \in Seq(Queued) /\ batch.packed = batch.done
      /\ MaxCalls \in Nat
  BY <1>1, EmitAssumption DEF BufferInv, CountInv, BatchInv
<1>3. rows \in Seq(AcceptedRows)
  BY BatchesAccepted
<1>4. /\ ds = RowsMeant(rows, calls) /\ ds \in Seq(Queued)
      /\ \A i \in 1..Len(rows) : Fits(rows[i]) /\ RowMeant(rows[i], calls) \in Queued
  BY <1>2, <1>3, DeliveriesMeant
<1> HIDE DEF ds
<1>5. queue = Decode(table)
  BY <1>2, AllPacked
<1>6. Layout(table) /\ Decode(table) \in Seq(Queued)
  BY DEF TableInv
<1>7. /\ Layout(Pack(table, rows, calls))
      /\ Decode(Pack(table, rows, calls)) = Decode(table) \o RowsMeant(rows, calls)
  BY <1>2, <1>3, <1>4, <1>6, RowsReadBack
<1>8. queue' = queue \o ds /\ given' \in Seq(Queued)
  BY <1>1, <1>2, <1>4, PutTypes DEF TableInv
<1>9. queue' = Decode(table') /\ Layout(table')
  BY <1>1, <1>4, <1>5, <1>7, <1>8, Zenon
<1>10. Decode(table') \in Seq(Queued)
  BY <1>9 DEF BufferInv, CountInv
<1>11. queue' = Decode(table') \o Deliveries(Pending', calls' - 1)
  BY <1>1, <1>2, <1>9, <1>10, PackedStill
<1>12. calls' \in 0..MaxCalls
  BY <1>1, <1>2
<1>13. QED BY <1>1, <1>8, <1>9, <1>10, <1>11, <1>12 DEF TableInv

(* A batch to be read row by row leaves the table alone.                      *)
LEMMA LargeBatchStores ==
  ASSUME BufferInv, BufferInv', TableInv,
         NEW rows \in Batches, NEW span \in NullSpans, EmitLargeBatch(rows, span)
  PROVE  TableInv'
<1>1. /\ mode = "idle" /\ mode' = "batch" /\ calls < MaxCalls /\ calls' = calls + 1
      /\ batch' = [rows |-> rows, done |-> 0, packed |-> 0]
      /\ UNCHANGED <<table, given, queue, sent>>
  BY DEF EmitLargeBatch, ContextCall, NoBatch
<1>2. calls \in Nat /\ MaxCalls \in Nat /\ batch.packed = batch.done
  BY <1>1, EmitAssumption DEF BufferInv, CountInv, BatchInv
<1>3. queue = Decode(table)
  BY <1>2, AllPacked
<1>4. Decode(table') \in Seq(Queued) /\ queue' = Decode(table')
  BY <1>1, <1>3 DEF TableInv
<1>5. queue' = Decode(table') \o Deliveries(Pending', calls' - 1)
  BY <1>1, <1>4, PackedStill
<1>6. calls' \in 0..MaxCalls /\ calls' > 0
  BY <1>1, <1>2
<1>7. QED BY <1>1, <1>4, <1>5, <1>6 DEF TableInv

\* Packing what is pending catches the table up with the queue.
LEMMA PendingPacked ==
  ASSUME TableInv, calls \in Nat, calls > 0, NEW slice \in Seq(AcceptedRows)
  PROVE  /\ Layout(Pack(table, slice, calls - 1))
         /\ Decode(Pack(table, slice, calls - 1))
              = Decode(table) \o Deliveries(slice, calls - 1)
         /\ Decode(table) \o Deliveries(slice, calls - 1) \in Seq(Queued)
<1> DEFINE number == calls - 1
<1>1. number \in Nat /\ number \in Int
  OBVIOUS
<1> HIDE DEF number
<1>2. /\ Deliveries(slice, number) = RowsMeant(slice, number)
      /\ Deliveries(slice, number) \in Seq(Queued)
      /\ \A i \in 1..Len(slice) : Fits(slice[i]) /\ RowMeant(slice[i], number) \in Queued
  BY <1>1, DeliveriesMeant
<1>3. Layout(table) /\ Decode(table) \in Seq(Queued)
  BY DEF TableInv
<1>4. /\ Layout(Pack(table, slice, number))
      /\ Decode(Pack(table, slice, number)) = Decode(table) \o RowsMeant(slice, number)
  BY <1>1, <1>2, <1>3, RowsReadBack
<1>5. Decode(table) \o Deliveries(slice, number) \in Seq(Queued)
  BY <1>2, <1>3, ConcatProperties
<1>6. QED BY <1>2, <1>4, <1>5, Zenon DEF number

\* One more row pending is one more delivery.
LEMMA OneMorePending ==
  ASSUME NEW slice \in Seq(AcceptedRows), NEW row \in AcceptedRows, NEW number \in Int,
         NEW q \in Seq(Queued)
  PROVE  (q \o Deliveries(slice, number)) \o <<Delivery(row, number)>>
           = q \o Deliveries(Append(slice, row), number)
<1> DEFINE d == Delivery(row, number)
           ds == Deliveries(slice, number)
           es == Deliveries(Append(slice, row), number)
<1>1. Append(slice, row) \in Seq(AcceptedRows) /\ Len(Append(slice, row)) = Len(slice) + 1
  OBVIOUS
<1>2. /\ ds \in Seq(Queued) /\ Len(ds) = Len(slice)
      /\ \A i \in 1..Len(slice) : ds[i] = Delivery(slice[i], number)
  BY DeliveriesMeant
<1>3. /\ es \in Seq(Queued) /\ Len(es) = Len(slice) + 1
      /\ \A i \in 1..(Len(slice) + 1) : es[i] = Delivery(Append(slice, row)[i], number)
  BY <1>1, DeliveriesMeant
<1>4. d \in Queued
  BY DEF Queued, AcceptedRows
<1>5. es[Len(slice) + 1] = d /\ \A i \in 1..Len(slice) : es[i] = ds[i]
  <2>1. Append(slice, row)[Len(slice) + 1] = row /\ Len(slice) \in Nat
        /\ \A i \in 1..Len(slice) : Append(slice, row)[i] = slice[i]
    OBVIOUS
  <2>2. QED BY <1>2, <1>3, <2>1
<1> HIDE DEF d, ds, es
<1>6. Len(slice) \in Nat
  OBVIOUS
<1>7. es = ds \o <<d>>
  BY <1>2, <1>3, <1>4, <1>5, <1>6
<1>8. (q \o ds) \o <<d>> = q \o (ds \o <<d>>)
  BY <1>2, <1>4
<1>9. QED BY <1>7, <1>8 DEF d, ds, es

(* One row of a large batch: pending, or packed with the rows before it.      *)
LEMMA BatchRowStores == ASSUME BufferInv, BufferInv', TableInv, BatchRow PROVE TableInv'
<1> DEFINE row   == batch.rows[batch.done + 1]
           done  == batch.done + 1
           d     == Delivery(row, calls - 1)
           next  == SubSeq(batch.rows, batch.packed + 1, done)
<1>1. /\ mode = "batch" /\ batch.done < Len(batch.rows)
      /\ batch.rows \in Seq(AcceptedRows) /\ batch.done \in Nat /\ batch.packed \in Nat
      /\ batch.packed <= batch.done /\ batch = [rows |-> batch.rows, done |-> batch.done, packed |-> batch.packed]
  BY BatchesAccepted DEF BatchRow, BufferInv, BatchInv, TableInv
<1>2. calls \in Nat /\ calls > 0 /\ calls' = calls /\ sent' = sent /\ calls - 1 \in Int
  BY <1>1 DEF BatchRow, TableInv, BufferInv, CountInv
<1>3. row \in AcceptedRows
  BY <1>1
<1>4. next \in Seq(AcceptedRows) /\ next = Append(Pending, row) /\ Pending \in Seq(AcceptedRows)
  <2>1. batch.done <= Len(batch.rows) /\ done \in Nat /\ done <= Len(batch.rows) /\ batch.packed <= done
    BY <1>1
  <2>2. Pending \in Seq(AcceptedRows) /\ next = Append(Pending, row)
    BY <1>1, <2>1, SliceGrows DEF Pending
  <2>3. QED BY <1>1, <2>1, <2>2, SliceGrows
<1>5. Put(<<d>>)
  BY DEF BatchRow
<1>6. <<d>> \in Seq(Queued) /\ d \in Queued
  BY <1>2, <1>3 DEF Queued, AcceptedRows
<1>7. /\ Layout(table) /\ Decode(table) \in Seq(Queued) /\ queue \in Seq(Queued)
      /\ given \in Seq(Queued) /\ sent \in Seq(Queued)
      /\ queue = Decode(table) \o Deliveries(Pending, calls - 1)
  BY DEF TableInv, BufferInv, CountInv
<1>8. queue' = queue \o <<d>> /\ given' \in Seq(Queued)
  BY <1>5, <1>6, <1>7, PutTypes
<1>9. queue' = Decode(table) \o Deliveries(next, calls - 1)
  <2>1. (Decode(table) \o Deliveries(Pending, calls - 1)) \o <<d>>
          = Decode(table) \o Deliveries(Append(Pending, row), calls - 1)
    BY <1>2, <1>3, <1>4, <1>7, OneMorePending
  <2> HIDE DEF d, next, row
  <2>2. QED BY <1>4, <1>7, <1>8, <2>1, Zenon
<1>10. queue' # <<>>
  <2> HIDE DEF d
  <2>1. QED BY <1>6, <1>7, <1>8
<1>11. CASE estimate' >= Limit
  <2>1. /\ mode' = "flush" /\ table' = Pack(table, next, calls - 1)
        /\ batch' = [rows |-> batch.rows, done |-> done, packed |-> done]
    BY <1>1, <1>11 DEF BatchRow, BatchPacked
  <2> HIDE DEF next
  <2>2. /\ Layout(table') /\ Decode(table') \in Seq(Queued) /\ queue' = Decode(table')
    BY <1>2, <1>4, <1>9, <2>1, PendingPacked
  <2>3. queue' = Decode(table') \o Deliveries(Pending', calls' - 1)
    BY <2>1, <2>2, PackedStill
  <2>4. batch'.rows = batch.rows
    BY <2>1
  <2>5. QED BY <1>2, <1>7, <1>8, <1>10, <2>1, <2>2, <2>3, <2>4 DEF TableInv
<1>12. CASE ~(estimate' >= Limit)
  <2>1. /\ mode' = mode /\ table' = table
        /\ batch' = [rows |-> batch.rows, done |-> done, packed |-> batch.packed]
    BY <1>1, <1>12 DEF BatchRow
  <2>2. Pending' = next
    BY <2>1 DEF Pending
  <2> HIDE DEF next
  <2>3. queue' = Decode(table') \o Deliveries(Pending', calls' - 1)
    BY <1>2, <1>9, <2>1, <2>2, Zenon
  <2>4. batch'.rows = batch.rows
    BY <2>1
  <2>5. QED BY <1>1, <1>2, <1>7, <1>8, <2>1, <2>3, <2>4 DEF TableInv
<1>13. QED BY <1>11, <1>12

(* The end of a large batch: nothing is pending any more.                     *)
LEMMA BatchEndStores == ASSUME BufferInv, BufferInv', TableInv, BatchEnd PROVE TableInv'
<1>1. /\ mode = "batch" /\ mode' = "idle" /\ batch' = [rows |-> <<>>, done |-> 0, packed |-> 0]
      /\ table' = Pack(table, Pending, calls - 1)
      /\ UNCHANGED <<calls, given, queue, sent>>
  BY DEF BatchEnd, NoBatch, Pending
<1>2. calls \in Nat /\ calls > 0
  BY <1>1 DEF TableInv, BufferInv, CountInv
<1>3. Pending \in Seq(AcceptedRows)
  <2>1. batch.rows \in Seq(AcceptedRows)
    BY BatchesAccepted DEF TableInv
  <2>2. QED BY <2>1, SliceGrows DEF Pending, BufferInv, BatchInv
<1>4. queue = Decode(table) \o Deliveries(Pending, calls - 1)
  BY DEF TableInv
<1>5. Layout(table') /\ Decode(table') \in Seq(Queued) /\ queue' = Decode(table')
  BY <1>1, <1>2, <1>3, <1>4, PendingPacked
<1>6. queue' = Decode(table') \o Deliveries(Pending', calls' - 1)
  BY <1>1, <1>5, PackedStill
<1>7. QED BY <1>1, <1>5, <1>6 DEF TableInv

(* A flush empties both, and the database has read the whole queue.           *)
LEMMA FlushStores ==
  ASSUME BufferInv, BufferInv', TableInv, NEW received \in BOOLEAN, Flush(received)
  PROVE  /\ TableInv' /\ queue # <<>> /\ queue = Decode(table)
<1>1. /\ mode \in {"flush", "tail"} /\ table' = EmptyTable /\ queue' = <<>>
      /\ sent' = (IF received THEN sent \o Decode(table) ELSE sent)
      /\ batch' = batch \/ batch' = NoBatch
      /\ mode' # "flush" /\ mode' # "tail" /\ (mode' = "batch" => mode = "flush")
      /\ UNCHANGED <<calls, given>>
  BY DEF Flush, Cleared
<1>2. batch.packed = batch.done
  BY <1>1 DEF BufferInv, BatchInv
<1>3. queue = Decode(table)
  BY <1>2, AllPacked
<1>4. queue # <<>> /\ Decode(table) \in Seq(Queued) /\ sent \in Seq(Queued)
  BY <1>1 DEF TableInv
<1>5. sent' \in Seq(Queued)
  <2>1. sent \o Decode(table) \in Seq(Queued)
    BY <1>4, ConcatProperties
  <2>2. QED BY <1>1, <1>4, <2>1
<1>6. Layout(table') /\ Decode(table') = <<>> /\ Decode(table') \in Seq(Queued)
  BY <1>1, EmptyLayout
<1>7. batch'.packed = batch'.done /\ batch'.rows \in Batches \cup {<<>>}
  BY <1>1, <1>2 DEF NoBatch, TableInv
<1>8. queue' = Decode(table') \o Deliveries(Pending', calls' - 1)
  BY <1>1, <1>6, <1>7, PackedStill
<1>9. TableInv'
  BY <1>1, <1>5, <1>6, <1>7, <1>8 DEF TableInv
<1>10. QED BY <1>3, <1>4, <1>9

(* What is left when the group ends is what the last flush has to send.       *)
LEMMA TailFlushStores == ASSUME BufferInv, TableInv, TailFlush PROVE TableInv'
<1>1. /\ mode = "idle" /\ mode' = (IF table.rows = 0 THEN "closed" ELSE "tail")
      /\ UNCHANGED <<table, batch, calls, given, queue, sent>>
  BY DEF TailFlush
<1>2. table.rows # 0 => queue # <<>>
  BY <1>1 DEF BufferInv, CountInv, BatchInv
<1>3. Pending' = Pending
  BY <1>1 DEF Pending
<1>4. QED BY <1>1, <1>2, <1>3 DEF TableInv

StoredInv == BufferInv /\ TableInv

LEMMA StoredStep == StoredInv /\ [Next]_vars => StoredInv'
<1> SUFFICES ASSUME BufferInv, TableInv, [Next]_vars PROVE TableInv'
  BY BufferStep DEF StoredInv
<1>1. BufferInv'
  BY BufferStep
<1>2. CASE UNCHANGED vars \/ Closed
  BY <1>2 DEF vars, Closed, TableInv, Pending
<1>3. CASE \E row \in Rows : EmitRow(row)
  BY <1>1, <1>3, EmitRowStores
<1>4. CASE \E rows \in Batches, span \in NullSpans :
             EmitSmallBatch(rows, span) \/ EmitLargeBatch(rows, span)
  BY <1>1, <1>4, SmallBatchStores, LargeBatchStores
<1>5. CASE \E received \in BOOLEAN : Flush(received)
  BY <1>1, <1>5, FlushStores
<1>6. QED
  BY <1>1, <1>2, <1>3, <1>4, <1>5, BatchRowStores, BatchEndStores, TailFlushStores DEF Next

LEMMA AlwaysStored == Spec => []StoredInv
<1>1. Init => StoredInv
  BY BufferInit, TableInit DEF StoredInv
<1>2. QED BY <1>1, StoredStep, PTL DEF Spec

(* The buffer's types: the estimate never wraps, a batch is never walked past *)
(* its end, and the table stays one the database can decode.                  *)
THEOREM BufferTypes == Spec => []TypeOK
<1>1. StoredInv => TypeOK
  <2> SUFFICES ASSUME StoredInv PROVE TypeOK
    OBVIOUS
  <2>1. IsTable(table)
    BY LayoutIsTable DEF StoredInv, TableInv
  <2>2. /\ batch.done \in Nat /\ batch.packed \in Nat /\ Len(batch.rows) \in Nat
        /\ batch.packed <= batch.done /\ batch.done <= Len(batch.rows)
    BY DEF StoredInv, BufferInv, BatchInv
  <2>3. batch.done \in 0..Len(batch.rows) /\ batch.packed \in 0..batch.done
    BY <2>2
  <2>4. QED BY <2>1, <2>3 DEF TypeOK, StoredInv, TableInv, BufferInv, CountInv
<1>2. QED BY <1>1, AlwaysStored, PTL

-----------------------------------------------------------------------------
(* The buffer implements the stream of rows.                                  *)

\* Rows put behind both the given and the queued ones are a Put.
LEMMA PutStreams ==
  ASSUME queue \in Seq(Queued), given \in Seq(Queued), mode # "closed", mode' # "closed",
         sent' = sent, NEW ds \in Seq(Queued), ds # <<>>, Put(ds)
  PROVE  Stream!Next
<1>1. queue' = queue \o ds /\ given' = given \o ds /\ given' \in Seq(Queued)
  BY PutTypes
<1>2. SubSeq(given', 1, Len(given)) = given
  BY <1>1, FirstPart
<1>3. SubSeq(given', Len(given) + 1, Len(given')) = ds
  BY <1>1, LastPart, Zenon
<1>4. Len(given') > Len(given)
  BY <1>1
<1>5. queue' = queue \o SubSeq(given', Len(given) + 1, Len(given'))
  BY <1>1, <1>3, Zenon
<1>6. (mode = "closed")' = (mode = "closed")
  OBVIOUS
<1>7. Stream!Put
  BY <1>2, <1>4, <1>5, <1>6 DEF Stream!Put
<1>8. QED BY <1>7 DEF Stream!Next

LEMMA StreamInit == Init => Stream!Init
BY DEF Init, Stream!Init

LEMMA StreamStep == StoredInv /\ [Next]_vars => [Stream!Next]_(Stream!vars)
<1> SUFFICES ASSUME BufferInv, TableInv, BufferInv', TableInv', [Next]_vars
             PROVE  [Stream!Next]_(Stream!vars)
  BY StoredStep DEF StoredInv
<1>1. queue \in Seq(Queued) /\ given \in Seq(Queued) /\ calls \in Nat
  BY DEF TableInv, BufferInv, CountInv
<1>2. CASE UNCHANGED vars \/ Closed
  BY <1>2 DEF vars, Closed, Stream!vars
<1>3. ASSUME NEW row \in Rows, EmitRow(row) PROVE Stream!Next
  <2>1. <<Delivery(row, calls)>> \in Seq(Queued) /\ <<Delivery(row, calls)>> # <<>>
    BY <1>1 DEF Queued
  <2>2. mode # "closed" /\ mode' # "closed" /\ sent' = sent /\ Put(<<Delivery(row, calls)>>)
    BY <1>3 DEF EmitRow, ContextCall
  <2>3. QED BY <1>1, <2>1, <2>2, PutStreams
<1>4. ASSUME NEW rows \in Batches, NEW span \in NullSpans, EmitSmallBatch(rows, span)
      PROVE  Stream!Next
  <2>1. rows \in Seq(AcceptedRows) /\ rows # <<>>
    BY BatchesAccepted, EmitAssumption
  <2>2. /\ Deliveries(rows, calls) \in Seq(Queued)
        /\ Len(Deliveries(rows, calls)) = Len(rows)
    BY <1>1, <2>1, DeliveriesMeant
  <2>3. Deliveries(rows, calls) # <<>>
    BY <2>1, <2>2
  <2>4. mode # "closed" /\ mode' # "closed" /\ sent' = sent /\ Put(Deliveries(rows, calls))
    BY <1>4 DEF EmitSmallBatch, ContextCall
  <2>5. QED BY <1>1, <2>2, <2>3, <2>4, PutStreams
<1>5. ASSUME NEW rows \in Batches, NEW span \in NullSpans, EmitLargeBatch(rows, span)
      PROVE  UNCHANGED Stream!vars
  BY <1>5 DEF EmitLargeBatch, ContextCall, Stream!vars
<1>6. ASSUME BatchRow PROVE Stream!Next
  <2> DEFINE d == Delivery(batch.rows[batch.done + 1], calls - 1)
  <2>1. batch.rows[batch.done + 1] \in Rows
    BY <1>6 DEF BatchRow, BufferInv, BatchInv
  <2>2. <<d>> \in Seq(Queued) /\ <<d>> # <<>>
    BY <1>1, <2>1 DEF Queued
  <2>3. mode # "closed" /\ mode' # "closed" /\ sent' = sent /\ Put(<<d>>)
    BY <1>6 DEF BatchRow
  <2> HIDE DEF d
  <2>4. QED BY <1>1, <2>2, <2>3, PutStreams
<1>7. ASSUME BatchEnd PROVE UNCHANGED Stream!vars
  BY <1>7 DEF BatchEnd, Stream!vars
<1>8. ASSUME NEW received \in BOOLEAN, Flush(received) PROVE Stream!Next
  <2>1. queue # <<>> /\ queue = Decode(table)
    BY <1>8, FlushStores
  <2>2. /\ mode # "closed" /\ queue' = <<>> /\ given' = given
        /\ sent' = (IF received THEN sent \o Decode(table) ELSE sent)
    BY <1>8 DEF Flush
  <2>3. (mode = "closed")' \in BOOLEAN
    OBVIOUS
  <2>4. CASE received
    BY <2>1, <2>2, <2>3, <2>4 DEF Stream!Next, Stream!Send
  <2>5. CASE ~received
    BY <2>1, <2>2, <2>3, <2>5 DEF Stream!Next, Stream!Drop
  <2>6. QED BY <2>4, <2>5
<1>9. ASSUME TailFlush PROVE [Stream!Next]_(Stream!vars)
  <2>1. mode = "idle" /\ UNCHANGED <<given, queue, sent>>
    BY <1>9 DEF TailFlush
  <2>2. CASE table.rows = 0
    <3>1. mode' = "closed"
      BY <1>9, <2>2 DEF TailFlush
    <3>2. queue = <<>>
      BY <1>1, <2>1, <2>2 DEF BufferInv, CountInv, BatchInv
    <3>3. (mode = "closed")' = TRUE
      BY <3>1
    <3>4. QED BY <2>1, <3>2, <3>3 DEF Stream!Next, Stream!End
  <2>3. CASE table.rows # 0
    <3>1. mode' = "tail"
      BY <1>9, <2>3 DEF TailFlush
    <3>2. QED BY <2>1, <3>1 DEF Stream!vars
  <2>4. QED BY <2>2, <2>3
<1>10. QED
  BY <1>2, <1>3, <1>4, <1>5, <1>6, <1>7, <1>8, <1>9 DEF Next

(* Whatever rows and batches the UDF emits, of whatever types and with        *)
(* whatever NULLs, and wherever the flushes fall between them: the database   *)
(* reads the rows in order, each with its own values and number, only a send  *)
(* that fails loses rows, and no group ends with rows still buffered.         *)
THEOREM EmittedRowsArrive == Spec => ImplementsRowStream
<1>1. Stream!Init /\ [][Stream!Next]_(Stream!vars) => ImplementsRowStream
  BY DEF ImplementsRowStream, Stream!Spec
<1>2. QED BY <1>1, StreamInit, StreamStep, AlwaysStored, PTL DEF Spec
=============================================================================
