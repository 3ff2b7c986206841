----------------------------- MODULE Soa_proofs -----------------------------
(***************************************************************************)
(* What soatins does with a table: handing it over as an Arrow batch       *)
(* (ArrowExport), and draining it chunk by chunk (ColumnSink).             *)
(*                                                                         *)
(* Whatever library call fails, the caller of the three export functions   *)
(* gets the whole batch or nothing, for every table and every number of    *)
(* columns and rows.  The invariant says, for every place in the code,     *)
(* what is held there (Held), how the calls so far came out (Outcome), and *)
(* how far each column has been built (Built): in the row loop the columns *)
(* in front of the current one are a row ahead, in the column loop they    *)
(* are whole.                                                              *)
(*                                                                         *)
(* column_sink delivers every row exactly once, in push order, for every   *)
(* chunk capacity, every row type and every pattern of failing flushes.    *)
(* Its invariant adds to ExactlyOnce what the callback has read: taken is  *)
(* a prefix of the chunk, so a successful flush appends exactly the        *)
(* occupied slots.  It also says where a full chunk can be met (RoomLeft). *)
(***************************************************************************)
EXTENDS ArrowExport, ColumnSink, SequenceTheorems, TLAPS

Before == {"store", "schema", "columns"}           \* no array yet
During == {"start", "append", "fill", "finish"}    \* an array is being built

Child == [items : Seq(Values), packed : BOOLEAN, length : Nat]
OutType == [own : 0..1, length : Nat, built : BOOLEAN, child : [1..NC -> Child]]

Types ==
  /\ fn \in {"table", "fixed", "spec"}
  /\ rows \in Seq(Row) /\ n <= Capacity
  /\ schema \in [own : 0..1, struct : BOOLEAN]
  /\ out \in OutType
  /\ pc \in Before \cup During \cup {"returned"}
  /\ i \in 1..(n + 1)
  /\ c \in 1..(NC + 1)
  /\ ok \in BOOLEAN
  /\ error \in BOOLEAN

(* The columns hold the rows once they are stored. *)
CellsRead == pc # "store" => \A k \in 1..n : cells[k] = rows[k]

(* Which loop a function runs. *)
Route ==
  /\ pc \in {"store", "start", "append"} => fn = "table"
  /\ pc = "fill" => fn # "table"

Held ==
  /\ pc \in {"store", "schema"} => schema.own = 0 /\ ~schema.struct
  /\ pc = "columns" => schema.own = 1
  /\ pc \in During => schema.own = 0
  /\ pc = "returned" => (schema.struct => schema.own = 0)
  /\ pc \in Before => out.own = 0
  /\ pc \in During => out.own = 1
  /\ pc = "returned" => out.own = IF ok THEN 1 ELSE 0

Outcome ==
  /\ pc # "returned" => ~error
  /\ pc \notin {"returned", "fill"} => ok
  /\ pc = "returned" => (error <=> ~ok)

(* The first m values of a column are in its child, and no more. *)
ChildIs(col, m) ==
  LET child == out.child[col]
  IN  /\ child.length = m
      /\ Len(child.items) = m
      /\ \A k \in 1..m : child.items[k] = rows[k][col]
      /\ fn = "table" /\ m > 0 => child.packed = (Cols[col] = "boolean")

Whole == out.length = n /\ \A col \in 1..NC : ChildIs(col, n)

Built ==
  /\ pc \in Before \cup {"start"} =>
       out.length = 0 /\ \A col \in 1..NC : out.child[col] = NoChild
  /\ pc \in {"start", "fill"} => i = 1
  /\ pc = "start" => c = 1
  /\ pc = "append" =>
       /\ out.length = i - 1
       /\ i > n => c = 1
       /\ \A col \in 1..NC : ChildIs(col, IF col < c THEN i ELSE i - 1)
  /\ pc = "fill" /\ ok => \A col \in 1..NC : col < c => ChildIs(col, n)
  /\ pc = "finish" => Whole
  /\ pc = "returned" /\ ok => Whole /\ out.built

IInv == Types /\ CellsRead /\ Route /\ Held /\ Outcome /\ Built

-----------------------------------------------------------------------------
LEMMA Constants == NC \in Nat /\ Capacity \in Nat /\ Cols \in Seq({"scalar", "boolean"})
  BY ExportAssumption DEF NC

LEMMA Sizes == ASSUME Types PROVE n \in Nat /\ i \in Nat /\ c \in Nat /\ NC \in Nat
<1>1. n \in Nat /\ NC \in Nat
  BY Constants DEF Types, n
<1> QED BY <1>1 DEF Types

LEMMA InitIInv == Init => IInv
<1> SUFFICES ASSUME Init PROVE IInv
  OBVIOUS
<1>1. PICK m \in 0..Capacity : rows \in [1..m -> Row]
  BY DEF Init
<1>2. rows \in Seq(Row) /\ n = m /\ n \in Nat /\ n <= Capacity /\ NC \in Nat
  BY <1>1, Constants DEF n
<1>3. fn \in {"table", "fixed", "spec"} /\ pc = IF fn = "table" THEN "store" ELSE "schema"
  BY DEF Init
<1>4. /\ schema = [own |-> 0, struct |-> FALSE] /\ i = 1 /\ c = 1 /\ ok = TRUE /\ error = FALSE
      /\ out = [own |-> 0, length |-> 0, built |-> FALSE, child |-> [k \in 1..NC |-> NoChild]]
  BY DEF Init
<1>5. /\ out \in OutType /\ out.own = 0 /\ out.length = 0
      /\ \A col \in 1..NC : out.child[col] = NoChild
  <2>1. NoChild \in Child
    BY DEF NoChild, Child
  <2> HIDE DEF NoChild
  <2> QED BY <1>4, <2>1 DEF OutType
<1>6. Types
  <2>1. i \in 1..(n + 1) /\ c \in 1..(NC + 1)
    <3>1. 1 \in 1..(n + 1) /\ 1 \in 1..(NC + 1)
      BY <1>2
    <3> QED BY <1>4, <3>1
  <2>4. ok \in BOOLEAN /\ error \in BOOLEAN
    BY <1>4
  <2>2. schema \in [own : 0..1, struct : BOOLEAN]
    BY <1>4
  <2>3. pc \in Before
    BY <1>3 DEF Before
  <2> QED BY ONLY <1>2, <1>3, <1>5, <2>1, <2>2, <2>3, <2>4 DEF Types
<1>7. CellsRead
  <2> SUFFICES ASSUME fn # "table" PROVE \A k \in 1..n : cells[k] = rows[k]
    BY <1>3 DEF CellsRead
  <2>1. PICK stale \in Row : cells = [k \in 1..Capacity |-> IF k <= n THEN rows[k] ELSE stale]
    BY DEF Init
  <2> QED BY <1>2, <2>1, Constants
<1> QED BY <1>3, <1>4, <1>5, <1>6, <1>7
        DEF IInv, Route, Held, Outcome, Built, Before, During

(* A call that returns false gives the caller nothing to release. *)
LEMMA ReturnFalseInv ==
  ASSUME IInv, pc # "store", ReturnFalse, out' \in OutType, out'.own = 0,
         schema' \in [own : 0..1, struct : BOOLEAN], schema'.struct => schema'.own = 0
  PROVE  IInv'
<1>1. /\ pc' = "returned" /\ ok' = FALSE /\ error' = TRUE
      /\ fn' = fn /\ rows' = rows /\ cells' = cells /\ i' = i /\ c' = c
  BY DEF ReturnFalse, input
<1>2. Types'
  BY <1>1 DEF IInv, Types, n, Row, NC
<1>3. CellsRead'
  BY <1>1 DEF IInv, CellsRead, n
<1>4. Route' /\ Held' /\ Outcome' /\ Built'
  BY <1>1 DEF Route, Held, Outcome, Built, Before, During
<1> QED BY <1>2, <1>3, <1>4 DEF IInv

LEMMA ArrayFailsInv ==
  ASSUME IInv, pc \in During, ArrayFails
  PROVE  IInv'
<1>1. out \in OutType /\ out.own = 1 /\ schema.own = 0
      /\ schema \in [own : 0..1, struct : BOOLEAN]
  BY DEF IInv, Types, Held
<1>2. out' = [out EXCEPT !.own = @ - 1] /\ schema' = schema /\ ReturnFalse
  BY DEF ArrayFails, FreeOut
<1>3. out' \in OutType /\ out'.own = 0
  BY <1>1, <1>2 DEF OutType
<1> QED BY <1>1, <1>2, <1>3, ReturnFalseInv DEF During

(* Nothing but the place and the loop indices moves. *)
LEMMA ChildSame ==
  ASSUME NEW col, NEW m, ChildIs(col, m), out'.child[col] = out.child[col],
         rows' = rows, fn' = fn
  PROVE  ChildIs(col, m)'
  BY DEF ChildIs

LEMMA StoreRowsInv == ASSUME IInv, StoreRows PROVE IInv'
<1>1. /\ pc = "store" /\ pc' = "schema" /\ cells' = rows
      /\ UNCHANGED <<fn, rows, schema, out, i, c, ok, error>>
  BY DEF StoreRows, input
<1>2. Types'
  BY <1>1 DEF IInv, Types, Before, n, Row, NC
<1> QED BY <1>1, <1>2 DEF IInv, CellsRead, Route, Held, Outcome, Built, Before, During, n

LEMMA SchemaInv ==
  ASSUME IInv, StructSchema \/ StructSchemaFails \/ SetColumn \/ SetColumnFails
  PROVE  IInv'
<1>0. /\ schema \in [own : 0..1, struct : BOOLEAN] /\ out \in OutType
      /\ NC \in Nat /\ c \in Nat /\ n \in Nat
  BY Sizes DEF IInv, Types
<1>1. CASE StructSchema
  <2>1. /\ pc = "schema" /\ pc' = "columns" /\ c' = 1
        /\ schema' = [own |-> schema.own + 1, struct |-> TRUE] /\ schema.own = 0
        /\ UNCHANGED <<fn, rows, cells, out, i, ok, error>>
    BY <1>1 DEF StructSchema, GoOn, input, IInv, Held
  <2>2. Types'
    <3>1. schema' \in [own : 0..1, struct : BOOLEAN] /\ c' \in 1..(NC + 1)
      BY <1>0, <2>1
    <3> QED BY <2>1, <3>1 DEF IInv, Types, Before, n, Row, NC
  <2> QED BY <2>1, <2>2 DEF IInv, CellsRead, Route, Held, Outcome, Built, Before, During, n
<1>2. CASE StructSchemaFails
  <2>1. PICK held \in 0..1 : schema' = [schema EXCEPT !.own = @ + held]
    BY <1>2 DEF StructSchemaFails
  <2>2. /\ pc = "schema" /\ ReturnFalse /\ out' = out /\ out.own = 0
        /\ schema.own = 0 /\ ~schema.struct
    BY <1>2 DEF StructSchemaFails, IInv, Held, Before
  <2>3. schema' \in [own : 0..1, struct : BOOLEAN] /\ ~schema'.struct
    BY <1>0, <2>1, <2>2
  <2> QED BY <1>0, <2>2, <2>3, ReturnFalseInv
<1>3. CASE SetColumn
  <2>1. /\ pc = "columns" /\ pc' = "columns" /\ c <= NC /\ c' = c + 1
        /\ UNCHANGED <<fn, rows, cells, schema, out, i, ok, error>>
    BY <1>3 DEF SetColumn, GoOn, input
  <2>2. Types'
    <3>1. c' \in 1..(NC + 1)
      BY <1>0, <2>1
    <3> QED BY <2>1, <3>1 DEF IInv, Types, n, Row, NC
  <2> QED BY <2>1, <2>2 DEF IInv, CellsRead, Route, Held, Outcome, Built, Before, During, n
<1>4. CASE SetColumnFails
  <2>1. /\ pc = "columns" /\ ReturnFalse /\ out' = out /\ out.own = 0
        /\ schema' = [schema EXCEPT !.own = @ - 1] /\ schema.own = 1
    BY <1>4 DEF SetColumnFails, FreeSchema, IInv, Held, Before
  <2>2. schema' \in [own : 0..1, struct : BOOLEAN] /\ schema'.own = 0
    BY <1>0, <2>1
  <2> QED BY <1>0, <2>1, <2>2, ReturnFalseInv
<1> QED BY <1>1, <1>2, <1>3, <1>4

LEMMA InitArrayInv ==
  ASSUME IInv, InitArray \/ InitArrayFails
  PROVE  IInv'
<1>0. /\ schema \in [own : 0..1, struct : BOOLEAN] /\ out \in OutType
      /\ NC \in Nat /\ n \in Nat /\ pc = "columns" /\ schema.own = 1 /\ out.own = 0
      /\ fn \in {"table", "fixed", "spec"}
  BY Sizes DEF IInv, Types, InitArray, InitArrayFails, Held, Before
<1>1. schema' \in [own : 0..1, struct : BOOLEAN] /\ schema'.own = 0
  BY <1>0 DEF InitArray, InitArrayFails, FreeSchema
<1>2. CASE InitArray
  <2>1. /\ pc' = IF fn = "table" THEN "start" ELSE "fill"
        /\ i' = 1 /\ c' = 1 /\ out' = [out EXCEPT !.own = @ + 1]
        /\ UNCHANGED <<fn, rows, cells, ok, error>>
    BY <1>2 DEF InitArray, GoOn, input
  <2>2. /\ out' \in OutType /\ out'.own = 1
        /\ out'.length = out.length /\ out'.child = out.child
    BY <1>0, <2>1 DEF OutType
  <2>3. Types'
    <3>1. i' \in 1..(n + 1) /\ c' \in 1..(NC + 1)
      BY <1>0, <2>1
    <3>2. pc' \in {"start", "fill"}
      BY <2>1
    <3> QED BY <1>1, <2>1, <2>2, <3>1, <3>2 DEF IInv, Types, During, n, Row, NC
  <2>4. CellsRead' /\ Route' /\ Outcome'
    BY <1>0, <2>1 DEF IInv, CellsRead, Route, Outcome, n
  <2>5. Held'
    BY <1>1, <2>1, <2>2 DEF Held, Before, During
  <2>6. Built'
    <3>1. out'.length = 0 /\ \A col \in 1..NC : out'.child[col] = NoChild
      BY <1>0, <2>2 DEF IInv, Built, Before
    <3>2. pc' = "fill" => \A col \in 1..NC : ~(col < c')
      BY <1>0, <2>1
    <3> QED BY <2>1, <3>1, <3>2 DEF Built, Before, NC, NoChild
  <2> QED BY <2>3, <2>4, <2>5, <2>6 DEF IInv
<1>3. CASE InitArrayFails
  <2>1. ReturnFalse /\ out' = out
    BY <1>3 DEF InitArrayFails
  <2> QED BY <1>0, <1>1, <2>1, ReturnFalseInv
<1> QED BY <1>2, <1>3

LEMMA StartInv == ASSUME IInv, StartAppending PROVE IInv'
<1>1. CASE ArrayFails
  BY <1>1, ArrayFailsInv DEF StartAppending, During
<1>2. CASE GoOn("append") /\ UNCHANGED <<schema, out, i, c>>
  <2>1. /\ pc = "start" /\ pc' = "append"
        /\ UNCHANGED <<fn, rows, cells, schema, out, i, c, ok, error>>
    BY <1>2 DEF StartAppending, GoOn, input
  <2>2. /\ NC \in Nat /\ n \in Nat /\ i = 1 /\ c = 1 /\ out.length = 0
        /\ \A col \in 1..NC : out.child[col] = NoChild
    BY <2>1, Sizes DEF IInv, Built
  <2>3. Types'
    BY <2>1 DEF IInv, Types, During, n, Row, NC
  <2>4. CellsRead' /\ Route' /\ Outcome' /\ Held'
    BY <2>1 DEF IInv, CellsRead, Route, Outcome, Held, Before, During, n
  <2>5. \A col \in 1..NC : ChildIs(col, IF col < c THEN i ELSE i - 1)'
    <3> SUFFICES ASSUME NEW col \in 1..NC PROVE ChildIs(col, 0)'
      BY <2>1, <2>2 DEF ChildIs
    <3> QED BY <2>1, <2>2 DEF ChildIs, NoChild
  <2>6. Built'
    BY <2>1, <2>2, <2>5 DEF Built, Before, NC
  <2> QED BY <2>3, <2>4, <2>6 DEF IInv
<1> QED BY <1>1, <1>2 DEF StartAppending

(* A value more in the current column. *)
LEMMA AppendValueInv == ASSUME IInv, AppendValue PROVE IInv'
<1>1. CASE ArrayFails
  BY <1>1, ArrayFailsInv DEF AppendValue, During
<1>2. CASE ~ArrayFails
  <2> DEFINE new == [items |-> Append(out.child[c].items, cells[i][c]),
                     packed |-> Cols[c] = "boolean",
                     length |-> out.child[c].length + 1]
  <2>1. /\ pc = "append" /\ pc' = "append" /\ i <= n /\ c <= NC /\ c' = c + 1
        /\ out' = [out EXCEPT !.child[c] = new]
        /\ UNCHANGED <<fn, rows, cells, schema, i, ok, error>>
    BY <1>2 DEF AppendValue, GoOn, input
  <2>2. /\ n \in Nat /\ NC \in Nat /\ i \in 1..n /\ c \in 1..NC /\ rows \in Seq(Row)
        /\ out \in OutType /\ fn = "table"
    BY <2>1, Sizes DEF IInv, Types, Route
  <2>3. ChildIs(c, i - 1) /\ out.child[c] \in Child
    BY <2>1, <2>2 DEF IInv, Built, OutType
  <2>4. cells[i][c] = rows[i][c] /\ rows[i][c] \in Values
    BY <2>1, <2>2 DEF IInv, CellsRead, n, Row
  <2>5. /\ new \in Child /\ new.length = i /\ Len(new.items) = i
        /\ \A k \in 1..i : new.items[k] = rows[k][c]
        /\ new.packed = (Cols[c] = "boolean")
    <3>1. /\ out.child[c].items \in Seq(Values) /\ Len(out.child[c].items) = i - 1
          /\ out.child[c].length = i - 1 /\ i \in Nat
          /\ \A k \in 1..(i - 1) : out.child[c].items[k] = rows[k][c]
      BY <2>2, <2>3 DEF ChildIs, Child
    <3>2. /\ new.items \in Seq(Values) /\ Len(new.items) = i
          /\ \A k \in 1..i : new.items[k] = rows[k][c]
      <4> DEFINE items == out.child[c].items
                 v == rows[i][c]
      <4>1. new.items = Append(items, v)
        BY <2>4
      <4>2. items \in Seq(Values) /\ Len(items) = i - 1 /\ v \in Values /\ i \in Nat /\ i >= 1
        BY <2>2, <2>4, <3>1
      <4> HIDE DEF items
      <4>3. /\ Append(items, v) \in Seq(Values) /\ Len(Append(items, v)) = i
            /\ Append(items, v)[i] = v
            /\ \A k \in 1..(i - 1) : Append(items, v)[k] = items[k]
        BY ONLY <4>2
      <4>4. \A k \in 1..(i - 1) : items[k] = rows[k][c]
        BY <3>1 DEF items
      <4>5. \A k \in 1..i : k = i \/ k \in 1..(i - 1)
        BY <4>2
      <4> QED BY ONLY <4>1, <4>3, <4>4, <4>5
    <3>3. new.length = i /\ new.packed = (Cols[c] = "boolean") /\ new.packed \in BOOLEAN
      BY <3>1
    <3> QED BY <3>1, <3>2, <3>3 DEF Child
  <2> HIDE DEF new
  <2>6. /\ out' \in OutType /\ out'.own = out.own /\ out'.length = out.length
        /\ out'.child[c] = new
        /\ \A col \in 1..NC : col # c => out'.child[col] = out.child[col]
    BY <2>1, <2>2, <2>5 DEF OutType
  <2>7. Types'
    <3>1. c' \in 1..(NC + 1) /\ i' \in 1..(n + 1)
      BY <2>1, <2>2
    <3> QED BY <2>1, <2>6, <3>1 DEF IInv, Types, n, Row, NC
  <2>8. CellsRead' /\ Route' /\ Outcome' /\ Held'
    BY <2>1, <2>6 DEF IInv, CellsRead, Route, Outcome, Held, Before, During, n
  <2>9. ASSUME NEW col \in 1..NC
        PROVE  ChildIs(col, IF col < c THEN i ELSE i - 1)'
    <3>1. CASE col = c
      <4>1. PICK m \in Nat : m = i
        BY <2>2
      <4>2. ChildIs(col, m)'
        BY <2>1, <2>2, <2>5, <2>6, <3>1, <4>1 DEF ChildIs
      <4>3. (IF col < c THEN i ELSE i - 1)' = m
        BY <2>1, <2>2, <3>1, <4>1
      <4> QED BY ONLY <4>2, <4>3
    <3>2. CASE col # c
      <4>1. PICK m \in Nat : m = IF col < c THEN i ELSE i - 1
        BY <2>2
      <4>2. ChildIs(col, m)
        BY <2>1, <4>1 DEF IInv, Built
      <4>3. ChildIs(col, m)'
        BY <2>1, <2>6, <3>2, <4>2, ChildSame
      <4>4. (IF col < c THEN i ELSE i - 1)' = m
        BY <2>1, <2>2, <3>2, <4>1
      <4> QED BY ONLY <4>3, <4>4
    <3> QED BY <3>1, <3>2
  <2>10. Built'
    <3>1. out'.length = i' - 1 /\ ~(i' > n')
      BY <2>1, <2>2, <2>6 DEF IInv, Built, n
    <3> QED BY <2>1, <2>9, <3>1 DEF Built, Before, NC
  <2> QED BY <2>7, <2>8, <2>10 DEF IInv
<1> QED BY <1>1, <1>2

LEMMA FinishElementInv == ASSUME IInv, FinishElement PROVE IInv'
<1>1. CASE ArrayFails
  BY <1>1, ArrayFailsInv DEF FinishElement, During
<1>2. CASE ~ArrayFails
  <2>1. /\ pc = "append" /\ pc' = "append" /\ i <= n /\ c > NC /\ c' = 1 /\ i' = i + 1
        /\ out' = [out EXCEPT !.length = @ + 1]
        /\ UNCHANGED <<fn, rows, cells, schema, ok, error>>
    BY <1>2 DEF FinishElement, GoOn, input
  <2>2. n \in Nat /\ NC \in Nat /\ i \in 1..n /\ out \in OutType /\ c \in Nat
    BY <2>1, Sizes DEF IInv, Types
  <2>3. /\ out' \in OutType /\ out'.own = out.own /\ out'.length = out.length + 1
        /\ out'.child = out.child
    BY <2>1, <2>2 DEF OutType
  <2>4. Types'
    <3>1. c' \in 1..(NC + 1) /\ i' \in 1..(n + 1)
      BY <2>1, <2>2
    <3> QED BY <2>1, <2>3, <3>1 DEF IInv, Types, n, Row, NC
  <2>5. CellsRead' /\ Route' /\ Outcome' /\ Held'
    BY <2>1, <2>3 DEF IInv, CellsRead, Route, Outcome, Held, Before, During, n
  <2>6. ASSUME NEW col \in 1..NC
        PROVE  ChildIs(col, IF col < c THEN i ELSE i - 1)'
    <3>1. PICK m \in Nat : m = i
      BY <2>2
    <3>2. ChildIs(col, m)
      BY <2>1, <2>2, <3>1 DEF IInv, Built
    <3>3. ChildIs(col, m)'
      BY <2>1, <2>3, <3>2, ChildSame
    <3>4. (IF col < c THEN i ELSE i - 1)' = m
      BY <2>1, <2>2, <3>1
    <3> QED BY ONLY <3>3, <3>4
  <2>7. Built'
    <3>1. out'.length = i' - 1
      BY <2>1, <2>2, <2>3 DEF IInv, Built
    <3> QED BY <2>1, <2>6, <3>1 DEF Built, Before, NC
  <2> QED BY <2>4, <2>5, <2>7 DEF IInv
<1> QED BY <1>1, <1>2

LEMMA RowsAppendedInv == ASSUME IInv, RowsAppended PROVE IInv'
<1>1. /\ pc = "append" /\ pc' = "finish" /\ i > n
      /\ UNCHANGED <<fn, rows, cells, schema, out, i, c, ok, error>>
  BY DEF RowsAppended, GoOn, input
<1>2. n \in Nat /\ NC \in Nat /\ i = n + 1 /\ c = 1
  BY <1>1, Sizes DEF IInv, Types, Built
<1>3. Types'
  BY <1>1 DEF IInv, Types, During, n, Row, NC
<1>4. CellsRead' /\ Route' /\ Outcome' /\ Held'
  BY <1>1 DEF IInv, CellsRead, Route, Outcome, Held, Before, During, n
<1>5. Whole'
  <2>1. ASSUME NEW col \in 1..NC PROVE ChildIs(col, n)
    <3>1. ChildIs(col, IF col < c THEN i ELSE i - 1)
      BY <1>1 DEF IInv, Built
    <3>2. (IF col < c THEN i ELSE i - 1) = n
      BY <1>2
    <3> QED BY <3>1, <3>2
  <2>2. out.length = n
    BY <1>1, <1>2 DEF IInv, Built
  <2> QED BY <1>1, <2>1, <2>2 DEF Whole, ChildIs, n, NC
<1> QED BY <1>1, <1>3, <1>4, <1>5 DEF IInv, Built, Before

(* A column copied in one piece. *)
LEMMA FillColumnInv == ASSUME IInv, FillColumn PROVE IInv'
<1> DEFINE new == Filled([k \in 1..n |-> cells[k][c]])
<1>1. /\ pc = "fill" /\ pc' = "fill" /\ ok /\ c <= NC /\ c' = c + 1
      /\ out' = [out EXCEPT !.child[c] = new]
      /\ UNCHANGED <<fn, rows, cells, schema, i, ok, error>>
  BY DEF FillColumn, GoOn, input
<1>2. /\ n \in Nat /\ NC \in Nat /\ c \in 1..NC /\ rows \in Seq(Row) /\ out \in OutType
      /\ fn # "table"
  BY <1>1, Sizes DEF IInv, Types, Route
<1>3. \A k \in 1..n : cells[k][c] = rows[k][c] /\ rows[k][c] \in Values
  BY <1>1, <1>2 DEF IInv, CellsRead, n, Row
<1>4. /\ new \in Child /\ new.length = n /\ Len(new.items) = n
      /\ \A k \in 1..n : new.items[k] = rows[k][c]
  <2>1. /\ new.items = [k \in 1..n |-> cells[k][c]] /\ new.length = n /\ new.packed = FALSE
        /\ new = [items |-> new.items, packed |-> new.packed, length |-> new.length]
    BY DEF Filled
  <2>2. new.items \in Seq(Values) /\ Len(new.items) = n
    BY <1>2, <1>3, <2>1
  <2> QED BY <1>2, <1>3, <2>1, <2>2 DEF Child
<1> HIDE DEF new
<1>5. /\ out' \in OutType /\ out'.own = out.own /\ out'.child[c] = new
      /\ \A col \in 1..NC : col # c => out'.child[col] = out.child[col]
  BY <1>1, <1>2, <1>4 DEF OutType
<1>6. Types'
  <2>1. c' \in 1..(NC + 1)
    BY <1>1, <1>2
  <2> QED BY <1>1, <1>5, <2>1 DEF IInv, Types, n, Row, NC
<1>7. CellsRead' /\ Route' /\ Outcome' /\ Held'
  BY <1>1, <1>5 DEF IInv, CellsRead, Route, Outcome, Held, Before, During, n
<1>8. ASSUME NEW col \in 1..NC, col < c'
      PROVE  ChildIs(col, n)'
  <2>1. PICK m \in Nat : m = n
    BY <1>2
  <2>2. ChildIs(col, m)'
    <3>1. CASE col = c
      BY <1>1, <1>2, <1>4, <1>5, <2>1, <3>1 DEF ChildIs
    <3>2. CASE col # c
      <4>1. col < c
        BY <1>1, <1>2, <1>8, <3>2
      <4>2. ChildIs(col, m)
        BY <1>1, <2>1, <4>1 DEF IInv, Built
      <4> QED BY <1>1, <1>5, <3>2, <4>2, ChildSame
    <3> QED BY <3>1, <3>2
  <2>3. n' = m
    BY <1>1, <2>1 DEF n
  <2> QED BY ONLY <2>2, <2>3
<1>9. Built'
  BY <1>1, <1>8 DEF IInv, Built, Before, NC
<1> QED BY <1>6, <1>7, <1>9 DEF IInv

LEMMA FillColumnFailsInv == ASSUME IInv, FillColumnFails PROVE IInv'
  BY ArrayFailsInv DEF FillColumnFails, During

LEMMA FillSpecFailsInv == ASSUME IInv, FillSpecFails PROVE IInv'
<1>1. /\ pc = "fill" /\ c <= NC /\ ok' = FALSE /\ c' = c + 1
      /\ out' = [out EXCEPT !.child[c].length = n]
      /\ UNCHANGED <<fn, rows, cells, schema, pc, i, error>>
  BY DEF FillSpecFails, input
<1>2. n \in Nat /\ NC \in Nat /\ c \in 1..NC /\ out \in OutType
  BY <1>1, Sizes DEF IInv, Types
<1>3. out' \in OutType /\ out'.own = out.own
  BY <1>1, <1>2 DEF OutType, Child
<1>4. Types'
  <2>0. c' = c + 1 /\ c \in 1..NC /\ NC \in Nat
    BY <1>1, <1>2
  <2>1. c' \in 1..(NC + 1)
    BY ONLY <2>0
  <2>2. ok' \in BOOLEAN
    BY <1>1
  <2> QED BY <1>1, <1>3, <2>1, <2>2 DEF IInv, Types, n, Row, NC
<1>5. CellsRead' /\ Route' /\ Outcome' /\ Held'
  BY <1>1, <1>3 DEF IInv, CellsRead, Route, Outcome, Held, Before, During, n
<1>6. Built'
  BY <1>1 DEF IInv, Built, Before
<1> QED BY <1>4, <1>5, <1>6 DEF IInv

LEMMA ColumnsFilledInv == ASSUME IInv, ColumnsFilled PROVE IInv'
<1>1. CASE ~ok
  BY <1>1, ArrayFailsInv DEF ColumnsFilled, During
<1>2. CASE ok
  <2>1. /\ pc = "fill" /\ pc' = "finish" /\ c > NC
        /\ out' = [out EXCEPT !.length = n]
        /\ UNCHANGED <<fn, rows, cells, schema, i, c, ok, error>>
    BY <1>2 DEF ColumnsFilled, GoOn, input
  <2>2. n \in Nat /\ NC \in Nat /\ c \in Nat /\ out \in OutType
    BY Sizes DEF IInv, Types
  <2>3. out' \in OutType /\ out'.own = out.own /\ out'.length = n /\ out'.child = out.child
    BY <2>1, <2>2 DEF OutType
  <2>4. Types'
    BY <2>1, <2>3 DEF IInv, Types, During, n, Row, NC
  <2>5. CellsRead' /\ Route' /\ Outcome' /\ Held'
    BY <1>2, <2>1, <2>3 DEF IInv, CellsRead, Route, Outcome, Held, Before, During, n
  <2>6. Whole'
    <3>1. ASSUME NEW col \in 1..NC PROVE ChildIs(col, n)
      BY <1>2, <2>1, <2>2 DEF IInv, Built
    <3> QED BY <2>1, <2>3, <3>1 DEF Whole, ChildIs, n, NC
  <2> QED BY <2>1, <2>4, <2>5, <2>6 DEF IInv, Built, Before
<1> QED BY <1>1, <1>2 DEF IInv, Types

LEMMA FinishInv == ASSUME IInv, FinishBuilding PROVE IInv'
<1>1. CASE ArrayFails
  BY <1>1, ArrayFailsInv DEF FinishBuilding, During
<1>2. CASE ~ArrayFails
  <2>1. /\ pc = "finish" /\ pc' = "returned" /\ out' = [out EXCEPT !.built = TRUE]
        /\ UNCHANGED <<fn, rows, cells, schema, i, c, ok, error>>
    BY <1>2 DEF FinishBuilding, GoOn, input
  <2>2. out \in OutType /\ out.own = 1 /\ schema.own = 0 /\ ok = TRUE /\ error = FALSE
    BY <2>1 DEF IInv, Types, Held, During, Outcome
  <2>3. /\ out' \in OutType /\ out'.own = 1 /\ out'.length = out.length
        /\ out'.child = out.child /\ out'.built = TRUE
    BY <2>1, <2>2 DEF OutType
  <2>4. Types'
    BY <2>1, <2>3 DEF IInv, Types, n, Row, NC
  <2>5. CellsRead' /\ Route' /\ Outcome' /\ Held'
    BY <2>1, <2>2, <2>3 DEF IInv, CellsRead, Route, Outcome, Held, Before, During, n
  <2>6. Whole'
    BY <2>1, <2>3 DEF IInv, Built, Whole, ChildIs, n, NC
  <2> QED BY <2>1, <2>3, <2>4, <2>5, <2>6 DEF IInv, Built, Before
<1> QED BY <1>1, <1>2

LEMMA UnchangedInv == ASSUME IInv, UNCHANGED vars PROVE IInv'
<1>1. UNCHANGED <<fn, rows, cells, schema, out, pc, i, c, ok, error>>
  BY DEF vars, input
<1>2. Types' /\ CellsRead' /\ Route' /\ Held' /\ Outcome'
  BY <1>1 DEF IInv, Types, CellsRead, Route, Held, Outcome, n, Row, NC
<1>3. Built'
  BY <1>1 DEF IInv, Built, Whole, ChildIs, n, NC
<1> QED BY <1>2, <1>3 DEF IInv

LEMMA NextIInv == IInv /\ [Next]_vars => IInv'
<1> SUFFICES ASSUME IInv, Next \/ UNCHANGED vars PROVE IInv'
  OBVIOUS
<1>1. CASE StoreRows
  BY <1>1, StoreRowsInv
<1>2. CASE StructSchema \/ StructSchemaFails \/ SetColumn \/ SetColumnFails
  BY <1>2, SchemaInv
<1>3. CASE InitArray \/ InitArrayFails
  BY <1>3, InitArrayInv
<1>4. CASE StartAppending
  BY <1>4, StartInv
<1>5. CASE AppendValue
  BY <1>5, AppendValueInv
<1>6. CASE FinishElement
  BY <1>6, FinishElementInv
<1>7. CASE RowsAppended
  BY <1>7, RowsAppendedInv
<1>8. CASE FillColumn
  BY <1>8, FillColumnInv
<1>9. CASE FillColumnFails \/ FillSpecFails
  BY <1>9, FillColumnFailsInv, FillSpecFailsInv
<1>10. CASE ColumnsFilled
  BY <1>10, ColumnsFilledInv
<1>11. CASE FinishBuilding
  BY <1>11, FinishInv
<1>12. CASE UNCHANGED vars
  BY <1>12, UnchangedInv
<1> QED
  BY <1>1, <1>2, <1>3, <1>4, <1>5, <1>6, <1>7, <1>8, <1>9, <1>10, <1>11, <1>12 DEF Next

LEMMA SpecIInv == Spec => []IInv
  BY InitIInv, NextIInv, PTL DEF Spec

-----------------------------------------------------------------------------
(* No export function releases a schema or an array it does not hold, makes *)
(* one over one it holds, or fills a child of an array that is not there.   *)
THEOREM ExportTypeOK == Spec => []TypeOK
<1>1. IInv => TypeOK
  <2> SUFFICES ASSUME IInv PROVE TypeOK
    OBVIOUS
  <2>1. n \in 0..Capacity
    BY Sizes, Constants DEF IInv, Types
  <2>2. out.own \in 0..1
    BY DEF IInv, Types, OutType
  <2>3. ASSUME out.own = 0, ok PROVE \A k \in 1..NC : out.child[k] = NoChild
    <3>1. pc \in Before
      BY <2>3 DEF IInv, Types, Held
    <3> QED BY <3>1 DEF IInv, Built
  <2> QED BY <2>1, <2>2, <2>3 DEF IInv, Types, TypeOK, Before, During
<1> QED BY <1>1, SpecIInv, PTL

(* table_to_arrow, to_arrow and to_arrow_spec hand out an array as long as  *)
(* the table whose columns hold its rows in order, or an error and nothing  *)
(* to release, for every table and whichever library call fails.  One       *)
(* exception: a boolean column that to_arrow or to_arrow_spec copies in one *)
(* piece has its length, and no value of it is claimed (the bytes are       *)
(* copied where the format has bits).                                       *)
THEOREM ExportBatchOrNothing == Spec => []BatchOrNothing
<1>1. IInv => BatchOrNothing
  <2> SUFFICES ASSUME IInv, pc = "returned"
               PROVE  /\ IF ok THEN BatchOfRows /\ ~error ELSE out.own = 0 /\ error
                      /\ schema.struct => schema.own = 0
    BY DEF BatchOrNothing
  <2>1. schema.struct => schema.own = 0
    BY DEF IInv, Held
  <2>2. CASE ~ok
    BY <2>1, <2>2 DEF IInv, Held, Outcome
  <2>3. CASE ok
    <3>1. out.own = 1 /\ out.built /\ out.length = n /\ ~error
      BY <2>3 DEF IInv, Held, Outcome, Built, Whole
    <3>2. n \in Nat
      BY Sizes DEF IInv
    <3>3. ASSUME NEW col \in 1..NC
          PROVE  /\ out.child[col].length = n
                 /\ Len(out.child[col].items) = n
                 /\ (Cols[col] = "boolean" => fn = "table") =>
                      \A k \in 1..n : ValueAt(col, k) = rows[k][col]
      <4>1. ChildIs(col, n)
        BY <2>3 DEF IInv, Built, Whole
      <4>2. ASSUME Cols[col] = "boolean" => fn = "table", NEW k \in 1..n
            PROVE  ValueAt(col, k) = rows[k][col]
        <5>1. out.child[col].items[k] = rows[k][col]
          BY <4>1, <4>2 DEF ChildIs
        <5>2. ~(Cols[col] = "boolean" /\ ~out.child[col].packed)
          <6>1. n > 0
            BY <3>2
          <6>2. fn = "table" => out.child[col].packed = (Cols[col] = "boolean")
            BY <4>1, <6>1 DEF ChildIs
          <6> QED BY <4>2, <6>2
        <5> QED BY <5>1, <5>2 DEF ValueAt
      <4> QED BY <4>1, <4>2 DEF ChildIs
    <3> QED BY <2>1, <2>3, <3>1, <3>3 DEF BatchOfRows
  <2> QED BY <2>2, <2>3
<1> QED BY <1>1, SpecIInv, PTL

-----------------------------------------------------------------------------
TakenIsPrefix ==
  /\ Len(taken) <= size
  /\ \A k \in 1..Len(taken) : taken[k] = chunk[k - 1]

(* A chunk is full only while push() flushes it or after push() has said   *)
(* that it could not: what a producer who stops then relies on.            *)
RoomLeft == ~refused => size < N \/ (phase = "flush" /\ caller = "push")

SinkIInv == SinkTypeOK /\ ExactlyOnce /\ TakenIsPrefix /\ RoomLeft

LEMMA SinkInitIInv == SinkInit => SinkIInv
<1> SUFFICES ASSUME SinkInit PROVE SinkIInv
  OBVIOUS
<1>1. result \in BOOLEAN /\ refused \in BOOLEAN
  BY DEF SinkInit
<1>2. SinkTypeOK /\ ExactlyOnce /\ TakenIsPrefix
  BY <1>1, SinkAssumption DEF SinkInit, SinkTypeOK, ExactlyOnce, TakenIsPrefix
<1>3. RoomLeft
  BY SinkAssumption DEF SinkInit, RoomLeft
<1> QED BY <1>2, <1>3 DEF SinkIInv

LEMMA SinkNextIInv == SinkIInv /\ [SinkNext]_sinkVars => SinkIInv'
<1> SUFFICES ASSUME SinkIInv, [SinkNext]_sinkVars PROVE SinkIInv'
  OBVIOUS
<1> USE SinkAssumption
<1>1. ASSUME NEW row \in Rows, MayPush, Push(row) PROVE SinkIInv'
  <2> USE <1>1 DEF Push, SinkIInv, SinkTypeOK
  <2>room. size < N
    BY DEF MayPush, RoomLeft
  <2>1. SinkTypeOK'
    BY <2>room
  <2>0. /\ Len(pushed') = Len(pushed) + 1
        /\ \A k \in 1..Len(pushed) : pushed'[k] = pushed[k]
        /\ pushed'[Len(pushed) + 1] = row
        /\ drained' = drained
        /\ Len(drained) \in Nat
    OBVIOUS
  <2>2. Len(pushed') = Len(drained') + size'
    BY <2>0 DEF ExactlyOnce
  <2>3. \A k \in 1..Len(drained') : drained'[k] = pushed'[k]
    BY DEF ExactlyOnce
  <2>4. ASSUME NEW k \in 0..(size' - 1)
        PROVE  chunk'[k] = pushed'[Len(drained') + k + 1]
    <3>0. size \in Nat /\ size' = size + 1
      OBVIOUS
    <3>1. CASE k = size
      <4>1. Len(pushed) = Len(drained) + size
        BY DEF ExactlyOnce
      <4>2. chunk'[size] = row
        BY <2>room
      <4> QED BY ONLY <2>0, <3>1, <4>1, <4>2
    <3>2. CASE k < size
      BY <3>2 DEF ExactlyOnce
    <3>3. k = size \/ k < size
      BY ONLY <3>0, k \in 0..(size' - 1)
    <3> QED BY ONLY <3>1, <3>2, <3>3
  <2>5. TakenIsPrefix'
    BY DEF TakenIsPrefix
  <2>6. RoomLeft'
    BY <2>room DEF RoomLeft
  <2> QED BY <2>1, <2>2, <2>3, <2>4, <2>5, <2>6 DEF ExactlyOnce
<1>2. CASE Finish
  BY <1>2 DEF Finish, SinkIInv, SinkTypeOK, ExactlyOnce, TakenIsPrefix, RoomLeft
<1>3. CASE FlushRead
  <2> USE <1>3 DEF FlushRead, SinkIInv, SinkTypeOK
  <2>1. chunk[Len(taken)] \in Rows
    <3>1. Len(taken) \in 0..(size - 1)
      OBVIOUS
    <3>2. /\ chunk[Len(taken)] = pushed[Len(drained) + Len(taken) + 1]
          /\ Len(pushed) = Len(drained) + size
      BY <3>1 DEF ExactlyOnce
    <3>3. Len(drained) + Len(taken) + 1 \in 1..Len(pushed)
      BY <3>1, <3>2
    <3>4. pushed \in Seq(Rows)
      OBVIOUS
    <3>5. pushed[Len(drained) + Len(taken) + 1] \in Rows
      BY ONLY <3>3, <3>4, ElementOfSeq
    <3> QED BY ONLY <3>2, <3>5
  <2>2. SinkTypeOK'
    BY <2>1
  <2>3. TakenIsPrefix'
    BY <2>1 DEF TakenIsPrefix
  <2> QED BY <2>2, <2>3 DEF ExactlyOnce, RoomLeft
<1>4. CASE FlushOk
  <2> USE <1>4 DEF FlushOk, SinkIInv, SinkTypeOK
  <2>0. result' \in BOOLEAN /\ refused' \in BOOLEAN
    OBVIOUS
  <2>2. drained' \in Seq(Rows) /\ Len(drained') = Len(drained) + size
    <3>1. drained \in Seq(Rows) /\ taken \in Seq(Rows) /\ Len(taken) = size
          /\ drained' = drained \o taken
      OBVIOUS
    <3> QED BY ONLY <3>1
  <2>1. SinkTypeOK'
    BY <2>0, <2>2
  <2>3. ASSUME NEW k \in 1..Len(drained')
        PROVE  drained'[k] = pushed'[k]
    <3>1. CASE k <= Len(drained)
      BY <3>1 DEF ExactlyOnce
    <3>2. CASE k > Len(drained)
      <4>1. /\ k - Len(drained) \in 1..Len(taken)
            /\ drained'[k] = taken[k - Len(drained)]
        BY <3>2, <2>2
      <4>2. taken[k - Len(drained)] = chunk[k - Len(drained) - 1]
        BY <4>1 DEF TakenIsPrefix
      <4>3. chunk[k - Len(drained) - 1] = pushed[k]
        BY <4>1 DEF ExactlyOnce
      <4> QED BY <4>1, <4>2, <4>3
    <3> QED BY <3>1, <3>2
  <2>4. ExactlyOnce'
    BY <2>2, <2>3 DEF ExactlyOnce
  <2>5. TakenIsPrefix'
    BY DEF TakenIsPrefix
  <2>6. RoomLeft'
    BY DEF RoomLeft
  <2> QED BY <2>1, <2>4, <2>5, <2>6
<1>5. CASE FlushFail
  <2> USE <1>5 DEF FlushFail, SinkIInv
  <2>1. SinkTypeOK'
    <3>1. failures' \in 0..MaxFailures
      BY DEF SinkTypeOK
    <3>2. taken' \in Seq(Rows)
      OBVIOUS
    <3>3. phase' \in {"caller", "flush"} /\ result' \in BOOLEAN /\ refused' \in BOOLEAN
      OBVIOUS
    <3> QED BY <3>1, <3>2, <3>3 DEF SinkTypeOK
  <2>2. ExactlyOnce'
    BY DEF ExactlyOnce
  <2>3. TakenIsPrefix'
    BY DEF TakenIsPrefix, SinkTypeOK
  <2>4. RoomLeft'
    BY DEF RoomLeft, SinkTypeOK
  <2> QED BY <2>1, <2>2, <2>3, <2>4
<1>6. CASE UNCHANGED sinkVars
  BY <1>6 DEF sinkVars, SinkIInv, SinkTypeOK, ExactlyOnce, TakenIsPrefix, RoomLeft
<1> QED BY <1>1, <1>2, <1>3, <1>4, <1>5, <1>6 DEF SinkNext

LEMMA SinkSpecIInv == SinkSpec => []SinkIInv
  BY SinkInitIInv, SinkNextIInv, PTL DEF SinkSpec

(* No store of push() leaves the arrays, for every capacity and every       *)
(* pattern of failing flushes, although neither push() nor append() checks  *)
(* the capacity first (reflect.hpp:169): a producer that does no more than  *)
(* stop at a push() that returned false, until a finish() returned true,    *)
(* never meets a full chunk.                                                *)
THEOREM SinkTypeCorrect == SinkSpec => []SinkTypeOK
  BY SinkSpecIInv, PTL DEF SinkIInv

(* column_sink loses no row, repeats none and keeps their order, for every  *)
(* capacity and whichever flushes fail.                                     *)
THEOREM SinkExactlyOnce == SinkSpec => []ExactlyOnce
  BY SinkSpecIInv, PTL DEF SinkIInv
=============================================================================
