----------------------------- MODULE ArrowExport -----------------------------
(***************************************************************************)
(* The record batch of a table: table_to_arrow (dpar_arrow.hpp) with the   *)
(* to_arrow of a growing soa, which appends value by value; the to_arrow   *)
(* of a fixed soa (arrow_glue.hpp) and to_arrow_spec (wire_spec_soa.hpp),  *)
(* which copy each column in one piece.  Each is one call that makes many  *)
(* calls of the Arrow library, any of which may fail; the library is       *)
(* external.                                                               *)
(*                                                                         *)
(* own counts what an object holds: an initialisation adds one, a release  *)
(* takes one.  A child's items are what was appended to its data buffer;   *)
(* packed says whether an item is a bit or a whole element of memory.      *)
(***************************************************************************)
EXTENDS Integers, Sequences

CONSTANTS
  Cols,      \* the kinds of the table's columns
  Values,    \* the values of a cell
  Capacity   \* rows a table has room for

ASSUME ExportAssumption ==
  /\ Cols \in Seq({"scalar", "boolean"})
  /\ Values \subseteq Nat /\ 0 \in Values
  /\ Capacity \in Nat \ {0}

NC == Len(Cols)
Row == [1..NC -> Values]

VARIABLES
  fn,        \* "table", "fixed" or "spec": which of the three runs
  rows,      \* the rows to export
  cells,     \* the columns they are in, row by row, behind them the unused ones
  schema,    \* the local ArrowSchema
  out,       \* the caller's ArrowArray
  pc,
  i, c,      \* the loops' row and column
  ok,
  error      \* whether an error message was set

input == <<fn, rows>>
vars == <<input, cells, schema, out, pc, i, c, ok, error>>

n == Len(rows)     \* s.size()

NoChild == [items |-> <<>>, packed |-> FALSE, length |-> 0]

Init ==
  /\ fn \in {"table", "fixed", "spec"}
  /\ \E k \in 0..Capacity : rows \in [1..k -> Row]
  /\ IF fn = "table" THEN cells = <<>>
     ELSE \E stale \in Row : cells = [k \in 1..Capacity |-> IF k <= n THEN rows[k] ELSE stale]
  /\ schema = [own |-> 0, struct |-> FALSE]
  /\ out = [own |-> 0, length |-> 0, built |-> FALSE, child |-> [k \in 1..NC |-> NoChild]]
  /\ pc = IF fn = "table" THEN "store" ELSE "schema"
  /\ i = 1
  /\ c = 1
  /\ ok = TRUE
  /\ error = FALSE

(* The call ends; what it does to out and schema is up to the caller. *)
ReturnFalse ==
  /\ pc' = "returned"
  /\ ok' = FALSE
  /\ error' = TRUE
  /\ UNCHANGED <<input, cells, i, c>>

FreeSchema == schema' = [schema EXCEPT !.own = @ - 1]
FreeOut == out' = [out EXCEPT !.own = @ - 1]

GoOn(where) ==
  /\ pc' = where
  /\ UNCHANGED <<input, cells, ok, error>>

-----------------------------------------------------------------------------
(* table_to_arrow: the rows of the vector into a soa of that size. *)
StoreRows ==
  /\ pc = "store"
  /\ cells' = rows
  /\ pc' = "schema"
  /\ UNCHANGED <<input, schema, out, i, c, ok, error>>

(* arrow_schema: a struct with a child for each column. *)
StructSchema ==
  /\ pc = "schema"
  /\ schema' = [own |-> schema.own + 1, struct |-> TRUE]
  /\ c' = 1
  /\ GoOn("columns")
  /\ UNCHANGED <<out, i>>

(* Nothing is released here: what is held now is the library's doing. *)
StructSchemaFails ==
  /\ pc = "schema"
  /\ \E held \in 0..1 : schema' = [schema EXCEPT !.own = @ + held]
  /\ ReturnFalse
  /\ UNCHANGED out

SetColumn ==
  /\ pc = "columns"
  /\ c <= NC
  /\ c' = c + 1
  /\ GoOn("columns")
  /\ UNCHANGED <<schema, out, i>>

SetColumnFails ==
  /\ pc = "columns"
  /\ c <= NC
  /\ FreeSchema
  /\ ReturnFalse
  /\ UNCHANGED out

(* The array is made from the schema, which is not needed any longer. *)
InitArray ==
  /\ pc = "columns"
  /\ c > NC
  /\ out' = [out EXCEPT !.own = @ + 1]
  /\ FreeSchema
  /\ i' = 1
  /\ c' = 1
  /\ GoOn(IF fn = "table" THEN "start" ELSE "fill")

(* Mutant: the array that was not made is released. *)
InitArrayFails_FreesOut ==
  /\ pc = "columns"
  /\ c > NC
  /\ FreeSchema
  /\ FreeOut
  /\ ReturnFalse

InitArrayFails ==
  /\ pc = "columns"
  /\ c > NC
  /\ FreeSchema
  /\ ReturnFalse
  /\ UNCHANGED out

(* Every later failure gives up the array. *)
ArrayFails ==
  /\ FreeOut
  /\ ReturnFalse
  /\ UNCHANGED schema

-----------------------------------------------------------------------------
(* Value by value. *)

StartAppending ==
  /\ pc = "start"
  /\ \/ GoOn("append") /\ UNCHANGED <<schema, out, i, c>>
     \/ ArrayFails

AppendValue ==
  /\ pc = "append"
  /\ i <= n
  /\ c <= NC
  /\ \/ /\ out' = [out EXCEPT !.child[c] =
                     [items |-> Append(@.items, cells[i][c]),
                      packed |-> Cols[c] = "boolean",
                      length |-> @.length + 1]]
        /\ c' = c + 1
        /\ GoOn("append")
        /\ UNCHANGED <<schema, i>>
     \/ ArrayFails

(* A row is complete when each child has grown by one. *)
FinishElement ==
  /\ pc = "append"
  /\ i <= n
  /\ c > NC
  /\ \/ /\ \A k \in 1..NC : out.child[k].length = out.length + 1
        /\ out' = [out EXCEPT !.length = @ + 1]
        /\ i' = i + 1
        /\ c' = 1
        /\ GoOn("append")
        /\ UNCHANGED schema
     \/ ArrayFails

RowsAppended ==
  /\ pc = "append"
  /\ i > n
  /\ GoOn("finish")
  /\ UNCHANGED <<schema, out, i, c>>

-----------------------------------------------------------------------------
(* Column by column. *)

Filled(items) == [items |-> items, packed |-> FALSE, length |-> n]

(* Mutant: the unused rows are copied as well. *)
FillColumn_WholeArray ==
  /\ pc = "fill"
  /\ ok
  /\ c <= NC
  /\ out' = [out EXCEPT !.child[c] = Filled([k \in 1..Len(cells) |-> cells[k][c]])]
  /\ c' = c + 1
  /\ GoOn("fill")
  /\ UNCHANGED <<schema, i>>

(* size_ elements of the column's memory in one append. *)
FillColumn ==
  /\ pc = "fill"
  /\ ok
  /\ c <= NC
  /\ out' = [out EXCEPT !.child[c] = Filled([k \in 1..n |-> cells[k][c]])]
  /\ c' = c + 1
  /\ GoOn("fill")
  /\ UNCHANGED <<schema, i>>

(* to_arrow leaves the columns behind a failure alone. *)
FillColumnFails ==
  /\ pc = "fill"
  /\ ok
  /\ c <= NC
  /\ fn = "fixed"
  /\ ArrayFails

(* The fold of to_arrow_spec gives them their length all the same. *)
FillSpecFails ==
  /\ pc = "fill"
  /\ c <= NC
  /\ fn = "spec"
  /\ ok' = FALSE
  /\ out' = [out EXCEPT !.child[c].length = n]
  /\ c' = c + 1
  /\ UNCHANGED <<input, cells, schema, pc, i, error>>

ColumnsFilled ==
  /\ pc = "fill"
  /\ c > NC
  /\ IF ok
     THEN /\ out' = [out EXCEPT !.length = n]
          /\ GoOn("finish")
          /\ UNCHANGED <<schema, i, c>>
     ELSE ArrayFails

-----------------------------------------------------------------------------
FinishBuilding ==
  /\ pc = "finish"
  /\ \/ /\ out' = [out EXCEPT !.built = TRUE]
        /\ GoOn("returned")
        /\ UNCHANGED <<schema, i, c>>
     \/ ArrayFails

Next ==
  \/ StoreRows \/ StructSchema \/ StructSchemaFails \/ SetColumn \/ SetColumnFails
  \/ InitArray \/ InitArrayFails
  \/ StartAppending \/ AppendValue \/ FinishElement \/ RowsAppended
  \/ FillColumn \/ FillColumnFails \/ FillSpecFails \/ ColumnsFilled
  \/ FinishBuilding

Spec == Init /\ [][Next]_vars

-----------------------------------------------------------------------------
(* The variables have their types; no object is released that is not held, *)
(* none is initialised while it is, and no array is filled that is not.     *)
TypeOK ==
  /\ n \in 0..Capacity
  /\ schema \in [own : 0..1, struct : BOOLEAN]
  /\ out.own \in 0..1
  /\ pc \in {"store", "schema", "columns", "start", "append", "fill", "finish", "returned"}
  /\ i \in 1..(n + 1)
  /\ c \in 1..(NC + 1)
  /\ out.own = 0 /\ ok => \A k \in 1..NC : out.child[k] = NoChild

(* Value k of a column as a reader of the batch finds it: booleans are bits, *)
(* eight to a byte.                                                          *)
ValueAt(col, k) ==
  LET child == out.child[col]
  IN  IF Cols[col] = "boolean" /\ ~child.packed
      THEN IF (k - 1) % 8 = 0 THEN child.items[(k - 1) \div 8 + 1] ELSE 0
      ELSE child.items[k]

(* "one ArrowBufferAppend of size_*sizeof per column reproduces byte-for-    *)
(* byte what the row-append would build": a batch that is handed out has the *)
(* rows of the table in order, every column as long as the batch, and none   *)
(* of the unused rows.  Boolean columns copied in one piece are left out.    *)
BatchOfRows ==
  /\ out.own = 1 /\ out.built /\ out.length = n
  /\ \A col \in 1..NC :
       /\ out.child[col].length = n
       /\ Len(out.child[col].items) = n
       /\ (Cols[col] = "boolean" => fn = "table") =>
            \A k \in 1..n : ValueAt(col, k) = rows[k][col]

(* When the call returns, the caller has the whole batch, or an error and    *)
(* nothing it would have to release, whichever library call failed and after *)
(* however many rows; the schema is gone, unless it never became a struct.   *)
BatchOrNothing ==
  pc = "returned" =>
    /\ IF ok THEN BatchOfRows /\ ~error ELSE out.own = 0 /\ error
    /\ schema.struct => schema.own = 0
=============================================================================
