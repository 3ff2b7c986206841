---------------------------- MODULE MCArrowExport ----------------------------
(***************************************************************************)
(* Up to three rows of two columns, one of them of booleans, in a table    *)
(* with room for three: empty, partly filled and full.                     *)
(***************************************************************************)
EXTENDS ArrowExport

MCCols == <<"scalar", "boolean">>
=============================================================================
