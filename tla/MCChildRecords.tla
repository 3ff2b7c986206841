--------------------------- MODULE MCChildRecords ---------------------------
(***************************************************************************)
(* Headers for TLC: sizes that end on, one before and one behind every     *)
(* boundary of the region they describe, and lengths that claim too little *)
(* and too much.                                                           *)
(***************************************************************************)
EXTENDS ChildRecords

H(kind, len, n, olen, message) ==
  [kind |-> kind, len |-> len, n |-> n, olen |-> olen, message |-> message]

MCOff == 1

MCHeaders ==
  {H("ipv4", 4 * ihl, 0, 0, FALSE) : ihl \in {4, 5, 6, 7}}
    \cup {H("opt", 8, 0, 0, FALSE), H("opt", 16, 0, 0, FALSE)}
    \cup {H("srh", 8 * k, n, 0, FALSE) : k \in {1, 3, 4, 5}, n \in {1, 2}}
    \cup {H("sd", 8 + len, n, olen, TRUE) : len \in {8, 16, 35, 44, 80}, n \in {16, 20, 40},
                                            olen \in {0, 7, 20}}
    \cup {H("sd", 8 + len, 0, olen, TRUE) : len \in {20, 32, 80}, olen \in {3, 14}}
    \cup {H("sd", 30, 0, 0, FALSE)}

MCSizes == {3, 8, 12, 16} \cup {21, 25, 26, 29, 30, 41, 45, 46, 52, 58}
MCWhole == 58
MCRecordSizes == {1, 4, 9}
=============================================================================
