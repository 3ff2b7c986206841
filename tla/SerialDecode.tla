---------------------------- MODULE SerialDecode ----------------------------
(***************************************************************************)
(* What every bulk decoder of nanotins promises: after a call the output   *)
(* tables hold what the serial path (dag_decode_packet / decode_packet)    *)
(* would have appended for the same packets, in packet order and, inside a *)
(* packet, in the order the walk emits its PDUs.                           *)
(*                                                                         *)
(* A walk is the sequence of graph nodes one packet's traversal emits; a   *)
(* row is identified by the packet it comes from and the position of its   *)
(* PDU in that packet's walk (which fixes the bytes the row was read from).*)
(***************************************************************************)
EXTENDS Integers, Sequences

CONSTANTS
  Node,       \* the graph's nodes, one output table each
  Walks,      \* the walks a packet of this traffic can have
  MaxBatch    \* bound: packets handed over in one call

VARIABLES
  rows,       \* rows[n]: the table of node n, a sequence of rows
  npkts       \* packets decoded so far: the next packet_id

vars == <<rows, npkts>>

(* dag_pdu_table::append at every node the walk visits, in visit order. *)
DecodePacket(tabs, pid, walk) ==
  LET after[j \in 0..Len(walk)] ==
        IF j = 0 THEN tabs
        ELSE [after[j - 1] EXCEPT ![walk[j]] = Append(@, [pid |-> pid, pdu |-> j])]
  IN  after[Len(walk)]

(* One call: the packets one after the other, consecutive packet ids. *)
DecodeBatch(tabs, first, walks) ==
  LET after[i \in 0..Len(walks)] ==
        IF i = 0 THEN tabs
        ELSE DecodePacket(after[i - 1], first + i - 1, walks[i])
  IN  after[Len(walks)]

Init ==
  /\ rows = [n \in Node |-> <<>>]
  /\ npkts = 0

Next ==
  \E m \in 0..MaxBatch : \E walks \in [1..m -> Walks] :
    /\ rows' = DecodeBatch(rows, npkts, walks)
    /\ npkts' = npkts + Len(walks)

Spec == Init /\ [][Next]_vars
=============================================================================
