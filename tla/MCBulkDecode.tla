---------------------------- MODULE MCBulkDecode ----------------------------
(***************************************************************************)
(* A three-table instance: Ethernet, VLAN (a node that repeats inside a    *)
(* packet) and IP, which for the child decoders stand for the tables of    *)
(* options and segments.  Four packets over two or more calls of up to     *)
(* three packets each, on one task or two: three packets split unevenly.   *)
(***************************************************************************)
EXTENDS BulkDecode

CONSTANTS eth, vlan, ip

MCNode == {eth, vlan, ip}
opt == vlan
seg == ip

Pkt(walk, kids, fits) == [walk |-> walk, kids |-> kids, fits |-> fits]

MCPackets == {Pkt(<<>>, <<>>, TRUE),                        \* not Ethernet, or too short
              Pkt(<<eth, ip>>, <<opt, opt>>, TRUE),         \* an IP header with two options
              Pkt(<<eth, vlan, vlan>>, <<>>, TRUE),         \* two tags: one table twice
              Pkt(<<eth, ip>>, <<seg, opt>>, FALSE)}        \* reaches past the window
=============================================================================
