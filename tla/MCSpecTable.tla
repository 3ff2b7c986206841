----------------------------- MODULE MCSpecTable -----------------------------
(***************************************************************************)
(* Every header over PDUs that tell all bits of it apart.  A reader only   *)
(* selects bits, so it is enough that each bit has a signature of its own: *)
(* in PDU c a bit is set if digit c of its position is one; with the       *)
(* complements, no bit can be taken for another or for a constant.  One    *)
(* PDU is a byte short of the header and must not be read.                 *)
(***************************************************************************)
EXTENDS SpecTable

G == INSTANCE PacketGraph

(* The sizes the packet walk works with are those of these specs. *)
GraphName ==
  [eth |-> "eth", vlan |-> "vlan", ipv4 |-> "ipv4", ipv6 |-> "ipv6", tcp |-> "tcp",
   udp |-> "udp", gptp |-> "gptp", ptp_timestamp |-> "ts_body",
   ptp_ts_port |-> "ts_port_body", ptp_announce |-> "announce_body",
   ptp_signaling |-> "signaling_body", ipv6_hbh |-> "hop_by_hop",
   ipv6_routing |-> "routing", ipv6_fragment |-> "fragment",
   ipv6_destopt |-> "dest_opt", ipv6_ah |-> "ah", someip |-> "someip"]

ASSUME SizesAgree ==
  \A n \in ToSet(kL2L3NodeNames) : spec_size(Specs[n]) = G!SpecSize[GraphName[n]]

Digits == 0..9     \* positions of up to 64 bytes

Digit(p, c) == (p \div 2^c) % 2

(* Bit b of byte i is position 8 * i + b. *)
Coded(size, c, one) ==
  [i \in 1..size |-> {b \in 0..7 : Digit(8 * (i - 1) + b, c) = one}]

(* The bytes of each header on the wire. *)
Size ==
  [eth |-> 14, vlan |-> 4, ipv4 |-> 20, ipv6 |-> 40, tcp |-> 20, udp |-> 8, gptp |-> 34,
   ptp_timestamp |-> 10, ptp_ts_port |-> 20, ptp_announce |-> 30, ptp_signaling |-> 10,
   ipv6_hbh |-> 2, ipv6_routing |-> 8, ipv6_fragment |-> 8, ipv6_destopt |-> 2,
   ipv6_ah |-> 12, someip |-> 16, sync |-> 44, follow_up |-> 44, delay_resp |-> 54,
   announce |-> 64, sd |-> 8, sd_entry |-> 16, little |-> 10]

MCPdus ==
  [h \in DOMAIN Size |->
     {Coded(Size[h], c, one) : c \in Digits, one \in {0, 1}}
       \cup {Coded(Size[h] - 1, 0, 1)}]
=============================================================================
