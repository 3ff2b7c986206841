----------------------------- MODULE PacketGraph -----------------------------
(***************************************************************************)
(* The protocol graph L2L3Graph (spec_dag.hpp): its nodes, the fixed size  *)
(* of each header (the spec_size of its wire spec), and per node the two   *)
(* pure functions advance and next.                                        *)
(*                                                                         *)
(* A header is given by the fields these functions read:                   *)
(*   key       ethertype, protocol, next_header or message_type            *)
(*   len       ihl, data_offset, hdr_ext_len or payload_len                *)
(*   frag      frag_offset                                                 *)
(*   dst, src  the ports                                                   *)
(***************************************************************************)
EXTENDS Integers

Header == [key : Nat, len : Nat, frag : Nat, dst : Nat, src : Nat]

SpecSize ==
  [eth |-> 14, vlan |-> 4, ipv4 |-> 20, ipv6 |-> 40, tcp |-> 20, udp |-> 8,
   gptp |-> 34, ts_body |-> 10, ts_port_body |-> 20, announce_body |-> 30,
   signaling_body |-> 10, hop_by_hop |-> 2, routing |-> 8, fragment |-> 8,
   dest_opt |-> 2, ah |-> 12, someip |-> 16]

Nodes == DOMAIN SpecSize

Stop == "stop"    \* node id -1

-----------------------------------------------------------------------------
(* The edge tables: <<key, target>>. *)

VlanTypes == {33024, 34984}      \* 0x8100, 0x88A8
EtherTypeIpv4 == 2048            \* 0x0800
EtherTypeIpv6 == 34525           \* 0x86DD
ProtoTcp == 6
ProtoUdp == 17

EtherTypeEdges ==
  {<<t, "vlan">> : t \in VlanTypes} \cup
  {<<EtherTypeIpv4, "ipv4">>, <<EtherTypeIpv6, "ipv6">>, <<35063, "gptp">>}

ProtoEdges == {<<ProtoTcp, "tcp">>, <<ProtoUdp, "udp">>}

NextHeaderEdges ==
  ProtoEdges \cup
  {<<0, "hop_by_hop">>, <<43, "routing">>, <<44, "fragment">>,
   <<60, "dest_opt">>, <<51, "ah">>}

MessageTypeEdges ==
  {<<t, "ts_body">> : t \in {0, 8, 1, 2}} \cup
  {<<t, "ts_port_body">> : t \in {9, 3, 10}} \cup
  {<<11, "announce_body">>, <<12, "signaling_body">>}

PortEdges == {<<30490, "someip">>}

(* "Keys are unique per table": at most one edge matches. *)
ASSUME UniqueKeys ==
  \A T \in {EtherTypeEdges, ProtoEdges, NextHeaderEdges, MessageTypeEdges, PortEdges} :
    \A a, b \in T : a[1] = b[1] => a = b

match_edges(edges, key) ==
  IF \E e \in edges : e[1] = key
  THEN (CHOOSE e \in edges : e[1] = key)[2]
  ELSE Stop

-----------------------------------------------------------------------------
IpOptions == {"hop_by_hop", "dest_opt", "routing"}

AtLeast(n, fixed) == IF n >= fixed THEN n ELSE fixed

(* Mutant: a length field smaller than the fixed header is believed. *)
advance_NoMinimum(n, h) ==
  IF n \in {"ipv4", "tcp"} THEN h.len * 4
  ELSE IF n \in IpOptions THEN (h.len + 1) * 8
  ELSE IF n = "ah" THEN (h.len + 2) * 4
  ELSE SpecSize[n]

(* advance(p): bytes from this header to what follows it. *)
advance(n, h) ==
  IF n \in {"ipv4", "tcp"} THEN AtLeast(h.len * 4, 20)
  ELSE IF n \in IpOptions THEN (h.len + 1) * 8
  ELSE IF n = "ah" THEN (h.len + 2) * 4
  ELSE SpecSize[n]

(* The SOME/IP port on either endpoint. *)
someip_port_dispatch(h) ==
  IF match_edges(PortEdges, h.dst) # Stop THEN match_edges(PortEdges, h.dst)
  ELSE match_edges(PortEdges, h.src)

(* Mutant: fragments are not told apart. *)
next_IgnoresFragments(n, h) ==
  IF n \in {"eth", "vlan"} THEN match_edges(EtherTypeEdges, h.key)
  ELSE IF n = "ipv4" THEN match_edges(ProtoEdges, h.key)
  ELSE IF n \in IpOptions \cup {"ipv6", "fragment", "ah"} THEN match_edges(NextHeaderEdges, h.key)
  ELSE IF n \in {"tcp", "udp"} THEN someip_port_dispatch(h)
  ELSE IF n = "gptp" THEN match_edges(MessageTypeEdges, h.key)
  ELSE Stop

(* next(p): the node that follows.  A fragment other than the first has no  *)
(* header of a next layer.                                                  *)
next(n, h) ==
  IF n \in {"eth", "vlan"} THEN match_edges(EtherTypeEdges, h.key)
  ELSE IF n \in {"ipv4", "fragment"} /\ h.frag # 0 THEN Stop
  ELSE IF n = "ipv4" THEN match_edges(ProtoEdges, h.key)
  ELSE IF n \in IpOptions \cup {"ipv6", "fragment", "ah"} THEN match_edges(NextHeaderEdges, h.key)
  ELSE IF n \in {"tcp", "udp"} THEN someip_port_dispatch(h)
  ELSE IF n = "gptp" THEN match_edges(MessageTypeEdges, h.key)
  ELSE Stop
=============================================================================
