------------------------------- MODULE MCDpar -------------------------------
(***************************************************************************)
(* A small catalog and palette.  Widths are scaled down: a word has four   *)
(* bits, ports and types three.  Packets: a UDP packet, a double-tagged    *)
(* frame, a SOME/IP message whose length field reaches past the capture, a *)
(* TCP segment captured without its payload, and a gPTP frame.             *)
(***************************************************************************)
EXTENDS Dpar, TLC

Field(node, bits) == [node |-> node, bits |-> bits]

MCCatalog ==
  ("eth.ethertype" :> Field("eth", 3)) @@ ("vlan.inner_ethertype" :> Field("vlan", 3)) @@
  ("udp.dst_port" :> Field("udp", 3)) @@ ("tcp.dst_port" :> Field("tcp", 3)) @@
  ("someip.length" :> Field("someip", 3)) @@ ("gptp.correction_field" :> Field("gptp", 4))

P(lhs, op, value) ==
  [short |-> FALSE, lhs |-> lhs, op |-> op, numeral |-> TRUE, value |-> value]
ShortP == [short |-> TRUE, lhs |-> "", op |-> "", numeral |-> FALSE, value |-> 0]

Line(preds, tail) == [blank |-> FALSE, preds |-> preds, tail |-> tail]
BlankLine == [blank |-> TRUE, preds |-> <<>>, tail |-> <<>>]

UdpRule == Line(<<P("udp.dst_port", "==", 5)>>, <<"=>", "raw_tlv", "udp_payload">>)
UdpRange == Line(<<P("udp.dst_port", ">=", 5), P("udp.dst_port", "<=", 6)>>,
                 <<"=>", "raw_tlv", "udp_payload">>)
TagRule == Line(<<P("eth.ethertype", ">=", 1)>>, <<"=>", "raw_tlv", "vlan_payload">>)
SomeipRule == Line(<<P("udp.dst_port", ">", 4), P("someip.length", "<=", 7)>>,
                   <<"=>", "someip_tlv", "someip_payload">>)
TcpRule == Line(<<P("tcp.dst_port", "<", 7)>>, <<"=>", "raw_tlv", "tcp_payload">>)
InnerTag == Line(<<P("vlan.inner_ethertype", ">", 2)>>, <<"=>", "raw_tlv", "vlan_payload">>)
EthRule == Line(<<P("gptp.correction_field", ">=", 20)>>, <<"=>", "raw_tlv", "eth_payload">>)

(* Operands: one too wide for its field, one that is 5 modulo the word, and *)
(* two negative ones, of which -9 is 7 in a word of four bits and accepted. *)
Operand(value) == Line(<<P("udp.dst_port", "==", value)>>, <<"=>", "raw_tlv", "udp_payload">>)
LongRule == Line(<<P("udp.dst_port", "==", 5), P("udp.dst_port", ">", 1), P("udp.dst_port", "<", 7)>>,
                 <<"=>", "raw_tlv", "udp_payload">>)
NoParser == Line(<<P("udp.dst_port", "==", 5)>>, <<"=>", "lldp", "udp_payload">>)
CutRule == Line(<<P("udp.dst_port", "==", 5), ShortP>>, <<>>)

MCTexts ==
  {<<>>, <<UdpRule>>, <<TagRule, BlankLine, UdpRule, UdpRange>>, <<SomeipRule, UdpRule>>,
   <<BlankLine, TcpRule, InnerTag, EthRule>>,
   <<UdpRule, Operand(8)>>, <<Operand(21)>>, <<Operand(-3)>>, <<Operand(-9), TagRule>>,
   <<LongRule>>, <<NoParser, TagRule>>, <<CutRule>>}

Pdu(node, off, fields) ==
  [node |-> node, off |-> off, fields |-> fields, data_offset |-> 15, length |-> 40]

Eth(type) == Pdu("eth", 0, "eth.ethertype" :> type)
Udp(off, port) == Pdu("udp", off, "udp.dst_port" :> port)

Raw(records) == [kd \in {"raw_tlv", "someip_tlv"} |-> IF kd = "raw_tlv" THEN records ELSE <<>>]
Both(records) == [kd \in {"raw_tlv", "someip_tlv"} |-> records]

MCPackets ==
  {[size |-> 50, walk |-> <<Eth(1), Udp(34, 5)>>,
    records |-> Raw((42 :> 3) @@ (45 :> 5))],
   [size |-> 30, walk |-> <<Eth(2), Pdu("vlan", 14, "vlan.inner_ethertype" :> 2),
                            Pdu("vlan", 18, "vlan.inner_ethertype" :> 3)>>,
    records |-> Raw((18 :> 2) @@ (22 :> 2) @@ (24 :> 9))],
   [size |-> 64, walk |-> <<Eth(1), Udp(34, 6), Pdu("someip", 42, "someip.length" :> 7)>>,
    records |-> Both((58 :> 3) @@ (61 :> 4))],
   [size |-> 80, walk |-> <<Eth(1), Pdu("tcp", 34, "tcp.dst_port" :> 3)>>,
    records |-> Raw(<<>>)],
   [size |-> 48, walk |-> <<Eth(3), Pdu("gptp", 14, "gptp.correction_field" :> 15)>>,
    records |-> Raw((14 :> 34))]}
=============================================================================
