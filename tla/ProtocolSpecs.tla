---------------------------- MODULE ProtocolSpecs ----------------------------
(***************************************************************************)
(* The layouts of the headers: each as a wire spec (protocol_specs.hpp,    *)
(* protocol_specs_ptp.hpp, protocol_specs_someip.hpp) and, for the older   *)
(* headers, again as an overlay struct (protocols.hpp, gptp.hpp).          *)
(***************************************************************************)
EXTENDS WireSpec

(* All of them are in network byte order. *)
F(tag, offset, size) == named_field(tag, offset, size, "big", FALSE)
I(tag, offset, size) == named_field(tag, offset, size, "big", TRUE)     \* a signed type
B(tag, offset, size, bit_offset, width) ==
  named_bit_field(tag, offset, size, bit_offset, width, "big")
R(tag, offset, n) == named_bytes_field(tag, offset, n)

-----------------------------------------------------------------------------
(* protocol_specs.hpp *)

EthernetSpec ==
  <<R("dst", 0, 6), R("src", 6, 6), F("ethertype", 12, 2)>>

VlanTagSpec ==
  <<B("pcp", 0, 2, 0, 3), B("dei", 0, 2, 3, 1), B("vid", 0, 2, 4, 12),
    F("inner_ethertype", 2, 2)>>

Ipv4Spec ==
  <<B("version", 0, 1, 0, 4), B("ihl", 0, 1, 4, 4), B("dscp", 1, 1, 0, 6),
    B("ecn", 1, 1, 6, 2), F("total_length", 2, 2), F("identification", 4, 2),
    B("flags", 6, 2, 0, 3), B("frag_offset", 6, 2, 3, 13), F("ttl", 8, 1),
    F("protocol", 9, 1), F("checksum", 10, 2), R("src", 12, 4),
    R("dst", 16, 4)>>

Ipv6Spec ==
  <<B("version", 0, 4, 0, 4), B("traffic_class", 0, 4, 4, 8),
    B("flow_label", 0, 4, 12, 20), F("payload_length", 4, 2),
    F("next_header", 6, 1), F("hop_limit", 7, 1), R("src", 8, 16),
    R("dst", 24, 16)>>

TcpSpec ==
  <<F("src_port", 0, 2), F("dst_port", 2, 2), F("seq", 4, 4), F("ack", 8, 4),
    B("data_offset", 12, 2, 0, 4), B("reserved", 12, 2, 4, 3),
    B("flags", 12, 2, 7, 9), F("window", 14, 2), F("checksum", 16, 2),
    F("urgent_ptr", 18, 2)>>

UdpSpec ==
  <<F("src_port", 0, 2), F("dst_port", 2, 2), F("length", 4, 2),
    F("checksum", 6, 2)>>

Ipv6ExtOptSpec ==
  <<F("next_header", 0, 1), F("hdr_ext_len", 1, 1)>>

Ipv6SrhSpec ==
  <<F("next_header", 0, 1), F("hdr_ext_len", 1, 1), F("routing_type", 2, 1),
    F("segments_left", 3, 1), F("last_entry", 4, 1), F("flags", 5, 1),
    F("tag", 6, 2)>>

Ipv6FragmentSpec ==
  <<F("next_header", 0, 1), F("reserved", 1, 1),
    B("frag_offset", 2, 2, 0, 13), B("res2", 2, 2, 13, 2),
    B("more_fragments", 2, 2, 15, 1), F("identification", 4, 4)>>

Ipv6AhSpec ==
  <<F("next_header", 0, 1), F("payload_len", 1, 1), F("reserved", 2, 2),
    F("spi", 4, 4), F("seq", 8, 4)>>

-----------------------------------------------------------------------------
(* protocol_specs_ptp.hpp *)

TimestampSpec ==
  <<F("seconds_msb", 0, 2), F("seconds_lsb", 2, 4), F("nanoseconds", 6, 4)>>

PortIdentitySpec ==
  <<R("clock_identity", 0, 8), F("port_number", 8, 2)>>

ClockQualitySpec ==
  <<F("clock_class", 0, 1), F("clock_accuracy", 1, 1),
    F("offset_scaled_log_variance", 2, 2)>>

PtpHeaderSpec ==
  <<B("transport_specific", 0, 1, 0, 4), B("message_type", 0, 1, 4, 4),
    B("version_ptp", 1, 1, 4, 4), F("message_length", 2, 2),
    F("domain_number", 4, 1), F("flags", 6, 2), F("correction_field", 8, 8),
    R("clock_identity", 20, 8), F("source_port_number", 28, 2),
    F("sequence_id", 30, 2), F("control_field", 32, 1),
    I("log_message_interval", 33, 1)>>

SyncMsgSpec ==
  PtpHeaderSpec \o
  embed(<<"origin_">>, 34, TimestampSpec)

FollowUpMsgSpec ==
  PtpHeaderSpec \o
  embed(<<"precise_origin_">>, 34, TimestampSpec)

DelayRespMsgSpec ==
  PtpHeaderSpec \o
  embed(<<"receive_">>, 34, TimestampSpec) \o
  embed(<<"requesting_">>, 44, PortIdentitySpec)

AnnounceMsgSpec ==
  PtpHeaderSpec \o
  embed(<<"origin_">>, 34, TimestampSpec) \o
  <<I("current_utc_offset", 44, 2), F("grandmaster_priority1", 47, 1)>> \o
  embed(<<"grandmaster_">>, 48, ClockQualitySpec) \o
  <<F("grandmaster_priority2", 52, 1), R("grandmaster_identity", 53, 8),
    F("steps_removed", 61, 2), F("time_source", 63, 1)>>

PtpTimestampBodySpec ==
  embed(<<"ts_">>, 0, TimestampSpec)

PtpTsPortBodySpec ==
  embed(<<"ts_">>, 0, TimestampSpec) \o
  embed(<<"req_">>, 10, PortIdentitySpec)

PtpAnnounceBodySpec ==
  embed(<<"origin_">>, 0, TimestampSpec) \o
  <<I("current_utc_offset", 10, 2), F("grandmaster_priority1", 13, 1)>> \o
  embed(<<"grandmaster_">>, 14, ClockQualitySpec) \o
  <<F("grandmaster_priority2", 18, 1), R("grandmaster_identity", 19, 8),
    F("steps_removed", 27, 2), F("time_source", 29, 1)>>

PtpSignalingBodySpec ==
  embed(<<"target_">>, 0, PortIdentitySpec)

-----------------------------------------------------------------------------
(* protocol_specs_someip.hpp *)

SomeipSpec ==
  <<F("service_id", 0, 2), F("method_id", 2, 2), F("length", 4, 4),
    F("client_id", 8, 2), F("session_id", 10, 2),
    F("protocol_version", 12, 1), F("interface_version", 13, 1),
    F("message_type", 14, 1), F("return_code", 15, 1)>>

SomeipSdHeaderSpec ==
  <<F("flags", 0, 1), F("entries_length", 4, 4)>>

SomeipSdEntrySpec ==
  <<F("type", 0, 1), F("index_1st_opts", 1, 1), F("index_2nd_opts", 2, 1),
    B("num_opt_1", 3, 1, 0, 4), B("num_opt_2", 3, 1, 4, 4),
    F("service_id", 4, 2), F("instance_id", 6, 2), F("major_version", 8, 1),
    B("ttl", 8, 4, 8, 24), F("minor_version", 12, 4)>>

(* No header is little-endian; a client of the library may declare one.     *)
(* Little-endian bit fields are left out: wire_spec.hpp says of them both   *)
(* that bit offset 0 is the high bit (:82) and that it is the low one       *)
(* (:214, and so does the code), so there is no value they should have.     *)
LittleSpec ==
  <<named_field("word", 0, 2, "little", FALSE), named_field("long", 2, 8, "little", FALSE)>>

(* By node name; then the specs that are not nodes of the graph. *)
Specs ==
  [eth |-> EthernetSpec, vlan |-> VlanTagSpec, ipv4 |-> Ipv4Spec, ipv6 |-> Ipv6Spec,
   tcp |-> TcpSpec, udp |-> UdpSpec, gptp |-> PtpHeaderSpec,
   ptp_timestamp |-> PtpTimestampBodySpec, ptp_ts_port |-> PtpTsPortBodySpec,
   ptp_announce |-> PtpAnnounceBodySpec, ptp_signaling |-> PtpSignalingBodySpec,
   ipv6_hbh |-> Ipv6ExtOptSpec, ipv6_routing |-> Ipv6SrhSpec,
   ipv6_fragment |-> Ipv6FragmentSpec, ipv6_destopt |-> Ipv6ExtOptSpec,
   ipv6_ah |-> Ipv6AhSpec, someip |-> SomeipSpec,
   sync |-> SyncMsgSpec, follow_up |-> FollowUpMsgSpec, delay_resp |-> DelayRespMsgSpec,
   announce |-> AnnounceMsgSpec, sd |-> SomeipSdHeaderSpec, sd_entry |-> SomeipSdEntrySpec,
   little |-> LittleSpec]

(* The nodes of L2L3Graph in the order of their ids. *)
kL2L3NodeNames ==
  <<"eth", "vlan", "ipv4", "ipv6", "tcp", "udp", "gptp", "ptp_timestamp", "ptp_ts_port",
    "ptp_announce", "ptp_signaling", "ipv6_hbh", "ipv6_routing", "ipv6_fragment",
    "ipv6_destopt", "ipv6_ah", "someip">>

build_l2l3_catalog == build_field_catalog(kL2L3NodeNames, Specs)

-----------------------------------------------------------------------------
(* protocols.hpp, gptp.hpp *)

Ethernet == <<array("dst", 6), array("src", 6), member("ethertype", 2)>>

VlanTag ==
  <<bits(2, <<field("pcp", 3), field("dei", 1), field("vid", 12)>>),
    member("inner_ethertype", 2)>>

Ipv4 ==
  <<bits(1, <<field("version", 4), field("ihl", 4)>>),
    bits(1, <<field("dscp", 6), field("ecn", 2)>>),
    member("total_length", 2), member("identification", 2),
    bits(2, <<field("flags", 3), field("frag_offset", 13)>>),
    member("ttl", 1), member("protocol", 1), member("checksum", 2),
    array("src", 4), array("dst", 4)>>

Ipv6 ==
  <<bits(4, <<field("version", 4), field("traffic_class", 8), field("flow_label", 20)>>),
    member("payload_length", 2), member("next_header", 1), member("hop_limit", 1),
    array("src", 16), array("dst", 16)>>

Udp ==
  <<member("src_port", 2), member("dst_port", 2), member("length", 2), member("checksum", 2)>>

Tcp ==
  <<member("src_port", 2), member("dst_port", 2), member("seq", 4), member("ack", 4),
    bits(2, <<field("data_offset", 4), field("reserved", 3), field("flags", 9)>>),
    member("window", 2), member("checksum", 2), member("urgent_ptr", 2)>>

Gptp ==
  <<bits(1, <<field("transport_specific", 4), field("message_type", 4)>>),
    bits(1, <<field("reserved0", 4), field("version_ptp", 4)>>),
    member("message_length", 2), member("domain_number", 1), undescribed(1),
    member("flags", 2), member("correction_field", 8), undescribed(4),
    array("clock_identity", 8), member("source_port_number", 2), member("sequence_id", 2),
    member("control_field", 1), signed_member("log_message_interval", 1)>>

Overlays ==
  [eth |-> Ethernet, vlan |-> VlanTag, ipv4 |-> Ipv4, ipv6 |-> Ipv6, udp |-> Udp,
   tcp |-> Tcp, gptp |-> Gptp]
=============================================================================
