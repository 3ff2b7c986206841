---------------------------- MODULE MCPacketWalk ----------------------------
(***************************************************************************)
(* Headers of every node with the field values its dispatch tells apart,   *)
(* and sizes at and next to the ends of the headers of the usual stacks.   *)
(***************************************************************************)
EXTENDS PacketWalk

H(key, len, frag, dst, src) ==
  [key |-> key, len |-> len, frag |-> frag, dst |-> dst, src |-> src]
Keys(K) == {H(k, 0, 0, 0, 0) : k \in K}
Lengths(K, L) == {H(k, n, 0, 0, 0) : k \in K, n \in L}

EtherTypes == {33024, 34984, 2048, 34525, 35063, 2054}
NextHeaders == {0, 43, 44, 60, 51, 6, 17, 59}

MCContents ==
  [n \in Nodes |->
     CASE n = "eth" -> Keys(EtherTypes)
       [] n = "vlan" -> Keys(EtherTypes \ {34984})
       [] n = "ipv4" -> {H(k, l, f, 0, 0) : k \in {6, 17, 0}, l \in {0, 5, 6}, f \in {0, 7}}
       [] n = "ipv6" -> Keys(NextHeaders)
       [] n \in {"hop_by_hop", "dest_opt", "routing"} -> Lengths({60, 51, 44, 17, 59}, {0, 1})
       [] n = "ah" -> Lengths({6, 17, 43}, {0, 1, 4})
       [] n = "fragment" -> {H(k, 0, f, 0, 0) : k \in {6, 17}, f \in {0, 7}}
       [] n = "tcp" -> {H(0, l, 0, d, 1) : l \in {4, 5, 15}, d \in {1, 30490}}
       [] n = "udp" -> {H(0, 0, 0, 30490, 1), H(0, 0, 0, 1, 30490), H(0, 0, 0, 1, 2)}
       [] n = "gptp" -> Keys({0, 9, 11, 12, 13})
       [] OTHER -> Keys({0})]

MCSizes == {13, 14, 17, 18, 33, 34, 38, 42, 47, 54, 58, 61, 62, 74, 78, 90, 130}
=============================================================================
