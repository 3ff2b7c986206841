----------------------------- MODULE PacketWalk -----------------------------
(***************************************************************************)
(* The three ways nanotins walks a packet, one after the other over the    *)
(* same bytes:                                                             *)
(*   walk<L2L3Graph> (spec_dag.hpp), one iteration of its loop per step;   *)
(*   walk_packet (protocol_decode.hpp), one header per step;               *)
(*   decode_l2, decode_l3, decode_l4 (protocol_decode.hpp), staged by a    *)
(*   driver that passes on what each stage consumed.                       *)
(*                                                                         *)
(* The contents of the packet are chosen when they are first read and kept *)
(* in hdr: a later walk that reads the same offset finds the same header.  *)
(***************************************************************************)
EXTENDS PacketGraph, Sequences

CONSTANTS
  Sizes,          \* captured sizes of a packet
  LinkTypes,      \* link types of its interface
  Contents,       \* Contents[n]: headers a packet may hold for node n
  MaxWalkSteps    \* kMaxWalkSteps (32 in the code)

ASSUME WalkAssumption ==
  /\ Sizes \subseteq Nat
  /\ LinkTypes \subseteq Nat
  /\ Contents \in [Nodes -> SUBSET Header]
  /\ MaxWalkSteps \in Nat

Ethernet == 1     \* kLinkTypeEthernet

(* The walks over the six columns of DecodedPdus. *)
Layered == {"walk_packet", "staged"}

VARIABLES
  size, link,   \* the packet's captured size and link type
  hdr,          \* the headers read so far, by offset
  node, off, steps, visits,   \* the graph walk: off is also its consumed
  turn,         \* who walks: "dag", "walk_packet", "staged", "done"
  w             \* w[a], for a in Layered:
                \*   at     "l2", "tags", "l3", "l4", "none", "end"
                \*   off    offset of the next header
                \*   key    ethertype at "tags" and "l3", protocol at "l4"
                \*   pdus   the headers reported
                \*   l4     what is known of the payload: reached, offset, ports

dagVars == <<node, off, steps, visits>>
vars == <<size, link, hdr, dagVars, turn, w>>

NoL4 == [reached |-> FALSE, offset |-> 0, ports |-> <<>>]

Init ==
  /\ size \in Sizes
  /\ link \in LinkTypes
  /\ hdr = [o \in {} |-> 0]
  /\ node = "eth"
  /\ off = 0
  /\ steps = 0
  /\ visits = <<>>
  /\ turn = "dag"
  /\ w = [a \in Layered |-> [at |-> "l2", off |-> 0, key |-> 0, pdus |-> <<>>, l4 |-> NoL4]]

(* What a walk may find at offset o, where it expects node n. *)
Headers(n, o) == IF o \in DOMAIN hdr THEN {hdr[o]} ELSE Contents[n]

(* It has found h there. *)
Read(o, h) == hdr' = [x \in DOMAIN hdr \cup {o} |-> IF x = o THEN h ELSE hdr[x]]

Pdu(n, o) == [node |-> n, off |-> o]

-----------------------------------------------------------------------------
(* walk<Graph> *)

Fits(n, o) == o + SpecSize[n] <= size

(* There is a header of node n at offset o to look at. *)
Present(n, o) == n # Stop /\ Fits(n, o)

(* Mutant: the number of steps is not bounded. *)
DagStep_Unbounded ==
  /\ turn = "dag"
  /\ Present(node, off)
  /\ \E h \in Headers(node, off) :
       /\ Read(off, h)
       /\ off' = off + advance(node, h)
       /\ node' = next(node, h)
  /\ visits' = Append(visits, Pdu(node, off))
  /\ steps' = steps + 1
  /\ UNCHANGED <<size, link, turn, w>>

DagStep ==
  /\ turn = "dag"
  /\ steps < MaxWalkSteps
  /\ Present(node, off)
  /\ \E h \in Headers(node, off) :
       /\ Read(off, h)
       /\ off' = off + advance(node, h)
       /\ node' = next(node, h)
  /\ visits' = Append(visits, Pdu(node, off))
  /\ steps' = steps + 1
  /\ UNCHANGED <<size, link, turn, w>>

DagEnd ==
  /\ turn = "dag"
  /\ steps = MaxWalkSteps \/ ~Present(node, off)
  /\ turn' = "walk_packet"
  /\ UNCHANGED <<size, link, hdr, dagVars, w>>

-----------------------------------------------------------------------------
(* walk_packet and the staged decoders *)

After == [walk_packet |-> "staged", staged |-> "done"]

At(a, at) == turn = a /\ w[a].at = at

(* Actor a is finished: the headers it has reported stay. *)
Return(a) ==
  /\ w' = [w EXCEPT ![a].at = "end"]
  /\ turn' = After[a]
  /\ UNCHANGED <<size, link, hdr, dagVars>>

(* Actor a reports the header h of node n and goes on. *)
Report(a, n, h, at, key, length) ==
  /\ Read(w[a].off, h)
  /\ w' = [w EXCEPT ![a].at = at, ![a].key = key, ![a].off = @ + length,
                    ![a].pdus = Append(@, Pdu(n, w[a].off))]
  /\ UNCHANGED <<size, link, dagVars, turn>>

L2Refused(a) ==
  /\ At(a, "l2")
  /\ link # Ethernet \/ ~Fits("eth", w[a].off)
  /\ Return(a)

L2Ethernet(a) ==
  /\ At(a, "l2")
  /\ link = Ethernet
  /\ Fits("eth", w[a].off)
  /\ \E h \in Headers("eth", w[a].off) : Report(a, "eth", h, "tags", h.key, 14)

TagCut(a) ==
  /\ At(a, "tags")
  /\ w[a].key \in VlanTypes
  /\ ~Fits("vlan", w[a].off)
  /\ Return(a)

(* Mutant: the loop looks at the same tag again. *)
Tag_Spins(a) ==
  /\ At(a, "tags")
  /\ w[a].key \in VlanTypes
  /\ Fits("vlan", w[a].off)
  /\ UNCHANGED vars

(* The stack of tags is followed to its end, however deep. *)
Tag(a) ==
  /\ At(a, "tags")
  /\ w[a].key \in VlanTypes
  /\ Fits("vlan", w[a].off)
  /\ \E h \in Headers("vlan", w[a].off) : Report(a, "vlan", h, "tags", h.key, 4)

L2Done(a) ==
  /\ At(a, "tags")
  /\ w[a].key \notin VlanTypes
  /\ w' = [w EXCEPT ![a].at = "l3"]
  /\ UNCHANGED <<size, link, hdr, dagVars, turn>>

L3Node(a) ==
  IF w[a].key = EtherTypeIpv4 THEN "ipv4"
  ELSE IF w[a].key = EtherTypeIpv6 THEN "ipv6" ELSE Stop

L3Refused(a) ==
  /\ At(a, "l3")
  /\ ~Present(L3Node(a), w[a].off)
  /\ Return(a)

(* IPv4 options are skipped; IPv6 extension headers are not looked at. *)
L3Length(n, h) == IF n = "ipv4" THEN AtLeast(h.len * 4, 20) ELSE 40

FirstFragment(n, h) == n = "ipv4" => h.frag = 0

(* walk_packet returns at once when no L4 can follow. *)
WalkL3 ==
  LET a == "walk_packet"
      n == L3Node(a)
  IN  /\ At(a, "l3")
      /\ Present(n, w[a].off)
      /\ \E h \in Headers(n, w[a].off) :
           Report(a, n, h,
                  IF w[a].off + L3Length(n, h) > size \/ ~FirstFragment(n, h)
                  THEN "none" ELSE "l4",
                  h.key, L3Length(n, h))

(* decode_l3 reports protocol 0 for a later fragment; the driver has nothing *)
(* to pass on when more was consumed than captured.                          *)
StageL3 ==
  LET a == "staged"
      n == L3Node(a)
  IN  /\ At(a, "l3")
      /\ Present(n, w[a].off)
      /\ \E h \in Headers(n, w[a].off) :
           Report(a, n, h,
                  IF w[a].off + L3Length(n, h) > size THEN "none" ELSE "l4",
                  IF FirstFragment(n, h) THEN h.key ELSE 0, L3Length(n, h))

L4Node(a) ==
  IF w[a].key = ProtoTcp THEN "tcp" ELSE IF w[a].key = ProtoUdp THEN "udp" ELSE Stop

L4Refused(a) ==
  /\ \/ At(a, "none")
     \/ At(a, "l4") /\ ~Present(L4Node(a), w[a].off)
  /\ Return(a)

L4Length(n, h) == IF n = "tcp" THEN AtLeast(h.len * 4, 20) ELSE 8

(* The transport header; the payload begins behind it. *)
L4(a) ==
  LET n == L4Node(a)
  IN  /\ At(a, "l4")
      /\ Present(n, w[a].off)
      /\ \E h \in Headers(n, w[a].off) :
           /\ Read(w[a].off, h)
           /\ w' = [w EXCEPT
                ![a].at = "end",
                ![a].pdus = Append(@, Pdu(n, w[a].off)),
                ![a].l4 = [reached |-> TRUE, offset |-> w[a].off + L4Length(n, h),
                           ports |-> <<h.src, h.dst>>]]
      /\ turn' = After[a]
      /\ UNCHANGED <<size, link, dagVars>>

-----------------------------------------------------------------------------
Walk ==
  \/ DagStep \/ DagEnd \/ WalkL3 \/ StageL3
  \/ \E a \in Layered :
       \/ L2Refused(a) \/ L2Ethernet(a) \/ TagCut(a) \/ Tag(a) \/ L2Done(a)
       \/ L3Refused(a) \/ L4Refused(a) \/ L4(a)

Finished == turn = "done" /\ UNCHANGED vars

Next == Walk \/ Finished

(* The walks are loops of the caller's thread. *)
Spec == Init /\ [][Next]_vars /\ WF_vars(Walk)

-----------------------------------------------------------------------------
PduType == [node : Nodes, off : Nat]
LayeredState ==
  [at : {"l2", "tags", "l3", "l4", "none", "end"}, off : Nat, key : Nat,
   pdus : Seq(PduType),
   l4 : [reached : BOOLEAN, offset : Nat, ports : Seq(Nat)]]

(* The variables have their types; the graph walk never exceeds its bound. *)
TypeOK ==
  /\ size \in Sizes
  /\ link \in LinkTypes
  /\ DOMAIN hdr \subseteq Nat /\ \A o \in DOMAIN hdr : hdr[o] \in Header
  /\ node \in Nodes \cup {Stop}
  /\ off \in Nat
  /\ steps \in 0..MaxWalkSteps
  /\ visits \in Seq(PduType)
  /\ steps = Len(visits)
  /\ turn \in Layered \cup {"dag", "done"}
  /\ w \in [Layered -> LayeredState]

Captured(pdu) == pdu.off + SpecSize[pdu.node] <= size

(* No walk overlays a header that is not captured in full, whatever lengths *)
(* the headers before it claim.                                             *)
PdusInside ==
  /\ \A i \in 1..Len(visits) : Captured(visits[i])
  /\ \A a \in Layered : \A i \in 1..Len(w[a].pdus) : Captured(w[a].pdus[i])

(* The graph walk goes forward only and no byte belongs to two headers; the *)
(* exception is an authentication header whose length field says that it is *)
(* shorter than its fixed fields.                                           *)
NoOverlap ==
  \A i \in 1..(Len(visits) - 1) :
    visits[i + 1].off >= visits[i].off +
      (IF visits[i].node = "ah" THEN 8 ELSE SpecSize[visits[i].node])

(* The headers the walks report are apart from each other and captured. *)
PdusApart == PdusInside /\ NoOverlap

Columns == {"eth", "vlan", "ipv4", "ipv6", "tcp", "udp"}

Extended == \E i \in 1..Len(visits) :
              visits[i].node \in IpOptions \cup {"fragment", "ah"}

(* Where the graph walk went after its first n visits. *)
DagOffset(n) == IF n < Len(visits) THEN visits[n + 1].off ELSE off

(* walk_packet and the graph report the same headers at the same offsets,   *)
(* and agree on where the payload begins, for every Ethernet packet without *)
(* IPv6 extension headers that is no deeper than the graph walk's bound:    *)
(* the visits of the six columns come first, and are what walk_packet       *)
(* reported.                                                                *)
DagAgrees ==
  LET pdus == w["walk_packet"].pdus
      l4 == w["walk_packet"].l4
  IN  (turn = "done" /\ link = Ethernet /\ ~Extended /\ Len(pdus) <= MaxWalkSteps) =>
        /\ Len(pdus) <= Len(visits) /\ pdus = SubSeq(visits, 1, Len(pdus))
        /\ \A i \in 1..Len(visits) : visits[i].node \in Columns <=> i <= Len(pdus)
        /\ l4.reached => l4.offset = DagOffset(Len(pdus))

(* walk_packet "replays the exact same sequence as the serial decode_l2/l3/ *)
(* l4 chain" and reports the same boundary and ports as the staged path.    *)
StagedAgrees ==
  turn = "done" =>
    /\ w["staged"].pdus = w["walk_packet"].pdus
    /\ w["staged"].l4 = w["walk_packet"].l4

(* The three traversals report the same headers and the same payload. *)
WalksAgree == DagAgrees /\ StagedAgrees

(* Every walk of every packet comes to an end, the unbounded loop over a    *)
(* stack of tags included.                                                  *)
Terminates == <>(turn = "done")
=============================================================================
