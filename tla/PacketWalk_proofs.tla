-------------------------- MODULE PacketWalk_proofs --------------------------
(***************************************************************************)
(* For every packet, of any size and with any contents, and for every step *)
(* bound: the walks are type correct, overlay only headers that are        *)
(* captured in full, and the graph walk never gives a byte to two headers. *)
(*                                                                         *)
(* NoOverlap speaks of two visits; what carries it through a step is       *)
(* Ahead: the offset is already past the header visited last.  The second  *)
(* half proves that the three walks agree.                                 *)
(***************************************************************************)
EXTENDS PacketWalk, TLAPS, SequenceTheorems

Extent(n) == IF n = "ah" THEN 8 ELSE SpecSize[n]

Ahead ==
  visits # <<>> => off >= visits[Len(visits)].off + Extent(visits[Len(visits)].node)

IInv == TypeOK /\ PdusInside /\ NoOverlap /\ Ahead

-----------------------------------------------------------------------------
(* Every node has a size, and no node is Stop. *)
LEMMA SizesType == \A n \in Nodes : SpecSize[n] \in Nat /\ n # Stop
BY DEF SpecSize, Nodes, Stop

LEMMA EdgeTargets ==
  ASSUME NEW T \in {EtherTypeEdges, ProtoEdges, NextHeaderEdges, MessageTypeEdges, PortEdges},
         NEW k \in Nat
  PROVE  match_edges(T, k) \in Nodes \cup {Stop}
<1>1. \A e \in T : e[2] \in Nodes
  BY DEF EtherTypeEdges, ProtoEdges, NextHeaderEdges, MessageTypeEdges, PortEdges,
         VlanTypes, Nodes, SpecSize
<1>2. CASE \E e \in T : e[1] = k
  <2>1. (CHOOSE e \in T : e[1] = k) \in T
    BY <1>2
  <2> QED BY <1>1, <1>2, <2>1 DEF match_edges
<1>3. CASE ~ \E e \in T : e[1] = k
  BY <1>3 DEF match_edges
<1> QED BY <1>2, <1>3

(* The dispatch leads to a node of the graph or stops. *)
LEMMA NextType ==
  ASSUME NEW n \in Nodes, NEW h \in Header
  PROVE  next(n, h) \in Nodes \cup {Stop}
<1>1. h.key \in Nat /\ h.dst \in Nat /\ h.src \in Nat
  BY DEF Header
<1>2. /\ match_edges(EtherTypeEdges, h.key) \in Nodes \cup {Stop}
      /\ match_edges(ProtoEdges, h.key) \in Nodes \cup {Stop}
      /\ match_edges(NextHeaderEdges, h.key) \in Nodes \cup {Stop}
      /\ match_edges(MessageTypeEdges, h.key) \in Nodes \cup {Stop}
      /\ match_edges(PortEdges, h.dst) \in Nodes \cup {Stop}
      /\ match_edges(PortEdges, h.src) \in Nodes \cup {Stop}
  BY <1>1, EdgeTargets
<1>3. someip_port_dispatch(h) \in Nodes \cup {Stop}
  BY <1>2 DEF someip_port_dispatch
<1> QED BY <1>2, <1>3 DEF next

(* Every node moves past its own header. *)
LEMMA AdvanceExtent ==
  ASSUME NEW n \in Nodes, NEW h \in Header
  PROVE  advance(n, h) \in Nat /\ advance(n, h) >= Extent(n)
<1>1. h.len \in Nat
  BY DEF Header
<1>2. CASE n \in {"ipv4", "tcp"}
  BY <1>1, <1>2 DEF advance, AtLeast, Extent, SpecSize
<1>3. CASE n \in IpOptions
  <2>1. Extent(n) \in Nat /\ Extent(n) <= 8
    BY <1>3 DEF IpOptions, Extent, SpecSize
  <2>2. advance(n, h) = (h.len + 1) * 8
    BY <1>3 DEF advance, IpOptions
  <2> QED BY <1>1, <2>1, <2>2
<1>4. CASE n = "ah"
  <2>1. Extent(n) = 8 /\ advance(n, h) = (h.len + 2) * 4
    BY <1>4 DEF advance, IpOptions, Extent
  <2> QED BY <1>1, <2>1
<1>5. CASE n \notin {"ipv4", "tcp", "ah"} /\ n \notin IpOptions
  <2>1. Extent(n) = SpecSize[n] /\ advance(n, h) = SpecSize[n]
    BY <1>5 DEF advance, Extent
  <2> QED BY <2>1, SizesType
<1> QED BY <1>2, <1>3, <1>4, <1>5

(* What a walk finds is a header, and reading it keeps hdr one of headers. *)
LEMMA FoundType ==
  ASSUME TypeOK, NEW n \in Nodes, NEW o \in Nat, NEW h \in Headers(n, o)
  PROVE  /\ h \in Header
         /\ Read(o, h) => /\ DOMAIN hdr' \subseteq Nat
                          /\ \A x \in DOMAIN hdr' : hdr'[x] \in Header
<1>1. h \in Header
  BY WalkAssumption DEF TypeOK, Headers
<1> QED BY <1>1 DEF Read, TypeOK

LEMMA InitInv == Init => IInv
<1> SUFFICES ASSUME Init PROVE IInv
  OBVIOUS
<1>1. visits = <<>> /\ steps = 0 /\ size \in Sizes /\ link \in LinkTypes /\ off = 0
      /\ node = "eth" /\ turn = "dag" /\ hdr = [o \in {} |-> 0]
  BY DEF Init
<1>2. \A a \in Layered : w[a] = [at |-> "l2", off |-> 0, key |-> 0, pdus |-> <<>>, l4 |-> NoL4]
  BY DEF Init
<1>3. w \in [Layered -> LayeredState]
  BY DEF Init, LayeredState, NoL4
<1>4. DOMAIN hdr = {}
  BY <1>1
<1>5. node \in Nodes
  BY <1>1 DEF Nodes, SpecSize
<1>6. TypeOK
  BY <1>1, <1>3, <1>4, <1>5, WalkAssumption DEF TypeOK
<1>7. PdusInside
  BY <1>1, <1>2 DEF PdusInside
<1>8. NoOverlap /\ Ahead
  BY <1>1 DEF NoOverlap, Ahead
<1> QED BY <1>6, <1>7, <1>8 DEF IInv

-----------------------------------------------------------------------------
(* One visit of the graph walk. *)
LEMMA DagStepInv == ASSUME IInv, DagStep PROVE IInv'
<1>1. /\ UNCHANGED <<size, link, turn, w>>
      /\ steps < MaxWalkSteps /\ steps' = steps + 1
      /\ node # Stop /\ Fits(node, off)
      /\ visits' = Append(visits, Pdu(node, off))
  BY DEF DagStep, Present
<1>2. node \in Nodes /\ off \in Nat /\ visits \in Seq(PduType) /\ size \in Nat
  BY <1>1, WalkAssumption DEF IInv, TypeOK
<1>3. PICK h \in Headers(node, off) :
        Read(off, h) /\ off' = off + advance(node, h) /\ node' = next(node, h)
  BY DEF DagStep
<1>4. h \in Header /\ DOMAIN hdr' \subseteq Nat /\ \A x \in DOMAIN hdr' : hdr'[x] \in Header
  BY <1>2, <1>3, FoundType DEF IInv
<1>5. advance(node, h) \in Nat /\ advance(node, h) >= Extent(node)
  BY <1>2, <1>4, AdvanceExtent
<1>6. node' \in Nodes \cup {Stop}
  BY <1>2, <1>3, <1>4, NextType
<1>7. Extent(node) \in Nat /\ off' \in Nat /\ off' >= off + Extent(node)
  <2>1. Extent(node) \in Nat
    BY <1>2, SizesType DEF Extent
  <2> QED BY <2>1, <1>2, <1>3, <1>5
<1> DEFINE v == Pdu(node, off)
<1>8. v \in PduType /\ v.node = node /\ v.off = off
  BY <1>2 DEF PduType, Pdu
<1>9. /\ visits' \in Seq(PduType)
      /\ Len(visits) \in Nat /\ Len(visits') = Len(visits) + 1
      /\ \A i \in 1..Len(visits) : visits'[i] = visits[i]
      /\ visits'[Len(visits) + 1] = v
  BY <1>1, <1>2, <1>8
<1>10. TypeOK'
  <2>1. steps' \in 0..MaxWalkSteps /\ steps' = Len(visits')
    BY <1>1, <1>9, WalkAssumption DEF IInv, TypeOK
  <2>2. off' \in Nat /\ node' \in Nodes \cup {Stop}
    BY <1>6, <1>7
  <2>3. /\ size' \in Sizes /\ link' \in LinkTypes
        /\ turn' \in Layered \cup {"dag", "done"} /\ w' \in [Layered -> LayeredState]
    BY <1>1 DEF IInv, TypeOK
  <2> QED BY <1>4, <1>9, <2>1, <2>2, <2>3, Zenon DEF TypeOK
<1>11. PdusInside'
  <2>1. ASSUME NEW i \in 1..Len(visits')
        PROVE  Captured(visits'[i])
    <3>1. CASE i = Len(visits) + 1
      BY <3>1, <1>1, <1>8, <1>9 DEF Fits, Captured
    <3>2. CASE i \in 1..Len(visits)
      BY <3>2, <1>9 DEF IInv, PdusInside
    <3> QED BY <3>1, <3>2, <1>9
  <2> QED BY <2>1, <1>1 DEF IInv, PdusInside, Captured
<1>12. NoOverlap'
  <2> SUFFICES ASSUME NEW i \in 1..(Len(visits') - 1)
               PROVE  visits'[i + 1].off >= visits'[i].off + Extent(visits'[i].node)
    BY DEF NoOverlap, Extent
  <2>1. i \in 1..Len(visits) /\ visits'[i] = visits[i]
    BY <1>9
  <2>2. CASE i = Len(visits)
    <3>1. visits # <<>>
      BY <2>1, <2>2, <1>2
    <3> QED BY <3>1, <2>1, <2>2, <1>8, <1>9 DEF IInv, Ahead
  <2>3. CASE i # Len(visits)
    <3>1. i \in 1..(Len(visits) - 1) /\ i + 1 \in 1..Len(visits)
      BY <2>1, <2>3, <1>9
    <3>2. visits'[i + 1] = visits[i + 1]
      BY <3>1, <1>9
    <3> QED BY <3>1, <3>2, <2>1 DEF IInv, NoOverlap, Extent
  <2> QED BY <2>2, <2>3
<1>13. Ahead'
  <2>1. visits'[Len(visits')].node = node /\ visits'[Len(visits')].off = off
    BY <1>8, <1>9
  <2> QED BY <2>1, <1>7 DEF Ahead, Extent
<1> QED BY <1>10, <1>11, <1>12, <1>13 DEF IInv

-----------------------------------------------------------------------------
Ats == {"l2", "tags", "l3", "l4", "none", "end"}

(* A step of walk_packet or of a stage changes the state of that actor to   *)
(* one of its type whose headers are captured in full.                      *)
LEMMA LayeredInv ==
  ASSUME IInv, NEW a \in Layered, UNCHANGED <<size, link, dagVars>>,
         turn' \in Layered \cup {"dag", "done"},
         DOMAIN hdr' \subseteq Nat, \A x \in DOMAIN hdr' : hdr'[x] \in Header,
         NEW s \in LayeredState, w' = [w EXCEPT ![a] = s],
         \A i \in 1..Len(s.pdus) : Captured(s.pdus[i])
  PROVE  IInv'
<1>1. UNCHANGED <<size, link, node, off, steps, visits>>
  BY DEF dagVars
<1>2. w \in [Layered -> LayeredState]
  BY DEF IInv, TypeOK
<1>3. w' \in [Layered -> LayeredState] /\ \A b \in Layered : w'[b] = IF b = a THEN s ELSE w[b]
  BY <1>2
<1>4. TypeOK'
  BY <1>1, <1>3 DEF IInv, TypeOK
<1>5. PdusInside'
  <2>1. ASSUME NEW b \in Layered, NEW i \in 1..Len(w'[b].pdus)
        PROVE  Captured(w'[b].pdus[i])
    <3>1. CASE b = a
      BY <3>1, <1>3
    <3>2. CASE b # a
      <4>1. w'[b] = w[b]
        BY <3>2, <1>3
      <4> QED BY <4>1 DEF IInv, PdusInside
    <3> QED BY <3>1, <3>2
  <2> QED BY <1>1, <2>1 DEF IInv, PdusInside, Captured
<1>6. NoOverlap' /\ Ahead'
  BY <1>1 DEF IInv, NoOverlap, Ahead
<1> QED BY <1>4, <1>5, <1>6 DEF IInv

(* The end of a walk: nothing but its state and the turn change. *)
LEMMA ReturnInv == ASSUME IInv, NEW a \in Layered, Return(a) PROVE IInv'
<1> DEFINE s == [w[a] EXCEPT !.at = "end"]
<1>1. w[a] \in LayeredState
  BY DEF IInv, TypeOK
<1>2. s \in LayeredState /\ s.pdus = w[a].pdus
  BY <1>1 DEF LayeredState
<1>3. w' = [w EXCEPT ![a] = s] /\ turn' \in Layered \cup {"dag", "done"}
      /\ UNCHANGED <<size, link, dagVars>> /\ hdr' = hdr
  BY DEF Return, After, Layered, IInv, TypeOK
<1>4. \A i \in 1..Len(s.pdus) : Captured(s.pdus[i])
  BY <1>2 DEF IInv, PdusInside
<1>5. DOMAIN hdr' \subseteq Nat /\ \A x \in DOMAIN hdr' : hdr'[x] \in Header
  BY <1>3 DEF IInv, TypeOK
<1> HIDE DEF s
<1> QED BY <1>2, <1>3, <1>4, <1>5, LayeredInv

(* A header that fits is reported: the new list fits. *)
LEMMA AppendFits ==
  ASSUME IInv, NEW a \in Layered, NEW n \in Nodes, Fits(n, w[a].off),
         NEW q, q = Append(w[a].pdus, Pdu(n, w[a].off))
  PROVE  q \in Seq(PduType) /\ \A i \in 1..Len(q) : Captured(q[i])
<1>1. w[a].pdus \in Seq(PduType) /\ w[a].off \in Nat
  BY DEF IInv, TypeOK, LayeredState
<1> DEFINE v == Pdu(n, w[a].off)
<1>2. v \in PduType /\ v.node = n /\ v.off = w[a].off
  BY <1>1 DEF Pdu, PduType
<1>3. /\ q \in Seq(PduType) /\ Len(q) = Len(w[a].pdus) + 1 /\ Len(w[a].pdus) \in Nat
      /\ \A i \in 1..Len(w[a].pdus) : q[i] = w[a].pdus[i]
      /\ q[Len(w[a].pdus) + 1] = v
  BY <1>1, <1>2
<1>4. ASSUME NEW i \in 1..Len(q) PROVE Captured(q[i])
  <2>1. CASE i = Len(w[a].pdus) + 1
    BY <2>1, <1>2, <1>3 DEF Fits, Captured
  <2>2. CASE i \in 1..Len(w[a].pdus)
    BY <2>2, <1>3 DEF IInv, PdusInside
  <2> QED BY <2>1, <2>2, <1>3
<1> QED BY <1>3, <1>4

LEMMA ReportInv ==
  ASSUME IInv, NEW a \in Layered, NEW n \in Nodes, Fits(n, w[a].off),
         NEW h \in Headers(n, w[a].off), NEW at \in Ats, NEW key \in Nat,
         NEW length \in Nat, Report(a, n, h, at, key, length)
  PROVE  IInv'
<1> DEFINE q == Append(w[a].pdus, Pdu(n, w[a].off))
           s == [[[[w[a] EXCEPT !.at = at] EXCEPT !.key = key]
                    EXCEPT !.off = w[a].off + length] EXCEPT !.pdus = q]
<1>1. w[a] \in LayeredState /\ w[a].off \in Nat
  BY DEF IInv, TypeOK, LayeredState
<1>2. q \in Seq(PduType) /\ \A i \in 1..Len(q) : Captured(q[i])
  BY AppendFits
<1>a. [w[a] EXCEPT !.at = at] \in LayeredState
  BY <1>1 DEF LayeredState, Ats
<1>b. [[w[a] EXCEPT !.at = at] EXCEPT !.key = key] \in LayeredState
  BY <1>a DEF LayeredState
<1>c. [[[w[a] EXCEPT !.at = at] EXCEPT !.key = key] EXCEPT !.off = w[a].off + length]
        \in LayeredState
  <2>1. w[a].off + length \in Nat
    BY <1>1
  <2> QED BY <1>b, <2>1 DEF LayeredState
<1>3. s \in LayeredState /\ s.pdus = q
  BY <1>c, <1>2 DEF LayeredState
<1>4. w' = [w EXCEPT ![a] = s]
  BY <1>1 DEF Report, LayeredState
<1>5. UNCHANGED <<size, link, dagVars>> /\ turn' \in Layered \cup {"dag", "done"}
  BY DEF Report, IInv, TypeOK
<1>6. DOMAIN hdr' \subseteq Nat /\ \A x \in DOMAIN hdr' : hdr'[x] \in Header
  BY <1>1, FoundType DEF Report, IInv
<1> HIDE DEF s, q
<1> QED BY <1>2, <1>3, <1>4, <1>5, <1>6, LayeredInv

LEMMA L2DoneInv == ASSUME IInv, NEW a \in Layered, L2Done(a) PROVE IInv'
<1> DEFINE s == [w[a] EXCEPT !.at = "l3"]
<1>1. w[a] \in LayeredState
  BY DEF IInv, TypeOK
<1>2. s \in LayeredState /\ s.pdus = w[a].pdus
  BY <1>1 DEF LayeredState
<1>3. w' = [w EXCEPT ![a] = s] /\ turn' = turn
      /\ UNCHANGED <<size, link, dagVars>> /\ hdr' = hdr
  BY DEF L2Done
<1>4. \A i \in 1..Len(s.pdus) : Captured(s.pdus[i])
  BY <1>2 DEF IInv, PdusInside
<1>5. /\ DOMAIN hdr' \subseteq Nat /\ \A x \in DOMAIN hdr' : hdr'[x] \in Header
      /\ turn' \in Layered \cup {"dag", "done"}
  BY <1>3 DEF IInv, TypeOK
<1> HIDE DEF s
<1> QED BY <1>2, <1>3, <1>4, <1>5, LayeredInv

LEMMA L4Inv == ASSUME IInv, NEW a \in Layered, L4(a) PROVE IInv'
<1> DEFINE n == L4Node(a)
           q == Append(w[a].pdus, Pdu(n, w[a].off))
<1>1. n \in Nodes /\ Fits(n, w[a].off)
  BY DEF L4, Present, L4Node, Nodes, SpecSize, Stop
<1>2. PICK h \in Headers(n, w[a].off) :
        /\ Read(w[a].off, h)
        /\ w' = [w EXCEPT
             ![a].at = "end",
             ![a].pdus = q,
             ![a].l4 = [reached |-> TRUE, offset |-> w[a].off + L4Length(n, h),
                        ports |-> <<h.src, h.dst>>]]
  BY DEF L4, IInv, TypeOK, LayeredState
<1>3. w[a] \in LayeredState /\ w[a].off \in Nat
  BY DEF IInv, TypeOK, LayeredState
<1>4. /\ h \in Header /\ DOMAIN hdr' \subseteq Nat
      /\ \A x \in DOMAIN hdr' : hdr'[x] \in Header
  BY <1>1, <1>2, <1>3, FoundType DEF IInv
<1> DEFINE r == [reached |-> TRUE, offset |-> w[a].off + L4Length(n, h),
                 ports |-> <<h.src, h.dst>>]
           s == [[[w[a] EXCEPT !.at = "end"] EXCEPT !.pdus = q] EXCEPT !.l4 = r]
<1>5. r \in [reached : BOOLEAN, offset : Nat, ports : Seq(Nat)]
  <2>1. h.len \in Nat /\ h.src \in Nat /\ h.dst \in Nat
    BY <1>4 DEF Header
  <2>2. L4Length(n, h) \in Nat
    BY <2>1 DEF L4Length, AtLeast
  <2>3. <<h.src, h.dst>> \in Seq(Nat)
    BY <2>1
  <2> QED BY <1>3, <2>2, <2>3
<1>6. q \in Seq(PduType) /\ \A i \in 1..Len(q) : Captured(q[i])
  BY <1>1, AppendFits
<1>7. w' = [w EXCEPT ![a] = s]
  BY <1>2, <1>3 DEF LayeredState
<1> HIDE DEF r, q
<1>8. [w[a] EXCEPT !.at = "end"] \in LayeredState
  BY <1>3 DEF LayeredState
<1>9. [[w[a] EXCEPT !.at = "end"] EXCEPT !.pdus = q] \in LayeredState
  BY <1>6, <1>8 DEF LayeredState
<1>10. s \in LayeredState /\ s.pdus = q
  BY <1>5, <1>9 DEF LayeredState
<1>11. UNCHANGED <<size, link, dagVars>> /\ turn' \in Layered \cup {"dag", "done"}
  BY DEF L4, After, Layered
<1> HIDE DEF s
<1> QED BY <1>4, <1>6, <1>7, <1>10, <1>11, LayeredInv

-----------------------------------------------------------------------------
(* The steps that report a header, with what they report. *)
LEMMA WalkInv == ASSUME IInv, Walk PROVE IInv'
<1>0. "eth" \in Nodes /\ "vlan" \in Nodes /\ "ipv4" \in Nodes /\ "ipv6" \in Nodes
  BY DEF Nodes, SpecSize
<1>w. \A a \in Layered : w[a] \in LayeredState /\ w[a].off \in Nat
  BY DEF IInv, TypeOK, LayeredState
<1>h. ASSUME NEW n \in Nodes, NEW o \in Nat, NEW h \in Headers(n, o)
      PROVE  h \in Header /\ h.key \in Nat /\ h.len \in Nat
  BY <1>h, FoundType DEF IInv, Header
<1>l. ASSUME NEW n \in Nodes, NEW h \in Header PROVE L3Length(n, h) \in Nat
  BY DEF L3Length, AtLeast, Header
<1>n. \A a \in Layered : Present(L3Node(a), w[a].off) =>
                           L3Node(a) \in Nodes /\ Fits(L3Node(a), w[a].off)
  BY <1>0 DEF Present, L3Node
<1>1. CASE DagStep
  BY <1>1, DagStepInv
<1>2. CASE DagEnd
  <2>1. /\ UNCHANGED <<size, link, hdr, dagVars, w>> /\ turn' = "walk_packet"
    BY <1>2 DEF DagEnd
  <2>2. TypeOK'
    BY <2>1 DEF IInv, TypeOK, dagVars, Layered
  <2> QED BY <2>1, <2>2 DEF IInv, PdusInside, NoOverlap, Ahead, Captured, dagVars
<1>3. CASE WalkL3
  <2> DEFINE a == "walk_packet"
             n == L3Node(a)
  <2>1. a \in Layered /\ n \in Nodes /\ Fits(n, w[a].off) /\ w[a].off \in Nat
    BY <1>3, <1>n, <1>w DEF WalkL3, Layered
  <2>2. PICK h \in Headers(n, w[a].off), at \in {"none", "l4"} :
          Report(a, n, h, at, h.key, L3Length(n, h))
    BY <1>3 DEF WalkL3
  <2>3. h \in Header /\ h.key \in Nat /\ L3Length(n, h) \in Nat /\ at \in Ats
    BY <2>1, <1>h, <1>l DEF Ats
  <2> HIDE DEF a, n
  <2> QED BY <2>1, <2>2, <2>3, ReportInv
<1>4. CASE StageL3
  <2> DEFINE a == "staged"
             n == L3Node(a)
  <2>1. a \in Layered /\ n \in Nodes /\ Fits(n, w[a].off) /\ w[a].off \in Nat
    BY <1>4, <1>n, <1>w DEF StageL3, Layered
  <2>2. PICK h \in Headers(n, w[a].off), at \in {"none", "l4"} :
          Report(a, n, h, at, IF FirstFragment(n, h) THEN h.key ELSE 0, L3Length(n, h))
    BY <1>4 DEF StageL3
  <2>3. /\ h \in Header /\ L3Length(n, h) \in Nat /\ at \in Ats
        /\ (IF FirstFragment(n, h) THEN h.key ELSE 0) \in Nat
    BY <2>1, <1>h, <1>l DEF Ats
  <2> HIDE DEF a, n
  <2> QED BY <2>1, <2>2, <2>3, ReportInv
<1>5. ASSUME NEW a \in Layered,
             L2Refused(a) \/ TagCut(a) \/ L3Refused(a) \/ L4Refused(a)
      PROVE  IInv'
  BY <1>5, ReturnInv DEF L2Refused, TagCut, L3Refused, L4Refused
<1>6. ASSUME NEW a \in Layered, L2Ethernet(a) PROVE IInv'
  <2>1. Fits("eth", w[a].off) /\ w[a].off \in Nat
    BY <1>6, <1>w DEF L2Ethernet
  <2>2. PICK h \in Headers("eth", w[a].off) : Report(a, "eth", h, "tags", h.key, 14)
    BY <1>6 DEF L2Ethernet
  <2>3. h.key \in Nat /\ "tags" \in Ats
    BY <1>0, <2>1, <1>h DEF Ats
  <2> QED BY <1>0, <2>1, <2>2, <2>3, ReportInv
<1>7. ASSUME NEW a \in Layered, Tag(a) PROVE IInv'
  <2>1. Fits("vlan", w[a].off) /\ w[a].off \in Nat
    BY <1>7, <1>w DEF Tag
  <2>2. PICK h \in Headers("vlan", w[a].off) : Report(a, "vlan", h, "tags", h.key, 4)
    BY <1>7 DEF Tag
  <2>3. h.key \in Nat /\ "tags" \in Ats
    BY <1>0, <2>1, <1>h DEF Ats
  <2> QED BY <1>0, <2>1, <2>2, <2>3, ReportInv
<1>8. ASSUME NEW a \in Layered, L2Done(a) \/ L4(a) PROVE IInv'
  BY <1>8, L2DoneInv, L4Inv
<1> QED BY <1>1, <1>2, <1>3, <1>4, <1>5, <1>6, <1>7, <1>8 DEF Walk

(* The walks are type correct and the graph walk stays within its bound;    *)
(* every header any of the walks hands to a visitor or a column is captured *)
(* in full; no byte belongs to two headers of the graph walk, except where  *)
(* an authentication header says payload length 0: it advances by less than *)
(* its fixed fields, and the header behind it begins inside them.           *)
THEOREM WalkSafe == Spec => [](TypeOK /\ PdusApart)
<1>1. Init => IInv
  BY InitInv
<1>2. IInv /\ [Next]_vars => IInv'
  <2> SUFFICES ASSUME IInv, [Next]_vars PROVE IInv'
    OBVIOUS
  <2>1. CASE Walk
    BY <2>1, WalkInv
  <2>2. CASE UNCHANGED vars
    <3>1. UNCHANGED <<size, link, hdr, node, off, steps, visits, turn, w>>
      BY <2>2 DEF vars, dagVars
    <3>2. TypeOK'
      BY <3>1 DEF IInv, TypeOK
    <3> QED BY <3>1, <3>2 DEF IInv, PdusInside, NoOverlap, Ahead, Captured
  <2> QED BY <2>1, <2>2 DEF Next, Finished
<1>3. IInv => TypeOK /\ PdusApart
  BY DEF IInv, PdusApart
<1> QED BY <1>1, <1>2, <1>3, PTL DEF Spec

(* The walks keep their types; the graph walk takes at most its bound of    *)
(* steps.                                                                   *)
THEOREM WalkTypeOK == Spec => []TypeOK
  BY WalkSafe, PTL

-----------------------------------------------------------------------------
(* The agreement of the walks.                                              *)
(*                                                                          *)
(* hdr keeps every header that was read, so what follows a visited header   *)
(* is a function of hdr.  Each of the three walks is a path of that         *)
(* function from the Ethernet header, as long as it can be: the layered     *)
(* ones stop where the next header is not of the six columns, the graph     *)
(* walk where there is none at all or its steps are used up.                *)

(* What follows the header v. *)
Follow(hs, v) == Pdu(next(v.node, hs[v.off]), v.off + advance(v.node, hs[v.off]))

(* The i-th visit of the graph walk, made or to be made next. *)
VisitAt(i) == IF i <= Len(visits) THEN visits[i] ELSE Pdu(node, off)

Trailing == {"gptp", "ts_body", "ts_port_body", "announce_body", "signaling_body", "someip"}

DagPath ==
  /\ \A i \in 1..Len(visits) : visits[i].off \in DOMAIN hdr
  /\ VisitAt(1) = Pdu("eth", 0)
  /\ \A i \in 1..Len(visits) : VisitAt(i + 1) = Follow(hdr, visits[i])
  /\ \A i, j \in 1..Len(visits) :
       i <= j /\ visits[i].node \in Trailing => visits[j].node \in Trailing
  /\ turn # "dag" => steps = MaxWalkSteps \/ ~Present(node, off)

(* The headers of a layered walk are a path through the six columns. *)
ColumnPath(hs, p) ==
  /\ \A i \in 1..Len(p) : p[i].off \in DOMAIN hs /\ p[i].node \in Columns
  /\ p # <<>> => p[1] = Pdu("eth", 0)
  /\ \A i \in 1..(Len(p) - 1) : p[i + 1] = Follow(hs, p[i])

Last(p) == p[Len(p)]

(* A layered walk that has ended could not go on. *)
Ended(hs, p, l4) ==
  IF p = <<>> THEN l4 = NoL4 /\ (link # Ethernet \/ ~Fits("eth", 0))
  ELSE /\ Follow(hs, Last(p)).node \in Columns => ~Captured(Follow(hs, Last(p)))
       /\ l4 = IF Last(p).node \in {"tcp", "udp"}
               THEN [reached |-> TRUE, offset |-> Follow(hs, Last(p)).off,
                     ports |-> <<hs[Last(p).off].src, hs[Last(p).off].dst>>]
               ELSE NoL4

(* Where a layered walk stands is a function of the header it reported last. *)
Stands(hs, s) ==
  LET v == Last(s.pdus)
      h == hs[v.off]
  IN  /\ s.pdus # <<>> => link = Ethernet
      /\ s.at = "l2" => s.pdus = <<>> /\ s.off = 0
      /\ s.at \in {"tags", "l3", "l4", "none"} => s.pdus # <<>> /\ s.off = Follow(hs, v).off
      /\ s.at \in {"tags", "l3"} => v.node \in {"eth", "vlan"} /\ s.key = h.key
      /\ s.at = "l3" => s.key \notin VlanTypes
      /\ s.at \in {"l4", "none"} => v.node \in {"ipv4", "ipv6"}
      /\ s.at = "l4" => s.key = IF FirstFragment(v.node, h) THEN h.key ELSE 0
      /\ s.at = "none" => s.off > size \/ ~FirstFragment(v.node, h)
      /\ s.at # "end" => s.l4 = NoL4
      /\ s.at = "end" => Ended(hs, s.pdus, s.l4)

Starts(p, q) == Len(p) <= Len(q) /\ \A i \in 1..Len(p) : p[i] = q[i]

LayeredPaths ==
  /\ \A a \in Layered : ColumnPath(hdr, w[a].pdus) /\ Stands(hdr, w[a])
  /\ turn \in {"staged", "done"} => w["walk_packet"].at = "end"
  /\ turn = "done" => w["staged"].at = "end"

(* Each walk follows the one before it. *)
Followed ==
  /\ turn = "dag" => w["walk_packet"].pdus = <<>>
  /\ Len(w["walk_packet"].pdus) <= MaxWalkSteps => Starts(w["walk_packet"].pdus, visits)
  /\ Starts(w["staged"].pdus, w["walk_packet"].pdus)

JInv == IInv /\ DagPath /\ LayeredPaths /\ Followed

(* What the edge tables say, key by key. *)
LEMMA Matched ==
  ASSUME NEW T \in {EtherTypeEdges, ProtoEdges, NextHeaderEdges, MessageTypeEdges, PortEdges},
         NEW e \in T
  PROVE  match_edges(T, e[1]) = e[2]
<1>1. (CHOOSE f \in T : f[1] = e[1]) \in T /\ (CHOOSE f \in T : f[1] = e[1])[1] = e[1]
  OBVIOUS
<1>2. (CHOOSE f \in T : f[1] = e[1]) = e
  BY <1>1, UniqueKeys
<1> QED BY <1>2 DEF match_edges

LEMMA EtherEdge ==
  ASSUME NEW k \in Nat
  PROVE  match_edges(EtherTypeEdges, k) =
           IF k \in VlanTypes THEN "vlan" ELSE IF k = EtherTypeIpv4 THEN "ipv4"
           ELSE IF k = EtherTypeIpv6 THEN "ipv6" ELSE IF k = 35063 THEN "gptp" ELSE Stop
<1>1. CASE \E e \in EtherTypeEdges : e[1] = k
  <2>1. PICK e \in EtherTypeEdges : e[1] = k
    BY <1>1
  <2>2. match_edges(EtherTypeEdges, k) = e[2]
    BY <2>1, Matched
  <2> QED BY <2>1, <2>2 DEF EtherTypeEdges, VlanTypes, EtherTypeIpv4, EtherTypeIpv6
<1>2. CASE ~ \E e \in EtherTypeEdges : e[1] = k
  <2>1. k \notin VlanTypes
    <3>1. k \in VlanTypes => <<k, "vlan">> \in EtherTypeEdges
      BY DEF EtherTypeEdges
    <3> QED BY <1>2, <3>1
  <2>2. k # EtherTypeIpv4 /\ k # EtherTypeIpv6 /\ k # 35063
    <3>1. /\ <<EtherTypeIpv4, "ipv4">> \in EtherTypeEdges
          /\ <<EtherTypeIpv6, "ipv6">> \in EtherTypeEdges
          /\ <<35063, "gptp">> \in EtherTypeEdges
      BY DEF EtherTypeEdges
    <3> QED BY <1>2, <3>1
  <2> QED BY <1>2, <2>1, <2>2 DEF match_edges
<1> QED BY <1>1, <1>2

LEMMA ProtoEdge ==
  ASSUME NEW k \in Nat
  PROVE  match_edges(ProtoEdges, k) =
           IF k = ProtoTcp THEN "tcp" ELSE IF k = ProtoUdp THEN "udp" ELSE Stop
<1>1. CASE \E e \in ProtoEdges : e[1] = k
  <2>1. PICK e \in ProtoEdges : e[1] = k
    BY <1>1
  <2>2. match_edges(ProtoEdges, k) = e[2]
    BY <2>1, Matched
  <2> QED BY <2>1, <2>2 DEF ProtoEdges, ProtoTcp, ProtoUdp
<1>2. CASE ~ \E e \in ProtoEdges : e[1] = k
  <2>1. k # ProtoTcp /\ k # ProtoUdp
    BY <1>2 DEF ProtoEdges
  <2> QED BY <1>2, <2>1 DEF match_edges
<1> QED BY <1>1, <1>2

LEMMA NextHeaderEdge ==
  ASSUME NEW k \in Nat
  PROVE  /\ k = ProtoTcp => match_edges(NextHeaderEdges, k) = "tcp"
         /\ k = ProtoUdp => match_edges(NextHeaderEdges, k) = "udp"
         /\ k \notin {ProtoTcp, ProtoUdp} => match_edges(NextHeaderEdges, k) \notin Columns
<1>1. CASE \E e \in NextHeaderEdges : e[1] = k
  <2>1. PICK e \in NextHeaderEdges : e[1] = k
    BY <1>1
  <2>2. match_edges(NextHeaderEdges, k) = e[2]
    BY <2>1, Matched
  <2> QED BY <2>1, <2>2 DEF NextHeaderEdges, ProtoEdges, ProtoTcp, ProtoUdp, Columns
<1>2. CASE ~ \E e \in NextHeaderEdges : e[1] = k
  <2>1. k # ProtoTcp /\ k # ProtoUdp
    BY <1>2 DEF NextHeaderEdges, ProtoEdges
  <2> QED BY <1>2, <2>1 DEF match_edges, Columns, Stop
<1> QED BY <1>1, <1>2

LEMMA OtherEdges ==
  ASSUME NEW k \in Nat
  PROVE  /\ match_edges(MessageTypeEdges, k) \in Trailing \cup {Stop}
         /\ match_edges(PortEdges, k) \in Trailing \cup {Stop}
<1>1. ASSUME NEW T \in {MessageTypeEdges, PortEdges} PROVE match_edges(T, k) \in Trailing \cup {Stop}
  <2>1. \A e \in T : e[2] \in Trailing
    BY DEF MessageTypeEdges, PortEdges, Trailing
  <2>2. CASE \E e \in T : e[1] = k
    <3>1. PICK e \in T : e[1] = k
      BY <2>2
    <3> QED BY <2>1, <3>1, Matched
  <2>3. CASE ~ \E e \in T : e[1] = k
    BY <2>3 DEF match_edges
  <2> QED BY <2>2, <2>3
<1> QED BY <1>1

(* Behind a header of gPTP or SOME/IP come only such headers. *)
LEMMA TrailingNext ==
  ASSUME NEW n \in Trailing, NEW h \in Header
  PROVE  next(n, h) \in Trailing \cup {Stop}
<1>1. h.key \in Nat
  BY DEF Header
<1> QED BY <1>1, OtherEdges DEF next, Trailing, IpOptions, Stop

(* The transport headers are followed by SOME/IP or nothing. *)
LEMMA TransportNext ==
  ASSUME NEW n \in {"tcp", "udp"}, NEW h \in Header
  PROVE  next(n, h) \notin Columns
<1>1. h.dst \in Nat /\ h.src \in Nat
  BY DEF Header
<1>2. someip_port_dispatch(h) \in Trailing \cup {Stop}
  BY <1>1, OtherEdges DEF someip_port_dispatch
<1>3. next(n, h) = someip_port_dispatch(h)
  BY DEF next, IpOptions
<1> QED BY <1>2, <1>3 DEF Trailing, Columns, Stop

(* The headers of a layer that walk_packet and the stages look for are what *)
(* the graph's edges say.                                                   *)
LEMMA LinkNext ==
  ASSUME NEW n \in {"eth", "vlan"}, NEW h \in Header
  PROVE  /\ h.key \in VlanTypes => next(n, h) = "vlan"
         /\ h.key \notin VlanTypes =>
              IF h.key = EtherTypeIpv4 THEN next(n, h) = "ipv4"
              ELSE IF h.key = EtherTypeIpv6 THEN next(n, h) = "ipv6"
              ELSE next(n, h) \notin Columns
         /\ advance(n, h) = SpecSize[n]
<1>1. h.key \in Nat
  BY DEF Header
<1>2. next(n, h) = match_edges(EtherTypeEdges, h.key) /\ advance(n, h) = SpecSize[n]
  BY DEF next, advance, IpOptions
<1> QED BY <1>1, <1>2, EtherEdge DEF Columns, Stop

LEMMA NetworkNext ==
  ASSUME NEW n \in {"ipv4", "ipv6"}, NEW h \in Header
  PROVE  /\ FirstFragment(n, h) =>
              IF h.key = ProtoTcp THEN next(n, h) = "tcp"
              ELSE IF h.key = ProtoUdp THEN next(n, h) = "udp"
              ELSE next(n, h) \notin Columns
         /\ ~FirstFragment(n, h) => next(n, h) = Stop
         /\ advance(n, h) = L3Length(n, h)
<1>1. h.key \in Nat
  BY DEF Header
<1>2. CASE n = "ipv4"
  <2>1. advance(n, h) = L3Length(n, h)
    BY <1>2 DEF advance, L3Length
  <2>2. FirstFragment(n, h) <=> h.frag = 0
    BY <1>2 DEF FirstFragment
  <2>3. next(n, h) = IF h.frag # 0 THEN Stop ELSE match_edges(ProtoEdges, h.key)
    BY <1>2 DEF next
  <2> QED BY <1>1, <2>1, <2>2, <2>3, ProtoEdge DEF Columns, Stop
<1>3. CASE n = "ipv6"
  <2>1. advance(n, h) = L3Length(n, h)
    BY <1>3 DEF advance, L3Length, SpecSize, IpOptions
  <2>2. FirstFragment(n, h)
    BY <1>3 DEF FirstFragment
  <2>3. next(n, h) = match_edges(NextHeaderEdges, h.key)
    BY <1>3 DEF next, IpOptions
  <2> QED BY <1>1, <2>1, <2>2, <2>3, NextHeaderEdge DEF ProtoTcp, ProtoUdp
<1> QED BY <1>2, <1>3

LEMMA TransportLength ==
  ASSUME NEW n \in {"tcp", "udp"}, NEW h \in Header
  PROVE  advance(n, h) = L4Length(n, h)
BY DEF advance, L4Length, SpecSize, IpOptions

-----------------------------------------------------------------------------
(* Headers that are read stay. *)
Grows(hs, gs) == DOMAIN hs \subseteq DOMAIN gs /\ \A o \in DOMAIN hs : gs[o] = hs[o]

LEMMA ReadGrows ==
  ASSUME TypeOK, NEW n \in Nodes, NEW o \in Nat, NEW h \in Headers(n, o), Read(o, h)
  PROVE  /\ Grows(hdr, hdr')
         /\ o \in DOMAIN hdr' /\ hdr'[o] = h /\ h \in Header
         /\ o \in DOMAIN hdr => h = hdr[o]
<1>1. h \in Header /\ (o \in DOMAIN hdr => h = hdr[o])
  BY FoundType DEF Headers
<1>2. DOMAIN hdr' = DOMAIN hdr \cup {o} /\ \A x \in DOMAIN hdr' : hdr'[x] = IF x = o THEN h ELSE hdr[x]
  BY DEF Read
<1> QED BY <1>1, <1>2 DEF Grows

LEMMA FollowGrows ==
  ASSUME NEW hs, NEW gs, Grows(hs, gs), NEW v, v.off \in DOMAIN hs
  PROVE  Follow(gs, v) = Follow(hs, v) /\ gs[v.off] = hs[v.off] /\ v.off \in DOMAIN gs
BY DEF Grows, Follow

LEMMA PathGrows ==
  ASSUME NEW hs, NEW gs, Grows(hs, gs), NEW p \in Seq(PduType), ColumnPath(hs, p)
  PROVE  ColumnPath(gs, p)
<1>1. Len(p) \in Nat
  OBVIOUS
<1>2. \A i \in 1..Len(p) : p[i].off \in DOMAIN gs /\ Follow(gs, p[i]) = Follow(hs, p[i])
  BY FollowGrows DEF ColumnPath
<1>3. \A i \in 1..(Len(p) - 1) : i \in 1..Len(p)
  BY <1>1
<1> QED BY <1>2, <1>3 DEF ColumnPath

LEMMA LastIn == ASSUME NEW p \in Seq(PduType), p # <<>>
                PROVE  Len(p) \in 1..Len(p) /\ Len(p) \in Nat /\ Last(p) \in PduType
<1>1. Len(p) \in Nat /\ Len(p) # 0
  OBVIOUS
<1> QED BY <1>1 DEF Last

LEMMA StandsGrows ==
  ASSUME NEW hs, NEW gs, Grows(hs, gs), NEW s \in LayeredState,
         ColumnPath(hs, s.pdus), Stands(hs, s)
  PROVE  Stands(gs, s)
<1>1. s.pdus \in Seq(PduType)
  BY DEF LayeredState
<1>2. CASE s.pdus = <<>>
  <2>1. Ended(gs, s.pdus, s.l4) <=> Ended(hs, s.pdus, s.l4)
    BY <1>2 DEF Ended
  <2>2. s.at \in {"l2", "end"}
    BY <1>2 DEF Stands, LayeredState
  <2> QED BY <2>1, <2>2 DEF Stands
<1>3. CASE s.pdus # <<>>
  <2> DEFINE v == Last(s.pdus)
  <2>1. v.off \in DOMAIN hs
    BY <1>1, <1>3, LastIn DEF ColumnPath, Last
  <2>2. Follow(gs, v) = Follow(hs, v) /\ gs[v.off] = hs[v.off]
    BY <2>1, FollowGrows
  <2>3. Ended(gs, s.pdus, s.l4) <=> Ended(hs, s.pdus, s.l4)
    BY <2>2 DEF Ended
  <2> QED BY <2>2, <2>3 DEF Stands
<1> QED BY <1>2, <1>3

(* A path grows by the header that follows its last one. *)
Joins(hs, p, v) == IF p = <<>> THEN v = Pdu("eth", 0) ELSE v = Follow(hs, Last(p))

LEMMA PathAppend ==
  ASSUME NEW hs, NEW p \in Seq(PduType), ColumnPath(hs, p),
         NEW v \in PduType, v.node \in Columns, v.off \in DOMAIN hs, Joins(hs, p, v),
         NEW q, q = Append(p, v)
  PROVE  ColumnPath(hs, q) /\ q # <<>> /\ Last(q) = v
<1>1. /\ q \in Seq(PduType) /\ Len(p) \in Nat /\ Len(q) = Len(p) + 1 /\ q[Len(p) + 1] = v
      /\ \A i \in 1..Len(p) : q[i] = p[i]
  OBVIOUS
<1>2. q # <<>> /\ Last(q) = v
  BY <1>1 DEF Last
<1>3. \A i \in 1..Len(q) : q[i].off \in DOMAIN hs /\ q[i].node \in Columns
  <2> SUFFICES ASSUME NEW i \in 1..Len(q) PROVE q[i].off \in DOMAIN hs /\ q[i].node \in Columns
    OBVIOUS
  <2>1. CASE i = Len(p) + 1
    BY <1>1, <2>1
  <2>2. CASE i \in 1..Len(p)
    BY <1>1, <2>2 DEF ColumnPath
  <2> QED BY <1>1, <2>1, <2>2
<1>4. q[1] = Pdu("eth", 0)
  <2>1. CASE p = <<>>
    BY <1>1, <2>1 DEF Joins
  <2>2. CASE p # <<>>
    <3>1. 1 \in 1..Len(p)
      BY <2>2, LastIn
    <3> QED BY <3>1, <2>2, <1>1 DEF ColumnPath
  <2> QED BY <2>1, <2>2
<1>5. ASSUME NEW i \in 1..(Len(q) - 1) PROVE q[i + 1] = Follow(hs, q[i])
  <2>1. i \in 1..Len(p) /\ q[i] = p[i] /\ p # <<>>
    BY <1>1
  <2>2. CASE i = Len(p)
    BY <1>1, <2>1, <2>2 DEF Joins, Last
  <2>3. CASE i # Len(p)
    <3>1. i \in 1..(Len(p) - 1) /\ i + 1 \in 1..Len(p)
      BY <1>1, <2>1, <2>3
    <3> QED BY <1>1, <2>1, <3>1 DEF ColumnPath
  <2> QED BY <2>2, <2>3
<1> QED BY <1>2, <1>3, <1>4, <1>5 DEF ColumnPath

-----------------------------------------------------------------------------
(* The graph walk. *)

LEMMA DagStepPath == ASSUME JInv, DagStep PROVE DagPath'
<1> USE DEF JInv
<1>1. /\ UNCHANGED <<size, link, turn, w>> /\ turn = "dag"
      /\ node # Stop /\ visits' = Append(visits, Pdu(node, off))
  BY DEF DagStep, Present
<1>2. node \in Nodes /\ off \in Nat /\ visits \in Seq(PduType) /\ TypeOK
  BY <1>1 DEF IInv, TypeOK
<1>3. PICK h \in Headers(node, off) :
        Read(off, h) /\ off' = off + advance(node, h) /\ node' = next(node, h)
  BY DEF DagStep
<1>4. Grows(hdr, hdr') /\ off \in DOMAIN hdr' /\ hdr'[off] = h /\ h \in Header
  BY <1>2, <1>3, ReadGrows
<1> DEFINE v == Pdu(node, off)
<1>5. v \in PduType /\ v.node = node /\ v.off = off
  BY <1>2 DEF PduType, Pdu
<1>6. /\ visits' \in Seq(PduType) /\ Len(visits) \in Nat /\ Len(visits') = Len(visits) + 1
      /\ \A i \in 1..Len(visits) : visits'[i] = visits[i]
      /\ visits'[Len(visits) + 1] = v
  BY <1>1, <1>2, <1>5
<1>7. Follow(hdr', v) = Pdu(node', off')
  BY <1>3, <1>4, <1>5 DEF Follow
<1>8. \A i \in 1..Len(visits) : /\ visits[i].off \in DOMAIN hdr'
                                /\ Follow(hdr', visits[i]) = Follow(hdr, visits[i])
  BY <1>4, FollowGrows DEF DagPath
<1> HIDE DEF v
<1>9. \A i \in 1..Len(visits') : visits'[i].off \in DOMAIN hdr'
  <2> SUFFICES ASSUME NEW i \in 1..Len(visits') PROVE visits'[i].off \in DOMAIN hdr'
    OBVIOUS
  <2>1. CASE i = Len(visits) + 1
    BY <2>1, <1>4, <1>5, <1>6
  <2>2. CASE i \in 1..Len(visits)
    BY <2>2, <1>6, <1>8
  <2> QED BY <2>1, <2>2, <1>6
<1>10. ASSUME NEW i \in Nat, i <= Len(visits) PROVE VisitAt(i + 1)' = VisitAt(i + 1)
  <2>1. CASE i = Len(visits)
    BY <2>1, <1>6 DEF VisitAt, v
  <2>2. CASE i < Len(visits)
    <3>1. i + 1 \in 1..Len(visits) /\ i + 1 <= Len(visits')
      BY <2>2, <1>6
    <3> QED BY <3>1, <1>6 DEF VisitAt
  <2> QED BY <1>10, <2>1, <2>2, <1>6
<1>11. VisitAt(1)' = Pdu("eth", 0)
  <2>1. 0 <= Len(visits) /\ 0 + 1 = 1
    BY <1>6
  <2>2. VisitAt(0 + 1)' = VisitAt(0 + 1)
    BY <2>1, <1>10
  <2> QED BY <2>1, <2>2 DEF DagPath
<1>12. ASSUME NEW i \in 1..Len(visits') PROVE VisitAt(i + 1)' = Follow(hdr', visits'[i])
  <2>1. CASE i = Len(visits) + 1
    <3>1. ~(i + 1 <= Len(visits'))
      BY <2>1, <1>6
    <3>2. VisitAt(i + 1)' = Pdu(node', off')
      BY <3>1 DEF VisitAt, Pdu
    <3> QED BY <2>1, <3>2, <1>6, <1>7
  <2>2. CASE i \in 1..Len(visits)
    <3>1. VisitAt(i + 1)' = VisitAt(i + 1)
      BY <2>2, <1>6, <1>10
    <3>2. VisitAt(i + 1) = Follow(hdr, visits[i])
      BY <2>2 DEF DagPath
    <3> QED BY <2>2, <3>1, <3>2, <1>6, <1>8
  <2> QED BY <2>1, <2>2, <1>6
<1>13. ASSUME NEW i \in 1..Len(visits'), NEW j \in 1..Len(visits'),
              i <= j, visits'[i].node \in Trailing
       PROVE  visits'[j].node \in Trailing
  <2>1. CASE j \in 1..Len(visits)
    <3>1. i \in 1..Len(visits)
      BY <1>13, <2>1, <1>6
    <3> QED BY <1>13, <2>1, <3>1, <1>6 DEF DagPath
  <2>2. CASE j = Len(visits) + 1
    <3>1. CASE i = j
      BY <1>13, <3>1
    <3>2. CASE i # j
      <4> DEFINE m == Len(visits)
      <4>1. i \in 1..m /\ m \in 1..m /\ i <= m
        BY <1>13, <2>2, <3>2, <1>6
      <4>2. visits[m].node \in Trailing
        BY <1>13, <4>1, <1>6 DEF DagPath
      <4>3. visits[m] \in PduType /\ visits[m].off \in DOMAIN hdr
        BY <4>1, <1>2 DEF DagPath
      <4>4. hdr[visits[m].off] \in Header
        BY <4>3, <1>2 DEF TypeOK
      <4>5. VisitAt(m + 1) = Follow(hdr, visits[m])
        BY <4>1 DEF DagPath
      <4>6. VisitAt(m + 1) = v
        BY <1>6 DEF VisitAt, v
      <4>7. node = next(visits[m].node, hdr[visits[m].off])
        BY <4>5, <4>6, <1>5 DEF Follow, Pdu
      <4>8. node \in Trailing
        BY <4>2, <4>4, <4>7, <1>1, TrailingNext
      <4> QED BY <4>8, <2>2, <1>5, <1>6
    <3> QED BY <3>1, <3>2
  <2> QED BY <2>1, <2>2, <1>6
<1>14. turn' = "dag"
  BY <1>1
<1> QED BY <1>9, <1>11, <1>12, <1>13, <1>14 DEF DagPath

(* A step of the others leaves the graph walk's path alone. *)
LEMMA DagPathKept ==
  ASSUME DagPath, UNCHANGED <<size, dagVars>>, Grows(hdr, hdr'), turn = "dag" => turn' = "dag"
  PROVE  DagPath'
<1>1. UNCHANGED <<size, node, off, steps, visits>>
  BY DEF dagVars
<1>2. \A i \in 1..Len(visits) : /\ visits[i].off \in DOMAIN hdr'
                                /\ Follow(hdr', visits[i]) = Follow(hdr, visits[i])
  BY FollowGrows DEF DagPath
<1>3. \A i : VisitAt(i)' = VisitAt(i)
  BY <1>1 DEF VisitAt, Pdu
<1> QED BY <1>1, <1>2, <1>3 DEF DagPath, Present, Fits

-----------------------------------------------------------------------------
(* The layered walks. *)

(* A step of a changes its state to s, a path that stands where s says. *)
LEMMA PathsStep ==
  ASSUME IInv, LayeredPaths, NEW a \in Layered, UNCHANGED <<size, link>>,
         turn = a, Grows(hdr, hdr'),
         NEW s \in LayeredState, w' = [w EXCEPT ![a] = s],
         ColumnPath(hdr', s.pdus), Stands(hdr', s),
         turn' = IF s.at = "end" THEN After[a] ELSE a
  PROVE  LayeredPaths'
<1>1. w \in [Layered -> LayeredState]
  BY DEF IInv, TypeOK
<1>2. \A b \in Layered : w'[b] = IF b = a THEN s ELSE w[b]
  BY <1>1
<1>3. ASSUME NEW b \in Layered PROVE ColumnPath(hdr', w'[b].pdus) /\ Stands(hdr', w'[b])
  <2>1. CASE b = a
    BY <2>1, <1>2
  <2>2. CASE b # a
    <3>1. w'[b] = w[b] /\ w[b] \in LayeredState /\ w[b].pdus \in Seq(PduType)
      BY <2>2, <1>1, <1>2 DEF LayeredState
    <3> QED BY <3>1, PathGrows, StandsGrows DEF LayeredPaths
  <2> QED BY <2>1, <2>2
<1>4. ASSUME NEW b \in Layered PROVE Stands(hdr, w[b])' <=> Stands(hdr', w'[b])
  BY DEF Stands, Ended, Captured, Fits, Last
<1>5. turn' \in {"staged", "done"} => w'["walk_packet"].at = "end"
  BY <1>2 DEF After, Layered, LayeredPaths
<1>6. turn' = "done" => w'["staged"].at = "end"
  BY <1>2 DEF After, Layered, LayeredPaths
<1> QED BY <1>3, <1>4, <1>5, <1>6 DEF LayeredPaths

(* Where a list of headers stands below another one, and one that grows. *)
LEMMA StartsAppend ==
  ASSUME NEW p \in Seq(PduType), NEW q \in Seq(PduType), Starts(p, q),
         NEW v \in PduType, Len(p) < Len(q), q[Len(p) + 1] = v,
         NEW r, r = Append(p, v)
  PROVE  Starts(r, q)
<1>1. /\ r \in Seq(PduType) /\ Len(p) \in Nat /\ Len(r) = Len(p) + 1 /\ r[Len(p) + 1] = v
      /\ \A i \in 1..Len(p) : r[i] = p[i]
  OBVIOUS
<1>2. ASSUME NEW i \in 1..Len(r) PROVE r[i] = q[i]
  <2>1. CASE i = Len(p) + 1
    BY <2>1, <1>1
  <2>2. CASE i \in 1..Len(p)
    BY <2>2, <1>1 DEF Starts
  <2> QED BY <2>1, <2>2, <1>1
<1> QED BY <1>1, <1>2 DEF Starts

LEMMA StartsLonger ==
  ASSUME NEW p \in Seq(PduType), NEW q \in Seq(PduType), Starts(p, q),
         NEW v \in PduType, NEW r, r = Append(q, v)
  PROVE  Starts(p, r)
<1>1. /\ Len(q) \in Nat /\ Len(r) = Len(q) + 1 /\ \A i \in 1..Len(q) : r[i] = q[i]
      /\ Len(p) \in Nat
  OBVIOUS
<1> QED BY <1>1 DEF Starts

(* walk_packet reports a header the graph walk visited there, unless the    *)
(* graph walk has used up its steps.                                        *)
LEMMA DagHasIt ==
  ASSUME JInv, turn = "walk_packet", NEW v \in PduType, v.node \in Columns, Captured(v),
         NEW p, p = w["walk_packet"].pdus, Joins(hdr, p, v), Len(p) < MaxWalkSteps
  PROVE  Len(p) < Len(visits) /\ visits[Len(p) + 1] = v
<1>1. /\ visits \in Seq(PduType) /\ p \in Seq(PduType) /\ steps = Len(visits)
      /\ node \in Nodes \cup {Stop} /\ off \in Nat /\ MaxWalkSteps \in Nat
  BY WalkAssumption DEF JInv, IInv, TypeOK, Layered, LayeredState
<1>2. Starts(p, visits) /\ Len(p) \in Nat /\ Len(visits) \in Nat
  BY <1>1 DEF JInv, Followed
<1>3. VisitAt(Len(p) + 1) = v
  <2>1. CASE p = <<>>
    BY <2>1 DEF Joins, JInv, DagPath
  <2>2. CASE p # <<>>
    <3>1. Len(p) \in 1..Len(p) /\ Len(p) \in 1..Len(visits)
      BY <2>2, <1>1, <1>2, LastIn DEF Starts
    <3>2. visits[Len(p)] = Last(p)
      BY <3>1, <1>2 DEF Starts, Last
    <3> QED BY <3>1, <3>2, <2>2 DEF Joins, JInv, DagPath
  <2> QED BY <2>1, <2>2
<1>4. Len(p) # Len(visits)
  <2> SUFFICES ASSUME Len(p) = Len(visits) PROVE FALSE
    OBVIOUS
  <2>1. VisitAt(Len(p) + 1) = Pdu(node, off)
    BY <1>2 DEF VisitAt
  <2>2. v.node = node /\ v.off = off
    BY <2>1, <1>3 DEF Pdu
  <2>3. Present(node, off)
    BY <2>2 DEF Present, Fits, Captured, Columns, Stop
  <2>4. steps = MaxWalkSteps
    BY <2>3 DEF JInv, DagPath
  <2> QED BY <2>4, <1>1, <1>2
<1>5. Len(p) < Len(visits)
  BY <1>2, <1>4 DEF Starts
<1> QED BY <1>2, <1>3, <1>5 DEF VisitAt

(* A stage reports a header that walk_packet reported there. *)
LEMMA WalkHasIt ==
  ASSUME JInv, turn = "staged", NEW v \in PduType, v.node \in Columns, Captured(v),
         NEW p, p = w["staged"].pdus, p = <<>> => link = Ethernet, Joins(hdr, p, v),
         NEW q, q = w["walk_packet"].pdus
  PROVE  Len(p) < Len(q) /\ q[Len(p) + 1] = v
<1>1. p \in Seq(PduType) /\ q \in Seq(PduType)
  BY DEF JInv, IInv, TypeOK, Layered, LayeredState
<1>2. Starts(p, q) /\ Len(p) \in Nat /\ Len(q) \in Nat
  BY <1>1 DEF JInv, Followed
<1>3. ColumnPath(hdr, q) /\ Ended(hdr, q, w["walk_packet"].l4)
  BY DEF JInv, LayeredPaths, Stands, Layered
<1>4. Len(p) # Len(q)
  <2> SUFFICES ASSUME Len(p) = Len(q) PROVE FALSE
    OBVIOUS
  <2>1. CASE p = <<>>
    <3>1. q = <<>> /\ v = Pdu("eth", 0)
      BY <2>1, <1>1, <1>2 DEF Joins
    <3>2. v.node = "eth" /\ v.off = 0
      BY <3>1 DEF Pdu
    <3> QED BY <3>1, <3>2, <1>3 DEF Ended, Captured, Fits
  <2>2. CASE p # <<>>
    <3>1. Len(p) \in 1..Len(p) /\ q # <<>>
      BY <2>2, <1>1, <1>2, LastIn
    <3>2. Last(q) = Last(p)
      BY <3>1, <1>2 DEF Last, Starts
    <3> QED BY <3>1, <3>2, <2>2, <1>3 DEF Ended, Joins
  <2> QED BY <2>1, <2>2
<1>5. Len(p) < Len(q) /\ Len(p) + 1 \in 1..Len(q)
  BY <1>2, <1>4 DEF Starts
<1>6. q[Len(p) + 1] = v
  <2>1. CASE p = <<>>
    <3>1. q # <<>> /\ Len(p) + 1 = 1
      BY <2>1, <1>1, <1>5
    <3> QED BY <3>1, <2>1, <1>3 DEF Joins, ColumnPath
  <2>2. CASE p # <<>>
    <3>1. Len(p) \in 1..Len(p) /\ Len(p) \in 1..(Len(q) - 1)
      BY <2>2, <1>1, <1>2, <1>5, LastIn
    <3>2. q[Len(p)] = Last(p)
      BY <3>1, <1>2 DEF Last, Starts
    <3> QED BY <3>1, <3>2, <2>2, <1>3 DEF Joins, ColumnPath
  <2> QED BY <2>1, <2>2
<1> QED BY <1>5, <1>6

(* Reporting the header that joins a walk keeps it behind the walk before. *)
LEMMA FollowedStep ==
  ASSUME JInv, NEW a \in Layered, turn = a, UNCHANGED dagVars,
         w[a].pdus = <<>> => link = Ethernet,
         NEW v \in PduType, v.node \in Columns, Captured(v), Joins(hdr, w[a].pdus, v),
         turn' # "dag",
         \A b \in Layered : w'[b].pdus = IF b = a THEN Append(w[a].pdus, v) ELSE w[b].pdus
  PROVE  Followed'
<1> DEFINE p == w["walk_packet"].pdus
           q == w["staged"].pdus
<1>1. /\ visits \in Seq(PduType) /\ p \in Seq(PduType) /\ q \in Seq(PduType)
      /\ MaxWalkSteps \in Nat /\ visits' = visits
  BY WalkAssumption DEF JInv, IInv, TypeOK, Layered, LayeredState, dagVars
<1>2. Starts(q, p) /\ (Len(p) <= MaxWalkSteps => Starts(p, visits))
  BY DEF JInv, Followed
<1>3. CASE a = "walk_packet"
  <2> DEFINE r == Append(p, v)
  <2>1. w'["walk_packet"].pdus = r /\ w'["staged"].pdus = q
    BY <1>3 DEF Layered
  <2>2. Len(r) = Len(p) + 1 /\ Len(p) \in Nat
    BY <1>1
  <2>3. Starts(q, r)
    BY <1>1, <1>2, StartsLonger
  <2>4. Len(r) <= MaxWalkSteps => Starts(r, visits)
    <3> SUFFICES ASSUME Len(r) <= MaxWalkSteps PROVE Starts(r, visits)
      OBVIOUS
    <3>1. Len(p) < MaxWalkSteps /\ Len(p) <= MaxWalkSteps
      BY <2>2, <1>1
    <3>2. Len(p) < Len(visits) /\ visits[Len(p) + 1] = v
      BY <3>1, <1>3, DagHasIt
    <3> QED BY <3>1, <3>2, <1>1, <1>2, StartsAppend
  <2> HIDE DEF r, p, q
  <2> QED BY <2>1, <2>3, <2>4, <1>1 DEF Followed, Starts
<1>4. CASE a = "staged"
  <2> DEFINE r == Append(q, v)
  <2>1. w'["walk_packet"].pdus = p /\ w'["staged"].pdus = r
    BY <1>4 DEF Layered
  <2>2. Len(q) < Len(p) /\ p[Len(q) + 1] = v
    BY <1>4, WalkHasIt
  <2>3. Starts(r, p)
    BY <2>2, <1>1, <1>2, StartsAppend
  <2> HIDE DEF r, p, q
  <2> QED BY <2>1, <2>3, <1>1, <1>2 DEF Followed, Starts
<1> QED BY <1>3, <1>4 DEF Layered

Agree == DagPath /\ LayeredPaths /\ Followed

(* A layered walk reports the header h of node n and goes on in state s. *)
LEMMA HeaderStep ==
  ASSUME JInv, NEW a \in Layered, turn = a, UNCHANGED <<size, link, dagVars>>,
         NEW n \in Columns, Fits(n, w[a].off),
         NEW h \in Headers(n, w[a].off), Read(w[a].off, h),
         w[a].pdus = <<>> => link = Ethernet,
         Joins(hdr, w[a].pdus, Pdu(n, w[a].off)),
         NEW s \in LayeredState, w' = [w EXCEPT ![a] = s],
         s.pdus = Append(w[a].pdus, Pdu(n, w[a].off)), Stands(hdr', s),
         turn' = IF s.at = "end" THEN After[a] ELSE a
  PROVE  Agree'
<1> DEFINE p == w[a].pdus
           v == Pdu(n, w[a].off)
<1>1. TypeOK /\ w \in [Layered -> LayeredState] /\ w[a].off \in Nat /\ p \in Seq(PduType)
  BY DEF JInv, IInv, TypeOK, LayeredState
<1>2. n \in Nodes
  BY DEF Columns, Nodes, SpecSize
<1>3. v \in PduType /\ v.node = n /\ v.off = w[a].off
  BY <1>1, <1>2 DEF Pdu, PduType
<1>4. Grows(hdr, hdr') /\ v.off \in DOMAIN hdr'
  BY <1>1, <1>2, <1>3, ReadGrows
<1>5. ColumnPath(hdr, p)
  BY DEF JInv, LayeredPaths
<1>6. ColumnPath(hdr', p)
  BY <1>1, <1>4, <1>5, PathGrows
<1>7. Joins(hdr', p, v)
  <2>1. CASE p = <<>>
    BY <2>1 DEF Joins
  <2>2. CASE p # <<>>
    <3>1. Last(p).off \in DOMAIN hdr
      BY <2>2, <1>1, <1>5, LastIn DEF ColumnPath, Last
    <3>2. Follow(hdr', Last(p)) = Follow(hdr, Last(p))
      BY <3>1, <1>4, FollowGrows
    <3> QED BY <2>2, <3>2 DEF Joins
  <2> QED BY <2>1, <2>2
<1>8. turn' \in {"walk_packet", "staged", "done"}
  BY DEF Layered, After
<1>9. Captured(v)
  BY <1>3 DEF Captured, Fits
<1>10. \A b \in Layered : w'[b].pdus = IF b = a THEN Append(w[a].pdus, v) ELSE w[b].pdus
  BY <1>1
<1> HIDE DEF v
<1>11. ColumnPath(hdr', s.pdus)
  <2>1. s.pdus = Append(p, v)
    BY DEF v
  <2> HIDE DEF p
  <2> QED BY <2>1, <1>1, <1>3, <1>4, <1>6, <1>7, PathAppend
<1>12. DagPath'
  BY <1>4, <1>8, DagPathKept DEF JInv, Layered
<1>13. LayeredPaths'
  BY <1>4, <1>11, PathsStep DEF JInv
<1>14. Followed'
  <2>1. Joins(hdr, w[a].pdus, v) /\ turn' # "dag"
    BY <1>8 DEF v
  <2> QED BY <2>1, <1>3, <1>9, <1>10, FollowedStep
<1> QED BY <1>12, <1>13, <1>14 DEF Agree

(* Report, with where the walk goes. *)
LEMMA ReportAgrees ==
  ASSUME JInv, NEW a \in Layered, turn = a,
         NEW n \in Columns, Fits(n, w[a].off), NEW h \in Headers(n, w[a].off),
         w[a].at # "end",
         w[a].pdus = <<>> => link = Ethernet,
         Joins(hdr, w[a].pdus, Pdu(n, w[a].off)),
         NEW at \in {"tags", "l4", "none"}, NEW key \in Nat, NEW length \in Nat,
         Report(a, n, h, at, key, length),
         length = advance(n, h),
         IF at = "tags" THEN n \in {"eth", "vlan"} /\ key = h.key
         ELSE /\ n \in {"ipv4", "ipv6"}
              /\ at = "l4" => key = IF FirstFragment(n, h) THEN h.key ELSE 0
              /\ at = "none" => w[a].off + length > size \/ ~FirstFragment(n, h)
  PROVE  Agree'
<1> DEFINE q == Append(w[a].pdus, Pdu(n, w[a].off))
           s == [[[[w[a] EXCEPT !.at = at] EXCEPT !.key = key]
                    EXCEPT !.off = w[a].off + length] EXCEPT !.pdus = q]
<1>1. TypeOK /\ w[a] \in LayeredState /\ w[a].off \in Nat /\ w[a].pdus \in Seq(PduType)
  BY DEF JInv, IInv, TypeOK, LayeredState
<1>2. n \in Nodes
  BY DEF Columns, Nodes, SpecSize
<1>3. q \in Seq(PduType)
  BY <1>2, AppendFits DEF JInv
<1>a. [w[a] EXCEPT !.at = at] \in LayeredState
  BY <1>1 DEF LayeredState
<1>b. [[w[a] EXCEPT !.at = at] EXCEPT !.key = key] \in LayeredState
  BY <1>a DEF LayeredState
<1>c. [[[w[a] EXCEPT !.at = at] EXCEPT !.key = key] EXCEPT !.off = w[a].off + length]
        \in LayeredState
  <2>1. w[a].off + length \in Nat
    BY <1>1
  <2> QED BY <1>b, <2>1 DEF LayeredState
<1>4. s \in LayeredState
  BY <1>c, <1>3 DEF LayeredState
<1>5. /\ s.pdus = q /\ s.at = at /\ s.key = key /\ s.off = w[a].off + length
      /\ s.l4 = w[a].l4
  BY <1>1 DEF LayeredState
<1>6. w' = [w EXCEPT ![a] = s]
  BY <1>1 DEF Report, LayeredState
<1>7. UNCHANGED <<size, link, dagVars>> /\ turn' = a /\ Read(w[a].off, h)
  BY DEF Report
<1>8. w[a].l4 = NoL4 /\ link = Ethernet
  BY DEF JInv, LayeredPaths, Stands
<1>9. hdr'[w[a].off] = h
  BY <1>1, <1>2, <1>7, ReadGrows
<1>10. q # <<>> /\ Last(q) = Pdu(n, w[a].off)
  <2>1. Pdu(n, w[a].off) \in PduType
    BY <1>1, <1>2 DEF Pdu, PduType
  <2> QED BY <2>1, <1>1 DEF Last
<1>11. Follow(hdr', Last(q)).off = w[a].off + length /\ hdr'[Last(q).off] = h /\ Last(q).node = n
  BY <1>9, <1>10 DEF Follow, Pdu
<1> HIDE DEF s, q
<1>12. Stands(hdr', s)
  BY <1>5, <1>8, <1>10, <1>11 DEF Stands
<1>13. turn' = (IF s.at = "end" THEN After[a] ELSE a)
  BY <1>5, <1>7
<1>14. s.pdus = Append(w[a].pdus, Pdu(n, w[a].off))
  BY <1>5 DEF q
<1> QED BY <1>4, <1>6, <1>7, <1>12, <1>13, <1>14, HeaderStep

(* The end of a walk that cannot go on. *)
LEMMA ReturnAgrees ==
  ASSUME JInv, NEW a \in Layered, turn = a, Return(a), w[a].at # "end",
         Ended(hdr, w[a].pdus, NoL4)
  PROVE  Agree'
<1> DEFINE s == [w[a] EXCEPT !.at = "end"]
<1>1. TypeOK /\ w \in [Layered -> LayeredState] /\ w[a] \in LayeredState
  BY DEF JInv, IInv, TypeOK
<1>2. s \in LayeredState /\ s.pdus = w[a].pdus /\ s.at = "end" /\ s.l4 = w[a].l4
  BY <1>1 DEF LayeredState
<1>3. /\ UNCHANGED <<size, link, dagVars>> /\ hdr' = hdr
      /\ w' = [w EXCEPT ![a] = s] /\ turn' = After[a]
  BY DEF Return
<1>4. s.l4 = NoL4 /\ (s.pdus # <<>> => link = Ethernet)
  BY <1>2 DEF JInv, LayeredPaths, Stands
<1> HIDE DEF s
<1>5. Stands(hdr', s) /\ Grows(hdr, hdr')
  BY <1>2, <1>3, <1>4 DEF Stands, Grows
<1>6. ColumnPath(hdr', s.pdus)
  BY <1>2, <1>3 DEF JInv, LayeredPaths
<1>7. turn' # "dag"
  BY <1>3 DEF After, Layered
<1>8. DagPath'
  BY <1>3, <1>5, <1>7, DagPathKept DEF JInv, Layered
<1>9. LayeredPaths'
  BY <1>2, <1>3, <1>5, <1>6, PathsStep DEF JInv
<1>10. \A b \in Layered : w'[b].pdus = w[b].pdus
  BY <1>1, <1>2, <1>3
<1>11. Followed'
  BY <1>3, <1>7, <1>10 DEF JInv, Followed, Starts, Layered, dagVars
<1> QED BY <1>8, <1>9, <1>11 DEF Agree

(* The header a layered walk reported last, and what follows it. *)
LEMMA Standing ==
  ASSUME JInv, NEW a \in Layered, w[a].at \in {"tags", "l3", "l4", "none"},
         NEW v, v = Last(w[a].pdus)
  PROVE  /\ w[a].pdus # <<>> /\ v \in PduType /\ w[a].off \in Nat
         /\ hdr[v.off] \in Header
         /\ Follow(hdr, v) = Pdu(next(v.node, hdr[v.off]), w[a].off)
         /\ Follow(hdr, v).node = next(v.node, hdr[v.off])
         /\ Follow(hdr, v).off = w[a].off
<1>1. w[a].pdus \in Seq(PduType) /\ w[a].off \in Nat /\ TypeOK
  BY DEF JInv, IInv, TypeOK, LayeredState
<1>2. ColumnPath(hdr, w[a].pdus) /\ Stands(hdr, w[a])
  BY DEF JInv, LayeredPaths
<1>3. w[a].pdus # <<>> /\ w[a].off = Follow(hdr, v).off
  BY <1>2 DEF Stands
<1>4. v \in PduType /\ v.off \in DOMAIN hdr
  BY <1>1, <1>2, <1>3, LastIn DEF ColumnPath, Last
<1>5. hdr[v.off] \in Header
  BY <1>1, <1>4 DEF TypeOK
<1> QED BY <1>1, <1>3, <1>4, <1>5 DEF Follow, Pdu

LEMMA L2Agrees ==
  ASSUME JInv, NEW a \in Layered,
         L2Refused(a) \/ L2Ethernet(a) \/ TagCut(a) \/ Tag(a) \/ L2Done(a)
  PROVE  Agree'
<1> DEFINE v == Last(w[a].pdus)
           g == hdr[v.off]
<1>0. TypeOK /\ w \in [Layered -> LayeredState] /\ w[a] \in LayeredState /\ w[a].off \in Nat
  BY DEF JInv, IInv, TypeOK, LayeredState
<1>s. Stands(hdr, w[a]) /\ ColumnPath(hdr, w[a].pdus)
  BY DEF JInv, LayeredPaths
<1>t. ASSUME w[a].at \in {"tags", "l3"}
      PROVE  /\ w[a].pdus # <<>> /\ v.node \in {"eth", "vlan"} /\ w[a].key = g.key
             /\ g \in Header
             /\ Follow(hdr, v) = Pdu(next(v.node, g), w[a].off)
             /\ Follow(hdr, v).node = next(v.node, g) /\ Follow(hdr, v).off = w[a].off
  BY <1>t, <1>s, Standing DEF Stands
<1>n. ASSUME NEW n \in {"eth", "vlan"}, NEW h \in Headers(n, w[a].off)
      PROVE  h \in Header /\ h.key \in Nat /\ advance(n, h) = SpecSize[n] /\ n \in Columns
  <2>1. n \in Nodes /\ n \in Columns
    BY DEF Nodes, SpecSize, Columns
  <2>2. h \in Header
    BY <2>1, <1>0, FoundType
  <2> QED BY <2>1, <2>2, LinkNext DEF Header
<1>1. CASE L2Refused(a)
  <2>1. w[a].at = "l2" /\ turn = a /\ Return(a) /\ w[a].pdus = <<>> /\ w[a].off = 0
        /\ (link # Ethernet \/ ~Fits("eth", 0))
    BY <1>1, <1>s DEF L2Refused, At, Stands
  <2>2. Ended(hdr, w[a].pdus, NoL4)
    BY <2>1 DEF Ended
  <2> QED BY <2>1, <2>2, ReturnAgrees
<1>2. CASE L2Ethernet(a)
  <2>1. /\ w[a].at = "l2" /\ turn = a /\ w[a].pdus = <<>> /\ w[a].off = 0
        /\ link = Ethernet /\ Fits("eth", w[a].off)
    BY <1>2, <1>s DEF L2Ethernet, At, Stands
  <2>2. PICK h \in Headers("eth", w[a].off) : Report(a, "eth", h, "tags", h.key, 14)
    BY <1>2 DEF L2Ethernet
  <2>3. h.key \in Nat /\ advance("eth", h) = 14 /\ "eth" \in Columns
    BY <1>n DEF SpecSize
  <2>4. Joins(hdr, w[a].pdus, Pdu("eth", w[a].off))
    BY <2>1 DEF Joins
  <2> QED BY <2>1, <2>2, <2>3, <2>4, ReportAgrees
<1>3. CASE TagCut(a)
  <2>1. w[a].at = "tags" /\ turn = a /\ Return(a) /\ ~Fits("vlan", w[a].off)
        /\ w[a].key \in VlanTypes
    BY <1>3 DEF TagCut, At
  <2>2. Follow(hdr, v).node = "vlan" /\ Follow(hdr, v).off = w[a].off
    BY <2>1, <1>t, LinkNext
  <2>3. ~Captured(Follow(hdr, v))
    BY <2>1, <2>2 DEF Captured, Fits
  <2>4. Ended(hdr, w[a].pdus, NoL4)
    BY <2>1, <2>3, <1>t DEF Ended
  <2> QED BY <2>1, <2>4, ReturnAgrees
<1>4. CASE Tag(a)
  <2>1. w[a].at = "tags" /\ turn = a /\ Fits("vlan", w[a].off) /\ w[a].key \in VlanTypes
    BY <1>4 DEF Tag, At
  <2>2. PICK h \in Headers("vlan", w[a].off) : Report(a, "vlan", h, "tags", h.key, 4)
    BY <1>4 DEF Tag
  <2>3. h.key \in Nat /\ advance("vlan", h) = 4 /\ "vlan" \in Columns
    BY <1>n DEF SpecSize
  <2>4. Follow(hdr, v) = Pdu("vlan", w[a].off) /\ w[a].pdus # <<>>
    BY <2>1, <1>t, LinkNext
  <2>5. Joins(hdr, w[a].pdus, Pdu("vlan", w[a].off))
    BY <2>4 DEF Joins
  <2> QED BY <2>1, <2>2, <2>3, <2>4, <2>5, ReportAgrees
<1>5. CASE L2Done(a)
  <2> DEFINE s == [w[a] EXCEPT !.at = "l3"]
  <2>1. /\ w[a].at = "tags" /\ turn = a /\ w[a].key \notin VlanTypes
        /\ w' = [w EXCEPT ![a] = s] /\ turn' = turn /\ hdr' = hdr
        /\ UNCHANGED <<size, link, dagVars>>
    BY <1>5 DEF L2Done, At
  <2>2. /\ s \in LayeredState /\ s.at = "l3" /\ s.pdus = w[a].pdus /\ s.key = w[a].key
        /\ s.off = w[a].off /\ s.l4 = w[a].l4
    BY <1>0 DEF LayeredState
  <2> HIDE DEF s
  <2>3. Stands(hdr', s) /\ ColumnPath(hdr', s.pdus) /\ Grows(hdr, hdr')
    BY <2>1, <2>2, <1>s DEF Stands, Grows
  <2>4. turn' # "dag" /\ turn' = (IF s.at = "end" THEN After[a] ELSE a)
    BY <2>1, <2>2 DEF Layered
  <2>5. LayeredPaths'
    BY <2>1, <2>2, <2>3, <2>4, PathsStep DEF JInv
  <2>6. DagPath'
    BY <2>1, <2>3, <2>4, DagPathKept DEF JInv
  <2>7. \A b \in Layered : w'[b].pdus = w[b].pdus
    BY <1>0, <2>1, <2>2
  <2>8. Followed'
    BY <2>1, <2>4, <2>7 DEF JInv, Followed, Starts, Layered, dagVars
  <2> QED BY <2>5, <2>6, <2>8 DEF Agree
<1> QED BY <1>1, <1>2, <1>3, <1>4, <1>5

(* The network layer: walk_packet and decode_l3 differ in where they go     *)
(* after a later fragment, and agree on what follows it.                    *)
LEMMA L3Agrees ==
  ASSUME JInv, NEW a \in Layered,
         L3Refused(a) \/ (a = "walk_packet" /\ WalkL3) \/ (a = "staged" /\ StageL3)
  PROVE  Agree'
<1> DEFINE v == Last(w[a].pdus)
           g == hdr[v.off]
           n == L3Node(a)
<1>0. TypeOK /\ w[a] \in LayeredState /\ w[a].off \in Nat
  BY DEF JInv, IInv, TypeOK, LayeredState
<1>1. w[a].at = "l3" /\ turn = a
  BY DEF L3Refused, WalkL3, StageL3, At
<1>2. /\ w[a].pdus # <<>> /\ v.node \in {"eth", "vlan"} /\ w[a].key = g.key
      /\ w[a].key \notin VlanTypes /\ g \in Header
      /\ Follow(hdr, v) = Pdu(next(v.node, g), w[a].off)
      /\ Follow(hdr, v).node = next(v.node, g) /\ Follow(hdr, v).off = w[a].off
  <2>1. Stands(hdr, w[a])
    BY DEF JInv, LayeredPaths
  <2> QED BY <1>1, <2>1, Standing DEF Stands
<1>3. CASE L3Refused(a)
  <2>1. Return(a) /\ ~Present(n, w[a].off)
    BY <1>3 DEF L3Refused
  <2>2. Follow(hdr, v).node \in Columns => ~Captured(Follow(hdr, v))
    <3>1. CASE g.key \in {EtherTypeIpv4, EtherTypeIpv6}
      <4>1. next(v.node, g) = n /\ n # Stop
        BY <3>1, <1>2, LinkNext DEF L3Node, Stop
      <4> QED BY <4>1, <1>2, <2>1 DEF Present, Fits, Captured
    <3>2. CASE g.key \notin {EtherTypeIpv4, EtherTypeIpv6}
      BY <3>2, <1>2, LinkNext
    <3> QED BY <3>1, <3>2
  <2>3. Ended(hdr, w[a].pdus, NoL4)
    BY <2>2, <1>2 DEF Ended
  <2> QED BY <1>1, <2>1, <2>3, ReturnAgrees
<1>4. CASE ~L3Refused(a)
  <2>1. Present(n, w[a].off)
    BY <1>4 DEF WalkL3, StageL3
  <2>2. n \in {"ipv4", "ipv6"} /\ Fits(n, w[a].off) /\ n = next(v.node, g)
    BY <2>1, <1>2, LinkNext DEF Present, L3Node, Stop
  <2>3. n \in Columns /\ n \in Nodes
    BY <2>2 DEF Columns, Nodes, SpecSize
  <2>4. Joins(hdr, w[a].pdus, Pdu(n, w[a].off))
    BY <2>2, <1>2 DEF Joins
  <2>5. ASSUME NEW h \in Headers(n, w[a].off)
        PROVE  h \in Header /\ h.key \in Nat /\ L3Length(n, h) \in Nat
               /\ L3Length(n, h) = advance(n, h)
    <3>1. h \in Header
      BY <2>3, <1>0, FoundType
    <3>2. h.key \in Nat /\ h.len \in Nat
      BY <3>1 DEF Header
    <3>3. L3Length(n, h) \in Nat
      BY <3>2 DEF L3Length, AtLeast
    <3> QED BY <3>1, <3>2, <3>3, <2>2, NetworkNext
  <2>6. PICK h \in Headers(n, w[a].off), at \in {"l4", "none"}, key \in Nat :
          /\ Report(a, n, h, at, key, L3Length(n, h))
          /\ at = "l4" => key = IF FirstFragment(n, h) THEN h.key ELSE 0
          /\ at = "none" => w[a].off + L3Length(n, h) > size \/ ~FirstFragment(n, h)
    <3>1. CASE a = "walk_packet" /\ WalkL3
      <4>1. PICK h \in Headers(n, w[a].off) :
              Report(a, n, h,
                  IF w[a].off + L3Length(n, h) > size \/ ~FirstFragment(n, h)
                  THEN "none" ELSE "l4",
                  h.key, L3Length(n, h))
        BY <3>1 DEF WalkL3
      <4>2. CASE w[a].off + L3Length(n, h) > size \/ ~FirstFragment(n, h)
        BY <4>1, <4>2, <2>5
      <4>3. CASE ~(w[a].off + L3Length(n, h) > size \/ ~FirstFragment(n, h))
        BY <4>1, <4>3, <2>5
      <4> QED BY <4>2, <4>3
    <3>2. CASE a = "staged" /\ StageL3
      <4>1. PICK h \in Headers(n, w[a].off) :
              Report(a, n, h,
                  IF w[a].off + L3Length(n, h) > size THEN "none" ELSE "l4",
                  IF FirstFragment(n, h) THEN h.key ELSE 0, L3Length(n, h))
        BY <3>2 DEF StageL3
      <4>2. (IF FirstFragment(n, h) THEN h.key ELSE 0) \in Nat
        BY <2>5
      <4>3. CASE w[a].off + L3Length(n, h) > size
        BY <4>1, <4>2, <4>3
      <4>4. CASE ~(w[a].off + L3Length(n, h) > size)
        BY <4>1, <4>2, <4>4
      <4> QED BY <4>3, <4>4
    <3> QED BY <1>4, <3>1, <3>2
  <2>7. L3Length(n, h) \in Nat /\ L3Length(n, h) = advance(n, h)
    BY <2>5
  <2> HIDE DEF n
  <2> QED BY <1>1, <1>2, <2>2, <2>3, <2>4, <2>6, <2>7, ReportAgrees
<1> QED BY <1>3, <1>4

(* The transport layer. *)
LEMMA L4Agrees == ASSUME JInv, NEW a \in Layered, L4Refused(a) \/ L4(a) PROVE Agree'
<1> DEFINE v == Last(w[a].pdus)
           g == hdr[v.off]
           n == L4Node(a)
<1>0. /\ TypeOK /\ w[a] \in LayeredState /\ w[a].off \in Nat
      /\ w[a].pdus \in Seq(PduType) /\ size \in Nat
  BY WalkAssumption DEF JInv, IInv, TypeOK, LayeredState
<1>1. w[a].at \in {"none", "l4"} /\ turn = a
  BY DEF L4Refused, L4, At
<1>s. Stands(hdr, w[a])
  BY DEF JInv, LayeredPaths
<1>2. /\ w[a].pdus # <<>> /\ v.node \in {"ipv4", "ipv6"} /\ g \in Header
      /\ Follow(hdr, v) = Pdu(next(v.node, g), w[a].off)
      /\ Follow(hdr, v).node = next(v.node, g) /\ Follow(hdr, v).off = w[a].off
      /\ w[a].l4 = NoL4 /\ link = Ethernet
  BY <1>1, <1>s, Standing DEF Stands
<1>3. ASSUME w[a].at = "l4"
      PROVE  IF n = Stop THEN next(v.node, g) \notin Columns ELSE next(v.node, g) = n
  <2>1. w[a].key = IF FirstFragment(v.node, g) THEN g.key ELSE 0
    BY <1>3, <1>s DEF Stands
  <2>2. CASE FirstFragment(v.node, g)
    BY <2>1, <2>2, <1>2, NetworkNext DEF L4Node, Stop
  <2>3. CASE ~FirstFragment(v.node, g)
    BY <2>1, <2>3, <1>2, NetworkNext DEF L4Node, Stop, Columns, ProtoTcp, ProtoUdp
  <2> QED BY <2>2, <2>3
<1>4. CASE L4Refused(a)
  <2>1. Return(a) /\ (w[a].at = "none" \/ (w[a].at = "l4" /\ ~Present(n, w[a].off)))
    BY <1>4 DEF L4Refused, At
  <2>2. Follow(hdr, v).node \in Columns => ~Captured(Follow(hdr, v))
    <3> SUFFICES ASSUME next(v.node, g) \in Columns, Captured(Follow(hdr, v)) PROVE FALSE
      BY <1>2
    <3>1. next(v.node, g) \in Nodes
      BY DEF Columns, Nodes, SpecSize
    <3>2. w[a].off + SpecSize[next(v.node, g)] <= size /\ SpecSize[next(v.node, g)] \in Nat
      BY <3>1, <1>2, SizesType DEF Captured
    <3>3. CASE w[a].at = "none"
      <4>1. w[a].off > size \/ ~FirstFragment(v.node, g)
        BY <3>3, <1>s DEF Stands
      <4>2. FirstFragment(v.node, g)
        BY <1>2, NetworkNext DEF Columns, Stop
      <4> QED BY <4>1, <4>2, <3>2, <1>0
    <3>4. CASE w[a].at = "l4" /\ ~Present(n, w[a].off)
      BY <3>2, <3>4, <1>3 DEF Present, Fits
    <3> QED BY <2>1, <3>3, <3>4
  <2>3. Ended(hdr, w[a].pdus, NoL4)
    BY <2>2, <1>2 DEF Ended
  <2> QED BY <1>1, <2>1, <2>3, ReturnAgrees
<1>5. CASE L4(a)
  <2> DEFINE q == Append(w[a].pdus, Pdu(n, w[a].off))
  <2>1. /\ w[a].at = "l4" /\ n \in {"tcp", "udp"} /\ Fits(n, w[a].off)
        /\ turn' = After[a] /\ UNCHANGED <<size, link, dagVars>>
    BY <1>5 DEF L4, At, Present, L4Node, Stop
  <2>2. n \in Nodes /\ n \in Columns /\ n # Stop
    BY <2>1 DEF Nodes, SpecSize, Columns, Stop
  <2>3. PICK h \in Headers(n, w[a].off) :
          /\ Read(w[a].off, h)
          /\ w' = [w EXCEPT
               ![a].at = "end",
               ![a].pdus = q,
               ![a].l4 = [reached |-> TRUE, offset |-> w[a].off + L4Length(n, h),
                          ports |-> <<h.src, h.dst>>]]
    BY <1>5 DEF L4, JInv, IInv, TypeOK, LayeredState
  <2>4. hdr'[w[a].off] = h /\ h \in Header
    BY <2>2, <2>3, <1>0, ReadGrows
  <2> DEFINE r == [reached |-> TRUE, offset |-> w[a].off + L4Length(n, h),
                   ports |-> <<h.src, h.dst>>]
             s == [[[w[a] EXCEPT !.at = "end"] EXCEPT !.pdus = q] EXCEPT !.l4 = r]
  <2>5. r \in [reached : BOOLEAN, offset : Nat, ports : Seq(Nat)]
    <3>1. h.len \in Nat /\ h.src \in Nat /\ h.dst \in Nat
      BY <2>4 DEF Header
    <3>2. L4Length(n, h) \in Nat
      BY <3>1 DEF L4Length, AtLeast
    <3>3. <<h.src, h.dst>> \in Seq(Nat)
      BY <3>1
    <3> QED BY <1>0, <3>2, <3>3
  <2>6. q \in Seq(PduType)
    BY <2>1, <2>2, AppendFits DEF JInv
  <2>7. w' = [w EXCEPT ![a] = s]
    BY <2>3, <1>0 DEF LayeredState
  <2>8. q # <<>> /\ Last(q) = Pdu(n, w[a].off)
    <3>1. Pdu(n, w[a].off) \in PduType
      BY <1>0, <2>2 DEF Pdu, PduType
    <3> QED BY <3>1, <1>0 DEF Last
  <2>9. Last(q).node = n /\ hdr'[Last(q).off] = h
        /\ Follow(hdr', Last(q)).node = next(n, h)
        /\ Follow(hdr', Last(q)).off = w[a].off + advance(n, h)
    BY <2>4, <2>8 DEF Follow, Pdu
  <2>10. next(n, h) \notin Columns /\ advance(n, h) = L4Length(n, h)
    BY <2>1, <2>4, TransportNext, TransportLength
  <2>j. Joins(hdr, w[a].pdus, Pdu(n, w[a].off))
    BY <2>1, <2>2, <1>2, <1>3 DEF Joins
  <2>e. r = [reached |-> TRUE, offset |-> Follow(hdr', Last(q)).off,
             ports |-> <<hdr'[Last(q).off].src, hdr'[Last(q).off].dst>>]
    BY <2>9, <2>10
  <2> HIDE DEF r, q
  <2>11. [w[a] EXCEPT !.at = "end"] \in LayeredState
    BY <1>0 DEF LayeredState
  <2>12. [[w[a] EXCEPT !.at = "end"] EXCEPT !.pdus = q] \in LayeredState
    BY <2>6, <2>11 DEF LayeredState
  <2>13. s \in LayeredState /\ s.pdus = q /\ s.at = "end" /\ s.l4 = r
    BY <2>5, <2>12 DEF LayeredState
  <2> HIDE DEF s
  <2>14. Ended(hdr', q, r)
    BY <2>1, <2>8, <2>9, <2>10, <2>e DEF Ended
  <2>15. Stands(hdr', s)
    BY <1>2, <2>13, <2>14 DEF Stands
  <2>16. s.pdus = Append(w[a].pdus, Pdu(n, w[a].off))
    BY <2>13 DEF q
  <2>17. turn' = (IF s.at = "end" THEN After[a] ELSE a)
    BY <2>1, <2>13
  <2> HIDE DEF n
  <2> QED BY <1>1, <1>2, <2>1, <2>2, <2>3, <2>7, <2>j, <2>13, <2>15, <2>16, <2>17, HeaderStep
<1> QED BY <1>4, <1>5

(* While the graph is walked the layered walks stand still. *)
LEMMA StillPaths ==
  ASSUME IInv, LayeredPaths, UNCHANGED <<size, link, w>>, Grows(hdr, hdr'),
         turn' = turn \/ turn' = "walk_packet"
  PROVE  LayeredPaths'
<1>1. w \in [Layered -> LayeredState]
  BY DEF IInv, TypeOK
<1>2. ASSUME NEW b \in Layered PROVE ColumnPath(hdr', w[b].pdus) /\ Stands(hdr', w[b])
  <2>1. w[b] \in LayeredState /\ w[b].pdus \in Seq(PduType)
    BY <1>1 DEF LayeredState
  <2> QED BY <2>1, PathGrows, StandsGrows DEF LayeredPaths
<1>3. ASSUME NEW b \in Layered PROVE Stands(hdr, w[b])' <=> Stands(hdr', w[b])
  BY DEF Stands, Ended, Captured, Fits, Last
<1> QED BY <1>2, <1>3 DEF LayeredPaths

LEMMA DagAgreesStep == ASSUME JInv, DagStep \/ DagEnd PROVE Agree'
<1>1. CASE DagStep
  <2>1. /\ UNCHANGED <<size, link, turn, w>> /\ turn = "dag"
        /\ node # Stop /\ visits' = Append(visits, Pdu(node, off))
    BY <1>1 DEF DagStep, Present
  <2>2. node \in Nodes /\ off \in Nat /\ visits \in Seq(PduType) /\ TypeOK
    BY <2>1 DEF JInv, IInv, TypeOK
  <2>3. PICK h \in Headers(node, off) : Read(off, h)
    BY <1>1 DEF DagStep
  <2>4. Grows(hdr, hdr')
    BY <2>2, <2>3, ReadGrows
  <2>5. LayeredPaths'
    BY <2>1, <2>4, StillPaths DEF JInv
  <2>6. w["walk_packet"].pdus = <<>> /\ Len(w["walk_packet"].pdus) = 0
    BY <2>1 DEF JInv, Followed
  <2>7. Starts(w["walk_packet"].pdus, visits')
    <3>1. Len(visits') \in Nat
      BY <2>1, <2>2
    <3> QED BY <2>6, <3>1 DEF Starts
  <2>8. Followed'
    BY <2>1, <2>6, <2>7 DEF JInv, Followed, Starts
  <2> QED BY <1>1, <2>5, <2>8, DagStepPath DEF Agree
<1>2. CASE DagEnd
  <2>1. /\ UNCHANGED <<size, link, hdr, dagVars, w>> /\ turn' = "walk_packet"
        /\ (steps = MaxWalkSteps \/ ~Present(node, off))
    BY <1>2 DEF DagEnd
  <2>2. Grows(hdr, hdr')
    BY <2>1 DEF Grows
  <2>3. LayeredPaths'
    BY <2>1, <2>2, StillPaths DEF JInv
  <2>4. DagPath'
    <3>1. UNCHANGED <<size, hdr, node, off, steps, visits>>
      BY <2>1 DEF dagVars
    <3>2. \A i : VisitAt(i)' = VisitAt(i)
      BY <3>1 DEF VisitAt, Pdu
    <3> QED BY <2>1, <3>1, <3>2 DEF JInv, DagPath, Present, Fits
  <2>5. Followed'
    BY <2>1 DEF JInv, Followed, Starts, dagVars
  <2> QED BY <2>3, <2>4, <2>5 DEF Agree
<1> QED BY <1>1, <1>2

LEMMA InitAgrees == Init => JInv
<1> SUFFICES ASSUME Init PROVE JInv
  OBVIOUS
<1>1. IInv
  BY InitInv
<1>2. visits = <<>> /\ Len(visits) = 0 /\ node = "eth" /\ off = 0 /\ turn = "dag"
  BY DEF Init
<1>3. \A a \in Layered : /\ w[a].pdus = <<>> /\ Len(w[a].pdus) = 0
                         /\ w[a].at = "l2" /\ w[a].off = 0 /\ w[a].l4 = NoL4
  BY DEF Init
<1>4. DagPath
  BY <1>2 DEF DagPath, VisitAt
<1>5. \A a \in Layered : ColumnPath(hdr, w[a].pdus)
  BY <1>3 DEF ColumnPath
<1>6. \A a \in Layered : Stands(hdr, w[a])
  BY <1>3 DEF Stands
<1>7. LayeredPaths
  BY <1>2, <1>5, <1>6 DEF LayeredPaths
<1>8. Followed
  BY <1>2, <1>3 DEF Followed, Starts, Layered
<1> QED BY <1>1, <1>4, <1>7, <1>8 DEF JInv

LEMMA NextAgrees == ASSUME JInv, [Next]_vars PROVE JInv'
<1>1. CASE Walk
  <2>1. IInv'
    BY <1>1, WalkInv DEF JInv
  <2>2. "walk_packet" \in Layered /\ "staged" \in Layered
    BY DEF Layered
  <2>3. Agree'
    BY <1>1, <2>2, DagAgreesStep, L2Agrees, L3Agrees, L4Agrees DEF Walk
  <2> QED BY <2>1, <2>3 DEF Agree, JInv
<1>2. CASE UNCHANGED vars
  <2>1. UNCHANGED <<size, link, hdr, node, off, steps, visits, turn, w>>
    BY <1>2 DEF vars, dagVars
  <2>2. IInv'
    <3>1. TypeOK'
      BY <2>1 DEF JInv, IInv, TypeOK
    <3> QED BY <2>1, <3>1 DEF JInv, IInv, PdusInside, NoOverlap, Ahead, Captured
  <2>3. DagPath'
    <3>1. \A i : VisitAt(i)' = VisitAt(i)
      BY <2>1 DEF VisitAt, Pdu
    <3> QED BY <2>1, <3>1 DEF JInv, DagPath, Present, Fits
  <2>4. LayeredPaths'
    <3>1. Grows(hdr, hdr')
      BY <2>1 DEF Grows
    <3> QED BY <2>1, <3>1, StillPaths DEF JInv
  <2>5. Followed'
    BY <2>1 DEF JInv, Followed, Starts
  <2> QED BY <2>2, <2>3, <2>4, <2>5 DEF JInv
<1> QED BY <1>1, <1>2 DEF Next, Finished

-----------------------------------------------------------------------------
(* Paths that could not go on, one at the start of the other, are the same. *)
LEMMA StagedSame == ASSUME JInv PROVE StagedAgrees
<1> SUFFICES ASSUME turn = "done"
             PROVE  /\ w["staged"].pdus = w["walk_packet"].pdus
                    /\ w["staged"].l4 = w["walk_packet"].l4
  BY DEF StagedAgrees
<1> DEFINE p == w["staged"].pdus
           q == w["walk_packet"].pdus
<1>1. p \in Seq(PduType) /\ q \in Seq(PduType)
  BY DEF JInv, IInv, TypeOK, Layered, LayeredState
<1>2. Starts(p, q) /\ Len(p) \in Nat /\ Len(q) \in Nat
  BY <1>1 DEF JInv, Followed
<1>3. /\ ColumnPath(hdr, q) /\ Ended(hdr, q, w["walk_packet"].l4)
      /\ Ended(hdr, p, w["staged"].l4)
      /\ \A i \in 1..Len(q) : Captured(q[i])
  BY DEF JInv, IInv, PdusInside, LayeredPaths, Stands, Layered
<1>4. Len(p) = Len(q)
  <2> SUFFICES ASSUME Len(p) < Len(q) PROVE FALSE
    BY <1>2 DEF Starts
  <2> DEFINE v == q[Len(p) + 1]
  <2>1. Len(p) + 1 \in 1..Len(q) /\ q # <<>>
    BY <1>1, <1>2
  <2>2. Captured(v) /\ v.node \in Columns
    BY <2>1, <1>3 DEF ColumnPath
  <2>3. CASE p = <<>>
    <3>1. v = Pdu("eth", 0)
      BY <2>1, <2>3, <1>1, <1>3 DEF ColumnPath
    <3>2. Fits("eth", 0)
      BY <2>2, <3>1 DEF Captured, Fits, Pdu
    <3>3. link # Ethernet
      BY <2>3, <3>2, <1>3 DEF Ended
    <3>4. q # <<>> => link = Ethernet
      BY DEF JInv, LayeredPaths, Stands, Layered
    <3> QED BY <3>3, <3>4, <2>1
  <2>4. CASE p # <<>>
    <3>1. Len(p) \in 1..Len(p) /\ Len(p) \in 1..(Len(q) - 1)
      BY <2>4, <1>1, <1>2, LastIn
    <3>2. q[Len(p)] = Last(p)
      BY <3>1, <1>2 DEF Last, Starts
    <3>3. v = Follow(hdr, Last(p))
      BY <3>1, <3>2, <1>3 DEF ColumnPath
    <3> QED BY <3>3, <2>2, <2>4, <1>3 DEF Ended
  <2> QED BY <2>3, <2>4
<1>5. p = q
  BY <1>1, <1>2, <1>4, SeqEqual DEF Starts
<1>6. w["staged"].l4 = w["walk_packet"].l4
  BY <1>3, <1>5 DEF Ended
<1> QED BY <1>5, <1>6

(* What walk_packet reported is what the graph visited of the six columns.  *)
LEMMA DagSame == ASSUME JInv PROVE DagAgrees
<1> DEFINE p == w["walk_packet"].pdus
           l4 == w["walk_packet"].l4
<1> SUFFICES ASSUME turn = "done", link = Ethernet, ~Extended, Len(p) <= MaxWalkSteps
             PROVE  /\ Len(p) <= Len(visits) /\ p = SubSeq(visits, 1, Len(p))
                    /\ \A i \in 1..Len(visits) : visits[i].node \in Columns <=> i <= Len(p)
                    /\ l4.reached => l4.offset = DagOffset(Len(p))
  BY DEF DagAgrees
<1>1. p \in Seq(PduType) /\ visits \in Seq(PduType) /\ TypeOK
  BY DEF JInv, IInv, TypeOK, Layered, LayeredState
<1>2. Starts(p, visits) /\ Len(p) \in Nat /\ Len(visits) \in Nat /\ Len(p) <= Len(visits)
  BY <1>1 DEF JInv, Followed, Starts
<1>3. /\ ColumnPath(hdr, p) /\ Ended(hdr, p, l4) /\ DagPath
      /\ \A i \in 1..Len(visits) : Captured(visits[i])
  BY DEF JInv, IInv, PdusInside, LayeredPaths, Stands, Layered
<1>4. p = SubSeq(visits, 1, Len(p))
  <2>1. /\ SubSeq(visits, 1, Len(p)) \in Seq(PduType)
        /\ Len(SubSeq(visits, 1, Len(p))) = Len(p)
        /\ \A i \in 1..Len(p) : SubSeq(visits, 1, Len(p))[i] = visits[i]
    BY <1>1, <1>2
  <2> QED BY <2>1, <1>1, <1>2, SeqEqual DEF Starts
<1>5. ASSUME p # <<>>
      PROVE  /\ Len(p) \in 1..Len(visits) /\ visits[Len(p)] = Last(p)
             /\ VisitAt(Len(p) + 1) = Follow(hdr, Last(p))
  <2>1. Len(p) \in 1..Len(p) /\ Len(p) \in 1..Len(visits)
    BY <1>1, <1>2, <1>5, LastIn
  <2>2. visits[Len(p)] = Last(p)
    BY <2>1, <1>2 DEF Starts, Last
  <2> QED BY <2>1, <2>2, <1>3 DEF DagPath
<1>6. ASSUME NEW i \in 1..Len(visits), i <= Len(p) PROVE visits[i].node \in Columns
  <2>1. i \in 1..Len(p)
    BY <1>2, <1>6
  <2> QED BY <2>1, <1>2, <1>3 DEF Starts, ColumnPath
<1>7. ASSUME NEW i \in 1..Len(visits), i > Len(p) PROVE visits[i].node \notin Columns
  <2> DEFINE k == Len(p) + 1
  <2>1. k \in 1..Len(visits) /\ k <= i
    BY <1>2, <1>7
  <2>2. Captured(visits[k]) /\ visits[k] \in PduType /\ VisitAt(k) = visits[k]
    BY <2>1, <1>1, <1>3 DEF VisitAt
  <2>3. p # <<>>
    <3> SUFFICES ASSUME p = <<>> PROVE FALSE
      OBVIOUS
    <3>1. k = 1 /\ ~Fits("eth", 0)
      BY <1>3 DEF Ended
    <3>2. visits[k] = Pdu("eth", 0)
      BY <2>2, <3>1, <1>3 DEF DagPath
    <3> QED BY <2>2, <3>1, <3>2 DEF Captured, Fits, Pdu
  <2>4. visits[k].node \notin Columns
    BY <2>2, <2>3, <1>3, <1>5 DEF Ended
  <2>5. visits[k].node \in Trailing
    <3>1. visits[k].node \in Nodes /\ visits[k].node \notin IpOptions \cup {"fragment", "ah"}
      BY <2>1, <2>2 DEF PduType, Extended
    <3> QED BY <2>4, <3>1 DEF Nodes, SpecSize, IpOptions, Columns, Trailing
  <2>6. visits[i].node \in Trailing
    BY <2>1, <2>5, <1>3 DEF DagPath
  <2> QED BY <2>6 DEF Trailing, Columns
<1>8. ASSUME l4.reached PROVE l4.offset = DagOffset(Len(p))
  <2>1. p # <<>> /\ l4.offset = Follow(hdr, Last(p)).off
    BY <1>3, <1>8 DEF Ended, NoL4
  <2>2. l4.offset = VisitAt(Len(p) + 1).off
    BY <2>1, <1>5
  <2>3. CASE Len(p) < Len(visits)
    BY <2>2, <2>3, <1>2 DEF VisitAt, DagOffset
  <2>4. CASE ~(Len(p) < Len(visits))
    <3>1. VisitAt(Len(p) + 1) = Pdu(node, off)
      BY <2>4, <1>2 DEF VisitAt
    <3> QED BY <2>2, <2>4, <3>1 DEF DagOffset, Pdu
  <2> QED BY <2>3, <2>4
<1> QED BY <1>2, <1>4, <1>6, <1>7, <1>8

(* The three traversals of a packet, of any size, depth and contents, agree *)
(* when they are done: walk_packet and the staged decoders report the same  *)
(* headers, payload offset and ports, and without extension headers these   *)
(* are the graph walk's visits of the six columns.                          *)
THEOREM WalksSame == Spec => []WalksAgree
<1>1. Init => JInv
  BY InitAgrees
<1>2. JInv /\ [Next]_vars => JInv'
  BY NextAgrees
<1>3. JInv => WalksAgree
  BY StagedSame, DagSame DEF WalksAgree
<1> QED BY <1>1, <1>2, <1>3, PTL DEF Spec
=============================================================================
