----------------------------- MODULE CaptureTool -----------------------------
(***************************************************************************)
(* The command-line tools of examples/, from their arguments to their exit *)
(* code: "pcapng2json" (to_ndjson, a JSON line for each packet with the    *)
(* link type of its interface) and "rules" (the mains of dpar and lldp,    *)
(* which run the rule engine on each packet).  All of them read a capture  *)
(* whole, scan it with one call of scan_blocks and loop over the refs;     *)
(* the scan is ScanWindow, step by step, called once with at_eof.          *)
(*                                                                         *)
(* body[a] holds the fields of the block at byte a that the loop looks at: *)
(* a link type, an interface id, a captured length, as written.  What is   *)
(* printed for a packet is a function of the bytes handed to walk_packet   *)
(* or to the engine, and of the link type: a line is those.                *)
(***************************************************************************)
EXTENDS Integers, Sequences, FiniteSetsExt

CONSTANT Files     \* the captures

VARIABLES
  file, avail, base, st, phase, eof, pos, out, err,   \* of ScanWindow
  tool,         \* "pcapng2json" or "rules"
  opens,        \* its files can be opened
  rules_ok,     \* the rules compile
  stage,        \* "open", "load", "scan", "loop", "ok", "failed"
  k,            \* the loop's position in the refs
  iface_link,   \* link type of each interface of the section
  packet_id,
  lines         \* one for each packet handled, printed at the end

Scan == INSTANCE ScanWindow

scan == <<file, avail, base, st, phase, eof, pos, out, err>>
args == <<tool, opens, rules_ok>>
loop == <<k, iface_link, packet_id, lines>>
vars == <<scan, args, stage, loop>>

ASSUME BodiesAssumption ==
  \A f \in Files :
    /\ Scan!WellFormed(f)
    /\ DOMAIN f.body = DOMAIN f.at
    /\ \A a \in DOMAIN f.body :
         f.body[a] \in [link : 0..255, iface : Nat, caplen : Nat]

Init ==
  /\ Scan!Init
  /\ tool \in {"pcapng2json", "rules"}
  /\ opens \in BOOLEAN
  /\ rules_ok \in (IF tool = "rules" THEN BOOLEAN ELSE {TRUE})
  /\ stage = "open"
  /\ k = 1
  /\ iface_link = <<>>
  /\ packet_id = 0
  /\ lines = <<>>

-----------------------------------------------------------------------------
(* read_file: the whole capture is in memory before anything looks at it. *)
Open ==
  /\ stage = "open"
  /\ opens
  /\ stage' = IF tool = "rules" THEN "load" ELSE "scan"
  /\ avail' = file.size
  /\ UNCHANGED <<file, base, st, phase, eof, pos, out, err, args, loop>>

OpenFails ==
  /\ stage = "open"
  /\ ~opens
  /\ stage' = "failed"
  /\ UNCHANGED <<scan, args, loop>>

(* A text with errors ends the tool before the capture is scanned. *)
LoadRules ==
  /\ stage = "load"
  /\ stage' = IF rules_ok THEN "scan" ELSE "failed"
  /\ UNCHANGED <<scan, args, loop>>

(* scan_blocks: a fresh ScanState, one call, at_eof. *)
ScanBlocks ==
  /\ stage = "scan"
  /\ Scan!Detect(TRUE) \/ Scan!Walk
  /\ UNCHANGED <<args, stage, loop>>

(* Its refs are used only if it returned true. *)
ScanReturns ==
  /\ stage = "scan"
  /\ phase = "done"
  /\ stage' = IF err = "none" THEN "loop" ELSE "failed"
  /\ UNCHANGED <<scan, args, loop>>

-----------------------------------------------------------------------------
(* The loop over the refs. *)

ref == out[k]

InLoop == stage = "loop" /\ k <= Len(out)

NextRef ==
  /\ k' = k + 1
  /\ UNCHANGED <<scan, args, stage>>

IsPacket == ref.kind \in {"Epb", "PcapRecord"}

(* A field of the block, read in the byte order of the ref. *)
RightOrder == file.at[ref.off].le = ref.le
Field16(v) == IF RightOrder THEN v ELSE (v % 256) * 256 + v \div 256
Field32(v) == IF RightOrder THEN v ELSE Scan!Swap32(v)
Body == file.body[ref.off]

(* The rule tools pass over every block that is not a packet. *)
SkipBlock ==
  /\ InLoop
  /\ ~IsPacket
  /\ tool = "pcapng2json" => ref.kind \notin {"Shb", "Idb"}
  /\ NextRef
  /\ UNCHANGED <<iface_link, packet_id, lines>>

(* Mutant: the interfaces of the section before are kept. *)
NextSection_Keeps ==
  /\ InLoop
  /\ tool = "pcapng2json"
  /\ ref.kind = "Shb"
  /\ NextRef
  /\ UNCHANGED <<iface_link, packet_id, lines>>

(* Interface ids count from zero in each section. *)
NextSection ==
  /\ InLoop
  /\ tool = "pcapng2json"
  /\ ref.kind = "Shb"
  /\ iface_link' = <<>>
  /\ NextRef
  /\ UNCHANGED <<packet_id, lines>>

(* parse_idb: the global header of a pcap, or a block with all its fields. *)
Synthetic == file.format = "pcap"
IdbParses == Synthetic \/ ref.len >= 20
IdbLink == IF Synthetic THEN ref.type ELSE Field16(Body.link)

NextInterface ==
  /\ InLoop
  /\ tool = "pcapng2json"
  /\ ref.kind = "Idb"
  /\ iface_link' = IF IdbParses THEN Append(iface_link, IdbLink) ELSE iface_link
  /\ NextRef
  /\ UNCHANGED <<packet_id, lines>>

(* parse_epb *)
EpbParses == IF ref.kind = "PcapRecord" THEN ref.len >= 16 ELSE ref.len >= 32
EpbIface == IF ref.kind = "PcapRecord" THEN 0 ELSE Field32(Body.iface)
EpbCaplen == IF ref.kind = "PcapRecord" THEN ref.len - 16 ELSE Field32(Body.caplen)
EpbPayload == ref.off + (IF ref.kind = "PcapRecord" THEN 16 ELSE 28)

(* Mutant: the number is taken before the block is known to be a packet. *)
SkipPacket_TakesId ==
  /\ InLoop
  /\ IsPacket
  /\ ~EpbParses
  /\ packet_id' = packet_id + 1
  /\ NextRef
  /\ UNCHANGED <<iface_link, lines>>

(* A block parse_epb refuses takes no number. *)
SkipPacket ==
  /\ InLoop
  /\ IsPacket
  /\ ~EpbParses
  /\ NextRef
  /\ UNCHANGED <<iface_link, packet_id, lines>>

Ethernet == 1

(* An interface the section has not described has link type 0; the engine   *)
(* starts its walk at the Ethernet node whatever the interface.             *)
LinkType ==
  IF tool = "rules" THEN Ethernet
  ELSE IF EpbIface < Len(iface_link) THEN iface_link[EpbIface + 1] ELSE 0

HandlePacket ==
  /\ InLoop
  /\ IsPacket
  /\ EpbParses
  /\ lines' = Append(lines,
                [id |-> packet_id,
                 packet |-> [at |-> EpbPayload, caplen |-> EpbCaplen, link |-> LinkType]])
  /\ packet_id' = packet_id + 1
  /\ NextRef
  /\ UNCHANGED iface_link

(* The lines, or the tables of the engine, are printed: exit code 0. *)
Finish ==
  /\ stage = "loop"
  /\ k > Len(out)
  /\ stage' = "ok"
  /\ UNCHANGED <<scan, args, loop>>

-----------------------------------------------------------------------------
Next ==
  \/ Open \/ OpenFails \/ LoadRules \/ ScanBlocks \/ ScanReturns
  \/ SkipBlock \/ NextSection \/ NextInterface \/ SkipPacket \/ HandlePacket
  \/ Finish

(* A single thread that runs until it exits. *)
Spec == Init /\ [][Next]_vars /\ WF_vars(Next)

-----------------------------------------------------------------------------
(* The variables have their types, and as many numbers are given out as     *)
(* there are packets.                                                       *)
TypeOK ==
  /\ tool \in {"pcapng2json", "rules"}
  /\ opens \in BOOLEAN
  /\ rules_ok \in BOOLEAN
  /\ stage \in {"open", "load", "scan", "loop", "ok", "failed"}
  /\ k \in 1..(Len(out) + 1)
  /\ iface_link \in Seq(Nat)
  /\ packet_id = Len(lines)

(* The packets of a capture, said of the file alone. *)

(* The section of the block at a, and the interfaces it describes before a.  *)
(* An interface block that phase B refuses has no link type; here, as in the *)
(* code (pcapng2json.hpp:98), it takes no id either, so the interfaces       *)
(* behind it in the section move down by one.  A reader of the capture may   *)
(* expect them not to: that shift is taken for granted, not checked.         *)
SectionOf(a) == Max({b \in DOMAIN file.at : b <= a /\ file.at[b].type = Scan!ShbType})

InterfacesBefore(a) ==
  {b \in DOMAIN file.at : /\ SectionOf(a) < b /\ b < a
                          /\ file.at[b].type = Scan!IdbType
                          /\ file.at[b].len >= 20}

(* Interface n of the section is the one with n others in front of it. *)
LinkAt(a) ==
  LET described == InterfacesBefore(a)
      its == {b \in described :
                Cardinality({c \in described : c < b}) = file.body[a].iface}
  IN  IF its = {} THEN 0 ELSE file.body[Max(its)].link

PacketBlocks ==
  IF file.format = "pcap" THEN DOMAIN file.at
  ELSE {a \in DOMAIN file.at : file.at[a].type = Scan!EpbType /\ file.at[a].len >= 32}

PacketAt(a) ==
  [at |-> a + (IF file.format = "pcap" THEN 16 ELSE 28),
   caplen |-> IF file.format = "pcap" THEN file.at[a].len - 16 ELSE file.body[a].caplen,
   link |-> IF tool = "rules" THEN Ethernet
            ELSE IF file.format = "pcap" THEN file.link ELSE LinkAt(a)]

Before(a, s) == Cardinality({b \in s : b < a})

Packets ==
  [i \in 1..Cardinality(PacketBlocks) |->
     PacketAt(CHOOSE a \in PacketBlocks : Before(a, PacketBlocks) = i - 1)]

Stream == INSTANCE PacketStream WITH
  Packet <- [at : Nat, caplen : Nat, link : Nat],
  packets <- Packets,
  readable <- opens /\ rules_ok /\ Scan!Verdict(file) = "none",
  printed <- IF stage = "ok" THEN lines ELSE <<>>,
  exit <- IF stage \in {"ok", "failed"} THEN stage ELSE "running"

(* The tool reports each packet of the capture once, in order, under the    *)
(* link type its own section gives its interface, or reports nothing and    *)
(* fails; and it exits.                                                     *)
ImplementsStream == Stream!Spec
=============================================================================
