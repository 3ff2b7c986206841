---------------------------- MODULE PacketStream ----------------------------
(***************************************************************************)
(* What a capture tool promises: it reports the packets of its capture,    *)
(* all of them, in capture order and numbered from zero, or it reports     *)
(* nothing and fails.                                                      *)
(***************************************************************************)
EXTENDS Naturals, Sequences

CONSTANT Packet     \* what can be said of a packet

VARIABLES
  packets,    \* the packets of the capture
  readable,   \* its inputs are good to the end
  printed,    \* what the tool has printed, each with its number
  exit        \* "running", "ok" or "failed"

Numbered(seq) == [i \in 1..Len(seq) |-> [id |-> i - 1, packet |-> seq[i]]]

Init ==
  /\ packets \in Seq(Packet)
  /\ readable \in BOOLEAN
  /\ printed = <<>>
  /\ exit = "running"

Report ==
  /\ exit = "running"
  /\ readable
  /\ printed' = Numbered(packets)
  /\ exit' = "ok"
  /\ UNCHANGED <<packets, readable>>

Refuse ==
  /\ exit = "running"
  /\ ~readable
  /\ exit' = "failed"
  /\ UNCHANGED <<packets, readable, printed>>

vars == <<packets, readable, printed, exit>>

Spec == Init /\ [][Report \/ Refuse]_vars /\ WF_vars(Report \/ Refuse)
=============================================================================
