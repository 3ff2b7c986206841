---------------------------- MODULE MCTlvCursor ----------------------------
(***************************************************************************)
(* All regions of up to six bytes over small alphabets.  The option        *)
(* conventions get the pad types 0 and 1 and lengths below, at and above   *)
(* what fits; SOME/IP tags get wire types 0, 2, 4, 5, 6 and 7.  LLDP gets  *)
(* the End, port, TTL, capabilities and management address types, and      *)
(* management addresses of up to nine bytes, long enough for an interface  *)
(* number.                                                                 *)
(***************************************************************************)
EXTENDS TlvCursor

UpTo(n, bytes) == UNION {[1..l -> bytes] : l \in 0..n}

MCRegions ==
  [m \in Modes |->
     CASE m = "someip_tlv" -> UpTo(6, {0, 1, 32, 64, 80, 96, 112})
       [] m = "lldp" -> UpTo(6, {1, 2, 4, 6, 14, 16}) \cup [1..9 -> {1, 7, 16}]
       [] OTHER -> UpTo(6, {0, 1, 2, 3, 5})]
=============================================================================
