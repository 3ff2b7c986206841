------------------------------ MODULE TlvCursor ------------------------------
(***************************************************************************)
(* The record cursors over a region of packet bytes: tlv_cursor (tlv.hpp)  *)
(* in its three conventions, someip_tlv_cursor (someip_tlv.hpp), and the   *)
(* lldp_cursor of examples/lldp with the row LldpKind::emit makes of each  *)
(* record.  A step is one call of next() and, for LLDP, the body of the    *)
(* loop behind it; the caller may go on calling after next() has returned  *)
(* false.  tlv_count and someip_tlv_count are the same calls with the      *)
(* records thrown away.                                                    *)
(*                                                                         *)
(* Positions are byte offsets in the region, p = 0 at its start.  reads is *)
(* what the last call looked at: the offsets it dereferenced.              *)
(***************************************************************************)
EXTENDS Integers, Sequences

CONSTANT
  Regions     \* Regions[m]: the regions of mode m, sequences of bytes

Modes == {"ipv6_options", "ipv4_options", "raw", "someip_tlv", "lldp"}

ASSUME RegionsAssumption ==
  \A m \in Modes : \A region \in Regions[m] : region \in Seq(0..255)

VARIABLES
  pad,     \* the convention of the region
  buf,     \* its bytes
  p,       \* the cursor
  recs,    \* history: the records next() has returned
  more,    \* what the last call returned
  reads    \* offsets the last call read

vars == <<pad, buf, p, recs, more, reads>>

end == Len(buf)

(* A byte past the region is whatever the packet holds there. *)
ByteAt(i) == IF i < end THEN buf[i + 1] ELSE 0

Init ==
  /\ pad \in Modes
  /\ buf \in Regions[pad]
  /\ p = 0
  /\ recs = <<>>
  /\ more = TRUE
  /\ reads = {}

(* next() returns false and leaves the cursor where it is. *)
Stop(looked) ==
  /\ more' = FALSE
  /\ reads' = looked
  /\ UNCHANGED <<pad, buf, p, recs>>

(* next() returns a record of [p, stop) with its value at [value, +length). *)
Emit(looked, type, value, length, stop) ==
  /\ more' = TRUE
  /\ reads' = looked
  /\ recs' = Append(recs, [at |-> p, type |-> type, value |-> value,
                           length |-> length, stop |-> stop])
  /\ p' = stop
  /\ UNCHANGED <<pad, buf>>

-----------------------------------------------------------------------------
(* tlv_cursor::next *)

type == ByteAt(p)
len == ByteAt(p + 1)

Tlv == pad \in {"ipv6_options", "ipv4_options", "raw"}

(* A lone byte without length and value. *)
SingleByte ==
  \/ pad = "ipv6_options" /\ type = 0
  \/ pad = "ipv4_options" /\ type \in {0, 1}

AtEnd == Tlv /\ p >= end /\ Stop({})

(* Pad1, NOP; EOOL also ends the list: what follows it is padding. *)
Single ==
  /\ Tlv
  /\ p < end
  /\ SingleByte
  /\ Emit({p}, type, p + 1, 0,
          IF pad = "ipv4_options" /\ type = 0 THEN end ELSE p + 1)

(* No room for the length octet. *)
NoLength ==
  /\ Tlv
  /\ p < end
  /\ ~SingleByte
  /\ p + 2 > end
  /\ Stop({p})

(* An IPv4 length counts the whole option, the others the value alone. *)
WholeLength == IF pad = "ipv4_options" THEN len ELSE len + 2

(* Mutant: the value need not fit. *)
RecordFits_HeaderOnly == WholeLength >= 2

RecordFits == WholeLength >= 2 /\ p + WholeLength <= end

Record ==
  /\ Tlv
  /\ p + 2 <= end
  /\ ~SingleByte
  /\ RecordFits
  /\ Emit({p, p + 1}, type, p + 2, WholeLength - 2, p + WholeLength)

(* Mutants: a malformed record does not end the loop; the cursor has moved  *)
(* past the header when the check fails.                                    *)
Malformed_GoesOn ==
  /\ Tlv
  /\ p + 2 <= end
  /\ ~SingleByte
  /\ ~RecordFits
  /\ reads' = {p, p + 1}
  /\ UNCHANGED <<pad, buf, p, recs, more>>

Malformed_Moves ==
  /\ Tlv
  /\ p + 2 <= end
  /\ ~SingleByte
  /\ ~RecordFits
  /\ more' = FALSE
  /\ reads' = {p, p + 1}
  /\ p' = p + 2
  /\ UNCHANGED <<pad, buf, recs>>

Malformed ==
  /\ Tlv
  /\ p + 2 <= end
  /\ ~SingleByte
  /\ ~RecordFits
  /\ Stop({p, p + 1})

-----------------------------------------------------------------------------
(* someip_tlv_cursor::next *)

SomeIp == pad = "someip_tlv"

(* Bits 14-12 of the tag; the reserved bit 15 is ignored. *)
WireType == (ByteAt(p) \div 16) % 8
DataId == (ByteAt(p) % 16) * 256 + ByteAt(p + 1)

(* Bytes of the length field; a base type (0..3) has none. *)
LengthWidth == IF WireType < 5 THEN 0 ELSE <<1, 2, 4>>[WireType - 4]

ValueAt == p + 2 + LengthWidth

(* The length field, big-endian. *)
LengthField ==
  IF LengthWidth = 1 THEN ByteAt(p + 2)
  ELSE IF LengthWidth = 2 THEN ByteAt(p + 2) * 256 + ByteAt(p + 3)
  ELSE ByteAt(p + 2) * 16777216 + ByteAt(p + 3) * 65536
         + ByteAt(p + 4) * 256 + ByteAt(p + 5)

ValueLength == IF WireType < 4 THEN <<1, 2, 4, 8>>[WireType + 1] ELSE LengthField

TagBytes == {p, p + 1}
MemberHeader == p..(ValueAt - 1)

NoTag == SomeIp /\ p + 2 > end /\ Stop({})

(* Wire type 4: the width of the length field is not on the wire. *)
ConfigWidth ==
  /\ SomeIp
  /\ p + 2 <= end
  /\ WireType = 4
  /\ Stop(TagBytes)

NoLengthField ==
  /\ SomeIp
  /\ p + 2 <= end
  /\ WireType # 4
  /\ ValueAt > end
  /\ Stop(TagBytes)

ValueTooLong ==
  /\ SomeIp
  /\ p + 2 <= end
  /\ WireType # 4
  /\ ValueAt <= end
  /\ ValueAt + ValueLength > end
  /\ Stop(MemberHeader)

Member ==
  /\ SomeIp
  /\ p + 2 <= end
  /\ WireType # 4
  /\ ValueAt <= end
  /\ ValueAt + ValueLength <= end
  /\ Emit(MemberHeader, DataId, ValueAt, ValueLength, ValueAt + ValueLength)

-----------------------------------------------------------------------------
(* lldp_cursor::next and the loop body of LldpKind::emit *)

Lldp == pad = "lldp"

(* The packed header: seven bits of type, nine of length. *)
LldpType == ByteAt(p) \div 2
LldpLength == (ByteAt(p) % 2) * 256 + ByteAt(p + 1)

HeadBytes == 32     \* value_head: a copy of the first bytes of the value

(* Where the interface subtype of a management address stands in its value: *)
(* behind the length octet and what that octet counts.                      *)
AfterAddr == 1 + ByteAt(p + 2)

(* Mutant: the address is taken to be as long as it claims. *)
MgmtReads_NoBound ==
  {0} \cup (IF AfterAddr >= 2 THEN {1, AfterAddr} ELSE {})

(* decode_typed of a management address: which octets of the value it reads. *)
MgmtReads ==
  {0} \cup
  (IF AfterAddr >= 2 /\ LldpLength >= AfterAddr THEN {1} ELSE {}) \cup
  (IF AfterAddr >= 2 /\ LldpLength >= AfterAddr + 1 THEN {AfterAddr} ELSE {}) \cup
  (IF AfterAddr >= 2 /\ LldpLength >= AfterAddr + 5
   THEN (AfterAddr + 1)..(AfterAddr + 4) ELSE {})

(* Octets of the value that make a row: the subtype of the two ids, the     *)
(* head, and the typed columns of TTL (3), capabilities (7) and management  *)
(* address (8), each if the value is long enough for it.                    *)
RowReads ==
  (0..((IF LldpLength < HeadBytes THEN LldpLength ELSE HeadBytes) - 1)) \cup
  (IF LldpType \in {1, 2} /\ LldpLength >= 1 THEN {0} ELSE {}) \cup
  (IF LldpType = 3 /\ LldpLength >= 2 THEN 0..1 ELSE {}) \cup
  (IF LldpType = 7 /\ LldpLength >= 4 THEN 0..3 ELSE {}) \cup
  (IF LldpType = 8 /\ LldpLength >= 1 THEN MgmtReads ELSE {})

LldpNoHeader == Lldp /\ p + 2 > end /\ Stop({})

(* The End TLV, or a value that would run past the region. *)
LldpStops ==
  /\ Lldp
  /\ p + 2 <= end
  /\ LldpType = 0 \/ p + 2 + LldpLength > end
  /\ Stop({p, p + 1})

LldpTlv ==
  /\ Lldp
  /\ p + 2 <= end
  /\ LldpType # 0
  /\ p + 2 + LldpLength <= end
  /\ Emit({p, p + 1} \cup {p + 2 + i : i \in RowReads},
          LldpType, p + 2, LldpLength, p + 2 + LldpLength)

-----------------------------------------------------------------------------
Next ==
  \/ AtEnd \/ Single \/ NoLength \/ Record \/ Malformed
  \/ NoTag \/ ConfigWidth \/ NoLengthField \/ ValueTooLong \/ Member
  \/ LldpNoHeader \/ LldpStops \/ LldpTlv

(* The consumers all loop on while (c.next(r)). *)
Spec == Init /\ [][Next]_vars /\ WF_vars(Next)

-----------------------------------------------------------------------------
RecordType == [at : Nat, type : Nat, value : Nat, length : Nat, stop : Nat]

(* The variables have their types; the cursor stays inside the region. *)
TypeOK ==
  /\ pad \in Modes
  /\ buf \in Seq(0..255)
  /\ p \in 0..end
  /\ recs \in Seq(RecordType)
  /\ more \in BOOLEAN
  /\ reads \subseteq Nat

(* No call reads a byte past the end of the region, whatever bytes are in   *)
(* it ("never reads out of bounds", tlv.hpp, someip_tlv.hpp), and a record  *)
(* is made of its own bytes: none behind the place the cursor moves to.     *)
ReadsInside == \A i \in reads : i < end /\ (more => i < p)

(* The records lie one behind the other from the start of the region, each  *)
(* value inside its own record: a byte is handed out at most once and none  *)
(* before the last record is skipped.                                       *)
RecordsTile ==
  /\ \A i \in 1..Len(recs) :
       /\ recs[i].at = (IF i = 1 THEN 0 ELSE recs[i - 1].stop)
       /\ recs[i].at < recs[i].value
       /\ recs[i].value <= recs[i].stop
       /\ recs[i].value + recs[i].length <= recs[i].stop
       /\ recs[i].stop <= end
  /\ p = IF recs = <<>> THEN 0 ELSE recs[Len(recs)].stop

(* A record is read from its own bytes, and the records tile the region. *)
RecordsSafe == ReadsInside /\ RecordsTile

(* "After false, the cursor is exhausted": no later call returns a record   *)
(* or moves the cursor.                                                     *)
Exhausted == [][~more => (~more' /\ p' = p /\ recs' = recs)]_vars

(* A loop on next() comes to its end on every region. *)
Terminates == <>[]~more
=============================================================================
