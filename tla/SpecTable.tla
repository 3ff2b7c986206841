------------------------------ MODULE SpecTable ------------------------------
(***************************************************************************)
(* spec_soa<Spec, N> (wire_spec_soa.hpp): the columns of one header's      *)
(* table, filled a PDU at a time.  A column holds what read_field makes of *)
(* the field; clear() resets the counter and leaves the rows.              *)
(***************************************************************************)
EXTENDS ProtocolSpecs

CONSTANTS
  Capacity,    \* N
  Pdus         \* Pdus[h]: captured bytes at a header h, sequences of bytes

ASSUME TableAssumption ==
  /\ Capacity \in Nat \ {0}
  /\ \A h \in DOMAIN Specs : \A pdu \in Pdus[h] : \A i \in 1..Len(pdu) : pdu[i] \in Byte

VARIABLES
  header,      \* the header of this table
  columns,     \* columns[i][k]: row i, column k
  size_,
  appended     \* history: the PDUs of the rows

vars == <<header, columns, size_, appended>>

spec == Specs[header]

Init ==
  /\ header \in DOMAIN Specs
  /\ columns = <<>>
  /\ size_ = 0
  /\ appended = <<>>

(* scatter_spec: every field of the PDU. *)
RowOf(pdu) == [k \in 1..Len(spec) |-> read_field(pdu, spec[k])]

(* Row i is written; the rows of an earlier filling stay where they are. *)
Scatter(i, row) ==
  columns' = [r \in 1..(IF i < Len(columns) THEN Len(columns) ELSE i) |->
                IF r = i THEN row ELSE columns[r]]

(* Mutant: a header cut by the end of the capture is read all the same. *)
Captured_Any(pdu) == Len(pdu) > 0

(* dispatch_node: only a PDU captured in full is handed on. *)
Captured(pdu) == spec_size(spec) <= Len(pdu)

(* append, into a table its caller has not been told is full. *)
AppendPdu ==
  /\ size_ < Capacity
  /\ \E pdu \in Pdus[header] :
       /\ Captured(pdu)
       /\ Scatter(size_ + 1, RowOf(pdu))
       /\ appended' = Append(appended, pdu)
  /\ size_' = size_ + 1
  /\ UNCHANGED header

Clear ==
  /\ size_ > 0
  /\ size_' = 0
  /\ appended' = <<>>
  /\ UNCHANGED <<header, columns>>

Next == AppendPdu \/ Clear

Spec == Init /\ [][Next]_vars

-----------------------------------------------------------------------------
(* The variables have their types, and no row was read past the bytes       *)
(* captured of its PDU.                                                     *)
TypeOK ==
  /\ header \in DOMAIN Specs
  /\ size_ \in 0..Capacity
  /\ size_ <= Len(columns) /\ Len(columns) <= Capacity
  /\ Len(appended) = size_
  /\ \A r \in 1..Len(columns) : \A k \in 1..Len(spec) :
       IF spec[k].kind = "bytes" THEN Len(columns[r][k]) = spec[k].size
       ELSE columns[r][k] = Cast(columns[r][k], uint_for_width(spec[k].width), spec[k].signed)
  /\ \A r \in 1..size_ : \A f \in FieldsOf(spec) : EndOffset(f) <= Len(appended[r])

(* Bit n of the wire, counting from the high bit of the first byte. *)
WireBit(pdu, n) == (7 - (n % 8)) \in pdu[n \div 8 + 1]

(* The bits a header's diagram gives a field: in wire order, the first the  *)
(* most significant; of a little-endian number, bit j is bit j % 8 of byte  *)
(* j \div 8.                                                                *)
WireBits(pdu, f) ==
  LET first == 8 * f.offset + f.bit_offset
  IN  IF f.order = "big"
      THEN {j \in 0..(f.width - 1) : WireBit(pdu, first + f.width - 1 - j)}
      ELSE {j \in 0..(f.width - 1) : (j % 8) \in pdu[f.offset + j \div 8 + 1]}

(* The number they stand for; the first bit of a signed field is its sign,  *)
(* and weighs against all the bits to its left.                             *)
WireValue(pdu, f) ==
  IF f.kind = "bytes" THEN SubSeq(pdu, f.offset + 1, f.offset + f.size)
  ELSE IF f.signed /\ WireBit(pdu, 8 * f.offset) THEN WireBits(pdu, f) \cup (f.width..63)
  ELSE WireBits(pdu, f)

(* Every row in use holds the values of its own PDU, field by field, signed   *)
(* ones with their sign, whatever the table held before it was cleared.       *)
ColumnsExact ==
  \A r \in 1..size_ : \A k \in 1..Len(spec) :
    columns[r][k] = WireValue(appended[r], spec[k])

(* A predicate of the rule engine reads, by the name of a field, the bits   *)
(* that stand in the column of that name.  For the two signed columns       *)
(* (gptp.log_message_interval, ptp_announce.current_utc_offset) the bits    *)
(* are all that agrees: the engine compares them as an unsigned number, 255 *)
(* where the column has -1, although dpar.hpp:51 says that its reader       *)
(* mirrors read_field exactly.                                              *)
CatalogAgrees ==
  header \in ToSet(kL2L3NodeNames) =>
    \A r \in 1..size_ : \A k \in 1..Len(spec) :
      spec[k].kind # "bytes" =>
        LET entry == find_field(build_l2l3_catalog, header, spec[k].tag)
        IN  read_field_runtime(appended[r], entry.ref) =
              columns[r][k] \cap (0..(spec[k].width - 1))

(* The overlay struct of the same header has a column of that name with the *)
(* same value ("byte-identical", protocol_specs.hpp, protocol_specs_ptp.hpp). *)
OverlayAgrees ==
  header \in DOMAIN Overlays =>
    \A r \in 1..size_ : \A k \in 1..Len(spec) :
      [tag |-> spec[k].tag, value |-> columns[r][k]]
        \in OverlayColumns(appended[r], Overlays[header])

(* An Announce read whole and as header and body: the body's offsets are    *)
(* the message's less the header's 34 bytes.                                *)
BodyAgrees ==
  header = "announce" =>
    \A r \in 1..size_ : \A f \in FieldsOf(Specs.ptp_announce) :
      \E k \in 1..Len(spec) :
        /\ spec[k].tag = f.tag
        /\ read_field(SubSeq(appended[r], 35, Len(appended[r])), f) = columns[r][k]

(* All readers of a header find the same values in the same bytes, the rule *)
(* engine the same bits.                                                    *)
ReadersAgree == CatalogAgrees /\ OverlayAgrees /\ BodyAgrees
=============================================================================
