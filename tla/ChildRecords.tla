---------------------------- MODULE ChildRecords ----------------------------
(***************************************************************************)
(* The variable-length children of a header: IPv4 options                  *)
(* (ipv4_children.hpp), the options of IPv6 extension headers and the      *)
(* segments and TLVs of an SRH (ipv6_children.hpp), the entries and        *)
(* options of a SOME/IP-SD message (someip_sd.hpp).                        *)
(*                                                                         *)
(* One header is visited three times: by the count pass, by the scatter    *)
(* pass that writes the rows the count pass made room for, both over the   *)
(* bytes that were captured, and by a decoder that sees the packet whole.  *)
(* All three read the same bytes; a record is known by how many bytes it   *)
(* says it takes.  What one call of tlv_cursor::next does with the bytes   *)
(* is in TlvCursor.                                                        *)
(***************************************************************************)
EXTENDS Integers, Sequences, FiniteSets

CONSTANTS
  Off,          \* where in the packet the header starts
  Headers,      \* the headers: kind and the length fields they carry
  Sizes,        \* captured sizes of the packet
  Whole,        \* its size on the wire
  RecordSizes,  \* bytes a record may say it takes
  IndexMod      \* row indices are unsigned modulo IndexMod (2^8)

Kinds == {"ipv4", "opt", "srh", "sd"}
Tables == {"seg", "opt", "entry", "option"}
Visits == {"count", "scatter", "whole"}
Endpoints == {"none", "v4", "v6"}

FixedSize == [ipv4 |-> 20, opt |-> 2, srh |-> 8, sd |-> 16]

(* len: what the header says it takes, in bytes; n: segments, or the bytes *)
(* of the entries array; olen: the options_length word.                    *)
ASSUME ConstantsAssumption ==
  /\ Off \in Nat
  /\ Whole \in Nat
  /\ IndexMod \in Nat \ {0}
  /\ RecordSizes \subseteq Nat
  /\ \A h \in Headers :
       /\ h.kind \in Kinds
       /\ h.len \in Nat /\ h.n \in Nat /\ h.olen \in Nat
       /\ h.message \in BOOLEAN
       /\ Off + FixedSize[h.kind] <= Whole
  /\ \A s \in Sizes : s \in Nat /\ s <= Whole

VARIABLES
  hdr,     \* the header
  size,    \* size[v]: the bytes visit v may see
  visit,   \* the visit under way
  pc,      \* "enter", "segments", "tlvs", "entries", "options" or "done"
  at,      \* the position in the packet
  i,       \* the loop index
  recs,    \* the records at the positions read so far
  counts,  \* the rows the count pass counted, per table
  rows     \* rows[v]: the rows visit v wrote, in order

vars == <<hdr, size, visit, pc, at, i, recs, counts, rows>>

Min2(a, b) == IF a <= b THEN a ELSE b

(* The records of a header: a TLV of n bytes, a lone byte (NOP, Pad1), the *)
(* lone byte that ends IPv4 options, or an SD option of n bytes behind its *)
(* type octet, whose type may announce an endpoint.                        *)
Record ==
  IF hdr.kind = "sd"
  THEN [n : RecordSizes, lone : {FALSE}, last : {FALSE}, endpoint : Endpoints]
  ELSE [n : RecordSizes, lone : {FALSE}, last : {FALSE}, endpoint : {"none"}]
         \cup [n : {1}, lone : {TRUE}, last : {FALSE, hdr.kind = "ipv4"}, endpoint : {"none"}]

Init ==
  /\ hdr \in Headers
  /\ \E s \in Sizes :
       /\ Off + FixedSize[hdr.kind] <= s   \* the walk reports no header that does not fit
       /\ size = [v \in Visits |-> IF v = "whole" THEN Whole ELSE s]
  /\ visit = "count"
  /\ pc = "enter"
  /\ at = Off
  /\ i = 0
  /\ recs = <<>>
  /\ counts = [t \in Tables |-> 0]
  /\ rows = [v \in Visits |-> <<>>]

-----------------------------------------------------------------------------
(* Where the header ends: by its own length, but not past the packet. *)
end == Min2(Off + hdr.len, size[visit])

Goto(label, position) ==
  /\ pc' = label
  /\ at' = position
  /\ i' = 0
  /\ UNCHANGED <<hdr, size, visit, recs, counts, rows>>

Leave == Goto("done", at)

(* Mutant: the count pass leaves out the TLVs of an SRH. *)
CountRow_NoSrhTlv(table) ==
  /\ counts' = IF hdr.kind = "srh" /\ table = "opt" THEN counts
               ELSE [counts EXCEPT ![table] = @ + 1]
  /\ rows' = rows

(* The callback of the count pass: ++c. *)
CountRow(table) ==
  /\ counts' = [counts EXCEPT ![table] = @ + 1]
  /\ rows' = rows

(* The callback of the other passes: the row goes behind the ones before. *)
WriteRow(row) ==
  /\ rows' = [rows EXCEPT ![visit] = Append(@, row)]
  /\ counts' = counts

Emit(row) == IF visit = "count" THEN CountRow(row.table) ELSE WriteRow(row)

Row(table, n, endpoint) ==
  [table |-> table, at |-> at, n |-> n, index |-> i % IndexMod, endpoint |-> endpoint]

SegmentRow == Row("seg", 16, 0)
OptRow(n) == Row("opt", n, 0)
EntryRow == Row("entry", 16, 0)
OptionRow(n, endpoint) == Row("option", 3 + n, endpoint)

(* The loop goes on behind a child of n bytes. *)
StepOver(n) ==
  /\ at' = at + n
  /\ i' = i + 1
  /\ UNCHANGED <<hdr, size, visit, pc>>

(* The record at the current position, the same for every visit. *)
Read(r) ==
  /\ r \in Record
  /\ \A k \in 1..Len(recs) : recs[k].at = at => recs[k].rec = r
  /\ recs' = IF \E k \in 1..Len(recs) : recs[k].at = at
             THEN recs
             ELSE Append(recs, [at |-> at, rec |-> r])

-----------------------------------------------------------------------------
(* for_each_ipv4_opt and for_each_opt: the options behind the fixed part. *)
EnterOptions ==
  /\ pc = "enter"
  /\ hdr.kind \in {"ipv4", "opt"}
  /\ LET start == Off + FixedSize[hdr.kind]
     IN  IF (hdr.kind = "ipv4" /\ hdr.len <= 20) \/ start >= end
         THEN Leave
         ELSE Goto("tlvs", start)

(* for_each_srh_child: the segment list behind the fixed part. *)
EnterSrh ==
  /\ pc = "enter"
  /\ hdr.kind = "srh"
  /\ Goto("segments", Off + 8)

(* repeat_at: segment i, if it is one and fits. *)
SegmentFits == i < hdr.n /\ at + 16 <= end

Segment ==
  /\ pc = "segments"
  /\ SegmentFits
  /\ Emit(SegmentRow)
  /\ StepOver(16)
  /\ UNCHANGED recs

(* The TLVs start behind the segments the header claims, fit or not. *)
TlvStart == Off + 8 + 16 * hdr.n

SegmentsEnd ==
  /\ pc = "segments"
  /\ ~SegmentFits
  /\ IF TlvStart < end THEN Goto("tlvs", TlvStart) ELSE Leave

(* tlv_cursor::next returns a record, or not. *)
TlvFits(r) == r.lone \/ (at + 2 <= end /\ r.n >= 2 /\ at + r.n <= end)

Tlv(r) ==
  /\ pc = "tlvs"
  /\ at < end
  /\ Read(r)
  /\ TlvFits(r)
  /\ Emit(OptRow(IF r.lone THEN 1 ELSE r.n))
  /\ StepOver(IF ~r.lone THEN r.n
              ELSE IF r.last THEN end - at ELSE 1)

TlvStop(r) ==
  /\ pc = "tlvs"
  /\ at < end
  /\ Read(r)
  /\ ~TlvFits(r)
  /\ pc' = "done"
  /\ UNCHANGED <<hdr, size, visit, at, i, counts, rows>>

TlvsEnd ==
  /\ pc = "tlvs"
  /\ at >= end
  /\ Leave

-----------------------------------------------------------------------------
(* for_each_sd_child *)
Entries == Off + 16 + 8

EnterSd ==
  /\ pc = "enter"
  /\ hdr.kind = "sd"
  /\ IF Off + 16 > size[visit] \/ ~hdr.message \/ Entries > end
     THEN Leave
     ELSE Goto("entries", Entries)

(* Entries that are there in full: entries_len, clamped to the message. *)
EntryCount == (Min2(Entries + hdr.n, end) - Entries) \div 16

Entry ==
  /\ pc = "entries"
  /\ i < EntryCount
  /\ Emit(EntryRow)
  /\ StepOver(16)
  /\ UNCHANGED recs

(* Mutant: it is looked for behind the entries that were there. *)
OptionsWord_Found == Entries + 16 * EntryCount

(* The options_length word follows the entries as declared, not as clamped. *)
OptionsWord == Entries + hdr.n

EntriesEnd ==
  /\ pc = "entries"
  /\ i >= EntryCount
  /\ IF OptionsWord + 4 > end THEN Leave ELSE Goto("options", OptionsWord + 4)

OptionsEnd == Min2(OptionsWord + 4 + hdr.olen, end)

(* Mutant: fields that are not there are marked, not zero. *)
EndpointEnd_Marked(r) ==
  LET last == at + (IF r.endpoint = "v4" THEN 12 ELSE 24)
  IN  IF r.endpoint = "none" \/ last > size[visit] THEN -1 ELSE last

(* sd_decode_endpoint: where the endpoint's last byte would be, if before  *)
(* the end of the packet; 0 when the fields stay zero.                     *)
EndpointEnd(r) ==
  LET last == at + (IF r.endpoint = "v4" THEN 12 ELSE 24)
  IN  IF r.endpoint = "none" \/ last > size[visit] THEN 0 ELSE last

(* An option takes its length field, which counts what follows the type    *)
(* octet, and the three bytes in front.                                    *)
OptionFits(r) == at + 3 + r.n <= OptionsEnd

Option(r) ==
  /\ pc = "options"
  /\ at + 3 <= OptionsEnd
  /\ Read(r)
  /\ OptionFits(r)
  /\ Emit(OptionRow(r.n, EndpointEnd(r)))
  /\ StepOver(3 + r.n)

(* Mutant: the walk does not leave a truncated option. *)
OptionStop_Spins(r) ==
  /\ pc = "options"
  /\ at + 3 <= OptionsEnd
  /\ Read(r)
  /\ ~OptionFits(r)
  /\ UNCHANGED <<hdr, size, visit, pc, at, i, counts, rows>>

OptionStop(r) ==
  /\ pc = "options"
  /\ at + 3 <= OptionsEnd
  /\ Read(r)
  /\ ~OptionFits(r)
  /\ pc' = "done"
  /\ UNCHANGED <<hdr, size, visit, at, i, counts, rows>>

OptionsDone ==
  /\ pc = "options"
  /\ at + 3 > OptionsEnd
  /\ Leave

-----------------------------------------------------------------------------
(* The next pass over the same header. *)
NextVisit ==
  /\ pc = "done"
  /\ visit # "whole"
  /\ visit' = IF visit = "count" THEN "scatter" ELSE "whole"
  /\ pc' = "enter"
  /\ at' = Off
  /\ i' = 0
  /\ UNCHANGED <<hdr, size, recs, counts, rows>>

Next ==
  \/ EnterOptions \/ EnterSrh \/ EnterSd
  \/ Segment \/ SegmentsEnd
  \/ \E r \in Record : Tlv(r) \/ TlvStop(r)
  \/ TlvsEnd
  \/ Entry \/ EntriesEnd
  \/ \E r \in Record : Option(r) \/ OptionStop(r)
  \/ OptionsDone
  \/ NextVisit

(* Each pass is one straight call. *)
Spec == Init /\ [][Next]_vars /\ WF_vars(Next)

-----------------------------------------------------------------------------
RowType == [table : Tables, at : Nat, n : Nat, index : 0..(IndexMod - 1), endpoint : Nat]

(* The types of the state. *)
TypeOK ==
  /\ hdr \in Headers
  /\ size \in [Visits -> Sizes \cup {Whole}]
  /\ visit \in Visits
  /\ pc \in {"enter", "segments", "tlvs", "entries", "options", "done"}
  /\ at \in Nat
  /\ i \in Nat
  /\ recs \in Seq([at : Nat, rec : Record])
  /\ counts \in [Tables -> Nat]
  /\ rows \in [Visits -> Seq(RowType)]

(* The bytes of the packet that hold the children of a table, by the       *)
(* header's own length fields.                                             *)
Claimed(table) ==
  LET array == [seg |-> [from |-> Off + 8, to |-> Off + 8 + 16 * hdr.n],
                entry |-> [from |-> Off + 24, to |-> Off + 24 + hdr.n],
                option |-> [from |-> Off + 28 + hdr.n, to |-> Off + 28 + hdr.n + hdr.olen],
                opt |-> [from |-> Off + FixedSize[hdr.kind]
                                    + (IF hdr.kind = "srh" THEN 16 * hdr.n ELSE 0),
                         to |-> Off + hdr.len]]
  IN  array[table]

(* Every child lies in the bytes its visit may see, in its header and in   *)
(* the array it belongs to: "clamped to the real packet end (and to the SD *)
(* region's own length fields)", someip_sd.hpp:138.  Only the first half   *)
(* of that holds of the endpoint columns of an SD option: they are read    *)
(* from a fixed place in it, whatever its length (sd_decode_endpoint), so  *)
(* their bytes are in the packet but need not be the option's, nor in the  *)
(* options array.                                                          *)
ChildrenInside ==
  \A v \in Visits : \A k \in 1..Len(rows[v]) :
    LET r == rows[v][k]
    IN  /\ r.at + r.n <= size[v]
        /\ r.at + r.n <= Off + hdr.len
        /\ Claimed(r.table).from <= r.at
        /\ r.at + r.n <= Claimed(r.table).to
        /\ r.endpoint <= size[v]

(* Children come in the order of the packet and share no byte. *)
ChildrenDisjoint ==
  \A v \in Visits : \A k \in 2..Len(rows[v]) :
    rows[v][k - 1].at + rows[v][k - 1].n <= rows[v][k].at

(* Each child has bytes of its own, the endpoint columns left aside. *)
ChildrenApart == ChildrenInside /\ ChildrenDisjoint

(* The scatter pass never writes more rows to a table than the count pass  *)
(* made room for, and ends having filled it: "count == scattered rows      *)
(* exactly".                                                               *)
CountsExact ==
  LET scattered == rows["scatter"]
      written(t) == Cardinality({k \in 1..Len(scattered) : scattered[k].table = t})
  IN  \A t \in Tables :
        /\ visit # "count" => written(t) <= counts[t]
        /\ visit = "whole" => written(t) = counts[t]

(* A capture that cuts the packet short loses children from the end and    *)
(* changes none: what it yields is what the whole packet starts with.  The *)
(* exception is again the endpoint of an option too short to hold it: it   *)
(* is read behind the option, and is zero when the cut is there.           *)
CutIsPrefix ==
  visit = "whole" /\ pc = "done" =>
    LET cut == rows["scatter"]
        whole == rows["whole"]
    IN  /\ Len(cut) <= Len(whole)
        /\ \A k \in 1..Len(cut) :
             /\ cut[k].table = whole[k].table
             /\ cut[k].at = whole[k].at
             /\ cut[k].index = whole[k].index
             /\ cut[k].n = whole[k].n
             /\ whole[k].endpoint <= whole[k].at + whole[k].n =>
                  cut[k].endpoint = whole[k].endpoint

(* The children found are those of the header, as far as it was captured,  *)
(* whatever its length fields claim.  Of endpoint columns it says this for *)
(* the options that hold their endpoint, and of the others that no byte    *)
(* behind the packet is read.                                              *)
ChildrenExact == ChildrenApart /\ CutIsPrefix

(* Every pass over every header comes to its end. *)
Terminates == <>(visit = "whole" /\ pc = "done")
=============================================================================
