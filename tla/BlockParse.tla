----------------------------- MODULE BlockParse -----------------------------
(***************************************************************************)
(* Phase B of the capture reader (pcap_blocks.hpp): parse_shb, parse_idb   *)
(* and parse_epb turn one BlockRef of the scan into a view of the block,   *)
(* next_option walks its options, and parse_epbs_bulk fills columns from   *)
(* many BlockRefs.                                                         *)
(*                                                                         *)
(* Sizes and offsets are the real ones, in bytes.  A 32-bit word is a      *)
(* number below W, so that arithmetic on lengths wraps as in the code;     *)
(* file offsets are 64 bits wide and do not.  A block is known by its      *)
(* BlockRef and the two things in its bytes that steer the parse: whether  *)
(* it starts with a pcap magic, and its caplen field.  Its options are     *)
(* read from the file as the walk reaches them.                            *)
(***************************************************************************)
EXTENDS Integers, Sequences

CONSTANTS
  W,           \* words are below W; 2^32 in the code
  Blocks,      \* the BlockRefs a scan can produce, with their caplen field
  FileSizes,   \* the sizes of the byte span given to the parser
  MaxRefs,     \* the most BlockRefs given to parse_epbs_bulk
  OptLengths   \* the length fields an option may carry

Kinds == {"Shb", "Idb", "Epb", "PcapRecord", "SimplePacket", "Other"}

Frame == 8             \* type and total_len, in front of a pcapng block's body
Trailer == 4           \* the second total_len, behind it
OptionHeader == 4      \* code and length of an option
PcapHeader == 24       \* the pcap global header
RecordHeader == 16     \* a pcap record's header
EpbFixed == 20         \* the fixed fields of an EPB
ShbLeast == 28
IdbLeast == 20
EpbLeast == 32

Words == 0..(W - 1)

(* What scan_window puts in a BlockRef: a pcapng block of at least twelve  *)
(* bytes, a pcap record whose total length is cut to one word, or the pcap *)
(* global header presented as an IDB.                                      *)
ScanProduces(b) ==
  /\ b.off \in Nat
  /\ b.len \in Words
  /\ b.caplen \in Words
  /\ b.magic \in BOOLEAN
  /\ b.magic = (b.off = 0 /\ b.kind = "Idb")
  /\ b.kind \in Kinds
  /\ b.magic => b.len = PcapHeader
  /\ b.kind = "PcapRecord" =>
       \/ b.len = RecordHeader + b.caplen
       \/ b.len + W = RecordHeader + b.caplen
  /\ b.kind # "PcapRecord" => b.len >= 12

ASSUME ConstantsAssumption ==
  /\ W \in Nat /\ W >= 64 /\ W % 4 = 0
  /\ \A b \in Blocks : ScanProduces(b)
  /\ FileSizes \subseteq Nat
  /\ MaxRefs \in Nat
  /\ OptLengths \subseteq Words
  /\ \A n \in OptLengths : n + 8 < W

VARIABLES
  size,    \* bytes in the span
  fn,      \* the function called: "parse_shb", "parse_idb", "parse_epb", "bulk"
  refs,    \* the BlockRefs it is called with
  count,   \* EpbColumns::count
  i,       \* the BlockRef being parsed
  pc,      \* "enter", "options" (walking them), "row" (a bulk row) or "returned"
  ok,      \* what the call returned
  view,    \* the view being filled
  cursor,  \* the Options cursor: where its data starts and how much is left
  read,    \* the bytes the last step read: from .. to - 1
  cols     \* the rows of the columns written so far

vars == <<size, fn, refs, count, i, pc, ok, view, cursor, read, cols>>

(* A sum of two words, cut to one. *)
Wrap(n) == IF n >= W THEN n - W ELSE n

(* A difference of two words. *)
Minus(a, b) == IF a >= b THEN a - b ELSE a - b + W

pad4(n) == LET up == Wrap(n + 3) IN up - (up % 4)

block == refs[i]

(* ref.file_offset + ref.length <= file.size() *)
InFile == block.off + block.len <= size

NoOptions == [at |-> 0, size |-> 0]
NoRead == [from |-> 0, to |-> 0]
NoView == [payload |-> 0, caplen |-> 0, flags |-> 0, resol |-> 0]

Legacy(b) == b.magic \/ b.kind = "PcapRecord"

(* The BlockRefs of one scan: of one format, in the order of the file. *)
OfOneScan(s) ==
  \A j, k \in 1..Len(s) :
    /\ Legacy(s[j]) = Legacy(s[k])
    /\ j < k => s[j].off + s[j].len <= s[k].off

Init ==
  /\ size \in FileSizes
  /\ fn \in {"parse_shb", "parse_idb", "parse_epb", "bulk"}
  /\ refs \in UNION {[1..n -> Blocks] : n \in 1..MaxRefs}
  /\ OfOneScan(refs)
  /\ fn # "bulk" => Len(refs) = 1
  /\ count \in (Len(refs) - 1)..Len(refs)
  /\ i = 1
  /\ pc = "enter"
  /\ ok = TRUE
  /\ view = NoView
  /\ cursor = NoOptions
  /\ read = NoRead
  /\ cols = <<>>

-----------------------------------------------------------------------------
Return(result) ==
  /\ pc' = "returned"
  /\ ok' = result

(* parse_epbs_bulk with columns too small for the records. *)
NotPreSized ==
  /\ pc = "enter"
  /\ fn = "bulk"
  /\ count < Len(refs)
  /\ Return(FALSE)
  /\ UNCHANGED <<size, fn, refs, count, i, view, cursor, read, cols>>

Entered(f) ==
  /\ pc = "enter"
  /\ fn = f \/ (f = "parse_epb" /\ fn = "bulk" /\ count >= Len(refs))

(* A parser's checks fail: false, and from the bulk loop as well. *)
Refuse(f, accepted) ==
  /\ Entered(f)
  /\ ~accepted
  /\ Return(FALSE)
  /\ UNCHANGED <<size, fn, refs, count, i, view, cursor, read, cols>>

(* The fixed fields are read and the view filled in; the options, found at *)
(* byte a of the block, are walked next.                                   *)
Fill(f, v, fixed, options) ==
  /\ Entered(f)
  /\ view' = v
  /\ read' = [from |-> block.off, to |-> block.off + fixed]
  /\ cursor' = options
  /\ pc' = "options"
  /\ UNCHANGED <<size, fn, refs, count, i, ok, cols>>

(* Mutant: the trailing total_len is taken for options. *)
OptionsAt_WithTrailer(a) ==
  [at |-> block.off + a, size |-> Minus(block.len, a)]

(* From byte a of the block to its trailer. *)
OptionsAt(a) ==
  [at |-> block.off + a, size |-> Minus(Minus(block.len, a), Trailer)]

ShbAccepted == block.kind = "Shb" /\ InFile /\ block.len >= ShbLeast

RefuseShb == Refuse("parse_shb", ShbAccepted)

(* parse_shb: bom, versions and section_length. *)
ParseShb ==
  /\ ShbAccepted
  /\ Fill("parse_shb", NoView, Frame + 16, OptionsAt(Frame + 16))

(* The synthetic IDB over a pcap global header. *)
Synthetic == block.len = PcapHeader /\ block.magic

IdbAccepted ==
  /\ block.kind = "Idb"
  /\ InFile
  /\ Synthetic \/ block.len >= IdbLeast

RefuseIdb == Refuse("parse_idb", IdbAccepted)

ParsePcapHeader ==
  /\ IdbAccepted
  /\ Synthetic
  /\ Fill("parse_idb", NoView, PcapHeader, NoOptions)

ParseIdb ==
  /\ IdbAccepted
  /\ ~Synthetic
  /\ Fill("parse_idb", NoView, Frame + 8, OptionsAt(Frame + 8))

(* Mutant: a record is accepted whatever its length. *)
RecordAccepted_AnyLength ==
  /\ block.kind = "PcapRecord"
  /\ InFile

RecordAccepted ==
  /\ block.kind = "PcapRecord"
  /\ InFile
  /\ block.len >= RecordHeader

EpbAccepted ==
  /\ block.kind = "Epb"
  /\ InFile
  /\ block.len >= EpbLeast

RefuseEpb == Refuse("parse_epb", RecordAccepted \/ EpbAccepted)

(* A pcap record has no options, and its flags are zero. *)
ParseRecord ==
  /\ RecordAccepted
  /\ Fill("parse_epb",
          [payload |-> block.off + RecordHeader, caplen |-> block.caplen,
           flags |-> 0, resol |-> 0],
          RecordHeader, NoOptions)

(* opt_off of parse_epb: where an EPB's options start. *)
EpbOptOff(caplen) == Wrap(Frame + EpbFixed + pad4(caplen))

(* An EPB's view before its options are walked. *)
EpbView ==
  [payload |-> block.off + Frame + EpbFixed, caplen |-> block.caplen,
   flags |-> 0, resol |-> 0]

ParseEpb ==
  /\ EpbAccepted
  /\ Fill("parse_epb", EpbView, Frame + EpbFixed,
          IF Wrap(EpbOptOff(block.caplen) + Trailer) <= block.len
          THEN OptionsAt(EpbOptOff(block.caplen))
          ELSE NoOptions)

-----------------------------------------------------------------------------
(* The bytes an option takes. *)
Advance(length) == OptionHeader + pad4(length)

(* What the walk keeps of an option: if_tsresol in an IDB, epb_flags in an *)
(* EPB; the value is known by where it stands in the file.                 *)
Keep(code, length) ==
  [view EXCEPT
     !.resol = IF fn = "parse_idb" /\ code = 9 /\ length >= 1
               THEN cursor.at + OptionHeader ELSE @,
     !.flags = IF fn \in {"parse_epb", "bulk"} /\ code = 2 /\ length >= 4
               THEN cursor.at + OptionHeader ELSE @]

(* next_option returns an option, and the caller looks at it. *)
NextOption(code, length) ==
  /\ pc = "options"
  /\ cursor.size >= OptionHeader
  /\ code # 0
  /\ Advance(length) <= cursor.size
  /\ view' = Keep(code, length)
  /\ read' = [from |-> cursor.at, to |-> cursor.at + OptionHeader + length]
  /\ cursor' = [at |-> cursor.at + Advance(length),
                size |-> cursor.size - Advance(length)]
  /\ UNCHANGED <<size, fn, refs, count, i, pc, ok, cols>>

(* Where the walk leads when the options end: the parser's own return, or  *)
(* the row of the bulk loop.                                               *)
AfterOptions ==
  /\ pc' = IF fn = "bulk" THEN "row" ELSE "returned"
  /\ UNCHANGED <<size, fn, refs, count, i, ok, view, cursor, cols>>

(* Mutant: with a few bytes left, the walk neither advances nor ends. *)
OptionsExhausted_TailSpins ==
  /\ pc = "options"
  /\ cursor.size = 0
  /\ read' = NoRead
  /\ AfterOptions

(* next_option returns false: no room for an option header. *)
OptionsExhausted ==
  /\ pc = "options"
  /\ cursor.size < OptionHeader
  /\ read' = NoRead
  /\ AfterOptions

(* next_option returns false: opt_endofopt, or a value that does not fit. *)
OptionsStop(code, length) ==
  /\ pc = "options"
  /\ cursor.size >= OptionHeader
  /\ code = 0 \/ Advance(length) > cursor.size
  /\ read' = [from |-> cursor.at, to |-> cursor.at + OptionHeader]
  /\ AfterOptions

(* Mutant: the loop runs past its last record. *)
Row_PastEnd ==
  /\ pc = "row"
  /\ cols' = Append(cols, [payload |-> view.payload, size |-> view.caplen, flags |-> view.flags])
  /\ read' = NoRead
  /\ i' = i + 1
  /\ IF i <= Len(refs) THEN pc' = "enter" /\ ok' = ok ELSE Return(TRUE)
  /\ UNCHANGED <<size, fn, refs, count, view, cursor>>

(* parse_epbs_bulk stores the row and goes on to the next BlockRef. *)
Row ==
  /\ pc = "row"
  /\ cols' = Append(cols, [payload |-> view.payload, size |-> view.caplen, flags |-> view.flags])
  /\ read' = NoRead
  /\ IF i < Len(refs)
     THEN i' = i + 1 /\ pc' = "enter" /\ ok' = ok
     ELSE i' = i /\ Return(TRUE)
  /\ UNCHANGED <<size, fn, refs, count, view, cursor>>

Codes == {0, 2, 9, 12}

Options ==
  \/ \E code \in Codes, length \in OptLengths :
       NextOption(code, length) \/ OptionsStop(code, length)
  \/ OptionsExhausted

Parse ==
  \/ RefuseShb \/ ParseShb
  \/ RefuseIdb \/ ParsePcapHeader \/ ParseIdb
  \/ RefuseEpb \/ ParseRecord \/ ParseEpb

Next == NotPreSized \/ Parse \/ Options \/ Row

Spec == Init /\ [][Next]_vars /\ WF_vars(Next)

-----------------------------------------------------------------------------
BlockEnd(b) == b.off + b.len

(* The word arithmetic of parse_epb puts the options of this block outside *)
(* of it: 28 + pad4(caplen) is W - 4, and adding 4 gives 0.                *)
OptOffWraps(b) ==
  /\ b.kind = "Epb"
  /\ b.caplen >= W - 35
  /\ b.caplen <= W - 32

(* The types of the parser's state. *)
TypeOK ==
  /\ size \in Nat
  /\ fn \in {"parse_shb", "parse_idb", "parse_epb", "bulk"}
  /\ refs \in Seq(Blocks)
  /\ count \in Nat
  /\ i \in 1..Len(refs)
  /\ pc \in {"enter", "options", "row", "returned"}
  /\ ok \in BOOLEAN
  /\ view \in [payload : Nat, caplen : Words, flags : Nat, resol : Nat]
  /\ cursor \in [at : Nat, size : Words]
  /\ read \in [from : Nat, to : Nat]
  /\ cols \in Seq([payload : Nat, size : Words, flags : Nat])

(* Every read, of fixed fields, option headers and option values, stays in *)
(* the block being parsed and in the file, unless the caplen field makes   *)
(* the options offset wrap onto 0.                                         *)
ReadsInside ==
  read # NoRead /\ ~OptOffWraps(block) =>
    /\ block.off <= read.from
    /\ read.to <= BlockEnd(block)
    /\ read.to <= size

(* The options cursor and what is left of it always end where the trailing *)
(* total_len of the block begins: no option is taken from the trailer or   *)
(* from the next block.                                                    *)
OptionsEndAtTrailer ==
  pc = "options" /\ cursor.size > 0 /\ ~OptOffWraps(block) =>
    cursor.at + cursor.size + Trailer = BlockEnd(block)

(* The parser looks at nothing but the block it was given. *)
ParseInside == ReadsInside /\ OptionsEndAtTrailer

(* A pcap record's payload is the rest of its record and inside the file,  *)
(* also for a record so long that its total length was cut to one word.    *)
RecordPayloadInside ==
  \A k \in 1..Len(cols) :
    refs[k].kind = "PcapRecord" =>
      /\ cols[k].payload + cols[k].size = BlockEnd(refs[k])
      /\ cols[k].payload + cols[k].size <= size

(* The flags of a row were read from an epb_flags option of that row's     *)
(* block, all four bytes in front of its trailer, or are zero.             *)
FlagsOfOwnBlock ==
  \A k \in 1..Len(cols) :
    cols[k].flags # 0 /\ ~OptOffWraps(refs[k]) =>
      /\ refs[k].kind = "Epb"
      /\ refs[k].off < cols[k].flags
      /\ cols[k].flags + 4 + Trailer <= BlockEnd(refs[k])

(* What a row says of its packet comes from that packet's block. *)
RowsOfOwnBlock == RecordPayloadInside /\ FlagsOfOwnBlock

(* parse_epbs_bulk writes the rows of the records in front of the first one *)
(* that is not a packet block inside the file, in order, and says whether  *)
(* these are all; it writes nothing into columns that are too small.       *)
BulkPrefix ==
  LET Good(r) == /\ r.kind \in {"Epb", "PcapRecord"}
                 /\ r.off + r.len <= size
                 /\ r.len >= IF r.kind = "Epb" THEN EpbLeast ELSE RecordHeader
  IN  /\ \A k \in 1..Len(cols) : Good(refs[k]) /\ cols[k].size = refs[k].caplen
      /\ Len(cols) <= count
      /\ fn = "bulk" /\ pc = "returned" =>
           IF ok THEN Len(cols) = Len(refs)
           ELSE Len(refs) > count \/ ~Good(refs[Len(cols) + 1])

(* The columns hold the packets in front of the first bad block, each row   *)
(* its own block's data.                                                    *)
RowsExact == RowsOfOwnBlock /\ BulkPrefix

(* Every call returns: the options walk ends, whatever the options say. *)
Returns == <>(pc = "returned")
=============================================================================
