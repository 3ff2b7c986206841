----------------------------- MODULE ScanWindow -----------------------------
(***************************************************************************)
(* Phase A of the capture reader: scan_window (pcap_blocks.hpp), called    *)
(* again and again by a driver that receives a capture in chunks and       *)
(* slides its window by the bytes each call consumed.                      *)
(*                                                                         *)
(* A file is what its writer put in it: a format, a size, and at[a], the   *)
(* header of the block or record that starts at byte a.  Sizes are the     *)
(* real ones, in bytes.  A header field read in the wrong byte order comes *)
(* back byte-swapped, as in the code.                                      *)
(***************************************************************************)
EXTENDS Integers, Sequences

CONSTANT Files     \* the captures a scan may be given

ShbType == 168627466      \* 0x0A0D0D0A, the same in both byte orders
IdbType == 1
SpbType == 3
EpbType == 6

PcapHeader == 24          \* the pcap global header
RecordHeader == 16        \* a pcap record's header
BlockFrame == 12          \* the least a pcapng block occupies
MaxBlock == 2147483647    \* bound: records of 4 GB, which a BlockRef cannot hold, are left out

(* A block as written: its type field, total length and byte order.  For a *)
(* pcap record the type is its link type.                                   *)
Block == [type : Nat, len : Nat, le : BOOLEAN]

(* The writer's side of the format: from one complete block the next one    *)
(* starts where it ends, blocks do not overlap, and only an SHB changes the *)
(* byte order.                                                              *)
WellFormed(f) ==
  /\ f.format \in {"pcapng", "pcap", "other"}
  /\ f.size \in Nat
  /\ f.le \in BOOLEAN
  /\ f.link \in Nat
  /\ DOMAIN f.at \subseteq 0..f.size
  /\ \A a \in DOMAIN f.at :
       /\ f.at[a] \in Block
       /\ f.at[a].len <= MaxBlock
       /\ (f.format = "pcap") =>
            /\ f.at[a].len >= RecordHeader
            /\ f.at[a].le = f.le
            /\ f.at[a].type = f.link
       /\ LET next == a + f.at[a].len
          IN  /\ (f.at[a].len >= BlockFrame /\ next + BlockFrame <= f.size)
                   => next \in DOMAIN f.at
              /\ (next \in DOMAIN f.at /\ f.at[next].type # ShbType)
                   => f.at[next].le = f.at[a].le
  /\ \A a, b \in DOMAIN f.at : a < b => a + f.at[a].len <= b
  /\ f.format = "pcapng" =>
       /\ f.size >= BlockFrame => 0 \in DOMAIN f.at
       /\ 0 \in DOMAIN f.at => f.at[0].type = ShbType
  /\ f.format = "pcap" =>
       /\ PcapHeader + RecordHeader <= f.size => PcapHeader \in DOMAIN f.at
       /\ \A a \in DOMAIN f.at : a >= PcapHeader

ASSUME FilesAssumption == \A f \in Files : WellFormed(f)

VARIABLES
  file,    \* the capture being read
  avail,   \* bytes of it the driver has received
  base,    \* where in the file the driver's window starts
  st,      \* ScanState, carried from call to call
  phase,   \* "driver", "walk" (inside a call's loop) or "done"
  eof,     \* the call's at_eof argument
  pos,     \* the call's position in the window
  out,     \* the BlockRefs; win notes the window each one is relative to
  err      \* "none", or the error the last call returned false with

vars == <<file, avail, base, st, phase, eof, pos, out, err>>

WindowSize == avail - base

(* rd32 in the wrong order: the bytes in reverse. *)
Swap32(v) ==
  (v % 256) * 16777216 + ((v \div 256) % 256) * 65536 +
  ((v \div 65536) % 256) * 256 + v \div 16777216

(* What is in the file at byte a; inside a block's body, zero bytes. *)
HeaderAt(a) ==
  IF a \in DOMAIN file.at THEN file.at[a] ELSE [type |-> 0, len |-> 0, le |-> TRUE]

ReadType(b, le) == IF b.le = le THEN b.type ELSE Swap32(b.type)
ReadLen(b, le) == IF b.le = le THEN b.len ELSE Swap32(b.len)

classify_block_type(type) ==
  CASE type = ShbType -> "Shb"
    [] type = IdbType -> "Idb"
    [] type = EpbType -> "Epb"
    [] type = SpbType -> "SimplePacket"
    [] OTHER -> "Other"

Ref(off, len, type, kind, le) ==
  [win |-> base, off |-> off, len |-> len, type |-> type, kind |-> kind, le |-> le]

Init ==
  /\ file \in Files
  /\ avail = 0
  /\ base = 0
  /\ st = [started |-> FALSE, is_pcapng |-> FALSE, little_endian |-> TRUE, link |-> 0]
  /\ phase = "driver"
  /\ eof = FALSE
  /\ pos = 0
  /\ out = <<>>
  /\ err = "none"

-----------------------------------------------------------------------------
(* The driver: not part of the repository, used as scan_window's comment    *)
(* says.  More bytes arrive; the end of the file is known only once all are *)
(* there.                                                                   *)
Deliver ==
  /\ phase = "driver"
  /\ \E n \in (avail + 1)..file.size : avail' = n
  /\ UNCHANGED <<file, base, st, phase, eof, pos, out, err>>

(* scan_window is called on the window [base, avail). *)
Called(atEof) ==
  /\ phase = "driver"
  /\ atEof => avail = file.size

(* The call reaches the head of its loop at offset p of the window. *)
EnterWalk(atEof, p) ==
  /\ phase' = "walk"
  /\ pos' = p
  /\ eof' = atEof
  /\ UNCHANGED <<file, avail, base, err>>

(* The call returns false: the driver stops. *)
Fail(message) ==
  /\ err' = message
  /\ phase' = "done"

(* The format is known from an earlier call. *)
CallStarted(atEof) ==
  /\ Called(atEof)
  /\ st.started
  /\ EnterWalk(atEof, 0)
  /\ UNCHANGED <<st, out>>

(* Mutant: a capture that ends too early is waited for forever. *)
TooShort_Waits(atEof, message) == UNCHANGED vars

(* Fewer bytes than the format needs: ask for more, unless at_eof. *)
TooShort(atEof, message) ==
  IF atEof
  THEN Fail(message) /\ UNCHANGED <<file, avail, base, st, eof, pos, out>>
  ELSE UNCHANGED vars

DetectTooShort(atEof) ==
  /\ Called(atEof)
  /\ ~st.started
  /\ WindowSize < 4
  /\ TooShort(atEof, "file too short")

DetectPcapng(atEof) ==
  /\ Called(atEof)
  /\ ~st.started
  /\ WindowSize >= 4
  /\ file.format = "pcapng"
  /\ st' = [st EXCEPT !.is_pcapng = TRUE, !.started = TRUE]
  /\ EnterWalk(atEof, 0)
  /\ UNCHANGED out

DetectPcapTooShort(atEof) ==
  /\ Called(atEof)
  /\ ~st.started
  /\ WindowSize >= 4
  /\ WindowSize < PcapHeader
  /\ file.format = "pcap"
  /\ TooShort(atEof, "shorter than global header")

(* The global header becomes a synthetic interface block. *)
DetectPcap(atEof) ==
  /\ Called(atEof)
  /\ ~st.started
  /\ WindowSize >= PcapHeader
  /\ file.format = "pcap"
  /\ st' = [started |-> TRUE, is_pcapng |-> FALSE,
            little_endian |-> file.le, link |-> file.link]
  /\ out' = Append(out, Ref(0, PcapHeader, file.link, "Idb", file.le))
  /\ EnterWalk(atEof, PcapHeader)

DetectUnknown(atEof) ==
  /\ Called(atEof)
  /\ ~st.started
  /\ WindowSize >= 4
  /\ file.format = "other"
  /\ Fail("unrecognized file magic")
  /\ UNCHANGED <<file, avail, base, st, eof, pos, out>>

-----------------------------------------------------------------------------
(* The loop of one call.  Header is what stands at the call's position.     *)

Header == HeaderAt(base + pos)

(* A pcap record: incl_len in the file's byte order, plus its header. *)
RecordTotal ==
  LET incl == Header.len - RecordHeader
  IN  RecordHeader + (IF Header.le = st.little_endian THEN incl ELSE Swap32(incl))

(* Mutants: only the record's header has to be there; a record header that  *)
(* ends the window is not seen.                                             *)
RecordFits_HeaderOnly == pos + RecordHeader <= WindowSize

RecordFits_Strict ==
  /\ pos + RecordHeader < WindowSize
  /\ pos + RecordTotal <= WindowSize

RecordFits ==
  /\ pos + RecordHeader <= WindowSize
  /\ pos + RecordTotal <= WindowSize

(* A pcapng block: an SHB brings its own byte order, the others are read in *)
(* the section's.                                                           *)
IsShb == Header.type = ShbType
BlockLE == IF IsShb THEN Header.le ELSE st.little_endian
BlockTotal == ReadLen(Header, BlockLE)
BlockType == ReadType(Header, BlockLE)

BlockInvalid ==
  /\ pos + BlockFrame <= WindowSize
  /\ BlockTotal < BlockFrame

BlockFits ==
  /\ pos + BlockFrame <= WindowSize
  /\ BlockTotal >= BlockFrame
  /\ pos + BlockTotal <= WindowSize

RecordStep ==
  /\ phase = "walk"
  /\ ~st.is_pcapng
  /\ RecordFits
  /\ out' = Append(out, Ref(pos, RecordTotal, st.link, "PcapRecord", st.little_endian))
  /\ pos' = pos + RecordTotal
  /\ UNCHANGED <<file, avail, base, st, phase, eof, err>>

BlockStep ==
  /\ phase = "walk"
  /\ st.is_pcapng
  /\ BlockFits
  /\ st' = IF IsShb THEN [st EXCEPT !.little_endian = BlockLE] ELSE st
  /\ out' = Append(out, Ref(pos, BlockTotal, BlockType,
                            classify_block_type(BlockType), BlockLE))
  /\ pos' = pos + BlockTotal
  /\ UNCHANGED <<file, avail, base, phase, eof, err>>

(* Returns false with consumed still 0, the refs so far already in out. *)
BlockError ==
  /\ phase = "walk"
  /\ st.is_pcapng
  /\ BlockInvalid
  /\ Fail("pcapng block length invalid")
  /\ UNCHANGED <<file, avail, base, st, eof, pos, out>>

(* Mutant: the whole window counts as consumed. *)
Return_ConsumesAll ==
  /\ phase = "walk"
  /\ IF st.is_pcapng THEN ~BlockFits /\ ~BlockInvalid ELSE ~RecordFits
  /\ phase' = IF eof THEN "done" ELSE "driver"
  /\ base' = avail
  /\ pos' = 0
  /\ UNCHANGED <<file, avail, st, eof, out, err>>

(* The loop ends: report what was consumed; the driver slides its window    *)
(* by it, and is finished after the call it made with at_eof.               *)
Return ==
  /\ phase = "walk"
  /\ IF st.is_pcapng THEN ~BlockFits /\ ~BlockInvalid ELSE ~RecordFits
  /\ IF eof /\ pos < WindowSize
     THEN Fail("trailing truncated block")
     ELSE /\ phase' = IF eof THEN "done" ELSE "driver"
          /\ UNCHANGED err
  /\ base' = base + pos
  /\ pos' = 0
  /\ UNCHANGED <<file, avail, st, eof, out>>

Detect(atEof) ==
  \/ DetectTooShort(atEof) \/ DetectPcapng(atEof) \/ DetectPcapTooShort(atEof)
  \/ DetectPcap(atEof) \/ DetectUnknown(atEof)

Walk == RecordStep \/ BlockStep \/ BlockError \/ Return

Next ==
  \/ Deliver
  \/ \E atEof \in BOOLEAN : CallStarted(atEof) \/ Detect(atEof)
  \/ Walk

(* A call runs to its end; a driver that polls again and again receives the *)
(* rest of a finite capture and then makes the final call with at_eof.      *)
Fairness ==
  /\ WF_vars(Walk)
  /\ SF_vars(Deliver)
  /\ SF_vars(CallStarted(TRUE) \/ Detect(TRUE))

Spec == Init /\ [][Next]_vars /\ Fairness

-----------------------------------------------------------------------------
FileOffset(r) == r.win + r.off
RefEnd(r) == FileOffset(r) + r.len

Kinds == {"Shb", "Idb", "Epb", "PcapRecord", "SimplePacket", "Other"}
Errors == {"none", "file too short", "shorter than global header",
           "unrecognized file magic", "pcapng block length invalid",
           "trailing truncated block"}

(* The variables have their types, and the window lies inside the file. *)
TypeOK ==
  /\ file \in Files
  /\ avail \in 0..file.size
  /\ base \in 0..avail
  /\ st \in [started : BOOLEAN, is_pcapng : BOOLEAN, little_endian : BOOLEAN, link : Nat]
  /\ phase \in {"driver", "walk", "done"}
  /\ eof \in BOOLEAN
  /\ pos \in 0..WindowSize
  /\ out \in Seq([win : Nat, off : Nat, len : Nat, type : Nat, kind : Kinds, le : BOOLEAN])
  /\ err \in Errors

(* However the capture was cut into windows, the refs tile what has been    *)
(* scanned: the first starts at byte 0, each one starts where the one       *)
(* before it ends, and the scan stands at the end of the last.  No block is *)
(* reported twice, skipped or split across two calls.                       *)
Tiling ==
  /\ \A i \in 1..Len(out) :
       FileOffset(out[i]) = IF i = 1 THEN 0 ELSE RefEnd(out[i - 1])
  /\ base + pos = IF out = <<>> THEN 0 ELSE RefEnd(out[Len(out)])

(* Every ref describes a block the writer wrote, in the byte order of its   *)
(* section, whichever window the section header was in.                     *)
RefsAreBlocks ==
  \A i \in 1..Len(out) :
    LET r == out[i]
        b == file.at[FileOffset(r)]
    IN  IF file.format = "pcap" /\ i = 1
        THEN r.len = PcapHeader /\ r.kind = "Idb" /\ r.type = file.link /\ r.le = file.le
        ELSE /\ FileOffset(r) \in DOMAIN file.at
             /\ r.len = b.len
             /\ r.le = b.le
             /\ r.type = b.type
             /\ r.kind = IF file.format = "pcap" THEN "PcapRecord"
                         ELSE classify_block_type(b.type)

(* The refs of a scan are the blocks of the capture, each of them once. *)
RefsExact == Tiling /\ RefsAreBlocks

(* The error a capture deserves, said of the file alone. *)
Complete(f, a) == f.at[a].len >= BlockFrame /\ a + f.at[a].len <= f.size

(* A block too short to be one, with its frame in the file. *)
BadLength(f) ==
  \E a \in DOMAIN f.at : f.at[a].len < BlockFrame /\ a + BlockFrame <= f.size

(* The last block or record ends the file. *)
WholeTail(f) ==
  \/ f.format = "pcap" /\ f.size = PcapHeader
  \/ \E a \in DOMAIN f.at : Complete(f, a) /\ a + f.at[a].len = f.size

Verdict(f) ==
  CASE f.size < 4 -> "file too short"
    [] f.size >= 4 /\ f.format = "other" -> "unrecognized file magic"
    [] f.size >= 4 /\ f.size < PcapHeader /\ f.format = "pcap" -> "shorter than global header"
    [] f.size >= 4 /\ f.format = "pcapng" /\ BadLength(f) -> "pcapng block length invalid"
    [] OTHER -> IF WholeTail(f) THEN "none" ELSE "trailing truncated block"

(* The outcome of a scan depends on the capture only, not on how it was cut *)
(* into windows or on when the driver called: in particular it is the one   *)
(* of scan_blocks, which makes a single call with all the bytes.            *)
VerdictOfFile == phase = "done" => err = Verdict(file)

(* A scan of a finite capture comes to an end. *)
Terminates == <>(phase = "done")
=============================================================================
