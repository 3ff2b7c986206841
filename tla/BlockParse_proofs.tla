------------------------- MODULE BlockParse_proofs --------------------------
(***************************************************************************)
(* The safety of phase B for every word size, every block a scan can       *)
(* produce, every span and every number of BlockRefs.                      *)
(*                                                                         *)
(* ReadsInside speaks of the last read only.  What makes it inductive is   *)
(* where the options cursor stands (CursorInv), that a block whose options *)
(* are walked passed its parser's checks (OpenInv), and that the rows      *)
(* written are those of the BlockRefs in front of the current one          *)
(* (RowsInv).                                                              *)
(***************************************************************************)
EXTENDS BlockParse, TLAPS

(* A block whose options are being walked, or whose row is due, is in the  *)
(* file, and for a packet block the view shows its payload and caplen.     *)
OpenInv ==
  pc \in {"options", "row"} =>
    /\ InFile
    /\ fn \in {"parse_epb", "bulk"} =>
         /\ RecordAccepted \/ EpbAccepted
         /\ view.caplen = block.caplen
         /\ block.kind = "PcapRecord" => view.payload = block.off + RecordHeader
    /\ fn = "bulk" => count >= Len(refs)

(* The cursor is spent, or it stands in the block and ends at its trailer. *)
CursorInv ==
  pc = "options" /\ cursor.size > 0 /\ ~OptOffWraps(block) =>
    /\ block.off <= cursor.at
    /\ cursor.at + cursor.size + Trailer = BlockEnd(block)
    /\ block.kind # "PcapRecord"

(* The flags of the view are zero or lie in front of the block's trailer.  *)
FlagsInv ==
  pc \in {"options", "row"} /\ view.flags # 0 /\ ~OptOffWraps(block) =>
    /\ block.kind # "PcapRecord"
    /\ block.off < view.flags
    /\ view.flags + 4 + Trailer <= BlockEnd(block)

(* The rows are those of the BlockRefs in front of the current one. *)
RowsInv ==
  /\ fn # "bulk" => cols = <<>>
  /\ pc # "returned" => Len(cols) = i - 1
  /\ Len(cols) # 0 => count >= Len(refs)
  /\ Len(cols) <= Len(refs)
  /\ count >= Len(refs) - 1

(* Only the bulk loop stores rows. *)
RowBulk == pc = "row" => fn = "bulk"

IInv ==
  /\ TypeOK
  /\ ReadsInside
  /\ OpenInv
  /\ CursorInv
  /\ FlagsInv
  /\ RowBulk
  /\ RowsInv
  /\ RecordPayloadInside
  /\ FlagsOfOwnBlock
  /\ BulkPrefix

(* The arithmetic of next_option: an option's padded length is at least its *)
(* length, and does not wrap.                                               *)
LEMMA PadCovers ==
  ASSUME NEW n \in OptLengths
  PROVE  /\ pad4(n) \in Nat
         /\ pad4(n) >= n
         /\ pad4(n) < W - 4
         /\ n \in Nat
  BY ConstantsAssumption DEF pad4, Wrap, Words

(* The current BlockRef is one a scan can produce. *)
LEMMA BlockFacts ==
  ASSUME TypeOK
  PROVE  /\ \A k \in 1..Len(refs) : refs[k] \in Blocks /\ ScanProduces(refs[k])
         /\ block \in Blocks
         /\ block.off \in Nat
         /\ block.len \in 0..(W - 1)
         /\ block.caplen \in 0..(W - 1)
         /\ W \in Nat /\ W >= 64 /\ W % 4 = 0
         /\ i \in Nat /\ Len(refs) \in Nat /\ i >= 1 /\ i <= Len(refs)
  <1>1. \A k \in 1..Len(refs) : refs[k] \in Blocks
    BY DEF TypeOK
  <1>2. \A k \in 1..Len(refs) : ScanProduces(refs[k])
    BY <1>1, ConstantsAssumption
  <1>3. i \in 1..Len(refs) /\ Len(refs) \in Nat
    BY DEF TypeOK
  <1>4. block \in Blocks /\ ScanProduces(block)
    BY <1>1, <1>2, <1>3 DEF block
  <1> QED
    BY <1>1, <1>2, <1>3, <1>4, ConstantsAssumption DEF ScanProduces, Words

(* Before the call nothing has been read, walked or written. *)
LEMMA InitIInv == Init => IInv
  <1> SUFFICES ASSUME Init PROVE IInv OBVIOUS
  <1>1. PICK n \in 1..MaxRefs : refs \in [1..n -> Blocks]
    BY DEF Init
  <1>2. n \in Nat /\ n >= 1
    BY <1>1, ConstantsAssumption
  <1>3. refs \in Seq(Blocks) /\ Len(refs) = n
    BY <1>1, <1>2
  <1>4. TypeOK
    <2>1. view \in [payload : Nat, caplen : Words, flags : Nat, resol : Nat]
      BY ConstantsAssumption DEF Init, NoView, Words
    <2>2. cursor \in [at : Nat, size : Words] /\ read \in [from : Nat, to : Nat]
      BY ConstantsAssumption DEF Init, NoOptions, NoRead, Words
    <2>3. count \in Nat /\ i \in 1..Len(refs) /\ size \in Nat
      BY <1>2, <1>3, ConstantsAssumption DEF Init
    <2> QED
      BY <2>1, <2>2, <2>3, <1>3 DEF Init, TypeOK
  <1>5. ReadsInside
    BY DEF Init, ReadsInside
  <1>6. OpenInv /\ CursorInv /\ FlagsInv /\ RowBulk
    BY DEF Init, OpenInv, CursorInv, FlagsInv, RowBulk
  <1>7. cols = <<>> /\ Len(cols) = 0 /\ count \in Nat
    BY <1>4 DEF Init, TypeOK
  <1>8. RowsInv
    BY <1>2, <1>3, <1>7 DEF Init, RowsInv
  <1>9. RecordPayloadInside /\ FlagsOfOwnBlock
    BY <1>7 DEF RecordPayloadInside, FlagsOfOwnBlock
  <1>10. BulkPrefix
    BY <1>7 DEF BulkPrefix, Init
  <1> QED
    BY <1>4, <1>5, <1>6, <1>8, <1>9, <1>10 DEF IInv

(* What no step of a parser changes, and the rows it leaves alone. *)
SameCall == UNCHANGED <<size, fn, refs, count, i, cols>>

(* The properties of rows already written survive every step that writes   *)
(* none and does not return from the bulk loop.                            *)
LEMMA RowsKept ==
  ASSUME SameCall, RecordPayloadInside, FlagsOfOwnBlock
  PROVE  RecordPayloadInside' /\ FlagsOfOwnBlock'
  BY DEF SameCall, RecordPayloadInside, FlagsOfOwnBlock, OptOffWraps, BlockEnd

(* A call that returns false without writing. *)
LEMMA ReturnFalse ==
  ASSUME IInv, SameCall, pc # "returned", Return(FALSE),
         UNCHANGED <<view, cursor, read>>,
         fn = "bulk" /\ count >= Len(refs) => ~(RecordAccepted \/ EpbAccepted)
  PROVE  IInv'
  <1>1. TypeOK'
    BY DEF IInv, TypeOK, SameCall, Return
  <1>2. ReadsInside'
    BY DEF IInv, ReadsInside, SameCall, Return, block, OptOffWraps, BlockEnd
  <1>3. OpenInv' /\ CursorInv' /\ FlagsInv' /\ RowBulk'
    BY DEF Return, OpenInv, CursorInv, FlagsInv, RowBulk
  <1>4. RowsInv'
    BY DEF IInv, RowsInv, SameCall, Return
  <1>5. RecordPayloadInside' /\ FlagsOfOwnBlock'
    BY RowsKept DEF IInv
  <1>6. BulkPrefix'
    <2>1. Len(cols) + 1 = i /\ Len(cols) \in Nat
      BY DEF IInv, RowsInv, TypeOK
    <2>2. fn = "bulk" /\ count >= Len(refs) =>
            ~ /\ refs[i].kind \in {"Epb", "PcapRecord"}
              /\ refs[i].off + refs[i].len <= size
              /\ refs[i].len >= IF refs[i].kind = "Epb" THEN EpbLeast ELSE RecordHeader
      BY DEF RecordAccepted, EpbAccepted, InFile, block
    <2>3. ok' = FALSE
      BY DEF Return
    <2>4. Len(refs) \in Nat /\ count \in Nat
      BY DEF IInv, TypeOK
    <2> QED
      BY <2>1, <2>2, <2>3, <2>4 DEF IInv, BulkPrefix, SameCall
  <1> QED
    BY <1>1, <1>2, <1>3, <1>4, <1>5, <1>6 DEF IInv

(* A parser accepts its block: the reads of its fixed fields stay in the   *)
(* block when they fit its length, and the options start out as CursorInv  *)
(* wants them.                                                             *)
LEMMA FillSafe ==
  ASSUME IInv,
         NEW f \in {"parse_shb", "parse_idb", "parse_epb"},
         NEW v \in [payload : Nat, caplen : Words, flags : Nat, resol : Nat],
         NEW fixed \in Nat,
         NEW options \in [at : Nat, size : Words],
         Fill(f, v, fixed, options),
         InFile,
         fixed <= block.len,
         v.flags = 0,
         options.size > 0 /\ ~OptOffWraps(block) =>
           /\ block.off <= options.at
           /\ options.at + options.size + Trailer = BlockEnd(block)
           /\ block.kind # "PcapRecord",
         f = "parse_epb" =>
           /\ RecordAccepted \/ EpbAccepted
           /\ v.caplen = block.caplen
           /\ block.kind = "PcapRecord" => v.payload = block.off + RecordHeader
  PROVE  IInv'
  <1>0. TypeOK /\ SameCall /\ pc = "enter" /\ pc' = "options" /\ ok' = ok
    BY DEF IInv, Fill, Entered, SameCall
  <1>1. view' = v /\ cursor' = options
        /\ read' = [from |-> block.off, to |-> block.off + fixed]
    BY DEF Fill
  <1>2. block' = block /\ (InFile <=> InFile')
    BY <1>0 DEF SameCall, block, InFile
  <1>3. block.off \in Nat /\ block.len \in Nat /\ size \in Nat
    BY <1>0, BlockFacts, 0 \in Nat DEF TypeOK
  <1>4. TypeOK'
    <2>1. read' \in [from : Nat, to : Nat]
      BY <1>1, <1>3
    <2> QED
      BY <1>0, <1>1, <2>1 DEF TypeOK, SameCall
  <1>5. ReadsInside'
    BY <1>0, <1>1, <1>2, <1>3 DEF ReadsInside, SameCall, BlockEnd, InFile
  <1>6. fn \in {"parse_epb", "bulk"} => f = "parse_epb"
    BY DEF Fill, Entered
  <1>7. OpenInv'
    <2>1. fn = "bulk" => count >= Len(refs)
      BY DEF Fill, Entered
    <2>2. RecordAccepted' = RecordAccepted /\ EpbAccepted' = EpbAccepted
      BY <1>0, <1>2 DEF RecordAccepted, EpbAccepted, InFile, SameCall
    <2> QED
      BY <1>0, <1>1, <1>2, <1>6, <2>1, <2>2 DEF OpenInv, SameCall
  <1>8. CursorInv'
    BY <1>0, <1>1, <1>2 DEF CursorInv, OptOffWraps, BlockEnd
  <1>9. FlagsInv' /\ RowBulk'
    BY <1>0, <1>1 DEF FlagsInv, RowBulk
  <1>10. RowsInv'
    BY <1>0 DEF IInv, RowsInv, SameCall
  <1>11. RecordPayloadInside' /\ FlagsOfOwnBlock'
    BY <1>0, RowsKept DEF IInv
  <1>12. BulkPrefix'
    BY <1>0 DEF IInv, BulkPrefix, SameCall
  <1> QED
    BY <1>4, <1>5, <1>7, <1>8, <1>9, <1>10, <1>11, <1>12 DEF IInv

(* Options from byte a of a block that holds a and its trailer. *)
LEMMA OptionsInBlock ==
  ASSUME TypeOK, NEW a \in Nat, a + Trailer <= block.len
  PROVE  /\ OptionsAt(a) \in [at : Nat, size : Words]
         /\ block.off <= OptionsAt(a).at
         /\ OptionsAt(a).at + OptionsAt(a).size + Trailer = BlockEnd(block)
  <1>1. block.off \in Nat /\ block.len \in 0..(W - 1) /\ W \in Nat
    BY BlockFacts
  <1>2. PICK len \in 0..(W - 1) : len = block.len
    BY <1>1
  <1>3. a + 4 <= len
    BY <1>2 DEF Trailer
  <1>4. Minus(block.len, a) = len - a
    BY <1>1, <1>2, <1>3 DEF Minus
  <1>5. Minus(len - a, Trailer) = len - a - 4
    BY <1>1, <1>2, <1>3 DEF Minus, Trailer
  <1>6. OptionsAt(a) = [at |-> block.off + a, size |-> len - a - 4]
    BY <1>4, <1>5 DEF OptionsAt
  <1>7. len - a - 4 \in 0..(W - 1)
    BY <1>1, <1>2, <1>3
  <1> QED
    BY <1>1, <1>2, <1>6, <1>7 DEF Words, Trailer, BlockEnd

(* Padding a word: a multiple of four at most three above it, or 0 when    *)
(* there is none below W.                                                  *)
LEMMA PadFacts ==
  ASSUME NEW c \in 0..(W - 1)
  PROVE  \E q \in Nat, w \in Nat :
           /\ W = 4 * w
           /\ pad4(c) = 4 * q
           /\ q < w
           /\ c + 3 < W => 4 * q >= c /\ 4 * q <= c + 3
           /\ c + 3 >= W => q = 0
  <1>1. W \in Nat /\ W >= 64 /\ W % 4 = 0
    BY ConstantsAssumption
  <1>0. \A n \in Nat : n \div 4 \in Nat /\ n = 4 * (n \div 4) + (n % 4) /\ n % 4 \in 0..3
    OBVIOUS
  <1>8. W \div 4 \in Nat /\ W = 4 * (W \div 4)
    BY <1>0, <1>1
  <1>2. PICK w \in Nat : W = 4 * w
    BY <1>8, Zenon
  <1>3. PICK up \in 0..(W - 1) : up = Wrap(c + 3)
    BY <1>1 DEF Wrap
  <1>4. /\ c + 3 < W => up = c + 3
        /\ c + 3 >= W => up \in 0..2
    BY <1>1, <1>3 DEF Wrap
  <1>5. PICK q \in Nat : up - (up % 4) = 4 * q /\ 4 * q <= up /\ up <= 4 * q + 3
    <2>1. up \in Nat
      BY <1>1, <1>3
    <2>2. up \div 4 \in Nat /\ up = 4 * (up \div 4) + (up % 4) /\ up % 4 \in 0..3
      BY <1>0, <2>1
    <2>3. PICK d \in Nat : d = up \div 4
      BY <2>2
    <2>4. up - (up % 4) = 4 * d /\ 4 * d <= up /\ up <= 4 * d + 3
      BY <2>1, <2>2, <2>3
    <2> QED
      BY <2>4, Zenon
  <1>6. pad4(c) = 4 * q
    BY <1>3, <1>5 DEF pad4
  <1>7. /\ q < w
        /\ c + 3 < W => 4 * q >= c /\ 4 * q <= c + 3
        /\ c + 3 >= W => q = 0
    BY <1>1, <1>2, <1>3, <1>4, <1>5
  <1> QED
    BY <1>2, <1>6, <1>7, Zenon

(* parse_shb accepts: 24 bytes are read of a block of at least 28. *)
LEMMA ParseShbSafe == ASSUME IInv, ParseShb PROVE IInv'
  <1>1. TypeOK BY DEF IInv
  <1>2. /\ InFile /\ block.len \in Nat /\ block.len >= 28
        /\ Frame + 16 = 24 /\ Trailer = 4
        /\ block.kind # "PcapRecord"
    BY <1>1, BlockFacts DEF ParseShb, ShbAccepted, Frame, Trailer, ShbLeast
  <1>3. NoView \in [payload : Nat, caplen : Words, flags : Nat, resol : Nat]
    BY ConstantsAssumption DEF NoView, Words
  <1>4. Fill("parse_shb", NoView, 24, OptionsAt(24))
    BY <1>2 DEF ParseShb
  <1>5. 24 + Trailer <= block.len /\ 24 <= block.len
    BY <1>2
  <1>6. OptionsAt(24) \in [at : Nat, size : Words]
        /\ block.off <= OptionsAt(24).at
        /\ OptionsAt(24).at + OptionsAt(24).size + Trailer = BlockEnd(block)
    BY <1>1, <1>5, OptionsInBlock
  <1>7. NoView.flags = 0 BY DEF NoView
  <1> HIDE DEF NoView
  <1> QED
    BY <1>2, <1>3, <1>4, <1>5, <1>6, <1>7, FillSafe

(* parse_idb accepts a pcapng block: 16 bytes are read of at least 20. *)
LEMMA ParseIdbSafe == ASSUME IInv, ParseIdb PROVE IInv'
  <1>1. TypeOK BY DEF IInv
  <1>2. /\ InFile /\ block.len \in Nat /\ block.len >= 20
        /\ Frame + 8 = 16 /\ Trailer = 4
        /\ block.kind # "PcapRecord"
    BY <1>1, BlockFacts DEF ParseIdb, IdbAccepted, Frame, Trailer, IdbLeast
  <1>3. NoView \in [payload : Nat, caplen : Words, flags : Nat, resol : Nat]
    BY ConstantsAssumption DEF NoView, Words
  <1>4. Fill("parse_idb", NoView, 16, OptionsAt(16))
    BY <1>2 DEF ParseIdb
  <1>5. 16 + Trailer <= block.len /\ 16 <= block.len
    BY <1>2
  <1>6. OptionsAt(16) \in [at : Nat, size : Words]
        /\ block.off <= OptionsAt(16).at
        /\ OptionsAt(16).at + OptionsAt(16).size + Trailer = BlockEnd(block)
    BY <1>1, <1>5, OptionsInBlock
  <1>7. NoView.flags = 0 BY DEF NoView
  <1> QED
    BY <1>2, <1>3, <1>4, <1>5, <1>6, <1>7, FillSafe

(* parse_idb accepts the pcap global header, which has no options. *)
LEMMA ParsePcapHeaderSafe == ASSUME IInv, ParsePcapHeader PROVE IInv'
  <1>1. TypeOK BY DEF IInv
  <1>2. InFile /\ block.len = 24
    BY DEF ParsePcapHeader, IdbAccepted, Synthetic, PcapHeader
  <1>3. NoView \in [payload : Nat, caplen : Words, flags : Nat, resol : Nat]
    BY ConstantsAssumption DEF NoView, Words
  <1>4. Fill("parse_idb", NoView, 24, NoOptions)
    BY DEF ParsePcapHeader, PcapHeader
  <1>5. NoOptions \in [at : Nat, size : Words] /\ ~(NoOptions.size > 0)
    BY ConstantsAssumption DEF NoOptions, Words
  <1>6. NoView.flags = 0 BY DEF NoView
  <1> QED
    BY <1>2, <1>3, <1>4, <1>5, <1>6, FillSafe

(* parse_epb accepts a pcap record: 16 bytes are read, no options. *)
LEMMA ParseRecordSafe == ASSUME IInv, ParseRecord PROVE IInv'
  <1>1. TypeOK BY DEF IInv
  <1>2. InFile /\ RecordAccepted /\ block.len >= 16 /\ RecordHeader = 16
    BY DEF ParseRecord, RecordAccepted, RecordHeader
  <1> DEFINE v == [payload |-> block.off + 16, caplen |-> block.caplen,
                   flags |-> 0, resol |-> 0]
  <1>3. v \in [payload : Nat, caplen : Words, flags : Nat, resol : Nat]
    BY <1>1, BlockFacts DEF Words
  <1>4. Fill("parse_epb", v, 16, NoOptions)
    BY <1>2 DEF ParseRecord
  <1>5. NoOptions \in [at : Nat, size : Words] /\ ~(NoOptions.size > 0)
    BY ConstantsAssumption DEF NoOptions, Words
  <1>6. v.flags = 0 /\ v.caplen = block.caplen /\ v.payload = block.off + RecordHeader
    BY <1>2
  <1>7. block.len \in Nat /\ 16 <= block.len
    BY <1>1, <1>2, BlockFacts
  <1> HIDE DEF v
  <1> QED
    BY <1>2, <1>3, <1>4, <1>5, <1>6, <1>7, FillSafe

(* Where an EPB's options start: behind the padded payload and, unless the *)
(* caplen field is in the one band that OptOffWraps names, inside a block  *)
(* that also has room for its trailer.                                     *)
LEMMA OptOffInBlock ==
  ASSUME TypeOK,
         Wrap(EpbOptOff(block.caplen) + Trailer) <= block.len,
         block.kind = "Epb", ~OptOffWraps(block)
  PROVE  EpbOptOff(block.caplen) \in Nat
         /\ EpbOptOff(block.caplen) + Trailer <= block.len
  <1>1. block.len \in 0..(W - 1) /\ W \in Nat /\ W >= 64
    BY BlockFacts
  <1>2. PICK c \in 0..(W - 1) : c = block.caplen
    BY BlockFacts
  <1>3. PICK q \in Nat, w \in Nat :
          /\ W = 4 * w
          /\ pad4(c) = 4 * q
          /\ q < w
          /\ c + 3 < W => 4 * q >= c /\ 4 * q <= c + 3
          /\ c + 3 >= W => q = 0
    BY <1>2, PadFacts
  <1>4. ~(c >= W - 35 /\ c <= W - 32)
    BY <1>2 DEF OptOffWraps
  <1>5. q # w - 8
    BY <1>1, <1>2, <1>3, <1>4
  <1>6. EpbOptOff(c) = Wrap(28 + 4 * q)
    BY <1>3 DEF EpbOptOff, Frame, EpbFixed
  <1>7. EpbOptOff(c) \in Nat /\ EpbOptOff(c) + 4 < W
    BY <1>1, <1>3, <1>5, <1>6 DEF Wrap
  <1>8. Wrap(EpbOptOff(c) + 4) = EpbOptOff(c) + 4
    BY <1>1, <1>7 DEF Wrap
  <1> QED
    BY <1>2, <1>7, <1>8 DEF Trailer

(* parse_epb accepts an EPB, its options wherever the word arithmetic puts them. *)
LEMMA ParseEpbSafe == ASSUME IInv, ParseEpb PROVE IInv'
  <1>1. TypeOK BY DEF IInv
  <1>2. InFile /\ EpbAccepted /\ block.len >= 32 /\ block.kind = "Epb"
    BY DEF ParseEpb, EpbAccepted, EpbLeast
  <1> DEFINE o == IF Wrap(EpbOptOff(block.caplen) + Trailer) <= block.len
                  THEN OptionsAt(EpbOptOff(block.caplen))
                  ELSE NoOptions
  <1>3. EpbView \in [payload : Nat, caplen : Words, flags : Nat, resol : Nat]
    BY <1>1, BlockFacts DEF EpbView, Words, Frame, EpbFixed
  <1>4. Fill("parse_epb", EpbView, 28, o)
    BY DEF ParseEpb, Frame, EpbFixed
  <1>5. NoOptions \in [at : Nat, size : Words] /\ ~(NoOptions.size > 0)
    BY ConstantsAssumption DEF NoOptions, Words
  <1>6. OptionsAt(EpbOptOff(block.caplen)) \in [at : Nat, size : Words]
    <2>0. /\ block.off \in Nat /\ block.len \in 0..(W - 1)
          /\ block.caplen \in 0..(W - 1) /\ W \in Nat /\ W >= 64
      BY <1>1, BlockFacts
    <2>1. PICK q \in Nat, w \in Nat : W = 4 * w /\ pad4(block.caplen) = 4 * q /\ q < w
      BY <2>0, PadFacts
    <2>2. EpbOptOff(block.caplen) \in 0..(W - 1)
      BY <2>0, <2>1 DEF EpbOptOff, Wrap, Frame, EpbFixed
    <2>3. \A x, y \in 0..(W - 1) : Minus(x, y) \in 0..(W - 1)
      BY <2>0 DEF Minus
    <2>4. Minus(Minus(block.len, EpbOptOff(block.caplen)), Trailer) \in 0..(W - 1)
      <3>1. Trailer \in 0..(W - 1)
        BY <2>0 DEF Trailer
      <3>2. Minus(block.len, EpbOptOff(block.caplen)) \in 0..(W - 1)
        BY <2>0, <2>2, <2>3
      <3> QED
        BY <2>3, <3>1, <3>2
    <2> QED
      BY <2>0, <2>2, <2>4 DEF OptionsAt, Words
  <1>7. o \in [at : Nat, size : Words]
    BY <1>5, <1>6
  <1>8. o.size > 0 /\ ~OptOffWraps(block) =>
          /\ block.off <= o.at
          /\ o.at + o.size + Trailer = BlockEnd(block)
    BY <1>1, <1>2, <1>5, OptOffInBlock, OptionsInBlock
  <1>9. EpbView.flags = 0 /\ EpbView.caplen = block.caplen
    BY DEF EpbView
  <1>10. block.len \in Nat /\ 28 <= block.len
    BY <1>1, <1>2, BlockFacts
  <1> HIDE DEF o
  <1> QED
    BY <1>2, <1>3, <1>4, <1>7, <1>8, <1>9, <1>10, FillSafe

(* next_option returns an option: its bytes are in the cursor's reach, and *)
(* the cursor moves past it by what it gives up.                           *)
LEMMA NextOptionSafe ==
  ASSUME IInv, NEW code \in Codes, NEW length \in OptLengths, NextOption(code, length)
  PROVE  IInv'
  <1>0. TypeOK /\ SameCall /\ pc = "options" /\ pc' = pc /\ ok' = ok
    BY DEF IInv, NextOption, SameCall
  <1>1. /\ block.off \in Nat /\ block.len \in Nat /\ size \in Nat
        /\ cursor.at \in Nat /\ cursor.size \in Nat /\ cursor.size < W
        /\ length \in Nat /\ W \in Nat
    BY <1>0, BlockFacts, PadCovers DEF TypeOK, Words
  <1>2. PICK adv \in Nat : adv = Advance(length)
    BY PadCovers DEF Advance, OptionHeader
  <1>3. adv >= length + 4 /\ adv <= cursor.size /\ OptionHeader = 4
    BY <1>1, <1>2, PadCovers DEF Advance, OptionHeader, NextOption
  <1>4. /\ read' = [from |-> cursor.at, to |-> cursor.at + 4 + length]
        /\ cursor' = [at |-> cursor.at + adv, size |-> cursor.size - adv]
        /\ view' = Keep(code, length)
    BY <1>2, <1>3 DEF NextOption
  <1>5. block' = block /\ (InFile <=> InFile') /\ size' = size
        /\ (OptOffWraps(block) <=> OptOffWraps(block)')
    BY <1>0 DEF SameCall, block, InFile, OptOffWraps
  <1>6. /\ view'.caplen = view.caplen /\ view'.payload = view.payload
        /\ view' \in [payload : Nat, caplen : Words, flags : Nat, resol : Nat]
        /\ view'.flags = view.flags \/ (view'.flags = cursor.at + 4 /\ length >= 4)
    <2> DEFINE nr == IF fn = "parse_idb" /\ code = 9 /\ length >= 1
                     THEN cursor.at + OptionHeader ELSE view.resol
               nf == IF fn \in {"parse_epb", "bulk"} /\ code = 2 /\ length >= 4
                     THEN cursor.at + OptionHeader ELSE view.flags
    <2>1. view \in [payload : Nat, caplen : Words, flags : Nat, resol : Nat]
      BY <1>0 DEF TypeOK
    <2>2. nr \in Nat /\ nf \in Nat
      BY <1>1, <1>3, <2>1
    <2>3. nf = view.flags \/ (nf = cursor.at + 4 /\ length >= 4)
      BY <1>3
    <2>4. view' = [[view EXCEPT !.resol = nr] EXCEPT !.flags = nf]
      BY <1>4, <2>1 DEF Keep
    <2> HIDE DEF nr, nf
    <2> QED
      BY <2>1, <2>2, <2>3, <2>4
  <1>7. ~OptOffWraps(block) =>
          /\ block.off <= cursor.at
          /\ cursor.at + cursor.size + 4 = block.off + block.len
          /\ block.kind # "PcapRecord"
          /\ block.off + block.len <= size
    BY <1>0, <1>1, <1>3 DEF IInv, CursorInv, OpenInv, InFile, BlockEnd, Trailer
  <1>8. TypeOK'
    <2>1. read' \in [from : Nat, to : Nat] /\ cursor' \in [at : Nat, size : Words]
      BY <1>1, <1>2, <1>3, <1>4 DEF Words
    <2> QED
      BY <1>0, <1>6, <2>1 DEF TypeOK, SameCall
  <1>9. ReadsInside'
    <2>1. read'.from = cursor.at /\ read'.to = cursor.at + 4 + length
      BY <1>4
    <2> QED
      BY <1>1, <1>2, <1>3, <1>5, <1>7, <2>1 DEF ReadsInside, BlockEnd
  <1>10. OpenInv'
    <2>1. (RecordAccepted \/ EpbAccepted) <=> (RecordAccepted \/ EpbAccepted)'
      BY <1>5 DEF RecordAccepted, EpbAccepted
    <2> QED
      BY <1>0, <1>5, <1>6, <2>1 DEF IInv, OpenInv, SameCall
  <1>11. CursorInv'
    <2>1. cursor'.at = cursor.at + adv /\ cursor'.size = cursor.size - adv
      BY <1>4
    <2> QED
      BY <1>1, <1>2, <1>3, <1>5, <1>7, <2>1 DEF CursorInv, BlockEnd, Trailer
  <1>12. FlagsInv'
    <2>1. CASE view'.flags = view.flags
      BY <1>0, <1>5, <2>1 DEF IInv, FlagsInv, BlockEnd
    <2>2. CASE view'.flags = cursor.at + 4 /\ length >= 4
      BY <1>1, <1>2, <1>3, <1>5, <1>7, <2>2 DEF FlagsInv, BlockEnd, Trailer
    <2> QED BY <1>6, <2>1, <2>2
  <1>13. RowsInv' /\ RowBulk'
    BY <1>0 DEF IInv, RowsInv, RowBulk, SameCall
  <1>14. RecordPayloadInside' /\ FlagsOfOwnBlock'
    BY <1>0, RowsKept DEF IInv
  <1>15. BulkPrefix'
    BY <1>0 DEF IInv, BulkPrefix, SameCall
  <1> QED
    BY <1>8, <1>9, <1>10, <1>11, <1>12, <1>13, <1>14, <1>15 DEF IInv

(* next_option returns false: at most an option header was read. *)
LEMMA OptionsEndSafe ==
  ASSUME IInv, OptionsExhausted \/ \E code \in Codes, length \in OptLengths : OptionsStop(code, length)
  PROVE  IInv'
  <1>0. TypeOK /\ SameCall /\ pc = "options" /\ AfterOptions /\ ok' = ok
    BY DEF IInv, OptionsExhausted, OptionsStop, SameCall, AfterOptions
  <1>1. /\ block.off \in Nat /\ block.len \in Nat /\ size \in Nat
        /\ cursor.at \in Nat /\ cursor.size \in Nat
    BY <1>0, BlockFacts DEF TypeOK, Words
  <1>2. \/ read' = NoRead
        \/ /\ cursor.size >= 4
           /\ read' = [from |-> cursor.at, to |-> cursor.at + 4]
    BY DEF OptionsExhausted, OptionsStop, OptionHeader
  <1>3. block' = block /\ (InFile <=> InFile') /\ size' = size
        /\ (OptOffWraps(block) <=> OptOffWraps(block)')
    BY <1>0 DEF SameCall, block, InFile, OptOffWraps
  <1>4. TypeOK'
    <2>1. read' \in [from : Nat, to : Nat]
      BY <1>1, <1>2 DEF NoRead
    <2> QED
      BY <1>0, <2>1 DEF TypeOK, SameCall, AfterOptions
  <1>5. ReadsInside'
    <2>1. CASE read' = NoRead
      BY <2>1 DEF ReadsInside, NoRead
    <2>2. CASE cursor.size >= 4 /\ read' = [from |-> cursor.at, to |-> cursor.at + 4]
      <3>1. ~OptOffWraps(block) =>
              /\ block.off <= cursor.at
              /\ cursor.at + cursor.size + 4 = block.off + block.len
              /\ block.off + block.len <= size
        BY <1>0, <1>1, <2>2 DEF IInv, CursorInv, OpenInv, InFile, BlockEnd, Trailer
      <3>2. read'.from = cursor.at /\ read'.to = cursor.at + 4
        BY <2>2
      <3> QED
        BY <1>1, <1>3, <2>2, <3>1, <3>2 DEF ReadsInside, BlockEnd
    <2> QED BY <1>2, <2>1, <2>2
  <1>6. OpenInv'
    <2>1. (RecordAccepted \/ EpbAccepted) <=> (RecordAccepted \/ EpbAccepted)'
      BY <1>3 DEF RecordAccepted, EpbAccepted
    <2> QED
      BY <1>0, <1>3, <2>1 DEF IInv, OpenInv, SameCall, AfterOptions
  <1>7. CursorInv' /\ FlagsInv'
    BY <1>0, <1>3 DEF IInv, CursorInv, FlagsInv, AfterOptions, BlockEnd
  <1>8. RowsInv' /\ RowBulk'
    BY <1>0 DEF IInv, RowsInv, RowBulk, SameCall, AfterOptions
  <1>9. RecordPayloadInside' /\ FlagsOfOwnBlock'
    BY <1>0, RowsKept DEF IInv
  <1>10. BulkPrefix'
    BY <1>0 DEF IInv, BulkPrefix, SameCall, AfterOptions
  <1> QED
    BY <1>4, <1>5, <1>6, <1>7, <1>8, <1>9, <1>10 DEF IInv

(* The bulk loop stores the row of the current block. *)
LEMMA RowSafe == ASSUME IInv, Row PROVE IInv'
  <1> DEFINE r == [payload |-> view.payload, size |-> view.caplen, flags |-> view.flags]
             RowType == [payload : Nat, size : Words, flags : Nat]
  <1>0. /\ TypeOK /\ pc = "row" /\ cols' = Append(cols, r) /\ read' = NoRead
        /\ UNCHANGED <<size, fn, refs, count, view, cursor>>
        /\ cols \in Seq(RowType)
        /\ r \in RowType
    BY DEF IInv, Row, TypeOK
  <1>1. /\ i \in Nat /\ Len(refs) \in Nat /\ i >= 1 /\ i <= Len(refs)
        /\ \A k \in 1..Len(refs) : refs[k] \in Blocks /\ ScanProduces(refs[k])
        /\ count \in Nat /\ size \in Nat /\ Len(cols) \in Nat
        /\ block.off \in Nat /\ block.len \in Nat /\ block.caplen \in Nat
        /\ block.caplen < W /\ W \in Nat
    BY <1>0, BlockFacts DEF TypeOK
  <1>2. \/ i' = i + 1 /\ pc' = "enter" /\ ok' = ok /\ i < Len(refs)
        \/ i' = i /\ pc' = "returned" /\ ok' = TRUE /\ i >= Len(refs)
    BY <1>1 DEF Row, Return
  <1>3. Len(cols) = i - 1 /\ (fn # "bulk" => cols = <<>>)
    BY <1>0 DEF IInv, RowsInv
  <1>4. /\ Len(cols') = i
        /\ \A k \in 1..(i - 1) : cols'[k] = cols[k]
        /\ cols'[i] = r
        /\ cols' \in Seq(RowType)
    BY <1>0, <1>1, <1>3
  <1>5. PICK p \in Nat, c \in Nat, g \in Nat :
          r.payload = p /\ r.size = c /\ r.flags = g
          /\ view.payload = p /\ view.caplen = c /\ view.flags = g
    BY <1>0, ConstantsAssumption DEF TypeOK, Words
  <1> HIDE DEF r
  <1>6. fn = "bulk"
    BY <1>0 DEF IInv, RowBulk
  <1>7. /\ RecordAccepted \/ EpbAccepted
        /\ c = block.caplen
        /\ block.kind = "PcapRecord" => p = block.off + 16
        /\ count >= Len(refs)
    BY <1>0, <1>5, <1>6 DEF IInv, OpenInv, RecordHeader
  <1>8. TypeOK'
    <2>1. i' \in 1..Len(refs)
      BY <1>1, <1>2
    <2>3. pc' \in {"enter", "returned"}
      BY <1>2
    <2>4. ok' \in BOOLEAN
      BY <1>0, <1>2, Zenon DEF TypeOK
    <2>2. read' \in [from : Nat, to : Nat]
      BY <1>0 DEF NoRead
    <2> QED
      BY <1>0, <1>4, <2>1, <2>2, <2>3, <2>4 DEF TypeOK
  <1>9. ReadsInside'
    BY <1>0 DEF ReadsInside, NoRead
  <1>10. OpenInv' /\ CursorInv' /\ FlagsInv' /\ RowBulk'
    BY <1>2 DEF OpenInv, CursorInv, FlagsInv, RowBulk
  <1>11. RowsInv'
    BY <1>0, <1>1, <1>2, <1>4, <1>6, <1>7 DEF RowsInv
  <1>12. RecordPayloadInside'
    <2>1. block.kind = "PcapRecord" =>
            /\ p + c = block.off + block.len
            /\ p + c <= size
      <3>1. ScanProduces(block)
        BY <1>1 DEF block
      <3>2. block.kind = "PcapRecord" =>
              block.len >= 16 /\ block.off + block.len <= size
        BY <1>7 DEF RecordAccepted, EpbAccepted, InFile, RecordHeader
      <3>3. block.kind = "PcapRecord" =>
              block.len = 16 + block.caplen \/ block.len + W = 16 + block.caplen
        BY <3>1 DEF ScanProduces, RecordHeader
      <3>4. PICK o \in Nat, n \in Nat : o = block.off /\ n = block.len
        BY <1>1
      <3>5. c < W /\ W \in Nat /\ size \in Nat
        BY <1>1, <1>7
      <3>6. SUFFICES ASSUME block.kind = "PcapRecord"
                     PROVE  p + c = o + n /\ p + c <= size
        BY <3>4
      <3>7. p = o + 16 /\ n >= 16 /\ o + n <= size
            /\ (n = 16 + c \/ n + W = 16 + c)
        BY <1>7, <3>2, <3>3, <3>4, <3>6
      <3>8. n = 16 + c
        BY ONLY <3>5, <3>7, c \in Nat, n \in Nat
      <3> QED
        BY ONLY <3>5, <3>7, <3>8, c \in Nat, n \in Nat, o \in Nat, p \in Nat
    <2>2. \A k \in 1..i : k = i \/ k \in 1..(i - 1)
      BY <1>1
    <2> QED
      BY <1>0, <1>3, <1>4, <1>5, <2>1, <2>2
         DEF IInv, RecordPayloadInside, BlockEnd, block
  <1>13. FlagsOfOwnBlock'
    <2>1. g # 0 /\ ~OptOffWraps(block) =>
            /\ block.kind = "Epb"
            /\ block.off < g
            /\ g + 4 + Trailer <= BlockEnd(block)
      BY <1>0, <1>5, <1>7 DEF IInv, FlagsInv, RecordAccepted, EpbAccepted
    <2>2. \A k \in 1..i : k = i \/ k \in 1..(i - 1)
      BY <1>1
    <2> QED
      BY <1>0, <1>3, <1>4, <1>5, <2>1, <2>2
         DEF IInv, FlagsOfOwnBlock, BlockEnd, OptOffWraps, block
  <1>14. BulkPrefix'
    <2> DEFINE Good(x) == /\ x.kind \in {"Epb", "PcapRecord"}
                          /\ x.off + x.len <= size
                          /\ x.len >= IF x.kind = "Epb" THEN EpbLeast ELSE RecordHeader
    <2>1. Good(refs[i])
      BY <1>7 DEF RecordAccepted, EpbAccepted, InFile, block
    <2>2. \A k \in 1..(i - 1) : Good(refs[k]) /\ cols[k].size = refs[k].caplen
      BY <1>3 DEF IInv, BulkPrefix
    <2>3. c = refs[i].caplen
      BY <1>7 DEF block
    <2>4. \A k \in 1..i : Good(refs[k]) /\ cols'[k].size = refs[k].caplen
      <3>1. \A k \in 1..i : k = i \/ k \in 1..(i - 1)
        BY <1>1
      <3> HIDE DEF Good
      <3> QED
        BY <1>4, <1>5, <2>1, <2>2, <2>3, <3>1
    <2>5. i <= count
      BY <1>1, <1>7
    <2>6. pc' = "returned" => ok' = TRUE /\ i = Len(refs)
      BY <1>1, <1>2
    <2> QED
      BY <1>0, <1>4, <2>4, <2>5, <2>6 DEF BulkPrefix
  <1> QED
    BY <1>8, <1>9, <1>10, <1>11, <1>12, <1>13, <1>14 DEF IInv

(* Every step of phase B preserves the invariant. *)
LEMMA NextIInv == IInv /\ [Next]_vars => IInv'
  <1> SUFFICES ASSUME IInv, [Next]_vars PROVE IInv'
    OBVIOUS
  <1>1. CASE NotPreSized
    <2>1. SameCall /\ pc # "returned" /\ Return(FALSE) /\ UNCHANGED <<view, cursor, read>>
      BY <1>1 DEF NotPreSized, SameCall
    <2>2. ~(count >= Len(refs))
      BY <1>1 DEF NotPreSized, IInv, TypeOK
    <2> QED BY <2>1, <2>2, ReturnFalse
  <1>2. CASE RefuseShb
    <2>1. SameCall /\ pc # "returned" /\ Return(FALSE) /\ UNCHANGED <<view, cursor, read>>
          /\ fn # "bulk"
      BY <1>2 DEF RefuseShb, Refuse, Entered, SameCall
    <2> QED BY <2>1, ReturnFalse
  <1>3. CASE RefuseIdb
    <2>1. SameCall /\ pc # "returned" /\ Return(FALSE) /\ UNCHANGED <<view, cursor, read>>
          /\ fn # "bulk"
      BY <1>3 DEF RefuseIdb, Refuse, Entered, SameCall
    <2> QED BY <2>1, ReturnFalse
  <1>4. CASE RefuseEpb
    <2>1. SameCall /\ pc # "returned" /\ Return(FALSE) /\ UNCHANGED <<view, cursor, read>>
          /\ ~(RecordAccepted \/ EpbAccepted)
      BY <1>4 DEF RefuseEpb, Refuse, Entered, SameCall
    <2> QED BY <2>1, ReturnFalse
  <1>5. CASE ParseShb BY <1>5, ParseShbSafe
  <1>6. CASE ParsePcapHeader BY <1>6, ParsePcapHeaderSafe
  <1>7. CASE ParseIdb BY <1>7, ParseIdbSafe
  <1>8. CASE ParseRecord BY <1>8, ParseRecordSafe
  <1>9. CASE ParseEpb BY <1>9, ParseEpbSafe
  <1>10. CASE \E code \in Codes, length \in OptLengths : NextOption(code, length)
    BY <1>10, NextOptionSafe
  <1>11. CASE OptionsExhausted \/ \E code \in Codes, length \in OptLengths : OptionsStop(code, length)
    BY <1>11, OptionsEndSafe
  <1>12. CASE Row BY <1>12, RowSafe
  <1>13. CASE UNCHANGED vars
    BY <1>13 DEF vars, IInv, TypeOK, ReadsInside, OpenInv, CursorInv, FlagsInv, RowBulk,
       RowsInv, RecordPayloadInside, FlagsOfOwnBlock, BulkPrefix, block, InFile,
       RecordAccepted, EpbAccepted, OptOffWraps, BlockEnd
  <1> QED
    BY <1>1, <1>2, <1>3, <1>4, <1>5, <1>6, <1>7, <1>8, <1>9, <1>10, <1>11, <1>12, <1>13
       DEF Next, Parse, Options

(* Phase B is safe: for every file, every BlockRef a scan can produce and   *)
(* every content of its options, the parsers read inside the block and the *)
(* file (but for the caplen values OptOffWraps names), options end at the  *)
(* trailer, a pcap record's payload is in the file, and the bulk loop's    *)
(* rows hold their own block's caplen and flags, in order, up to the first *)
(* block it cannot parse.                                                  *)
THEOREM ParseSafe ==
  Spec => [](TypeOK /\ ParseInside /\ RowsExact)
  <1>1. IInv => TypeOK /\ ParseInside /\ RowsExact
    BY DEF IInv, CursorInv, ParseInside, OptionsEndAtTrailer, RowsOfOwnBlock, RowsExact
  <1> QED
    BY <1>1, InitIInv, NextIInv, PTL DEF Spec

(* Phase B's variables keep their types and its cursors stay in the block,  *)
(* whatever the refs and the options hold.                                  *)
THEOREM ParseTypeOK == Spec => []TypeOK
  BY ParseSafe, PTL

(* The rows of parse_blocks_bulk hold the caplen and the flags of their own *)
(* block, not those of an earlier one, and are those of the blocks in front *)
(* of the first it cannot parse.                                            *)
THEOREM ParseRowsExact == Spec => []RowsExact
  BY ParseSafe, PTL
=============================================================================
