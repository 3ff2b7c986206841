------------------------- MODULE ScanWindow_proofs --------------------------
(***************************************************************************)
(* The windowed scan of phase A is exact for every capture its writer laid *)
(* out as WellFormed says and for every way of cutting it into windows:    *)
(* the refs tile the bytes scanned, each is a block of the file in its     *)
(* section's byte order, and the verdict depends on the file alone.        *)
(*                                                                         *)
(* None of this is inductive by itself.  The scan knows only its window,   *)
(* so the invariant says what the position it has reached (At) is in the   *)
(* file: the start of a block if one can start there, of a block in the    *)
(* byte order the carried state remembers, with all blocks before it whole *)
(* and behind it.                                                          *)
(***************************************************************************)
EXTENDS ScanWindow, TLAPS

(* Where in the file the scan stands. *)
At == base + pos

(* Nothing is scanned before the format is known. *)
Fresh == ~st.started => base = 0 /\ pos = 0 /\ out = <<>> /\ phase # "walk"

(* The carried state describes the file. *)
Known ==
  st.started =>
    /\ avail >= 4
    /\ file.format \in {"pcapng", "pcap"}
    /\ st.is_pcapng = (file.format = "pcapng")
    /\ file.format = "pcap" => /\ st.little_endian = file.le
                               /\ st.link = file.link
                               /\ At >= PcapHeader
                               /\ out # <<>>

(* The least that must be in the window for a block to be looked at. *)
Frame == IF file.format = "pcapng" THEN BlockFrame ELSE RecordHeader

(* The scan stands on a block, in the byte order it will read it in. *)
OnBlock ==
  st.started =>
    /\ At + Frame <= file.size => At \in DOMAIN file.at
    /\ (file.format = "pcapng" /\ At \in DOMAIN file.at /\ file.at[At].type # ShbType)
         => file.at[At].le = st.little_endian

(* The blocks before it are whole and behind it, and one of them ends where *)
(* it stands.                                                               *)
Behind ==
  st.started =>
    /\ \A a \in DOMAIN file.at :
         a < At => file.at[a].len >= BlockFrame /\ a + file.at[a].len <= At
    /\ \/ At = IF file.format = "pcap" THEN PcapHeader ELSE 0
       \/ \E a \in DOMAIN file.at :
            file.at[a].len >= BlockFrame /\ a + file.at[a].len = At

AtEof == (phase = "walk" /\ eof) => avail = file.size

(* Between calls the window starts where the scan stands. *)
BetweenCalls == phase = "driver" => pos = 0

(* A call that fails is the last one. *)
NoErrorYet == phase # "done" => err = "none"

IInv == /\ TypeOK /\ Fresh /\ Known /\ OnBlock /\ Behind
        /\ AtEof /\ BetweenCalls /\ NoErrorYet
        /\ Tiling /\ RefsAreBlocks /\ VerdictOfFile

-----------------------------------------------------------------------------
(* What the assumption on the captures gives at a block. *)

LEMMA FileFacts ==
  ASSUME file \in Files
  PROVE  /\ file.format \in {"pcapng", "pcap", "other"}
         /\ file.size \in Nat /\ file.le \in BOOLEAN /\ file.link \in Nat
         /\ DOMAIN file.at \subseteq 0..file.size
         /\ \A a \in DOMAIN file.at : a \in Nat /\ file.at[a] \in Block
         /\ \A a \in DOMAIN file.at :
              file.format = "pcap" => /\ file.at[a].len >= RecordHeader
                                      /\ file.at[a].le = file.le
                                      /\ file.at[a].type = file.link
                                      /\ a >= PcapHeader
         /\ \A a, b \in DOMAIN file.at : a < b => a + file.at[a].len <= b
<1>1. WellFormed(file)
  BY FilesAssumption
<1>2. file.size \in Nat /\ DOMAIN file.at \subseteq 0..file.size
  BY <1>1 DEF WellFormed
<1>3. \A a \in DOMAIN file.at : a \in Nat
  BY <1>2
<1>4. \A a \in DOMAIN file.at : file.at[a] \in Block
  BY <1>1 DEF WellFormed
<1>5. /\ file.format \in {"pcapng", "pcap", "other"}
      /\ file.le \in BOOLEAN /\ file.link \in Nat
      /\ \A a, b \in DOMAIN file.at : a < b => a + file.at[a].len <= b
  BY <1>1 DEF WellFormed
<1>6. \A a \in DOMAIN file.at :
        file.format = "pcap" => /\ file.at[a].len >= RecordHeader
                                /\ file.at[a].le = file.le
                                /\ file.at[a].type = file.link
                                /\ a >= PcapHeader
  BY <1>1 DEF WellFormed
<1> QED BY <1>2, <1>3, <1>4, <1>5, <1>6

LEMMA BlockFacts ==
  ASSUME file \in Files, NEW a \in DOMAIN file.at
  PROVE  /\ a \in Nat /\ file.at[a].len \in Nat /\ file.at[a].type \in Nat
         /\ file.at[a].le \in BOOLEAN
  BY FileFacts DEF Block

(* From one whole block the next one starts where it ends. *)
LEMMA NextBlock ==
  ASSUME file \in Files, NEW a \in DOMAIN file.at, file.at[a].len >= BlockFrame
  PROVE  /\ a + file.at[a].len + BlockFrame <= file.size => a + file.at[a].len \in DOMAIN file.at
         /\ (a + file.at[a].len \in DOMAIN file.at /\ file.at[a + file.at[a].len].type # ShbType)
              => file.at[a + file.at[a].len].le = file.at[a].le
<1>1. WellFormed(file)
  BY FilesAssumption
<1> QED BY <1>1 DEF WellFormed

LEMMA FirstBlock ==
  ASSUME file \in Files
  PROVE  /\ file.format = "pcapng" =>
              /\ file.size >= BlockFrame => 0 \in DOMAIN file.at
              /\ 0 \in DOMAIN file.at => file.at[0].type = ShbType
         /\ file.format = "pcap" =>
              (PcapHeader + RecordHeader <= file.size => PcapHeader \in DOMAIN file.at)
<1>1. WellFormed(file)
  BY FilesAssumption
<1> QED BY <1>1 DEF WellFormed

LEMMA Numbers ==
  ASSUME TypeOK
  PROVE  /\ file.size \in Nat /\ avail \in Nat /\ avail <= file.size
         /\ base \in Nat /\ base <= avail /\ pos \in Nat /\ pos <= avail - base
         /\ At \in Nat /\ At <= avail
<1>1. file.size \in Nat
  BY FileFacts DEF TypeOK
<1>2. avail \in Nat /\ avail <= file.size
  BY <1>1 DEF TypeOK
<1>3. base \in Nat /\ base <= avail
  BY <1>2 DEF TypeOK
<1>4. pos \in Nat /\ pos <= avail - base
  BY <1>2, <1>3 DEF TypeOK, WindowSize
<1> QED BY <1>1, <1>2, <1>3, <1>4 DEF At

(* A pcapng header that is in the window is read as it was written. *)
LEMMA BlockHere ==
  ASSUME TypeOK, Known, OnBlock, st.started, st.is_pcapng, pos + BlockFrame <= WindowSize
  PROVE  /\ At \in DOMAIN file.at
         /\ file.format = "pcapng"
         /\ BlockTotal = file.at[At].len
         /\ BlockType = file.at[At].type
         /\ BlockLE = file.at[At].le
         /\ IsShb = (file.at[At].type = ShbType)
<1>1. file.format = "pcapng"
  BY DEF Known, TypeOK
<1>2. At + BlockFrame <= file.size
  BY Numbers DEF At, WindowSize, BlockFrame
<1>3. At \in DOMAIN file.at
  BY <1>1, <1>2 DEF OnBlock, Frame
<1>4. Header = file.at[At]
  BY <1>3 DEF Header, HeaderAt, At
<1>5. BlockLE = file.at[At].le
  BY <1>1, <1>3, <1>4 DEF BlockLE, IsShb, OnBlock
<1> QED BY <1>1, <1>3, <1>4, <1>5 DEF BlockTotal, BlockType, ReadLen, ReadType, IsShb

(* So is a pcap record's. *)
LEMMA RecordHere ==
  ASSUME TypeOK, Known, OnBlock, st.started, ~st.is_pcapng, pos + RecordHeader <= WindowSize
  PROVE  /\ At \in DOMAIN file.at
         /\ file.format = "pcap"
         /\ RecordTotal = file.at[At].len
         /\ file.at[At].len >= RecordHeader
<1>1. file.format = "pcap" /\ file.format # "pcapng"
  BY DEF Known, TypeOK
<1>2. At + RecordHeader <= file.size
  BY Numbers DEF At, WindowSize, RecordHeader
<1>3. At \in DOMAIN file.at
  BY <1>1, <1>2 DEF OnBlock, Frame
<1>4. Header = file.at[At]
  BY <1>3 DEF Header, HeaderAt, At
<1>5. /\ file.at[At].len >= RecordHeader /\ file.at[At].len \in Nat
      /\ file.at[At].le = st.little_endian
  BY <1>1, <1>3, FileFacts, BlockFacts DEF Known, TypeOK
<1> QED BY <1>1, <1>3, <1>4, <1>5 DEF RecordTotal, RecordHeader

(* One ref more, at the position, keeps the refs tiling and exact. *)
RefType == [win : Nat, off : Nat, len : Nat, type : Nat, kind : Kinds, le : BOOLEAN]

RefIsBlock(r, i) ==
  IF file.format = "pcap" /\ i = 1
  THEN r.len = PcapHeader /\ r.kind = "Idb" /\ r.type = file.link /\ r.le = file.le
  ELSE /\ FileOffset(r) \in DOMAIN file.at
       /\ r.len = file.at[FileOffset(r)].len
       /\ r.le = file.at[FileOffset(r)].le
       /\ r.type = file.at[FileOffset(r)].type
       /\ r.kind = IF file.format = "pcap" THEN "PcapRecord"
                   ELSE classify_block_type(file.at[FileOffset(r)].type)

LEMMA NewRef ==
  ASSUME TypeOK, Tiling, RefsAreBlocks, NEW r \in RefType,
         r.win = base, r.off = pos, RefIsBlock(r, Len(out) + 1),
         out' = Append(out, r), base' = base, pos' = pos + r.len, file' = file
  PROVE  out' \in Seq(RefType) /\ Tiling' /\ RefsAreBlocks'
<1>1. out \in Seq(RefType) /\ Len(out) \in Nat
  BY DEF TypeOK, RefType
<1>2. /\ out' \in Seq(RefType) /\ Len(out') = Len(out) + 1
      /\ out'[Len(out) + 1] = r
      /\ \A i \in 1..Len(out) : out'[i] = out[i]
  BY <1>1
<1>3. FileOffset(r) = At /\ RefEnd(r) = At + r.len
  BY DEF FileOffset, RefEnd, At
<1>4. r.len \in Nat /\ base \in Nat /\ pos \in Nat
  BY Numbers DEF RefType
<1>5. Tiling'
  <2>1. ASSUME NEW i \in 1..Len(out')
        PROVE  FileOffset(out'[i]) = IF i = 1 THEN 0 ELSE RefEnd(out'[i - 1])
    <3>1. CASE i = Len(out) + 1
      <4>1. CASE out = <<>>
        BY <1>2, <1>3, <3>1, <4>1 DEF Tiling, At
      <4>2. CASE out # <<>>
        <5>1. Len(out) \in 1..Len(out) /\ i # 1 /\ i - 1 = Len(out)
          BY <1>1, <3>1, <4>2
        <5> QED BY <1>2, <1>3, <3>1, <4>2, <5>1 DEF Tiling, At
      <4> QED BY <4>1, <4>2
    <3>2. CASE i # Len(out) + 1
      <4>1. i \in 1..Len(out) /\ (i # 1 => i - 1 \in 1..Len(out))
        BY <1>1, <1>2, <3>2
      <4> QED BY <1>2, <4>1 DEF Tiling
    <3> QED BY <3>1, <3>2
  <2>2. base' + pos' = RefEnd(out'[Len(out')]) /\ out' # <<>>
    BY <1>1, <1>2, <1>3, <1>4 DEF At
  <2> QED BY <2>1, <2>2 DEF Tiling, FileOffset, RefEnd
<1>6. RefsAreBlocks'
  <2>1. ASSUME NEW i \in 1..Len(out') PROVE RefIsBlock(out'[i], i)
    <3>1. CASE i = Len(out) + 1
      BY <1>2, <3>1
    <3>2. CASE i # Len(out) + 1
      <4>1. i \in 1..Len(out)
        BY <1>1, <1>2, <3>2
      <4>2. RefIsBlock(out[i], i)
        BY <4>1 DEF RefsAreBlocks, RefIsBlock
      <4> QED BY <1>2, <4>1, <4>2
    <3> QED BY <3>1, <3>2
  <2> QED BY <2>1 DEF RefsAreBlocks, RefIsBlock, FileOffset
<1> QED BY <1>2, <1>5, <1>6

(* Past a whole block the scan stands on the next one, the block behind it. *)
LEMMA NextPosition ==
  ASSUME TypeOK, Known, Behind, st.started, At \in DOMAIN file.at,
         file.at[At].len >= BlockFrame,
         file' = file, base' = base, pos' = pos + file.at[At].len, st'.started,
         file.format = "pcapng" => st'.little_endian = file.at[At].le
  PROVE  OnBlock' /\ Behind' /\ At' = At + file.at[At].len
<1>1. At \in Nat /\ file.at[At].len \in Nat /\ base \in Nat /\ pos \in Nat /\ file \in Files
      /\ file.size \in Nat
  BY Numbers, BlockFacts DEF TypeOK
<1>2. At' = At + file.at[At].len /\ At' \in Nat
  BY <1>1 DEF At
<1> DEFINE q == At
           e == At + file.at[At].len
<1>3. /\ e + BlockFrame <= file.size => e \in DOMAIN file.at
      /\ (e \in DOMAIN file.at /\ file.at[e].type # ShbType) => file.at[e].le = file.at[At].le
  BY <1>1, NextBlock
<1>4. OnBlock'
  BY <1>1, <1>2, <1>3 DEF OnBlock, Frame, RecordHeader, BlockFrame
<1>5. ASSUME NEW a \in DOMAIN file.at, a < e
      PROVE  file.at[a].len >= BlockFrame /\ a + file.at[a].len <= e
  <2>1. a \in Nat /\ file.at[a].len \in Nat
    BY <1>1, BlockFacts
  <2>2. CASE a < q
    BY <1>1, <2>1, <2>2 DEF Behind
  <2>3. CASE a = q
    BY <1>1, <2>3
  <2>4. CASE q < a
    <3>1. e <= a
      BY <1>1, <2>4, FileFacts
    <3> QED BY <1>1, <1>5, <2>1, <3>1
  <2> QED BY <1>1, <2>1, <2>2, <2>3, <2>4
<1>6. Behind'
  BY <1>2, <1>5 DEF Behind
<1> QED BY <1>2, <1>4, <1>6

-----------------------------------------------------------------------------
(* The verdict, case by case. *)

LEMMA VerdictCases ==
  ASSUME file \in Files
  PROVE  /\ file.size < 4 => Verdict(file) = "file too short"
         /\ (file.size >= 4 /\ file.format = "other")
              => Verdict(file) = "unrecognized file magic"
         /\ (file.size >= 4 /\ file.size < PcapHeader /\ file.format = "pcap")
              => Verdict(file) = "shorter than global header"
         /\ (file.size >= 4 /\ file.format = "pcapng" /\ BadLength(file))
              => Verdict(file) = "pcapng block length invalid"
         /\ (file.size >= 4 /\ file.format = "pcapng" /\ ~BadLength(file))
              => Verdict(file) = IF WholeTail(file) THEN "none" ELSE "trailing truncated block"
         /\ (file.size >= PcapHeader /\ file.format = "pcap")
              => Verdict(file) = IF WholeTail(file) THEN "none" ELSE "trailing truncated block"
<1>1. file.size \in Nat /\ file.format \in {"pcapng", "pcap", "other"}
  BY FileFacts
<1>2. ASSUME file.size < 4
      PROVE  Verdict(file) = "file too short"
  BY <1>1, <1>2 DEF Verdict, PcapHeader
<1>3. ASSUME file.size >= 4, file.format = "other"
      PROVE  Verdict(file) = "unrecognized file magic"
  BY <1>1, <1>3 DEF Verdict
<1>4. ASSUME file.size >= 4, file.size < PcapHeader, file.format = "pcap"
      PROVE  Verdict(file) = "shorter than global header"
  BY <1>1, <1>4 DEF Verdict
<1>5. ASSUME file.size >= 4, file.format = "pcapng", BadLength(file)
      PROVE  Verdict(file) = "pcapng block length invalid"
  BY <1>1, <1>5 DEF Verdict
<1>6. ASSUME file.size >= 4, file.format = "pcapng", ~BadLength(file)
      PROVE  Verdict(file) = IF WholeTail(file) THEN "none" ELSE "trailing truncated block"
  <2>1. ~(file.size < 4) /\ file.format # "other" /\ file.format # "pcap"
    BY <1>1, <1>6
  <2> QED BY ONLY <1>6, <2>1, Zenon DEF Verdict
<1>7. ASSUME file.size >= PcapHeader, file.format = "pcap"
      PROVE  Verdict(file) = IF WholeTail(file) THEN "none" ELSE "trailing truncated block"
  <2>1. ~(file.size < 4) /\ ~(file.size < PcapHeader) /\ file.format # "other" /\ file.format # "pcapng"
    BY <1>1, <1>7 DEF PcapHeader
  <2> QED BY ONLY <1>7, <2>1, Zenon DEF Verdict
<1> QED BY <1>2, <1>3, <1>4, <1>5, <1>6, <1>7

(* The loop has ended with the whole file in the window: no block can start *)
(* after the position, and the file is whole if it ends there.              *)
LEMMA EndVerdict ==
  ASSUME TypeOK, Known, OnBlock, Behind, st.started, avail = file.size,
         IF st.is_pcapng THEN ~BlockFits /\ ~BlockInvalid ELSE ~RecordFits
  PROVE  Verdict(file) = IF At = file.size THEN "none" ELSE "trailing truncated block"
<1>1. /\ At \in Nat /\ At <= file.size /\ file.size \in Nat /\ file.size >= 4
      /\ file \in Files /\ base \in Nat /\ pos \in Nat /\ avail \in Nat
  BY Numbers DEF Known, TypeOK
<1>2. ASSUME NEW a \in DOMAIN file.at, At <= a, a + Frame <= file.size
      PROVE  file.at[a].len >= BlockFrame /\ a + file.at[a].len > file.size
  <2>1. a \in Nat /\ file.at[a].len \in Nat
    BY <1>1, BlockFacts
  <2>2. At + Frame <= file.size
    BY <1>1, <1>2, <2>1 DEF Frame, BlockFrame, RecordHeader
  <2>3. At \in DOMAIN file.at
    BY <2>2 DEF OnBlock
  <2>4. file.at[At].len \in Nat
    BY <1>1, <2>3, BlockFacts
  <2>5. file.at[At].len >= BlockFrame /\ At + file.at[At].len > file.size
    <3>1. CASE st.is_pcapng
      <4>0. file.format = "pcapng"
        BY <3>1 DEF Known
      <4>1. pos + BlockFrame <= WindowSize
        BY <1>1, <2>2, <4>0 DEF Frame, At, WindowSize, BlockFrame
      <4>2. BlockTotal = file.at[At].len
        BY <3>1, <4>1, BlockHere
      <4>3. BlockTotal >= BlockFrame /\ pos + BlockTotal > WindowSize
        BY <1>1, <2>4, <3>1, <4>1, <4>2 DEF BlockInvalid, BlockFits, BlockFrame, WindowSize
      <4> QED BY <1>1, <2>4, <4>2, <4>3 DEF At, WindowSize
    <3>2. CASE ~st.is_pcapng
      <4>0. file.format # "pcapng"
        BY <3>2 DEF Known
      <4>1. pos + RecordHeader <= WindowSize
        BY <1>1, <2>2, <4>0 DEF Frame, At, WindowSize, RecordHeader
      <4>2. RecordTotal = file.at[At].len /\ file.at[At].len >= RecordHeader
        BY <3>2, <4>1, RecordHere
      <4>3. pos + RecordTotal > WindowSize
        BY <1>1, <2>4, <3>2, <4>1, <4>2 DEF RecordFits, WindowSize
      <4> QED BY <1>1, <2>4, <4>2, <4>3 DEF At, WindowSize, BlockFrame, RecordHeader
    <3> QED BY <3>1, <3>2
  <2>6. At < a => At + file.at[At].len <= a
    BY <1>1, <2>3, FileFacts
  <2>7. At = a
    BY <1>1, <1>2, <2>1, <2>4, <2>5, <2>6 DEF Frame, BlockFrame, RecordHeader
  <2> QED BY <2>5, <2>7
<1>3. file.format = "pcapng" => ~BadLength(file)
  <2> SUFFICES ASSUME file.format = "pcapng", NEW a \in DOMAIN file.at,
                      file.at[a].len < BlockFrame, a + BlockFrame <= file.size
               PROVE  FALSE
    BY DEF BadLength
  <2>1. a \in Nat /\ file.at[a].len \in Nat
    BY <1>1, BlockFacts
  <2>2. CASE a < At
    BY <2>1, <2>2 DEF Behind, BlockFrame
  <2>3. CASE At <= a
    BY <1>2, <2>1, <2>3 DEF Frame, BlockFrame
  <2> QED BY <1>1, <2>1, <2>2, <2>3
<1>4. file.format = "pcap" => file.size >= PcapHeader
  BY <1>1 DEF Known, PcapHeader
<1>5. WholeTail(file) <=> At = file.size
  <2>1. ASSUME At = file.size PROVE WholeTail(file)
    <3>1. CASE At = IF file.format = "pcap" THEN PcapHeader ELSE 0
      BY <1>1, <2>1, <3>1 DEF WholeTail
    <3>2. CASE \E a \in DOMAIN file.at :
                 file.at[a].len >= BlockFrame /\ a + file.at[a].len = At
      BY <1>1, <2>1, <3>2 DEF WholeTail, Complete
    <3> QED BY <3>1, <3>2 DEF Behind
  <2>2. ASSUME file.format = "pcap", file.size = PcapHeader PROVE At = file.size
    BY <1>1, <2>2 DEF Known, PcapHeader
  <2>3. ASSUME NEW a \in DOMAIN file.at, Complete(file, a), a + file.at[a].len = file.size
        PROVE  At = file.size
    <3>1. a \in Nat /\ file.at[a].len \in Nat /\ file.at[a].len >= BlockFrame
      BY <1>1, <2>3, BlockFacts DEF Complete
    <3>2. CASE a < At
      BY <1>1, <2>3, <3>1, <3>2 DEF Behind
    <3>3. CASE At <= a
      <4>1. a + Frame <= file.size
        <5>1. CASE file.format = "pcapng"
          BY <2>3, <3>1, <5>1 DEF Frame, BlockFrame
        <5>2. CASE file.format = "pcap"
          <6>1. file.at[a].len >= RecordHeader
            BY <1>1, <5>2, FileFacts
          <6> QED BY <2>3, <3>1, <5>2, <6>1 DEF Frame, RecordHeader
        <5> QED BY <5>1, <5>2 DEF Known
      <4> QED BY <1>1, <1>2, <2>3, <3>1, <3>3, <4>1
    <3> QED BY <1>1, <3>1, <3>2, <3>3
  <2> QED BY <2>1, <2>2, <2>3 DEF WholeTail
<1> QED BY <1>1, <1>3, <1>4, <1>5, VerdictCases DEF Known

-----------------------------------------------------------------------------
LEMMA InitIInv == Init => IInv
<1> SUFFICES ASSUME Init PROVE IInv
  OBVIOUS
<1> USE DEF Init
<1>1. file \in Files /\ file.size \in Nat
  BY FileFacts
<1>2. TypeOK
  <2>1. avail \in 0..file.size /\ base \in 0..avail
    BY <1>1
  <2>2. pos \in 0..WindowSize
    <3>1. WindowSize = 0
      BY DEF WindowSize
    <3> QED BY <3>1
  <2>3. st \in [started : BOOLEAN, is_pcapng : BOOLEAN, little_endian : BOOLEAN, link : Nat]
    <3>1. 0 \in Nat
      OBVIOUS
    <3> QED BY <3>1
  <2>4. out \in Seq([win : Nat, off : Nat, len : Nat, type : Nat, kind : Kinds, le : BOOLEAN])
    OBVIOUS
  <2>5. phase \in {"driver", "walk", "done"} /\ eof \in BOOLEAN /\ err \in Errors
    BY DEF Errors
  <2> QED BY ONLY <1>1, <2>1, <2>2, <2>3, <2>4, <2>5 DEF TypeOK
<1>3. ~st.started /\ phase = "driver" /\ out = <<>> /\ base + pos = 0
  OBVIOUS
<1>4. Tiling /\ RefsAreBlocks
  BY <1>3 DEF Tiling, RefsAreBlocks
<1> QED BY <1>2, <1>3, <1>4
        DEF IInv, Fresh, Known, OnBlock, Behind, AtEof, BetweenCalls, NoErrorYet, VerdictOfFile

(* Steps that leave the scan where it is. *)
Still == UNCHANGED <<file, base, st, pos, out>>

LEMMA StillParts ==
  ASSUME IInv, Still, avail' \in Nat, avail <= avail'
  PROVE  /\ Known' /\ OnBlock' /\ Behind' /\ Tiling' /\ RefsAreBlocks'
         /\ phase' # "walk" => Fresh'
<1>1. At' = At
  BY DEF Still, At
<1>2. avail \in Nat
  BY Numbers DEF IInv
<1>3. Known'
  BY <1>1, <1>2 DEF IInv, Still, Known
<1>4. OnBlock' /\ Behind'
  BY <1>1 DEF IInv, Still, OnBlock, Behind, Frame
<1>5. Tiling' /\ RefsAreBlocks'
  BY DEF IInv, Still, Tiling, RefsAreBlocks, FileOffset, RefEnd
<1> QED BY <1>3, <1>4, <1>5 DEF IInv, Still, Fresh

LEMMA DeliverInv ==
  ASSUME IInv, Deliver
  PROVE  IInv'
<1>1. /\ Still /\ phase = "driver" /\ UNCHANGED <<phase, eof, err>>
      /\ avail' \in (avail + 1)..file.size
  BY DEF Deliver, Still
<1>2. /\ file.size \in Nat /\ avail \in Nat /\ base \in Nat /\ base <= avail
      /\ pos \in Nat /\ pos <= avail - base
  BY Numbers DEF IInv
<1>3. TypeOK'
  <2>0. /\ avail' \in Nat /\ avail <= avail' /\ avail' <= file.size
        /\ file' = file /\ base' = base /\ pos' = pos
    BY <1>1, <1>2 DEF Still
  <2>1. avail' \in 0..file'.size /\ base' \in 0..avail' /\ pos' \in 0..WindowSize'
    <3>1. avail' \in 0..file'.size
      BY ONLY <1>2, <2>0
    <3>2. base' \in 0..avail'
      BY ONLY <1>2, <2>0
    <3>3. pos' \in 0..WindowSize'
      <4>0. ASSUME NEW a \in Nat, NEW b \in Nat, NEW c \in Nat, NEW p \in Nat,
                   c <= a, a <= b, p <= a - c
            PROVE  p \in 0..(b - c)
        BY ONLY <4>0
      <4>1. pos \in 0..(avail' - base)
        BY ONLY <1>2, <2>0, <4>0
      <4> QED BY ONLY <2>0, <4>1 DEF WindowSize
    <3> QED BY ONLY <3>1, <3>2, <3>3
  <2> QED BY <1>1, <2>1 DEF IInv, TypeOK, Still
<1>4. Known' /\ OnBlock' /\ Behind' /\ Tiling' /\ RefsAreBlocks' /\ Fresh'
  BY <1>1, <1>2, StillParts
<1> QED BY <1>1, <1>3, <1>4 DEF IInv, AtEof, BetweenCalls, NoErrorYet, Still, VerdictOfFile

LEMMA CallStartedInv ==
  ASSUME IInv, NEW atEof \in BOOLEAN, CallStarted(atEof)
  PROVE  IInv'
<1>1. /\ phase = "driver" /\ st.started /\ phase' = "walk" /\ pos' = 0 /\ eof' = atEof
      /\ UNCHANGED <<file, avail, base, err, st, out>>
      /\ atEof => avail = file.size
  BY DEF CallStarted, Called, EnterWalk
<1>2. pos = 0
  BY <1>1 DEF IInv, BetweenCalls
<1>3. Still /\ avail' \in Nat /\ avail <= avail'
  BY <1>1, <1>2, Numbers DEF IInv, Still
<1>4. TypeOK'
  BY <1>1, <1>2 DEF IInv, TypeOK, WindowSize
<1>5. Known' /\ OnBlock' /\ Behind' /\ Tiling' /\ RefsAreBlocks'
  BY <1>3, StillParts
<1> QED BY <1>1, <1>4, <1>5 DEF IInv, Fresh, AtEof, VerdictOfFile, BetweenCalls, NoErrorYet

(* A call that returns false before the loop, or asks for more. *)
LEMMA RefusedInv ==
  ASSUME IInv, phase = "driver", ~st.started, NEW message \in Errors,
         Fail(message), UNCHANGED <<file, avail, base, st, eof, pos, out>>,
         message = Verdict(file)
  PROVE  IInv'
<1>1. Still /\ avail' \in Nat /\ avail <= avail' /\ phase' = "done" /\ err' = message
  BY Numbers DEF IInv, Still, Fail
<1>2. TypeOK'
  BY <1>1 DEF IInv, TypeOK, WindowSize
<1>3. Known' /\ OnBlock' /\ Behind' /\ Tiling' /\ RefsAreBlocks' /\ Fresh'
  BY <1>1, StillParts
<1>4. VerdictOfFile'
  BY <1>1 DEF VerdictOfFile, Verdict, BadLength, WholeTail, Complete
<1> QED BY <1>1, <1>2, <1>3, <1>4 DEF IInv, AtEof, BetweenCalls, NoErrorYet

LEMMA UnchangedInv == ASSUME IInv, UNCHANGED vars PROVE IInv'
<1>1. /\ UNCHANGED <<file, avail, base, st, phase, eof, pos, out, err>>
  BY DEF vars
<1>2. Still /\ avail' \in Nat /\ avail <= avail'
  BY <1>1, Numbers DEF IInv, Still
<1>3. Known' /\ OnBlock' /\ Behind' /\ Tiling' /\ RefsAreBlocks'
  BY <1>2, StillParts
<1>4. TypeOK'
  BY <1>1 DEF IInv, TypeOK, WindowSize
<1>5. Fresh' /\ AtEof' /\ BetweenCalls' /\ NoErrorYet'
  BY <1>1 DEF IInv, Fresh, AtEof, BetweenCalls, NoErrorYet
<1>6. VerdictOfFile'
  BY <1>1 DEF IInv, VerdictOfFile
<1> QED BY <1>3, <1>4, <1>5, <1>6 DEF IInv

LEMMA DetectInv ==
  ASSUME IInv, NEW atEof \in BOOLEAN, Detect(atEof)
  PROVE  IInv'
<1>0. /\ file \in Files /\ file.size \in Nat /\ avail \in Nat /\ avail <= file.size
      /\ phase = "driver" /\ ~st.started /\ base = 0 /\ pos = 0 /\ out = <<>>
      /\ WindowSize = avail
      /\ atEof => avail = file.size
  <2>1. phase = "driver" /\ ~st.started /\ (atEof => avail = file.size)
    BY DEF Detect, DetectTooShort, DetectPcapng, DetectPcapTooShort, DetectPcap,
           DetectUnknown, Called
  <2>2. base = 0 /\ pos = 0 /\ out = <<>>
    BY <2>1 DEF IInv, Fresh
  <2>3. file \in Files /\ file.size \in Nat /\ avail \in Nat /\ avail <= file.size
    BY Numbers DEF IInv, TypeOK
  <2> QED BY <2>1, <2>2, <2>3 DEF WindowSize
<1>1. CASE DetectTooShort(atEof)
  <2>1. WindowSize < 4 /\ TooShort(atEof, "file too short")
    BY <1>1 DEF DetectTooShort
  <2>2. CASE atEof
    <3>1. /\ Fail("file too short")
          /\ UNCHANGED <<file, avail, base, st, eof, pos, out>>
      BY <2>1, <2>2 DEF TooShort
    <3>2. Verdict(file) = "file too short"
      BY <1>0, <2>1, <2>2, VerdictCases
    <3> QED BY <1>0, <3>1, <3>2, RefusedInv DEF Errors
  <2>3. CASE ~atEof
    BY <2>1, <2>3, UnchangedInv DEF TooShort
  <2> QED BY <2>2, <2>3
<1>2. CASE DetectPcapTooShort(atEof)
  <2>1. /\ WindowSize >= 4 /\ WindowSize < PcapHeader /\ file.format = "pcap"
        /\ TooShort(atEof, "shorter than global header")
    BY <1>2 DEF DetectPcapTooShort
  <2>2. CASE atEof
    <3>1. /\ Fail("shorter than global header")
          /\ UNCHANGED <<file, avail, base, st, eof, pos, out>>
      BY <2>1, <2>2 DEF TooShort
    <3>2. Verdict(file) = "shorter than global header"
      BY <1>0, <2>1, <2>2, VerdictCases
    <3> QED BY <1>0, <3>1, <3>2, RefusedInv DEF Errors
  <2>3. CASE ~atEof
    BY <2>1, <2>3, UnchangedInv DEF TooShort
  <2> QED BY <2>2, <2>3
<1>3. CASE DetectUnknown(atEof)
  <2>1. /\ WindowSize >= 4 /\ file.format = "other"
        /\ Fail("unrecognized file magic")
        /\ UNCHANGED <<file, avail, base, st, eof, pos, out>>
    BY <1>3 DEF DetectUnknown
  <2>2. file.size >= 4
    <3>1. /\ avail \in Nat /\ file.size \in Nat /\ avail <= file.size /\ avail >= 4
      BY ONLY <1>0, <2>1
    <3> QED BY ONLY <3>1
  <2>3. Verdict(file) = "unrecognized file magic"
    BY <1>0, <2>1, <2>2, VerdictCases
  <2> QED BY <1>0, <2>1, <2>3, RefusedInv DEF Errors
<1>4. CASE DetectPcapng(atEof)
  <2>1. /\ avail >= 4 /\ file.format = "pcapng"
        /\ st' = [st EXCEPT !.is_pcapng = TRUE, !.started = TRUE]
        /\ phase' = "walk" /\ pos' = 0 /\ eof' = atEof
        /\ UNCHANGED <<file, avail, base, err, out>>
    BY <1>0, <1>4 DEF DetectPcapng, EnterWalk
  <2>2. st \in [started : BOOLEAN, is_pcapng : BOOLEAN, little_endian : BOOLEAN, link : Nat]
    BY DEF IInv, TypeOK
  <2>3. /\ st' \in [started : BOOLEAN, is_pcapng : BOOLEAN, little_endian : BOOLEAN, link : Nat]
        /\ st'.started = TRUE /\ st'.is_pcapng = TRUE
    BY <2>1, <2>2
  <2>4. TypeOK'
    BY <1>0, <2>1, <2>3 DEF IInv, TypeOK, WindowSize
  <2>5. At' = 0
    BY <1>0, <2>1 DEF At
  <2>6. Known'
    BY <2>1, <2>3 DEF Known
  <2>7. OnBlock'
    BY <1>0, <2>1, <2>5, FirstBlock DEF OnBlock, Frame, BlockFrame
  <2>8. Behind'
    <3>1. \A a \in DOMAIN file.at : ~(a < 0)
      BY <1>0, BlockFacts
    <3> QED BY <2>1, <2>5, <3>1 DEF Behind
  <2>9. Tiling' /\ RefsAreBlocks'
    BY <1>0, <2>1 DEF Tiling, RefsAreBlocks
  <2> QED BY <1>0, <2>1, <2>3, <2>4, <2>6, <2>7, <2>8, <2>9
          DEF IInv, Fresh, AtEof, VerdictOfFile, BetweenCalls, NoErrorYet
<1>5. CASE DetectPcap(atEof)
  <2> DEFINE r == Ref(0, PcapHeader, file.link, "Idb", file.le)
  <2>1. /\ avail >= PcapHeader /\ file.format = "pcap"
        /\ st' = [started |-> TRUE, is_pcapng |-> FALSE,
                  little_endian |-> file.le, link |-> file.link]
        /\ out' = Append(out, r)
        /\ phase' = "walk" /\ pos' = PcapHeader /\ eof' = atEof
        /\ UNCHANGED <<file, avail, base, err>>
    BY <1>0, <1>5 DEF DetectPcap, EnterWalk
  <2>2. file.le \in BOOLEAN /\ file.link \in Nat
    BY <1>0, FileFacts
  <2>3. /\ r \in RefType /\ r.win = base /\ r.off = pos /\ r.len = PcapHeader
        /\ RefIsBlock(r, Len(out) + 1)
    BY <1>0, <2>1, <2>2 DEF Ref, RefType, Kinds, PcapHeader, RefIsBlock
  <2>4. pos' = pos + r.len
    BY <1>0, <2>1, <2>3 DEF PcapHeader
  <2>5. out' \in Seq(RefType) /\ Tiling' /\ RefsAreBlocks'
    BY <2>1, <2>3, <2>4, NewRef DEF IInv
  <2>6. TypeOK'
    <3>1. st' \in [started : BOOLEAN, is_pcapng : BOOLEAN, little_endian : BOOLEAN, link : Nat]
      BY <2>1, <2>2
    <3>2. avail' \in 0..file'.size /\ base' \in 0..avail' /\ pos' \in 0..WindowSize'
      BY <1>0, <2>1 DEF WindowSize, PcapHeader
    <3> QED BY <2>1, <2>5, <3>1, <3>2 DEF IInv, TypeOK, RefType
  <2>7. At' = PcapHeader
    BY <1>0, <2>1 DEF At, PcapHeader
  <2>8. Known'
    <3>1. out' # <<>>
      BY <1>0, <2>1
    <3>2. avail' >= 4 /\ At' >= PcapHeader
      BY <1>0, <2>1, <2>7 DEF PcapHeader
    <3>3. st'.is_pcapng = FALSE /\ st'.little_endian = file.le /\ st'.link = file.link
      BY <2>1
    <3>4. file' = file /\ file.format = "pcap" /\ ~(file.format = "pcapng")
      BY <2>1
    <3> QED BY ONLY <3>1, <3>2, <3>3, <3>4, Zenon DEF Known
  <2>9. OnBlock'
    BY <1>0, <2>1, <2>7, FirstBlock DEF OnBlock, Frame
  <2>10. Behind'
    <3>1. \A a \in DOMAIN file.at : ~(a < PcapHeader)
      BY <1>0, <2>1, FileFacts DEF PcapHeader
    <3> QED BY <2>1, <2>7, <3>1 DEF Behind
  <2> QED BY <1>0, <2>1, <2>5, <2>6, <2>8, <2>9, <2>10
          DEF IInv, Fresh, AtEof, VerdictOfFile, BetweenCalls, NoErrorYet
<1> QED BY <1>1, <1>2, <1>3, <1>4, <1>5 DEF Detect

(* The loop's own steps. *)
LEMMA RecordStepInv ==
  ASSUME IInv, RecordStep
  PROVE  IInv'
<1> DEFINE r == Ref(pos, RecordTotal, st.link, "PcapRecord", st.little_endian)
<1>0. TypeOK /\ Known /\ OnBlock /\ Behind /\ Fresh /\ Tiling /\ RefsAreBlocks
      /\ AtEof /\ NoErrorYet
  BY DEF IInv
<1>1. /\ phase = "walk" /\ ~st.is_pcapng /\ out' = Append(out, r) /\ pos' = pos + RecordTotal
      /\ UNCHANGED <<file, avail, base, st, phase, eof, err>>
      /\ pos + RecordHeader <= WindowSize /\ pos + RecordTotal <= WindowSize
  BY DEF RecordStep, RecordFits
<1>2. st.started
  BY <1>0, <1>1 DEF Fresh
<1>3. /\ At \in DOMAIN file.at /\ file.format = "pcap" /\ RecordTotal = file.at[At].len
      /\ file.at[At].len >= RecordHeader
  BY <1>0, <1>1, <1>2, RecordHere
<1>4. /\ file \in Files /\ file.size \in Nat /\ avail \in Nat /\ avail <= file.size
      /\ base \in Nat /\ base <= avail /\ pos \in Nat /\ pos <= avail - base /\ At \in Nat
  BY <1>0, Numbers DEF TypeOK
<1>5. /\ file.at[At].len \in Nat /\ file.at[At].type \in Nat /\ file.at[At].le \in BOOLEAN
      /\ file.at[At].le = file.le /\ file.at[At].type = file.link
  BY <1>3, <1>4, BlockFacts, FileFacts
<1>6. st.little_endian = file.le /\ st.link = file.link /\ At >= PcapHeader /\ out # <<>>
  BY <1>0, <1>2, <1>3 DEF Known
<1>7. /\ r \in RefType /\ r.win = base /\ r.off = pos /\ r.len = file.at[At].len
      /\ FileOffset(r) = At
  BY <1>3, <1>4, <1>5, <1>6 DEF Ref, RefType, Kinds, FileOffset, At
<1>8. RefIsBlock(r, Len(out) + 1)
  <2>1. Len(out) + 1 # 1
    BY <1>0, <1>6 DEF TypeOK
  <2>2. r.le = file.at[At].le /\ r.type = file.at[At].type /\ r.kind = "PcapRecord"
    BY <1>5, <1>6 DEF Ref
  <2> QED BY <1>3, <1>7, <2>1, <2>2 DEF RefIsBlock
<1>9. out' \in Seq(RefType) /\ Tiling' /\ RefsAreBlocks'
  <2>1. pos' = pos + r.len
    BY <1>1, <1>3, <1>7
  <2> HIDE DEF r
  <2> QED BY <1>0, <1>1, <1>7, <1>8, <2>1, NewRef
<1>10. OnBlock' /\ Behind' /\ At' = At + file.at[At].len
  <2>1. file.at[At].len >= BlockFrame
    BY <1>3, <1>5 DEF BlockFrame, RecordHeader
  <2>2. file' = file /\ base' = base /\ pos' = pos + file.at[At].len /\ st'.started
        /\ file.format # "pcapng"
    BY <1>1, <1>2, <1>3
  <2> QED BY <1>0, <1>2, <1>3, <2>1, <2>2, NextPosition
<1>11. TypeOK'
  <2>1. pos' \in 0..WindowSize'
    BY <1>1, <1>3, <1>4, <1>5 DEF WindowSize
  <2> QED BY <1>0, <1>1, <1>9, <2>1 DEF TypeOK, RefType
<1>12. Known'
  <2>1. out' # <<>>
    BY <1>0, <1>1 DEF TypeOK
  <2>2. At' >= PcapHeader
    BY <1>4, <1>5, <1>6, <1>10 DEF PcapHeader
  <2> QED BY <1>0, <1>1, <2>1, <2>2 DEF Known
<1>13. Fresh' /\ AtEof' /\ BetweenCalls' /\ NoErrorYet' /\ VerdictOfFile'
  BY <1>0, <1>1, <1>2 DEF Fresh, AtEof, BetweenCalls, NoErrorYet, VerdictOfFile
<1> QED BY <1>9, <1>10, <1>11, <1>12, <1>13 DEF IInv

LEMMA Classified == ASSUME NEW type PROVE classify_block_type(type) \in Kinds
  BY DEF classify_block_type, Kinds

LEMMA BlockStepInv ==
  ASSUME IInv, BlockStep
  PROVE  IInv'
<1> DEFINE r == Ref(pos, BlockTotal, BlockType, classify_block_type(BlockType), BlockLE)
<1>0. TypeOK /\ Known /\ OnBlock /\ Behind /\ Fresh /\ Tiling /\ RefsAreBlocks
      /\ AtEof /\ NoErrorYet
  BY DEF IInv
<1>1. /\ phase = "walk" /\ st.is_pcapng /\ out' = Append(out, r) /\ pos' = pos + BlockTotal
      /\ st' = IF IsShb THEN [st EXCEPT !.little_endian = BlockLE] ELSE st
      /\ UNCHANGED <<file, avail, base, phase, eof, err>>
      /\ pos + BlockFrame <= WindowSize /\ BlockTotal >= BlockFrame
      /\ pos + BlockTotal <= WindowSize
  BY DEF BlockStep, BlockFits
<1>2. st.started
  BY <1>0, <1>1 DEF Fresh
<1>3. /\ At \in DOMAIN file.at /\ file.format = "pcapng" /\ BlockTotal = file.at[At].len
      /\ BlockType = file.at[At].type /\ BlockLE = file.at[At].le
      /\ IsShb = (file.at[At].type = ShbType)
  BY <1>0, <1>1, <1>2, BlockHere
<1>4. /\ file \in Files /\ file.size \in Nat /\ avail \in Nat /\ avail <= file.size
      /\ base \in Nat /\ base <= avail /\ pos \in Nat /\ pos <= avail - base /\ At \in Nat
  BY <1>0, Numbers DEF TypeOK
<1>5. file.at[At].len \in Nat /\ file.at[At].type \in Nat /\ file.at[At].le \in BOOLEAN
  BY <1>3, <1>4, BlockFacts
<1>6. st \in [started : BOOLEAN, is_pcapng : BOOLEAN, little_endian : BOOLEAN, link : Nat]
  BY <1>0 DEF TypeOK
<1>7. /\ st' \in [started : BOOLEAN, is_pcapng : BOOLEAN, little_endian : BOOLEAN, link : Nat]
      /\ st'.started = TRUE /\ st'.is_pcapng = TRUE
      /\ st'.little_endian = file.at[At].le
  <2>1. CASE IsShb
    BY <1>1, <1>2, <1>3, <1>5, <1>6, <2>1
  <2>2. CASE ~IsShb
    <3>1. st' = st
      BY <1>1, <2>2
    <3>2. file.at[At].le = st.little_endian
      BY <1>0, <1>2, <1>3, <2>2 DEF OnBlock
    <3> QED BY <1>1, <1>2, <1>6, <3>1, <3>2
  <2> QED BY <2>1, <2>2
<1>8. /\ r \in RefType /\ r.win = base /\ r.off = pos /\ r.len = file.at[At].len
      /\ FileOffset(r) = At
  <2>1. classify_block_type(BlockType) \in Kinds
    BY Classified
  <2> QED BY <1>3, <1>4, <1>5, <2>1 DEF Ref, RefType, FileOffset, At
<1>9. RefIsBlock(r, Len(out) + 1)
  <2>1. /\ r.le = file.at[At].le /\ r.type = file.at[At].type
        /\ r.kind = classify_block_type(file.at[At].type)
    BY <1>3 DEF Ref
  <2> QED BY <1>3, <1>8, <2>1 DEF RefIsBlock
<1>10. out' \in Seq(RefType) /\ Tiling' /\ RefsAreBlocks'
  <2>1. pos' = pos + r.len
    BY <1>1, <1>3, <1>8
  <2> HIDE DEF r
  <2> QED BY <1>0, <1>1, <1>8, <1>9, <2>1, NewRef
<1>11. OnBlock' /\ Behind' /\ At' = At + file.at[At].len
  <2>1. file' = file /\ base' = base /\ pos' = pos + file.at[At].len
        /\ file.at[At].len >= BlockFrame
    BY <1>1, <1>3
  <2> QED BY <1>0, <1>2, <1>3, <1>7, <2>1, NextPosition
<1>12. TypeOK'
  <2>1. pos' \in 0..WindowSize'
    BY <1>1, <1>3, <1>4, <1>5 DEF WindowSize
  <2> QED BY <1>0, <1>1, <1>7, <1>10, <2>1 DEF TypeOK, RefType
<1>13. Known'
  BY <1>0, <1>1, <1>2, <1>3, <1>7 DEF Known
<1>14. Fresh' /\ AtEof' /\ BetweenCalls' /\ NoErrorYet' /\ VerdictOfFile'
  BY <1>0, <1>1, <1>7 DEF Fresh, AtEof, BetweenCalls, NoErrorYet, VerdictOfFile
<1> QED BY <1>10, <1>11, <1>12, <1>13, <1>14 DEF IInv

LEMMA BlockErrorInv ==
  ASSUME IInv, BlockError
  PROVE  IInv'
<1>0. TypeOK /\ Known /\ OnBlock /\ Fresh
  BY DEF IInv
<1>1. /\ phase = "walk" /\ st.is_pcapng
      /\ pos + BlockFrame <= WindowSize /\ BlockTotal < BlockFrame
      /\ err' = "pcapng block length invalid" /\ phase' = "done"
      /\ UNCHANGED <<file, avail, base, st, eof, pos, out>>
  BY DEF BlockError, BlockInvalid, Fail
<1>2. st.started
  BY <1>0, <1>1 DEF Fresh
<1>3. At \in DOMAIN file.at /\ file.format = "pcapng" /\ BlockTotal = file.at[At].len
  BY <1>0, <1>1, <1>2, BlockHere
<1>4. /\ file \in Files /\ file.size \in Nat /\ avail \in Nat /\ avail <= file.size
      /\ base \in Nat /\ pos \in Nat /\ avail >= 4
  BY <1>0, <1>2, Numbers DEF TypeOK, Known
<1>5. BadLength(file)
  <2>1. At + BlockFrame <= file.size
    <3>1. pos + BlockFrame <= avail - base
      BY <1>1 DEF WindowSize
    <3> QED BY ONLY <1>4, <3>1 DEF At, BlockFrame
  <2>2. file.at[At].len < BlockFrame
    BY <1>1, <1>3
  <2> QED BY <1>3, <2>1, <2>2 DEF BadLength
<1>6. Verdict(file) = "pcapng block length invalid"
  <2>1. file.size >= 4
    BY <1>4
  <2> QED BY <1>3, <1>4, <1>5, <2>1, VerdictCases
<1>7. Still /\ avail' \in Nat /\ avail <= avail'
  <2>1. Still /\ avail' = avail
    BY <1>1 DEF Still
  <2> QED BY <1>4, <2>1
<1>8. Known' /\ OnBlock' /\ Behind' /\ Tiling' /\ RefsAreBlocks' /\ Fresh'
  BY <1>1, <1>7, StillParts
<1>9. TypeOK'
  BY <1>0, <1>1 DEF TypeOK, WindowSize, Errors
<1>10. VerdictOfFile'
  BY <1>1, <1>6 DEF VerdictOfFile, Verdict, BadLength, WholeTail, Complete
<1> QED BY <1>1, <1>8, <1>9, <1>10 DEF IInv, AtEof, BetweenCalls, NoErrorYet

LEMMA ReturnInv ==
  ASSUME IInv, Return
  PROVE  IInv'
<1>0. TypeOK /\ Known /\ OnBlock /\ Behind /\ Fresh /\ Tiling /\ RefsAreBlocks
      /\ AtEof /\ NoErrorYet
  BY DEF IInv
<1>1. /\ phase = "walk"
      /\ IF st.is_pcapng THEN ~BlockFits /\ ~BlockInvalid ELSE ~RecordFits
      /\ base' = base + pos /\ pos' = 0
      /\ UNCHANGED <<file, avail, st, eof, out>>
  BY DEF Return
<1>2. IF eof /\ pos < WindowSize
      THEN err' = "trailing truncated block" /\ phase' = "done"
      ELSE phase' = (IF eof THEN "done" ELSE "driver") /\ err' = err
  BY DEF Return, Fail
<1>3. st.started
  BY <1>0, <1>1 DEF Fresh
<1>4. /\ file \in Files /\ file.size \in Nat /\ avail \in Nat /\ avail <= file.size
      /\ base \in Nat /\ base <= avail /\ pos \in Nat /\ pos <= avail - base
      /\ At \in Nat /\ At <= avail
  BY <1>0, Numbers DEF TypeOK
<1>5. At' = At
  BY <1>1, <1>4 DEF At
<1>6. phase' \in {"done", "driver"} /\ (phase' = "done" => eof) /\ err' \in Errors
  <2>1. err \in Errors /\ "trailing truncated block" \in Errors /\ eof \in BOOLEAN
    BY <1>0 DEF TypeOK, Errors
  <2> QED BY <1>2, <2>1
<1>7. TypeOK'
  <2>1. base' \in 0..avail' /\ pos' \in 0..WindowSize'
    BY <1>1, <1>4 DEF WindowSize
  <2> QED BY <1>0, <1>1, <1>6, <2>1 DEF TypeOK
<1>8. Known' /\ OnBlock' /\ Behind'
  BY <1>0, <1>1, <1>5 DEF Known, OnBlock, Behind, Frame
<1>9. Tiling' /\ RefsAreBlocks'
  <2>1. base' + pos' = base + pos
    BY <1>1, <1>4
  <2> QED BY <1>0, <1>1, <2>1 DEF Tiling, RefsAreBlocks, FileOffset, RefEnd
<1>10. VerdictOfFile'
  <2> SUFFICES ASSUME phase' = "done" PROVE err' = Verdict(file)
    BY <1>1 DEF VerdictOfFile, Verdict, BadLength, WholeTail, Complete
  <2>1. eof /\ avail = file.size
    BY <1>0, <1>1, <1>6 DEF AtEof
  <2>2. Verdict(file) = IF At = file.size THEN "none" ELSE "trailing truncated block"
    BY <1>0, <1>1, <1>3, <2>1, EndVerdict
  <2>3. pos < WindowSize <=> At # file.size
    BY <1>4, <2>1 DEF At, WindowSize
  <2>4. err = "none"
    BY <1>0, <1>1 DEF NoErrorYet
  <2>5. CASE pos < WindowSize
    BY <1>2, <2>1, <2>2, <2>3, <2>5
  <2>6. CASE ~(pos < WindowSize)
    <3>1. err' = err
      BY <1>2, <2>6
    <3>2. At = file.size
      BY <2>3, <2>6
    <3> QED BY <2>2, <2>4, <3>1, <3>2
  <2> QED BY <2>5, <2>6
<1>11. Fresh' /\ AtEof' /\ BetweenCalls'
  BY <1>1, <1>3, <1>6 DEF Fresh, AtEof, BetweenCalls
<1>12. NoErrorYet'
  <2>1. err = "none"
    BY <1>0, <1>1 DEF NoErrorYet
  <2> QED BY <1>2, <2>1 DEF NoErrorYet
<1> QED BY <1>7, <1>8, <1>9, <1>10, <1>11, <1>12 DEF IInv

LEMMA NextIInv == IInv /\ [Next]_vars => IInv'
<1> SUFFICES ASSUME IInv, [Next]_vars PROVE IInv'
  OBVIOUS
<1>1. CASE Deliver
  BY <1>1, DeliverInv
<1>2. ASSUME NEW atEof \in BOOLEAN, CallStarted(atEof) PROVE IInv'
  BY <1>2, CallStartedInv
<1>3. ASSUME NEW atEof \in BOOLEAN, Detect(atEof) PROVE IInv'
  BY <1>3, DetectInv
<1>4. CASE RecordStep
  BY <1>4, RecordStepInv
<1>5. CASE BlockStep
  BY <1>5, BlockStepInv
<1>6. CASE BlockError
  BY <1>6, BlockErrorInv
<1>7. CASE Return
  BY <1>7, ReturnInv
<1>8. CASE UNCHANGED vars
  BY <1>8, UnchangedInv
<1> QED BY <1>1, <1>2, <1>3, <1>4, <1>5, <1>6, <1>7, <1>8 DEF Next, Walk

-----------------------------------------------------------------------------
LEMMA SpecIInv == Spec => []IInv
  BY InitIInv, NextIInv, PTL DEF Spec

(* The variables of the scan keep their types: the window stays inside the  *)
(* bytes received, and the position inside the window, in whatever chunks   *)
(* they arrive and however often scan_window is called on too few.          *)
THEOREM ScanTypeOK == Spec => []TypeOK
<1>1. IInv => TypeOK
  BY DEF IInv
<1> QED BY <1>1, SpecIInv, PTL

(* The refs scan_window reports tile the capture from its first byte and    *)
(* each is a block as its writer wrote it, for every well-formed capture    *)
(* and every way of cutting it into windows.                                *)
THEOREM ScanRefsExact == Spec => []RefsExact
<1>1. IInv => RefsExact
  BY DEF IInv, RefsExact
<1> QED BY <1>1, SpecIInv, PTL

(* scan_window ends with the error the capture deserves, or with none,      *)
(* whatever the windows were: the result of scan_blocks on the whole file.  *)
THEOREM ScanVerdict == Spec => []VerdictOfFile
<1>1. IInv => VerdictOfFile
  BY DEF IInv
<1> QED BY <1>1, SpecIInv, PTL
=============================================================================
