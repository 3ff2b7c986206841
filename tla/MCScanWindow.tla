---------------------------- MODULE MCScanWindow ----------------------------
(***************************************************************************)
(* Captures for ScanWindow, laid out from the list of their blocks: two    *)
(* sections of opposite byte order, an invalid block length, tails cut     *)
(* inside a header and inside a body, both byte orders of pcap, an empty   *)
(* record at the very end, and files too short to tell their format.       *)
(***************************************************************************)
EXTENDS ScanWindow, SequencesExt, FiniteSetsExt

B(type, len, le) == [type |-> type, len |-> len, le |-> le]

(* The blocks one after the other from byte first. *)
LayOut(first, blocks) ==
  LET Start(i) == first + FoldLeft(LAMBDA a, b : a + b.len, 0, SubSeq(blocks, 1, i - 1))
      starts == {Start(i) : i \in 1..Len(blocks)}
  IN  [a \in starts |-> blocks[CHOOSE i \in 1..Len(blocks) : Start(i) = a]]

EndOf(first, blocks) == first + FoldLeft(LAMBDA a, b : a + b.len, 0, blocks)

(* cut bytes are missing at the end. *)
Pcapng(blocks, cut) ==
  [format |-> "pcapng", le |-> TRUE, link |-> 0,
   size |-> EndOf(0, blocks) - cut, at |-> LayOut(0, blocks)]

Pcap(le, blocks, cut) ==
  [format |-> "pcap", le |-> le, link |-> 1,
   size |-> EndOf(PcapHeader, blocks) - cut, at |-> LayOut(PcapHeader, blocks)]

Unknown(size) ==
  [format |-> "other", le |-> TRUE, link |-> 0, size |-> size, at |-> <<>>]

Shb(le) == B(ShbType, 28, le)

TwoSections ==
  Pcapng(<<Shb(TRUE), B(IdbType, 20, TRUE), B(EpbType, 36, TRUE),
           Shb(FALSE), B(IdbType, 20, FALSE), B(EpbType, 32, FALSE), B(5, 12, FALSE)>>, 0)

MCFiles ==
  {TwoSections,
   Pcapng(<<Shb(FALSE), B(SpbType, 16, FALSE), Shb(TRUE), B(EpbType, 32, TRUE)>>, 5),
   Pcapng(<<Shb(FALSE), B(IdbType, 20, FALSE), B(EpbType, 32, FALSE)>>, 27),
   Pcapng(<<Shb(TRUE), B(EpbType, 32, TRUE), B(IdbType, 8, TRUE), B(5, 20, TRUE)>>, 0),
   Pcapng(<<Shb(TRUE)>>, 20),
   Pcap(TRUE, <<B(1, 20, TRUE), B(1, 16, TRUE)>>, 0),
   Pcap(FALSE, <<B(1, 17, FALSE), B(1, 30, FALSE)>>, 3),
   Pcap(FALSE, <<>>, 0),
   Pcap(TRUE, <<>>, 4),
   Unknown(6),
   Unknown(3)}
=============================================================================
