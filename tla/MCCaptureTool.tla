---------------------------- MODULE MCCaptureTool ----------------------------
(***************************************************************************)
(* Every pcapng of a section header and up to MaxBlocks blocks (one more   *)
(* from a smaller set): section headers of both byte orders, interface     *)
(* blocks, whole and too short, packets of interface 0 and 1, too short    *)
(* ones, and simple packets; pcaps of both byte orders; and captures that  *)
(* end in an error.  An interface block's link type is its place in the    *)
(* file, so no two are alike.                                              *)
(***************************************************************************)
EXTENDS CaptureTool, SequencesExt

CONSTANT MaxBlocks

Length == [shb_le |-> 28, shb_be |-> 28, idb |-> 20, idb_short |-> 16, epb0 |-> 36,
           epb1 |-> 32, epb_short |-> 28, spb |-> 16, cut |-> 40, bad |-> 8]

(* Block types as written: SHB, IDB, SPB and EPB. *)
Type(b) ==
  CASE b \in {"shb_le", "shb_be"} -> 168627466
    [] b \in {"idb", "idb_short"} -> 1
    [] b = "spb" -> 3
    [] OTHER -> 6

(* Where block i of the list begins, and the byte order of its section. *)
StartOf(blocks, i) == FoldLeft(LAMBDA a, b : a + Length[b], 0, SubSeq(blocks, 1, i - 1))
OrderAt(blocks, i) ==
  blocks[Max({j \in 1..i : blocks[j] \in {"shb_le", "shb_be"}})] = "shb_le"

(* A "cut" block misses its last bytes. *)
Pcapng(blocks) ==
  LET n == Len(blocks)
      starts == {StartOf(blocks, i) : i \in 1..n}
      IndexAt(a) == CHOOSE i \in 1..n : StartOf(blocks, i) = a
  IN  [format |-> "pcapng", le |-> TRUE, link |-> 0,
       size |-> StartOf(blocks, n) + (IF Last(blocks) = "cut" THEN 30 ELSE Length[Last(blocks)]),
       at |-> [a \in starts |-> [type |-> Type(blocks[IndexAt(a)]),
                                 len |-> Length[blocks[IndexAt(a)]],
                                 le |-> OrderAt(blocks, IndexAt(a))]],
       body |-> [a \in starts |-> [link |-> 100 + IndexAt(a),
                                   iface |-> IF blocks[IndexAt(a)] = "epb1" THEN 1 ELSE 0,
                                   caplen |-> IF blocks[IndexAt(a)] = "epb0" THEN 4 ELSE 0]]]

Pcap(le, size) ==
  [format |-> "pcap", le |-> le, link |-> 7, size |-> size,
   at |-> (24 :> [type |-> 7, len |-> 20, le |-> le]) @@ (44 :> [type |-> 7, len |-> 16, le |-> le]),
   body |-> [a \in {24, 44} |-> [link |-> 0, iface |-> 0, caplen |-> 0]]]

Good == {"shb_le", "shb_be", "idb", "idb_short", "epb0", "epb1", "epb_short", "spb"}
Sections == {"shb_be", "idb", "idb_short", "epb1"}

(* Nothing but a magic number and size bytes. *)
Bare(format, size) ==
  [format |-> format, le |-> TRUE, link |-> 7, size |-> size, at |-> <<>>, body |-> <<>>]

MCFiles ==
  {Pcapng(<<"shb_le">> \o s) : s \in UNION {[1..n -> Good] : n \in 0..MaxBlocks}}
  \cup {Pcapng(<<"shb_le">> \o s) : s \in [1..(MaxBlocks + 1) -> Sections]}
  \cup {Pcapng(<<"shb_be", "idb", b>>) : b \in {"epb0", "cut"}}
  \cup {Pcapng(<<"shb_le", "idb", "epb0", "bad", "spb">>)}
  \cup {Pcap(le, size) : le \in BOOLEAN, size \in {60, 61}}
  \cup {Bare("pcap", 20), Bare("pcap", 24), Bare("other", 8), Bare("other", 3)}
=============================================================================
