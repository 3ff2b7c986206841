---------------------------- MODULE MCBlockParse ----------------------------
(***************************************************************************)
(* Blocks for TLC.  Words are below 96: every total length and every       *)
(* option offset that matters is reached, and so is every way 28 +         *)
(* pad4(caplen) + 4 can wrap.                                              *)
(***************************************************************************)
EXTENDS BlockParse

B(kind, off, len, caplen) ==
  [kind |-> kind, off |-> off, len |-> len, caplen |-> caplen,
   magic |-> (off = 0 /\ kind = "Idb")]

PcapngBlocks ==
  {B(kind, 28, len, 0) : kind \in {"Shb", "Idb", "Other"}, len \in {12, 19, 20, 24, 27, 28, 40}}

EpbCaplens == {0, 1, 4, 5, 12} \cup {W - n : n \in {1, 4, 28, 31, 32, 35, 36}}

Epbs == {B("Epb", 28, len, caplen) : len \in {31, 32, 40, 44}, caplen \in EpbCaplens}

(* What may follow them. *)
Later ==
  {B("Epb", 72, len, caplen) : len \in {28, 32, 44}, caplen \in {0, 4}}
    \cup {B("PcapRecord", 72, 16 + n, n) : n \in {0, 8}}

(* Records of a file of more than W bytes: the total lengths of the long   *)
(* ones are cut to one word.                                               *)
Records ==
  {B("PcapRecord", 24, 16 + n, n) : n \in {0, 1, 20}}
    \cup {B("PcapRecord", 24, (16 + n) - W, n) : n \in {80, 88, 95}}

MCBlocks == {B("Idb", 0, 24, 0)} \cup PcapngBlocks \cup Epbs \cup Later \cup Records

MCFileSizes == {23, 68, 108, 140}
MCOptLengths == {0, 1, 4, 15}
=============================================================================
