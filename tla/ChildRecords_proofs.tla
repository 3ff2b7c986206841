------------------------ MODULE ChildRecords_proofs -------------------------
(***************************************************************************)
(* The count pass, the scatter pass and the decoder of the whole packet    *)
(* find the same children, for every header, every contents and every way  *)
(* the capture cuts the packet.                                            *)
(*                                                                         *)
(* The three run one after the other and meet only in the bytes they read. *)
(* The invariant says what a visit finds without running it: how many      *)
(* children of 16 bytes there are (FixedCount), and which of the records   *)
(* read so far it accepts (Accepts) and where it stops (Stops).  The       *)
(* records form one chain for all visits (Chain), of which each visit has  *)
(* taken a prefix (Found).  Two visits of the same bytes then stop at the  *)
(* same record, and one that sees more bytes stops there or later          *)
(* (AcceptsBound).                                                         *)
(***************************************************************************)
EXTENDS ChildRecords, FiniteSetTheorems, SequenceTheorems, TLAPS

(***************************************************************************)
(* What a visit finds, said without running it.                            *)
(***************************************************************************)
EndOf(v) == Min2(Off + hdr.len, size[v])

(* Where the children of 16 bytes start: segments, or entries. *)
Base == IF hdr.kind = "srh" THEN Off + 8 ELSE Entries

FixedTable == IF hdr.kind = "srh" THEN "seg" ELSE "entry"
RecordTable == IF hdr.kind = "sd" THEN "option" ELSE "opt"

(* The message goes on to its entries. *)
HasEntries(v) == Off + 16 <= size[v] /\ hdr.message /\ Entries <= EndOf(v)

(* How many children of 16 bytes the visit finds. *)
FixedCount(v) ==
  IF hdr.kind = "srh"
  THEN IF Base <= EndOf(v) THEN Min2(hdr.n, (EndOf(v) - Base) \div 16) ELSE 0
  ELSE IF hdr.kind = "sd" /\ HasEntries(v)
       THEN (Min2(Entries + hdr.n, EndOf(v)) - Entries) \div 16
       ELSE 0

(* Where the records start and end, and whether the visit gets to them. *)
Start ==
  IF hdr.kind = "srh" THEN TlvStart
  ELSE IF hdr.kind = "sd" THEN OptionsWord + 4
  ELSE Off + FixedSize[hdr.kind]

Limit(v) ==
  IF hdr.kind = "sd" THEN Min2(OptionsWord + 4 + hdr.olen, EndOf(v)) ELSE EndOf(v)

Entered(v) ==
  /\ hdr.kind = "ipv4" => hdr.len > 20
  /\ hdr.kind = "sd" => HasEntries(v) /\ Start <= EndOf(v)
  /\ hdr.kind # "sd" => Start < EndOf(v)

(* Whether the loop reads a record at p, and whether it accepts record x. *)
More(p, v) == IF hdr.kind = "sd" THEN p + 3 <= Limit(v) ELSE p < Limit(v)

Fits(x, v) ==
  IF hdr.kind = "sd" THEN x.at + 3 + x.rec.n <= Limit(v)
  ELSE x.rec.lone \/ (x.at + 2 <= Limit(v) /\ x.rec.n >= 2 /\ x.at + x.rec.n <= Limit(v))

SizeOf(x) ==
  IF hdr.kind = "sd" THEN 3 + x.rec.n ELSE IF x.rec.lone THEN 1 ELSE x.rec.n

(* The position behind the first k records. *)
After(k, v) ==
  IF k = 0 THEN Start
  ELSE IF recs[k].rec.last THEN EndOf(v) ELSE recs[k].at + SizeOf(recs[k])

EndpointOf(x, v) ==
  LET last == x.at + (IF x.rec.endpoint = "v4" THEN 12 ELSE 24)
  IN  IF hdr.kind # "sd" \/ x.rec.endpoint = "none" \/ last > size[v] THEN 0 ELSE last

FixedRow(m) ==
  [table |-> FixedTable, at |-> Base + 16 * (m - 1), n |-> 16,
   index |-> (m - 1) % IndexMod, endpoint |-> 0]

RecordRow(m, v) ==
  [table |-> RecordTable, at |-> recs[m].at, n |-> SizeOf(recs[m]),
   index |-> (m - 1) % IndexMod, endpoint |-> EndpointOf(recs[m], v)]

-----------------------------------------------------------------------------
(* Visit v has emitted f children of 16 bytes and the first k records. *)
CountedSoFar(f, k) ==
  \A t \in Tables :
    counts[t] = IF t = FixedTable THEN f ELSE IF t = RecordTable THEN k ELSE 0

WrittenSoFar(v, f, k) ==
  /\ Len(rows[v]) = f + k
  /\ \A m \in 1..f : rows[v][m] = FixedRow(m)
  /\ \A m \in 1..k : rows[v][f + m] = RecordRow(m, v)

Progress(v, f, k) == IF v = "count" THEN CountedSoFar(f, k) ELSE WrittenSoFar(v, f, k)

(* The first k records are there and visit v accepts them. *)
Accepts(v, k) ==
  \A m \in 1..k : More(recs[m].at, v) /\ Fits(recs[m], v)

(* Visit v ends behind the first k records. *)
Stops(v, k) ==
  \/ ~Entered(v) /\ k = 0
  \/ Entered(v) /\ ~More(After(k, v), v)
  \/ Entered(v) /\ k < Len(recs) /\ ~Fits(recs[k + 1], v)

Found(v, k) ==
  /\ Progress(v, FixedCount(v), k)
  /\ Accepts(v, k)
  /\ k > 0 => Entered(v)

Rank == [count |-> 1, scatter |-> 2, whole |-> 3]

(* The records read follow one another from the start. *)
Chain ==
  /\ recs # <<>> => recs[1].at = Start
  /\ \A k \in 1..(Len(recs) - 1) :
       ~recs[k].rec.last /\ recs[k + 1].at = recs[k].at + SizeOf(recs[k])
  /\ \A k \in 1..Len(recs) : Start <= recs[k].at
  /\ \A k \in 1..Len(recs), m \in 1..Len(recs) : k < m => recs[k].at < recs[m].at

(* The captures the count and the scatter pass see are the same, and the   *)
(* fixed part of the header is in it.                                      *)
Captures ==
  /\ size["count"] = size["scatter"]
  /\ size["whole"] = Whole
  /\ \A v \in Visits : Off + FixedSize[hdr.kind] <= size[v] /\ size[v] <= Whole

(* The visits to come have found nothing yet. *)
ToCome == \A v \in Visits : Rank[v] > Rank[visit] => Progress(v, 0, 0)

(* The visits behind have found what there is. *)
FoundAll(v) == \E k \in 0..Len(recs) : Found(v, k) /\ Stops(v, k)

Behind == \A v \in Visits : Rank[v] < Rank[visit] => FoundAll(v)

(* The visit under way stands where what it has found puts it. *)
AtFixed ==
  /\ pc = "segments" => hdr.kind = "srh"
  /\ pc = "entries" => hdr.kind = "sd" /\ HasEntries(visit)
  /\ i \in 0..FixedCount(visit)
  /\ at = Base + 16 * i
  /\ Progress(visit, i, 0)

AtRecords ==
  /\ pc = "tlvs" => hdr.kind # "sd"
  /\ pc = "options" => hdr.kind = "sd"
  /\ Entered(visit)
  /\ i \in 0..Len(recs)
  /\ at = After(i, visit)
  /\ Found(visit, i)

UnderWay ==
  /\ pc = "enter" => Progress(visit, 0, 0)
  /\ pc \in {"segments", "entries"} => AtFixed
  /\ pc \in {"tlvs", "options"} => AtRecords
  /\ pc = "done" => FoundAll(visit)

IInv == TypeOK /\ Captures /\ Chain /\ ToCome /\ Behind /\ UnderWay

-----------------------------------------------------------------------------
(* The parameters and the header are numbers. *)
LEMMA HeaderFacts ==
  ASSUME hdr \in Headers
  PROVE  /\ Off \in Nat /\ Whole \in Nat /\ IndexMod \in Nat /\ IndexMod > 0
         /\ hdr.kind \in Kinds
         /\ hdr.len \in Nat /\ hdr.n \in Nat /\ hdr.olen \in Nat
         /\ hdr.message \in BOOLEAN
         /\ FixedSize[hdr.kind] \in Nat
         /\ hdr.kind = "ipv4" => FixedSize[hdr.kind] = 20
         /\ hdr.kind = "opt" => FixedSize[hdr.kind] = 2
         /\ hdr.kind = "srh" => FixedSize[hdr.kind] = 8
         /\ hdr.kind = "sd" => FixedSize[hdr.kind] = 16
  BY ConstantsAssumption DEF Kinds, FixedSize

LEMMA SizeFacts ==
  ASSUME TypeOK, NEW v \in Visits
  PROVE  size[v] \in Nat
<1>1. size[v] \in Sizes \cup {Whole}
  BY DEF TypeOK
<1> QED BY <1>1, ConstantsAssumption

LEMMA Numbers ==
  ASSUME TypeOK, NEW v \in Visits
  PROVE  /\ EndOf(v) \in Nat /\ Limit(v) \in Nat
         /\ EndOf(v) <= size[v] /\ EndOf(v) <= Off + hdr.len
         /\ Limit(v) <= EndOf(v)
         /\ Base \in Nat /\ Start \in Nat /\ Entries \in Nat
         /\ OptionsWord \in Nat /\ TlvStart \in Nat
         /\ Off < Base /\ Off < Start
<1>1. hdr \in Headers
  BY DEF TypeOK
<1> HIDE DEF TypeOK
<1>2. size[v] \in Nat
  BY SizeFacts
<1>3. EndOf(v) \in Nat /\ EndOf(v) <= size[v] /\ EndOf(v) <= Off + hdr.len
  BY ONLY <1>1, <1>2, HeaderFacts DEF EndOf, Min2
<1>4. Entries \in Nat /\ OptionsWord \in Nat /\ TlvStart \in Nat
  BY ONLY <1>1, HeaderFacts DEF Entries, OptionsWord, TlvStart
<1>5. Base \in Nat /\ Off < Base
  BY ONLY <1>1, HeaderFacts DEF Base, Entries
<1>6. Start \in Nat /\ Off < Start
  BY ONLY <1>1, HeaderFacts DEF Start, OptionsWord, TlvStart, Entries, Kinds
<1>7. Limit(v) \in Nat /\ Limit(v) <= EndOf(v)
  BY ONLY <1>1, <1>3, <1>4, HeaderFacts DEF Limit, Min2
<1> QED BY <1>3, <1>4, <1>5, <1>6, <1>7

(* Division by the size of a child: i children of 16 bytes and one more. *)
LEMMA Sixteens ==
  ASSUME NEW x \in Nat, NEW k \in Nat
  PROVE  /\ x \div 16 \in Nat
         /\ 16 * (x \div 16) <= x
         /\ k < x \div 16 <=> 16 * k + 16 <= x
  OBVIOUS

LEMMA Sixteens2 ==
  ASSUME NEW x \in Nat, NEW y \in Nat, x <= y
  PROVE  x \div 16 <= y \div 16
  OBVIOUS

LEMMA FixedCountFacts ==
  ASSUME TypeOK, NEW v \in Visits
  PROVE  /\ FixedCount(v) \in Nat
         /\ FixedCount(v) > 0 => Base + 16 * FixedCount(v) <= EndOf(v)
         /\ hdr.kind \in {"srh", "sd"} => Base + 16 * FixedCount(v) <= Start
         /\ hdr.kind = "sd" => Base + 16 * FixedCount(v) <= OptionsWord
         /\ FixedCount(v) > 0 => hdr.kind \in {"srh", "sd"}
<1> DEFINE e == EndOf(v)
<1>0. e \in Nat /\ Base \in Nat /\ Entries \in Nat
  BY Numbers
<1>1. hdr.n \in Nat /\ Off \in Nat /\ hdr.kind \in Kinds
  BY HeaderFacts DEF TypeOK
<1>2. CASE hdr.kind = "srh" /\ Base <= e
  <2>1. e - Base \in Nat
    BY <1>0, <1>2
  <2>2. FixedCount(v) = Min2(hdr.n, (e - Base) \div 16)
    BY <1>2 DEF FixedCount
  <2>3. /\ (e - Base) \div 16 \in Nat
        /\ 16 * ((e - Base) \div 16) <= e - Base
    BY ONLY <2>1, Sixteens
  <2>4. FixedCount(v) \in Nat /\ FixedCount(v) <= hdr.n /\ 16 * FixedCount(v) <= e - Base
    BY ONLY <2>2, <2>3, <1>1, <2>1 DEF Min2
  <2>5. Start = Base + 16 * hdr.n
    BY <1>2, <1>1 DEF Start, TlvStart, Base
  <2>6. hdr.kind = "srh"
    BY <1>2
  <2> QED BY ONLY <2>4, <2>5, <2>6, <1>0, <1>1
<1>3. CASE hdr.kind = "sd" /\ HasEntries(v)
  <2> DEFINE m == Min2(Entries + hdr.n, e)
  <2>0. Base = Entries /\ Entries <= e
    BY <1>3 DEF Base, HasEntries
  <2>1. m - Entries \in Nat /\ m <= e /\ m <= Entries + hdr.n /\ m \in Nat
    BY <1>0, <1>1, <2>0 DEF Min2
  <2>2. FixedCount(v) = (m - Entries) \div 16
    BY <1>3 DEF FixedCount
  <2> HIDE DEF m, e
  <2>3. /\ (m - Entries) \div 16 \in Nat
        /\ 16 * ((m - Entries) \div 16) <= m - Entries
    BY ONLY <2>1, Sixteens
  <2>5. Start = Entries + hdr.n + 4 /\ OptionsWord = Entries + hdr.n /\ hdr.kind = "sd"
    BY <1>3, <1>1 DEF Start, OptionsWord
  <2>6. FixedCount(v) \in Nat /\ 16 * FixedCount(v) <= m - Entries
    BY ONLY <2>2, <2>3
  <2>7. /\ Base + 16 * FixedCount(v) <= e /\ Base + 16 * FixedCount(v) <= Start
        /\ Base + 16 * FixedCount(v) <= OptionsWord
    BY ONLY <2>0, <2>1, <2>5, <2>6, <1>0, <1>1
  <2> QED BY ONLY <2>5, <2>6, <2>7 DEF e
<1>4. CASE ~(hdr.kind = "srh" /\ Base <= e) /\ ~(hdr.kind = "sd" /\ HasEntries(v))
  <2>1. FixedCount(v) = 0
    BY <1>4 DEF FixedCount
  <2>2. /\ hdr.kind \in {"srh", "sd"} => Base <= Start
        /\ hdr.kind = "sd" => Base <= OptionsWord
    BY <1>1 DEF Base, Start, TlvStart, OptionsWord, Entries
  <2> QED BY ONLY <2>1, <2>2, <1>0
<1> QED BY <1>2, <1>3, <1>4

(* The loops over children of 16 bytes take exactly FixedCount of them. *)
LEMMA SegmentFitsIff ==
  ASSUME TypeOK, hdr.kind = "srh", at = Base + 16 * i
  PROVE  SegmentFits <=> i < FixedCount(visit)
<1> DEFINE e == EndOf(visit)
<1>0. e \in Nat /\ Base \in Nat /\ visit \in Visits /\ i \in Nat
  BY Numbers DEF TypeOK
<1>1. hdr.n \in Nat
  BY HeaderFacts DEF TypeOK
<1>2. end = e
  BY DEF end, EndOf
<1>3. SegmentFits <=> i < hdr.n /\ Base + 16 * i + 16 <= e
  BY <1>2 DEF SegmentFits
<1>4. FixedCount(visit) = IF Base <= e THEN Min2(hdr.n, (e - Base) \div 16) ELSE 0
  BY DEF FixedCount
<1> HIDE DEF e
<1>5. CASE Base <= e
  <2>1. e - Base \in Nat
    BY ONLY <1>0, <1>5
  <2>2. /\ (e - Base) \div 16 \in Nat
        /\ i < (e - Base) \div 16 <=> 16 * i + 16 <= e - Base
    BY ONLY <2>1, <1>0, Sixteens
  <2>3. FixedCount(visit) = Min2(hdr.n, (e - Base) \div 16)
    BY ONLY <1>4, <1>5
  <2> QED BY ONLY <1>0, <1>1, <1>3, <2>2, <2>3 DEF Min2
<1>6. CASE ~(Base <= e)
  BY ONLY <1>0, <1>1, <1>3, <1>4, <1>6
<1> QED BY ONLY <1>5, <1>6

LEMMA EntryCountIs ==
  ASSUME hdr.kind = "sd", HasEntries(visit)
  PROVE  EntryCount = FixedCount(visit)
  BY DEF EntryCount, FixedCount, end, EndOf

LEMMA RecordFacts ==
  ASSUME hdr \in Headers, NEW r \in Record
  PROVE  /\ r.n \in Nat /\ r.lone \in BOOLEAN /\ r.last \in BOOLEAN
         /\ r.endpoint \in Endpoints
         /\ r.last => hdr.kind # "sd"
<1>1. RecordSizes \subseteq Nat
  BY ConstantsAssumption
<1>2. CASE hdr.kind = "sd"
  BY <1>1, <1>2 DEF Record
<1>3. CASE hdr.kind # "sd"
  <2>1. CASE r \in [n : RecordSizes, lone : {FALSE}, last : {FALSE}, endpoint : {"none"}]
    BY <2>1, <1>1, <1>3 DEF Endpoints
  <2>2. CASE r \in [n : {1}, lone : {TRUE}, last : {FALSE, hdr.kind = "ipv4"},
                    endpoint : {"none"}]
    <3>1. r.n = 1 /\ r.lone = TRUE /\ r.endpoint = "none"
      BY <2>2
    <3>2. r.last \in {FALSE, hdr.kind = "ipv4"}
      BY <2>2, Zenon
    <3>3. r.n \in Nat
      BY ONLY <3>1
    <3>4. r.last \in BOOLEAN
      BY ONLY <3>2, Zenon
    <3> QED BY ONLY <1>3, <3>1, <3>3, <3>4, Zenon DEF Endpoints
  <2> QED BY <1>3, <2>1, <2>2 DEF Record
<1> QED BY ONLY <1>2, <1>3, Zenon

LEMMA ReadFacts ==
  ASSUME TypeOK, NEW k \in 1..Len(recs)
  PROVE  /\ recs[k].at \in Nat /\ recs[k].rec \in Record
         /\ recs[k].rec.n \in Nat /\ recs[k].rec.lone \in BOOLEAN
         /\ recs[k].rec.last \in BOOLEAN /\ recs[k].rec.endpoint \in Endpoints
         /\ recs[k].rec.last => hdr.kind # "sd"
         /\ SizeOf(recs[k]) \in Nat
<1>1. recs \in Seq([at : Nat, rec : Record]) /\ hdr \in Headers
  BY DEF TypeOK
<1>2. recs[k] \in [at : Nat, rec : Record]
  BY ONLY <1>1, ElementOfSeq, k \in 1..Len(recs)
<1>3. recs[k].at \in Nat /\ recs[k].rec \in Record
  BY ONLY <1>2
<1>4. /\ recs[k].rec.n \in Nat /\ recs[k].rec.lone \in BOOLEAN
      /\ recs[k].rec.last \in BOOLEAN /\ recs[k].rec.endpoint \in Endpoints
      /\ recs[k].rec.last => hdr.kind # "sd"
  BY ONLY <1>1, <1>3, RecordFacts
<1>5. SizeOf(recs[k]) \in Nat
  BY ONLY <1>4 DEF SizeOf
<1> QED BY <1>3, <1>4, <1>5

-----------------------------------------------------------------------------
(* A step that reads may find one more record; nothing else it knows of    *)
(* the packet changes.                                                     *)
SameHeader == hdr' = hdr /\ size' = size

Grown ==
  /\ SameHeader
  /\ Len(recs) <= Len(recs')
  /\ \A m \in 1..Len(recs) : recs'[m] = recs[m]

(* What visit w has counted or written is left alone. *)
Kept(w) == IF w = "count" THEN counts' = counts ELSE rows'[w] = rows[w]

LEMMA HeaderSame ==
  ASSUME SameHeader, NEW v
  PROVE  /\ EndOf(v)' = EndOf(v) /\ Limit(v)' = Limit(v)
         /\ Base' = Base /\ Start' = Start
         /\ FixedTable' = FixedTable /\ RecordTable' = RecordTable
         /\ HasEntries(v)' = HasEntries(v)
         /\ FixedCount(v)' = FixedCount(v)
         /\ Entered(v)' = Entered(v)
<1> USE DEF SameHeader
<1>1. EndOf(v)' = EndOf(v)
  BY DEF EndOf
<1>2. Entries' = Entries /\ OptionsWord' = OptionsWord /\ TlvStart' = TlvStart
  BY DEF Entries, OptionsWord, TlvStart
<1>3. Base' = Base
  BY <1>2 DEF Base
<1>4. Start' = Start
  BY <1>2 DEF Start
<1>5. Limit(v)' = Limit(v)
  BY <1>1, <1>2 DEF Limit
<1>6. HasEntries(v)' = HasEntries(v)
  BY <1>1, <1>2 DEF HasEntries
<1>7. FixedCount(v)' = FixedCount(v)
  BY <1>1, <1>2, <1>3, <1>6 DEF FixedCount
<1>8. Entered(v)' = Entered(v)
  BY <1>1, <1>4, <1>6 DEF Entered
<1>9. FixedTable' = FixedTable /\ RecordTable' = RecordTable
  BY DEF FixedTable, RecordTable
<1> QED BY <1>1, <1>3, <1>4, <1>5, <1>6, <1>7, <1>8, <1>9

LEMMA RecordSame ==
  ASSUME SameHeader, NEW v, NEW x, NEW p
  PROVE  /\ More(p, v)' = More(p, v)
         /\ Fits(x, v)' = Fits(x, v)
         /\ SizeOf(x)' = SizeOf(x)
         /\ EndpointOf(x, v)' = EndpointOf(x, v)
<1>1. Limit(v)' = Limit(v)
  BY HeaderSame
<1>2. hdr' = hdr /\ size' = size
  BY DEF SameHeader
<1>3. More(p, v)' = More(p, v)
  BY ONLY <1>1, <1>2 DEF More
<1>4. Fits(x, v)' = Fits(x, v)
  BY ONLY <1>1, <1>2 DEF Fits
<1>5. SizeOf(x)' = SizeOf(x)
  BY ONLY <1>2 DEF SizeOf
<1>6. EndpointOf(x, v)' = EndpointOf(x, v)
  BY ONLY <1>2 DEF EndpointOf
<1> QED BY ONLY <1>3, <1>4, <1>5, <1>6

LEMMA RowsSame ==
  ASSUME Grown, NEW v
  PROVE  /\ \A m : FixedRow(m)' = FixedRow(m)
         /\ \A m \in 1..Len(recs) : RecordRow(m, v)' = RecordRow(m, v)
<1>1. SameHeader
  BY DEF Grown
<1>2. ASSUME NEW m PROVE FixedRow(m)' = FixedRow(m)
  BY <1>1, HeaderSame DEF FixedRow
<1>3. ASSUME NEW m \in 1..Len(recs) PROVE RecordRow(m, v)' = RecordRow(m, v)
  <2> DEFINE x == recs[m]
  <2>1. recs'[m] = x
    BY DEF Grown
  <2> HIDE DEF x
  <2>2. SizeOf(x)' = SizeOf(x) /\ EndpointOf(x, v)' = EndpointOf(x, v)
    <3>1. \A y : SizeOf(y)' = SizeOf(y) /\ EndpointOf(y, v)' = EndpointOf(y, v)
      BY <1>1, RecordSame
    <3> QED BY <2>1, <3>1 DEF x
  <2>3. RecordTable' = RecordTable
    BY <1>1, HeaderSame
  <2> QED BY <2>1, <2>2, <2>3 DEF RecordRow, x
<1> QED BY <1>2, <1>3

LEMMA AfterSame ==
  ASSUME Grown, NEW v, NEW k \in 0..Len(recs), Len(recs) \in Nat
  PROVE  After(k, v)' = After(k, v)
<1>1. SameHeader
  BY DEF Grown
<1>2. EndOf(v)' = EndOf(v) /\ Start' = Start
  BY <1>1, HeaderSame
<1>3. CASE k = 0
  BY <1>2, <1>3 DEF After
<1>4. CASE k # 0
  <2>1. recs'[k] = recs[k]
    BY <1>4 DEF Grown
  <2>2. \A y : SizeOf(y)' = SizeOf(y)
    BY <1>1, RecordSame
  <2>3. SizeOf(recs[k])' = SizeOf(recs[k])
    BY <2>1, <2>2
  <2> QED BY <1>2, <1>4, <2>1, <2>3 DEF After
<1> QED BY <1>3, <1>4

LEMMA AcceptsSame ==
  ASSUME Grown, NEW v, NEW k \in 0..Len(recs), Len(recs) \in Nat, Accepts(v, k)
  PROVE  Accepts(v, k)'
<1>1. SameHeader
  BY DEF Grown
<1>2. \A p : More(p, v)' = More(p, v)
  BY <1>1, RecordSame
<1>3. \A x : Fits(x, v)' = Fits(x, v)
  BY <1>1, RecordSame
<1>4. ASSUME NEW m \in 1..k PROVE More(recs[m].at, v)' /\ Fits(recs[m], v)'
  <2>1. recs'[m] = recs[m]
    BY DEF Grown
  <2>2. More(recs[m].at, v) /\ Fits(recs[m], v)
    BY DEF Accepts
  <2>3. More(recs[m].at, v)'
    BY <2>1, <2>2, <1>2
  <2>4. Fits(recs[m], v)'
    BY <2>1, <2>2, <1>3
  <2> QED BY <2>3, <2>4
<1> QED BY <1>4 DEF Accepts

LEMMA StopsSame ==
  ASSUME Grown, NEW v, NEW k \in 0..Len(recs), Len(recs) \in Nat, Len(recs)' \in Nat,
         Stops(v, k)
  PROVE  Stops(v, k)'
<1>1. SameHeader
  BY DEF Grown
<1>2. \A p : More(p, v)' = More(p, v)
  BY <1>1, RecordSame
<1>3. \A x : Fits(x, v)' = Fits(x, v)
  BY <1>1, RecordSame
<1>4. Entered(v)' = Entered(v)
  BY <1>1, HeaderSame
<1>5. After(k, v)' = After(k, v)
  BY AfterSame
<1>6. More(After(k, v), v)' = More(After(k, v), v)
  BY <1>2, <1>5
<1>7. CASE k < Len(recs) /\ ~Fits(recs[k + 1], v)
  <2>1. recs'[k + 1] = recs[k + 1] /\ k < Len(recs')
    BY <1>7 DEF Grown
  <2>2. ~Fits(recs[k + 1], v)'
    BY <1>7, <2>1, <1>3
  <2> QED BY <1>4, <2>1, <2>2, <1>7 DEF Stops
<1>8. CASE ~(k < Len(recs) /\ ~Fits(recs[k + 1], v))
  BY <1>4, <1>6, <1>8 DEF Stops
<1> QED BY <1>7, <1>8

LEMMA ProgressSame ==
  ASSUME Grown, NEW v, Kept(v), NEW f \in Nat, NEW k \in 0..Len(recs), Len(recs) \in Nat,
         Progress(v, f, k)
  PROVE  Progress(v, f, k)'
<1>1. CASE v = "count"
  <2>1. counts' = counts
    BY <1>1 DEF Kept
  <2>2. FixedTable' = FixedTable /\ RecordTable' = RecordTable
    BY HeaderSame DEF Grown
  <2> QED BY <1>1, <2>1, <2>2 DEF Progress, CountedSoFar
<1>2. CASE v # "count"
  <2>1. rows'[v] = rows[v]
    BY <1>2 DEF Kept
  <2>2. WrittenSoFar(v, f, k)
    BY <1>2 DEF Progress
  <2>3. /\ \A m : FixedRow(m)' = FixedRow(m)
        /\ \A m \in 1..Len(recs) : RecordRow(m, v)' = RecordRow(m, v)
    BY RowsSame
  <2>4. WrittenSoFar(v, f, k)'
    BY <2>1, <2>2, <2>3 DEF WrittenSoFar
  <2> QED BY <1>2, <2>4 DEF Progress
<1> QED BY <1>1, <1>2

LEMMA FoundSame ==
  ASSUME Grown, NEW v, Kept(v), NEW k \in 0..Len(recs), Len(recs) \in Nat,
         FixedCount(v) \in Nat, Found(v, k)
  PROVE  Found(v, k)'
<1> DEFINE f == FixedCount(v)
<1>1. FixedCount(v)' = f /\ Entered(v)' = Entered(v)
  BY HeaderSame DEF Grown
<1> HIDE DEF f
<1>2. \A g \in Nat : Progress(v, g, k) => Progress(v, g, k)'
  BY ProgressSame
<1>3. f \in Nat /\ Progress(v, f, k)
  BY DEF Found, f
<1>4. Progress(v, FixedCount(v), k)'
  BY <1>1, <1>2, <1>3
<1>5. Accepts(v, k)'
  BY AcceptsSame DEF Found
<1> QED BY <1>1, <1>4, <1>5 DEF Found

LEMMA FoundAllSame ==
  ASSUME Grown, NEW v, Kept(v), Len(recs) \in Nat, Len(recs)' \in Nat,
         FixedCount(v) \in Nat, FoundAll(v)
  PROVE  FoundAll(v)'
<1>1. PICK k \in 0..Len(recs) : Found(v, k) /\ Stops(v, k)
  BY DEF FoundAll
<1>2. Found(v, k)'
  BY <1>1, FoundSame
<1>3. Stops(v, k)'
  BY <1>1, StopsSame
<1>4. k \in 0..Len(recs')
  BY DEF Grown
<1> QED BY <1>2, <1>3, <1>4 DEF FoundAll

(* The other visits, before and to come, are as they were. *)
LEMMA OthersSame ==
  ASSUME IInv, Grown, visit' = visit, Len(recs)' \in Nat,
         \A w \in Visits \ {visit} : Kept(w)
  PROVE  ToCome' /\ Behind'
<1>0. Len(recs) \in Nat /\ visit \in Visits /\ TypeOK
  BY DEF IInv, TypeOK
<1>1. ASSUME NEW w \in Visits, Rank[w] > Rank[visit] PROVE Progress(w, 0, 0)'
  <2>1. w # visit
    BY <1>0, <1>1 DEF Rank, Visits
  <2>2. Progress(w, 0, 0)
    BY <1>1 DEF IInv, ToCome
  <2> QED BY <2>1, <2>2, <1>0, ProgressSame
<1>2. ASSUME NEW w \in Visits, Rank[w] < Rank[visit] PROVE FoundAll(w)'
  <2>1. w # visit
    BY <1>0, <1>2 DEF Rank, Visits
  <2>2. FoundAll(w)
    BY <1>2 DEF IInv, Behind
  <2>3. FixedCount(w) \in Nat
    BY <1>0, FixedCountFacts
  <2> QED BY <2>1, <2>2, <2>3, <1>0, FoundAllSame
<1> QED BY <1>1, <1>2 DEF ToCome, Behind

-----------------------------------------------------------------------------
LEMMA EmitKeeps ==
  ASSUME TypeOK, NEW row, Emit(row)
  PROVE  \A w \in Visits \ {visit} : Kept(w)
  BY DEF TypeOK, Emit, CountRow, WriteRow, Kept

LEMMA FixedEmitted ==
  ASSUME TypeOK, Grown, NEW v \in Visits, v = visit, NEW f \in Nat,
         Progress(v, f, 0), Emit(FixedRow(f + 1))
  PROVE  Progress(v, f + 1, 0)'
<1>1. FixedTable' = FixedTable /\ RecordTable' = RecordTable
  BY HeaderSame DEF Grown
<1>2. FixedTable \in Tables /\ RecordTable \in Tables /\ FixedTable # RecordTable
  BY DEF FixedTable, RecordTable, Tables
<1>3. CASE v = "count"
  <2>1. counts' = [counts EXCEPT ![FixedTable] = @ + 1]
    BY <1>3 DEF Emit, CountRow, FixedRow
  <2>2. counts \in [Tables -> Nat]
    BY DEF TypeOK
  <2>3. CountedSoFar(f, 0)
    BY <1>3 DEF Progress
  <2>4. CountedSoFar(f + 1, 0)'
    BY ONLY <1>1, <1>2, <2>1, <2>2, <2>3, f \in Nat DEF CountedSoFar
  <2> QED BY <1>3, <2>4 DEF Progress
<1>4. CASE v # "count"
  <2>1. rows'[v] = Append(rows[v], FixedRow(f + 1))
    BY <1>4 DEF Emit, WriteRow, TypeOK
  <2>2. WrittenSoFar(v, f, 0)
    BY <1>4 DEF Progress
  <2>3. \A m : FixedRow(m)' = FixedRow(m)
    BY RowsSame
  <2>4. rows[v] \in Seq(RowType)
    BY DEF TypeOK
  <2>5. Len(rows[v]) = f /\ \A m \in 1..f : rows[v][m] = FixedRow(m)
    BY <2>2 DEF WrittenSoFar
  <2>6. Len(rows'[v]) = f + 1 /\ \A m \in 1..(f + 1) : rows'[v][m] = FixedRow(m)
    BY ONLY <2>1, <2>4, <2>5, f \in Nat
  <2>7. WrittenSoFar(v, f + 1, 0)'
    BY ONLY <2>3, <2>6, f \in Nat DEF WrittenSoFar
  <2> QED BY <1>4, <2>7 DEF Progress
<1> QED BY <1>3, <1>4

LEMMA RecordEmitted ==
  ASSUME TypeOK, Grown, NEW v \in Visits, v = visit, NEW f \in Nat,
         NEW k \in 0..Len(recs), Progress(v, f, k),
         NEW row, row = RecordRow(k + 1, v)', Emit(row)
  PROVE  Progress(v, f, k + 1)'
<1>0. Len(recs) \in Nat /\ k \in Nat
  BY DEF TypeOK
<1>1. FixedTable' = FixedTable /\ RecordTable' = RecordTable
  BY HeaderSame DEF Grown
<1>2. FixedTable \in Tables /\ RecordTable \in Tables /\ FixedTable # RecordTable
  BY DEF FixedTable, RecordTable, Tables
<1>3. CASE v = "count"
  <2>1. counts' = [counts EXCEPT ![RecordTable] = @ + 1]
    <3>1. row.table = RecordTable
      BY <1>1 DEF RecordRow
    <3> QED BY <1>3, <3>1 DEF Emit, CountRow
  <2>2. counts \in [Tables -> Nat]
    BY DEF TypeOK
  <2>3. CountedSoFar(f, k)
    BY <1>3 DEF Progress
  <2>4. CountedSoFar(f, k + 1)'
    BY ONLY <1>0, <1>1, <1>2, <2>1, <2>2, <2>3, f \in Nat DEF CountedSoFar
  <2> QED BY <1>3, <2>4 DEF Progress
<1>4. CASE v # "count"
  <2>1. rows'[v] = Append(rows[v], row)
    BY <1>4 DEF Emit, WriteRow, TypeOK
  <2>2. WrittenSoFar(v, f, k)
    BY <1>4 DEF Progress
  <2>3. /\ \A m : FixedRow(m)' = FixedRow(m)
        /\ \A m \in 1..Len(recs) : RecordRow(m, v)' = RecordRow(m, v)
    BY RowsSame
  <2>4. rows[v] \in Seq(RowType)
    BY DEF TypeOK
  <2>5. /\ Len(rows[v]) = f + k
        /\ \A m \in 1..f : rows[v][m] = FixedRow(m)
        /\ \A m \in 1..k : rows[v][f + m] = RecordRow(m, v)
    BY <2>2 DEF WrittenSoFar
  <2>6. /\ Len(rows'[v]) = f + k + 1
        /\ \A m \in 1..(f + k) : rows'[v][m] = rows[v][m]
        /\ rows'[v][f + k + 1] = row
    BY ONLY <1>0, <2>1, <2>4, <2>5, f \in Nat
  <2>7. ASSUME NEW m \in 1..f PROVE rows'[v][m] = FixedRow(m)'
    <3>1. m \in 1..(f + k)
      BY ONLY <1>0, f \in Nat, m \in 1..f
    <3>2. rows'[v][m] = FixedRow(m)
      BY ONLY <3>1, <2>5, <2>6, m \in 1..f
    <3> QED BY <3>2, <2>3
  <2>8. ASSUME NEW m \in 1..(k + 1) PROVE rows'[v][f + m] = RecordRow(m, v)'
    <3>1. CASE m = k + 1
      <4>1. f + m = f + k + 1
        BY ONLY <1>0, <3>1, f \in Nat
      <4> QED BY <2>6, <3>1, <4>1
    <3>2. CASE m # k + 1
      <4>1. m \in 1..k /\ m \in 1..Len(recs) /\ f + m \in 1..(f + k)
        BY ONLY <1>0, <3>2, m \in 1..(k + 1), k \in 0..Len(recs), f \in Nat
      <4> QED BY ONLY <4>1, <2>3, <2>5, <2>6
    <3> QED BY <3>1, <3>2
  <2>9. WrittenSoFar(v, f, k + 1)'
    <3>1. Len(rows'[v]) = f + (k + 1)
      BY ONLY <1>0, <2>6, f \in Nat
    <3> QED BY ONLY <3>1, <2>7, <2>8 DEF WrittenSoFar
  <2> QED BY <1>4, <2>9 DEF Progress
<1> QED BY <1>3, <1>4

(* What the loop reads is the next record of the chain: the one already    *)
(* there, or a new one behind them all.                                    *)
LEMMA NextRead ==
  ASSUME IInv, AtRecords, More(at, visit), NEW r, Read(r), SameHeader
  PROVE  /\ Grown /\ Chain'
         /\ recs' \in Seq([at : Nat, rec : Record])
         /\ i < Len(recs')
         /\ recs'[i + 1] = [at |-> at, rec |-> r]
<1> DEFINE x == [at |-> at, rec |-> r]
           L == Len(recs)
<1>0. /\ recs \in Seq([at : Nat, rec : Record]) /\ L \in Nat /\ TypeOK
      /\ at \in Nat /\ i \in 0..L /\ visit \in Visits /\ at = After(i, visit)
  BY DEF IInv, TypeOK, AtRecords
<1>1. r \in Record /\ x \in [at : Nat, rec : Record]
  BY <1>0 DEF Read
<1>2. Chain
  BY DEF IInv
<1>3. CASE i < L
  <2>1. i + 1 \in 1..L
    BY <1>0, <1>3
  <2>2. recs[i + 1].at = at
    <3>1. CASE i = 0
      BY <1>0, <1>2, <2>1, <3>1 DEF Chain, After
    <3>2. CASE i # 0
      <4>1. i \in 1..(L - 1)
        BY <1>0, <1>3, <3>2
      <4>2. ~recs[i].rec.last /\ recs[i + 1].at = recs[i].at + SizeOf(recs[i])
        BY <4>1, <1>2 DEF Chain
      <4> QED BY <1>0, <3>2, <4>2 DEF After
    <3> QED BY <3>1, <3>2
  <2>3. recs' = recs /\ recs[i + 1].rec = r
    BY <2>1, <2>2 DEF Read
  <2>4. recs[i + 1] \in [at : Nat, rec : Record]
    BY ONLY <1>0, <2>1, ElementOfSeq
  <2>5. recs[i + 1] = x
    BY ONLY <2>2, <2>3, <2>4
  <2>6. Grown
    BY <2>3, <1>0 DEF Grown
  <2>7. Chain'
    <3>1. Start' = Start /\ \A y : SizeOf(y)' = SizeOf(y)
      BY HeaderSame, RecordSame
    <3> QED BY <1>2, <2>3, <3>1 DEF Chain
  <2> QED BY <2>3, <2>5, <2>6, <2>7, <1>0, <1>3
<1>4. CASE ~(i < L)
  <2>1. i = L
    BY <1>0, <1>4
  <2>2. Start <= at /\ (L > 0 => /\ ~recs[L].rec.last
                                 /\ at = recs[L].at + SizeOf(recs[L])
                                 /\ SizeOf(recs[L]) > 0)
    <3>1. CASE L = 0
      <4>1. at = Start /\ Start \in Nat
        BY <1>0, <2>1, <3>1, Numbers DEF After
      <4> QED BY <3>1, <4>1
    <3>2. CASE L # 0
      <4>1. L \in 1..L
        BY <1>0, <3>2
      <4>2. /\ recs[L].at \in Nat /\ SizeOf(recs[L]) \in Nat
            /\ recs[L].rec.last \in BOOLEAN
            /\ recs[L].rec.n \in Nat /\ recs[L].rec.lone \in BOOLEAN
            /\ recs[L].rec.last => hdr.kind # "sd"
        BY ONLY <4>1, <1>0, ReadFacts
      <4>3. Limit(visit) \in Nat /\ Limit(visit) <= EndOf(visit) /\ EndOf(visit) \in Nat
            /\ Start \in Nat
        BY ONLY <1>0, Numbers
      <4>4. ~recs[L].rec.last
        <5>1. SUFFICES ASSUME recs[L].rec.last PROVE FALSE
          OBVIOUS
        <5>2. at = EndOf(visit)
          BY <5>1, <2>1, <1>0, <3>2 DEF After
        <5>3. hdr.kind # "sd"
          BY <5>1, <4>2
        <5>4. at < Limit(visit)
          BY <5>3 DEF More
        <5> QED BY ONLY <5>2, <5>4, <4>3
      <4>5. at = recs[L].at + SizeOf(recs[L])
        BY <4>4, <2>1, <1>0, <3>2 DEF After
      <4>6. Fits(recs[L], visit)
        BY <2>1, <4>1 DEF AtRecords, Found, Accepts
      <4>7. SizeOf(recs[L]) > 0
        BY ONLY <4>2, <4>6 DEF Fits, SizeOf
      <4>8. Start <= recs[L].at
        BY <4>1, <1>2 DEF Chain
      <4>9. Start <= at
        BY ONLY <4>2, <4>3, <4>5, <4>7, <4>8
      <4> QED BY <4>4, <4>5, <4>7, <4>9
    <3> QED BY ONLY <3>1, <3>2
  <2>3. ASSUME NEW k \in 1..L PROVE recs[k].at < at
    <3>1. L \in 1..L /\ L > 0
      BY <1>0
    <3>2. recs[k].at \in Nat /\ recs[L].at \in Nat /\ SizeOf(recs[L]) \in Nat
      BY ONLY <1>0, <3>1, ReadFacts, k \in 1..L
    <3>3. recs[k].at <= recs[L].at
      <4>1. k < L => recs[k].at < recs[L].at
        BY <3>1, <1>2 DEF Chain
      <4> QED BY ONLY <4>1, <3>2, <1>0, k \in 1..L
    <3>4. at = recs[L].at + SizeOf(recs[L]) /\ SizeOf(recs[L]) > 0
      BY <3>1, <2>2
    <3> QED BY ONLY <3>2, <3>3, <3>4
  <2>4. recs' = Append(recs, x)
    <3>1. \A k \in 1..L : recs[k].at \in Nat
      BY ONLY <1>0, ReadFacts
    <3>2. ~ \E k \in 1..L : recs[k].at = at
      BY ONLY <3>1, <2>3, <1>0
    <3> QED BY <3>2 DEF Read
  <2> HIDE DEF x
  <2>5. /\ Len(recs') = L + 1 /\ recs'[L + 1] = x
        /\ \A m \in 1..L : recs'[m] = recs[m]
        /\ recs' \in Seq([at : Nat, rec : Record])
    BY ONLY <2>4, <1>0, <1>1
  <2>6. Grown
    BY <2>5, <1>0 DEF Grown
  <2>7. Chain'
    <3>1. Start' = Start /\ \A y : SizeOf(y)' = SizeOf(y)
      BY HeaderSame, RecordSame
    <3>2. x.at = at
      BY DEF x
    <3>3. recs' # <<>>
      BY ONLY <2>5, <1>0
    <3>4. recs'[1].at = Start
      <4>1. CASE L = 0
        BY <4>1, <2>1, <2>5, <3>2, <1>0 DEF After
      <4>2. CASE L # 0
        <5>1. 1 \in 1..L /\ recs # <<>>
          BY ONLY <4>2, <1>0
        <5> QED BY <5>1, <2>5, <1>2 DEF Chain
      <4> QED BY <4>1, <4>2
    <3>5. ASSUME NEW k \in 1..(Len(recs') - 1)
          PROVE  ~recs'[k].rec.last /\ recs'[k + 1].at = recs'[k].at + SizeOf(recs'[k])
      <4>1. k \in 1..L /\ recs'[k] = recs[k]
        BY <2>5, <1>0
      <4>2. CASE k = L
        BY <4>1, <4>2, <2>2, <2>5, <3>2, <1>0
      <4>3. CASE k # L
        <5>1. k \in 1..(L - 1) /\ k + 1 \in 1..L
          BY <4>1, <4>3, <1>0
        <5>2. recs'[k + 1] = recs[k + 1]
          BY <5>1, <2>5
        <5> QED BY <4>1, <5>1, <5>2, <1>2 DEF Chain
      <4> QED BY <4>2, <4>3
    <3>6. ASSUME NEW k \in 1..Len(recs') PROVE Start <= recs'[k].at
      <4>1. CASE k = L + 1
        BY <4>1, <2>2, <2>5, <3>2
      <4>2. CASE k # L + 1
        <5>1. k \in 1..L
          BY ONLY <4>2, <2>5, <1>0, k \in 1..Len(recs')
        <5> QED BY <5>1, <2>5, <1>2 DEF Chain
      <4> QED BY <4>1, <4>2
    <3>7. ASSUME NEW k \in 1..Len(recs'), NEW m \in 1..Len(recs'), k < m
          PROVE  recs'[k].at < recs'[m].at
      <4>0. k \in 1..L
        BY ONLY <3>7, <2>5, <1>0
      <4>1. CASE m = L + 1
        BY <4>0, <4>1, <2>3, <2>5, <3>2
      <4>2. CASE m # L + 1
        <5>1. m \in 1..L
          BY ONLY <4>2, <2>5, <1>0, m \in 1..Len(recs')
        <5> QED BY <4>0, <5>1, <3>7, <2>5, <1>2 DEF Chain
      <4> QED BY <4>1, <4>2
    <3>8. \A k \in 1..(Len(recs') - 1) :
            ~recs'[k].rec.last /\ recs'[k + 1].at = recs'[k].at + SizeOf(recs[k])'
      <4>1. ASSUME NEW k \in 1..(Len(recs') - 1) PROVE SizeOf(recs[k])' = SizeOf(recs'[k])
        BY <3>1
      <4> QED BY <3>5, <4>1
    <3> QED BY <3>1, <3>4, <3>6, <3>7, <3>8 DEF Chain
  <2> QED BY <2>1, <2>5, <2>6, <2>7, <1>0 DEF x
<1> QED BY ONLY <1>3, <1>4

-----------------------------------------------------------------------------
Labels == {"enter", "segments", "tlvs", "entries", "options", "done"}

LEMMA RowTyped ==
  ASSUME TypeOK, NEW table \in Tables, NEW n \in Nat, NEW endpoint \in Nat
  PROVE  Row(table, n, endpoint) \in RowType
<1>1. at \in Nat /\ i \in Nat /\ IndexMod \in Nat /\ IndexMod > 0
  BY ConstantsAssumption DEF TypeOK
<1>2. i % IndexMod \in 0..(IndexMod - 1)
  BY ONLY <1>1
<1> QED BY <1>1, <1>2 DEF Row, RowType

LEMMA EmitTyped ==
  ASSUME TypeOK, NEW row \in RowType, Emit(row)
  PROVE  counts' \in [Tables -> Nat] /\ rows' \in [Visits -> Seq(RowType)]
<1>1. counts \in [Tables -> Nat] /\ rows \in [Visits -> Seq(RowType)] /\ visit \in Visits
  BY DEF TypeOK
<1>2. row.table \in Tables
  BY DEF RowType
<1>3. CASE visit = "count"
  BY <1>1, <1>2, <1>3 DEF Emit, CountRow
<1>4. CASE visit # "count"
  <2>1. rows' = [rows EXCEPT ![visit] = Append(@, row)] /\ counts' = counts
    BY <1>4 DEF Emit, WriteRow
  <2>2. Append(rows[visit], row) \in Seq(RowType)
    BY <1>1
  <2> QED BY ONLY <1>1, <2>1, <2>2
<1> QED BY <1>3, <1>4

LEMMA RecordSetSame == ASSUME SameHeader PROVE Record' = Record
  BY DEF SameHeader, Record

(* A step between two loops. *)
LEMMA GotoFrame ==
  ASSUME IInv, NEW label \in Labels, NEW p \in Nat, Goto(label, p)
  PROVE  /\ TypeOK' /\ Captures' /\ Chain' /\ ToCome' /\ Behind'
         /\ Grown /\ Kept(visit) /\ visit' = visit /\ recs' = recs
<1>0. /\ hdr' = hdr /\ size' = size /\ visit' = visit /\ recs' = recs
      /\ counts' = counts /\ rows' = rows /\ pc' = label /\ at' = p /\ i' = 0
  BY DEF Goto
<1>1. SameHeader
  BY <1>0 DEF SameHeader
<1>2. TypeOK /\ Len(recs) \in Nat
  BY DEF IInv, TypeOK
<1>3. Grown
  BY <1>0, <1>1, <1>2 DEF Grown
<1>4. \A w \in Visits : Kept(w)
  BY <1>0 DEF Kept
<1>5. TypeOK'
  BY <1>0, <1>1, <1>2, RecordSetSame DEF TypeOK, Labels
<1>6. Captures'
  BY <1>0 DEF IInv, Captures
<1>7. Chain'
  <2>1. Start' = Start /\ \A y : SizeOf(y)' = SizeOf(y)
    BY <1>1, HeaderSame, RecordSame
  <2> QED BY <1>0, <2>1 DEF IInv, Chain
<1>8. ToCome' /\ Behind'
  BY <1>0, <1>2, <1>3, <1>4, OthersSame
<1>9. visit \in Visits
  BY <1>2 DEF TypeOK
<1> QED BY <1>0, <1>3, <1>4, <1>5, <1>6, <1>7, <1>8, <1>9

LEMMA LeaveInv ==
  ASSUME IInv, Leave, FoundAll(visit)
  PROVE  IInv'
<1>1. at \in Nat /\ visit \in Visits /\ Len(recs) \in Nat /\ TypeOK
  BY DEF IInv, TypeOK
<1>2. Goto("done", at) /\ "done" \in Labels
  BY DEF Leave, Labels
<1>3. /\ TypeOK' /\ Captures' /\ Chain' /\ ToCome' /\ Behind'
      /\ Grown /\ Kept(visit) /\ visit' = visit /\ recs' = recs
  BY <1>1, <1>2, GotoFrame
<1>4. FixedCount(visit) \in Nat
  BY <1>1, FixedCountFacts
<1>5. FoundAll(visit)'
  BY <1>1, <1>3, <1>4, FoundAllSame
<1>6. pc' = "done"
  BY <1>2 DEF Goto
<1> QED BY <1>3, <1>5, <1>6 DEF IInv, UnderWay

(* Nothing found, nothing entered. *)
LEMMA LeaveEmpty ==
  ASSUME IInv, Leave, Progress(visit, FixedCount(visit), 0), ~Entered(visit)
  PROVE  IInv'
<1>1. Found(visit, 0) /\ Stops(visit, 0)
  BY DEF Found, Accepts, Stops
<1>2. 0 \in 0..Len(recs)
  BY DEF IInv, TypeOK
<1> QED BY <1>1, <1>2, LeaveInv DEF FoundAll

LEMMA ToRecords ==
  ASSUME IInv, NEW label \in {"tlvs", "options"}, Goto(label, Start),
         label = "options" <=> hdr.kind = "sd",
         Progress(visit, FixedCount(visit), 0), Entered(visit)
  PROVE  IInv'
<1>1. visit \in Visits /\ Len(recs) \in Nat /\ TypeOK
  BY DEF IInv, TypeOK
<1>2. label \in Labels /\ Start \in Nat
  BY <1>1, Numbers DEF Labels
<1>3. /\ TypeOK' /\ Captures' /\ Chain' /\ ToCome' /\ Behind'
      /\ Grown /\ Kept(visit) /\ visit' = visit /\ recs' = recs
  BY <1>2, GotoFrame
<1>4. FixedCount(visit) \in Nat /\ 0 \in 0..Len(recs)
  BY <1>1, FixedCountFacts
<1>5. Found(visit, 0)
  BY DEF Found, Accepts
<1>6. Found(visit, 0)'
  BY <1>1, <1>3, <1>4, <1>5, FoundSame
<1>7. Entered(visit)' /\ After(0, visit)' = Start
  <2>1. SameHeader
    BY <1>3 DEF Grown
  <2> QED BY <1>3, <2>1, HeaderSame DEF After
<1>8. pc' = label /\ at' = Start /\ i' = 0 /\ hdr' = hdr
  BY DEF Goto
<1>9. AtRecords'
  BY <1>3, <1>4, <1>6, <1>7, <1>8 DEF AtRecords
<1> QED BY <1>3, <1>8, <1>9 DEF IInv, UnderWay

LEMMA ToFixed ==
  ASSUME IInv, NEW label \in {"segments", "entries"}, Goto(label, Base),
         label = "segments" => hdr.kind = "srh",
         label = "entries" => hdr.kind = "sd" /\ HasEntries(visit),
         Progress(visit, 0, 0)
  PROVE  IInv'
<1>1. visit \in Visits /\ Len(recs) \in Nat /\ TypeOK
  BY DEF IInv, TypeOK
<1>2. label \in Labels /\ Base \in Nat
  BY <1>1, Numbers DEF Labels
<1>3. /\ TypeOK' /\ Captures' /\ Chain' /\ ToCome' /\ Behind'
      /\ Grown /\ Kept(visit) /\ visit' = visit /\ recs' = recs
  BY <1>2, GotoFrame
<1>4. FixedCount(visit) \in Nat /\ 0 \in 0..Len(recs)
  BY <1>1, FixedCountFacts
<1>5. Progress(visit, 0, 0)'
  BY <1>1, <1>3, <1>4, ProgressSame
<1>6. SameHeader
  BY <1>3 DEF Grown
<1>7. FixedCount(visit)' = FixedCount(visit) /\ HasEntries(visit)' = HasEntries(visit)
      /\ Base' = Base
  BY <1>3, <1>6, HeaderSame
<1>8. pc' = label /\ at' = Base /\ i' = 0 /\ hdr' = hdr
  BY DEF Goto
<1>9. AtFixed'
  <2>1. i' \in 0..FixedCount(visit)' /\ at' = Base' + 16 * i'
    BY ONLY <1>2, <1>4, <1>7, <1>8
  <2>2. Progress(visit, i, 0)'
    BY <1>5, <1>8
  <2>3. /\ pc' = "segments" => hdr'.kind = "srh"
        /\ pc' = "entries" => hdr'.kind = "sd" /\ HasEntries(visit)'
    BY <1>7, <1>8
  <2> QED BY <2>1, <2>2, <2>3 DEF AtFixed
<1> QED BY <1>3, <1>8, <1>9 DEF IInv, UnderWay

LEMMA EnterOptionsInv == ASSUME IInv, EnterOptions PROVE IInv'
<1>0. hdr.kind \in {"ipv4", "opt"} /\ Progress(visit, 0, 0) /\ hdr \in Headers
  BY DEF EnterOptions, IInv, UnderWay, TypeOK
<1>1. FixedCount(visit) = 0
  BY <1>0 DEF FixedCount
<1>2. Start = Off + FixedSize[hdr.kind] /\ Start \in Nat /\ end = EndOf(visit)
      /\ end \in Nat
  <2>1. visit \in Visits /\ TypeOK
    BY DEF IInv, TypeOK
  <2> QED BY <1>0, <2>1, Numbers DEF Start, end, EndOf
<1>3. CASE (hdr.kind = "ipv4" /\ hdr.len <= 20) \/ Start >= end
  <2>1. Leave
    BY <1>2, <1>3 DEF EnterOptions
  <2>2. ~Entered(visit)
    <3>1. hdr.len \in Nat
      BY <1>0, HeaderFacts
    <3> QED BY <1>0, <1>2, <1>3, <3>1 DEF Entered
  <2> QED BY <1>0, <1>1, <2>1, <2>2, LeaveEmpty
<1>4. CASE ~((hdr.kind = "ipv4" /\ hdr.len <= 20) \/ Start >= end)
  <2>1. Goto("tlvs", Start)
    BY <1>2, <1>4 DEF EnterOptions
  <2>2. Entered(visit)
    <3>1. hdr.len \in Nat
      BY <1>0, HeaderFacts
    <3> QED BY <1>0, <1>2, <1>4, <3>1 DEF Entered
  <2>3. Progress(visit, FixedCount(visit), 0)
    BY <1>0, <1>1
  <2> QED BY <1>0, <2>1, <2>2, <2>3, ToRecords
<1> QED BY <1>3, <1>4

LEMMA EnterSrhInv == ASSUME IInv, EnterSrh PROVE IInv'
<1>1. Progress(visit, 0, 0) /\ hdr.kind = "srh"
  BY DEF EnterSrh, IInv, UnderWay
<1>2. Goto("segments", Base)
  BY <1>1 DEF EnterSrh, Base
<1> QED BY <1>1, <1>2, ToFixed

LEMMA EnterSdInv == ASSUME IInv, EnterSd PROVE IInv'
<1>0. hdr.kind = "sd" /\ Progress(visit, 0, 0) /\ visit \in Visits /\ TypeOK
  BY DEF EnterSd, IInv, UnderWay, TypeOK
<1>1. /\ Off \in Nat /\ size[visit] \in Nat /\ hdr.message \in BOOLEAN
      /\ Entries \in Nat /\ end \in Nat /\ end = EndOf(visit)
  BY <1>0, SizeFacts, HeaderFacts, Numbers DEF end, EndOf, TypeOK
<1>2. CASE HasEntries(visit)
  <2>1. ~(Off + 16 > size[visit] \/ ~hdr.message \/ Entries > end)
    BY ONLY <1>1, <1>2 DEF HasEntries
  <2>2. Goto("entries", Base)
    BY <1>0, <2>1 DEF EnterSd, Base
  <2> QED BY <1>0, <1>2, <2>2, ToFixed
<1>3. CASE ~HasEntries(visit)
  <2>1. Off + 16 > size[visit] \/ ~hdr.message \/ Entries > end
    BY ONLY <1>1, <1>3 DEF HasEntries
  <2>2. Leave
    BY <2>1 DEF EnterSd
  <2>3. FixedCount(visit) = 0 /\ ~Entered(visit)
    BY <1>0, <1>3 DEF FixedCount, Entered
  <2> QED BY <1>0, <2>2, <2>3, LeaveEmpty
<1> QED BY <1>2, <1>3

-----------------------------------------------------------------------------
(* One more child of 16 bytes. *)
LEMMA FixedStep ==
  ASSUME IInv, AtFixed, pc \in {"segments", "entries"}, i < FixedCount(visit),
         Emit(FixedRow(i + 1)), FixedRow(i + 1) \in RowType, StepOver(16), UNCHANGED recs
  PROVE  IInv'
<1>0. /\ TypeOK /\ visit \in Visits /\ Len(recs) \in Nat /\ i \in Nat /\ at \in Nat
      /\ FixedCount(visit) \in Nat
  <2>1. TypeOK /\ visit \in Visits /\ Len(recs) \in Nat /\ i \in Nat /\ at \in Nat
    BY DEF IInv, TypeOK
  <2> QED BY <2>1, FixedCountFacts
<1>1. /\ hdr' = hdr /\ size' = size /\ visit' = visit /\ pc' = pc /\ recs' = recs
      /\ at' = at + 16 /\ i' = i + 1
  BY DEF StepOver
<1>2. SameHeader
  BY <1>1 DEF SameHeader
<1>3. Grown
  BY <1>0, <1>1, <1>2 DEF Grown
<1>4. TypeOK'
  <2>1. counts' \in [Tables -> Nat] /\ rows' \in [Visits -> Seq(RowType)]
    BY <1>0, EmitTyped
  <2>2. Record' = Record
    BY <1>2, RecordSetSame
  <2>3. at' \in Nat /\ i' \in Nat
    BY ONLY <1>0, <1>1
  <2> QED BY <1>0, <1>1, <2>1, <2>2, <2>3 DEF TypeOK, RowType
<1>5. Captures'
  BY <1>1 DEF IInv, Captures
<1>6. Chain'
  <2>1. Start' = Start /\ \A y : SizeOf(y)' = SizeOf(y)
    BY <1>2, HeaderSame, RecordSame
  <2> QED BY <1>1, <2>1 DEF IInv, Chain
<1>7. ToCome' /\ Behind'
  <2>1. \A w \in Visits \ {visit} : Kept(w)
    BY <1>0, EmitKeeps
  <2> QED BY <1>0, <1>1, <1>3, <2>1, OthersSame
<1>8. AtFixed'
  <2>1. PICK j \in Nat : j = i
    BY <1>0
  <2>2. PICK v \in Visits : v = visit
    BY <1>0
  <2>3. Progress(v, j, 0) /\ Emit(FixedRow(j + 1))
    BY <2>1, <2>2 DEF AtFixed
  <2>4. Progress(v, j + 1, 0)'
    BY <1>0, <1>3, <2>2, <2>3, FixedEmitted
  <2>5. Progress(visit, i, 0)'
    BY <2>1, <2>2, <2>4, <1>1
  <2>6. FixedCount(visit)' = FixedCount(visit) /\ HasEntries(visit)' = HasEntries(visit)
        /\ Base' = Base
    BY <1>1, <1>2, HeaderSame
  <2>7. at = Base + 16 * i /\ Base \in Nat
    BY <1>0, Numbers DEF AtFixed
  <2>8. i' \in 0..FixedCount(visit)' /\ at' = Base' + 16 * i'
    BY ONLY <1>0, <1>1, <2>6, <2>7, i < FixedCount(visit)
  <2> QED BY <1>1, <2>5, <2>6, <2>8 DEF AtFixed
<1> QED BY <1>1, <1>4, <1>5, <1>6, <1>7, <1>8 DEF IInv, UnderWay

LEMMA SegmentInv == ASSUME IInv, Segment PROVE IInv'
<1>1. TypeOK /\ AtFixed /\ pc = "segments" /\ hdr.kind = "srh" /\ visit \in Visits
  BY DEF IInv, UnderWay, Segment, AtFixed, TypeOK
<1>2. at = Base + 16 * i /\ i \in Nat /\ Base \in Nat
  BY <1>1, Numbers DEF AtFixed, TypeOK
<1>3. i < FixedCount(visit)
  BY <1>1, <1>2, SegmentFitsIff DEF Segment
<1>4. SegmentRow = FixedRow(i + 1)
  <2>1. (i + 1) - 1 = i
    BY <1>2
  <2> QED BY <1>1, <1>2, <2>1 DEF SegmentRow, Row, FixedRow, FixedTable
<1>5. SegmentRow \in RowType
  BY <1>1, RowTyped DEF SegmentRow, Tables
<1> QED BY <1>1, <1>3, <1>4, <1>5, FixedStep DEF Segment

LEMMA EntryInv == ASSUME IInv, Entry PROVE IInv'
<1>1. TypeOK /\ AtFixed /\ pc = "entries" /\ hdr.kind = "sd" /\ visit \in Visits
      /\ HasEntries(visit)
  BY DEF IInv, UnderWay, Entry, AtFixed, TypeOK
<1>2. at = Base + 16 * i /\ i \in Nat /\ Base \in Nat
  BY <1>1, Numbers DEF AtFixed, TypeOK
<1>3. i < FixedCount(visit)
  BY <1>1, EntryCountIs DEF Entry
<1>4. EntryRow = FixedRow(i + 1)
  <2>1. (i + 1) - 1 = i
    BY <1>2
  <2> QED BY <1>1, <1>2, <2>1 DEF EntryRow, Row, FixedRow, FixedTable
<1>5. EntryRow \in RowType
  BY <1>1, RowTyped DEF EntryRow, Tables
<1> QED BY <1>1, <1>3, <1>4, <1>5, FixedStep DEF Entry

LEMMA SegmentsEndInv == ASSUME IInv, SegmentsEnd PROVE IInv'
<1>1. TypeOK /\ AtFixed /\ hdr.kind = "srh" /\ visit \in Visits
  BY DEF IInv, UnderWay, SegmentsEnd, AtFixed, TypeOK
<1>2. at = Base + 16 * i /\ i \in 0..FixedCount(visit) /\ FixedCount(visit) \in Nat
  BY <1>1, FixedCountFacts DEF AtFixed
<1>3. i = FixedCount(visit)
  <2>1. ~(i < FixedCount(visit))
    BY <1>1, <1>2, SegmentFitsIff DEF SegmentsEnd
  <2> QED BY <1>2, <2>1
<1>4. Progress(visit, FixedCount(visit), 0)
  BY <1>1, <1>3 DEF AtFixed
<1>5. Start = TlvStart /\ end = EndOf(visit)
  BY <1>1 DEF Start, end, EndOf
<1>6. CASE TlvStart < end
  <2>1. Goto("tlvs", Start) /\ Entered(visit)
    BY <1>1, <1>5, <1>6 DEF SegmentsEnd, Entered
  <2> QED BY <1>1, <1>4, <2>1, ToRecords
<1>7. CASE ~(TlvStart < end)
  <2>1. Leave /\ ~Entered(visit)
    BY <1>1, <1>5, <1>7 DEF SegmentsEnd, Entered
  <2> QED BY <1>4, <2>1, LeaveEmpty
<1> QED BY <1>6, <1>7

LEMMA EntriesEndInv == ASSUME IInv, EntriesEnd PROVE IInv'
<1>1. TypeOK /\ AtFixed /\ hdr.kind = "sd" /\ visit \in Visits /\ HasEntries(visit)
  BY DEF IInv, UnderWay, EntriesEnd, AtFixed, TypeOK
<1>2. i \in 0..FixedCount(visit) /\ FixedCount(visit) \in Nat
  BY <1>1, FixedCountFacts DEF AtFixed
<1>3. i = FixedCount(visit)
  BY <1>1, <1>2, EntryCountIs DEF EntriesEnd
<1>4. Progress(visit, FixedCount(visit), 0)
  BY <1>1, <1>3 DEF AtFixed
<1>5. Start = OptionsWord + 4 /\ end = EndOf(visit) /\ Start \in Nat /\ end \in Nat
  BY <1>1, Numbers DEF Start, end, EndOf
<1>6. CASE OptionsWord + 4 > end
  <2>1. Leave /\ ~Entered(visit)
    BY <1>1, <1>5, <1>6 DEF EntriesEnd, Entered
  <2> QED BY <1>4, <2>1, LeaveEmpty
<1>7. CASE ~(OptionsWord + 4 > end)
  <2>1. Goto("options", Start)
    BY <1>5, <1>7 DEF EntriesEnd
  <2>2. Entered(visit)
    BY <1>1, <1>5, <1>7 DEF Entered
  <2> QED BY <1>1, <1>4, <2>1, <2>2, ToRecords
<1> QED BY <1>6, <1>7

(* What a step that reads a record leaves in place. *)
LEMMA ReadFrame ==
  ASSUME IInv, AtRecords, More(at, visit), NEW r, Read(r), SameHeader, visit' = visit,
         \A w \in Visits \ {visit} : Kept(w)
  PROVE  /\ Captures' /\ Chain' /\ ToCome' /\ Behind' /\ Grown
         /\ recs' \in Seq([at : Nat, rec : Record])'
         /\ i < Len(recs')
         /\ recs'[i + 1] = [at |-> at, rec |-> r]
<1>1. /\ Grown /\ Chain' /\ i < Len(recs')
      /\ recs' \in Seq([at : Nat, rec : Record])
      /\ recs'[i + 1] = [at |-> at, rec |-> r]
  BY NextRead
<1>2. Len(recs)' \in Nat
  BY <1>1
<1>3. ToCome' /\ Behind'
  BY <1>1, <1>2, OthersSame
<1>4. Captures'
  BY DEF SameHeader, IInv, Captures
<1>5. Record' = Record
  BY RecordSetSame
<1> QED BY <1>1, <1>3, <1>4, <1>5

(* One more record. *)
LEMMA RecordStep ==
  ASSUME IInv, AtRecords, pc \in {"tlvs", "options"}, More(at, visit),
         NEW r, Read(r), NEW x, x = [at |-> at, rec |-> r], Fits(x, visit),
         NEW row \in RowType, Emit(row),
         row = [table |-> RecordTable, at |-> at, n |-> SizeOf(x),
                index |-> i % IndexMod, endpoint |-> EndpointOf(x, visit)],
         NEW n \in Nat, StepOver(n),
         at + n = IF r.last THEN EndOf(visit) ELSE at + SizeOf(x)
  PROVE  IInv'
<1>0. TypeOK /\ visit \in Visits /\ Len(recs) \in Nat /\ i \in Nat /\ at \in Nat
  BY DEF IInv, TypeOK
<1>1. /\ hdr' = hdr /\ size' = size /\ visit' = visit /\ pc' = pc
      /\ at' = at + n /\ i' = i + 1
  BY DEF StepOver
<1>2. SameHeader
  BY <1>1 DEF SameHeader
<1>3. \A w \in Visits \ {visit} : Kept(w)
  BY <1>0, EmitKeeps
<1>4. /\ Captures' /\ Chain' /\ ToCome' /\ Behind' /\ Grown
      /\ recs' \in Seq([at : Nat, rec : Record])'
      /\ i < Len(recs')
      /\ recs'[i + 1] = x
  BY <1>1, <1>2, <1>3, ReadFrame
<1>5. TypeOK'
  <2>1. counts' \in [Tables -> Nat] /\ rows' \in [Visits -> Seq(RowType)]
    BY <1>0, EmitTyped
  <2>3. at' \in Nat /\ i' \in Nat
    BY ONLY <1>0, <1>1, n \in Nat
  <2> QED BY <1>0, <1>1, <1>4, <2>1, <2>3 DEF TypeOK, RowType
<1>6. PICK j \in 0..Len(recs) : j = i
  BY DEF AtRecords
<1>7. PICK v \in Visits : v = visit
  BY <1>0
<1>8. Entered(v) /\ Found(v, j) /\ FixedCount(v) \in Nat /\ j \in Nat
  BY <1>0, <1>6, <1>7, FixedCountFacts DEF AtRecords
<1>9. PICK f \in Nat : f = FixedCount(v)
  BY <1>8
<1>10. /\ FixedCount(v)' = f /\ Entered(v)' /\ EndOf(v)' = EndOf(v)
       /\ RecordTable' = RecordTable
  BY <1>2, <1>8, <1>9, HeaderSame
<1>11. /\ \A p : More(p, v)' = More(p, v)
       /\ \A y : /\ Fits(y, v)' = Fits(y, v) /\ SizeOf(y)' = SizeOf(y)
                 /\ EndpointOf(y, v)' = EndpointOf(y, v)
  BY <1>2, RecordSame
<1>12. recs'[j + 1] = x /\ x.at = at /\ x.rec = r
  BY <1>4, <1>6
<1>13. row = RecordRow(j + 1, v)'
  <2>1. /\ SizeOf(recs[j + 1])' = SizeOf(x)
        /\ EndpointOf(recs[j + 1], v)' = EndpointOf(x, v)
    BY <1>11, <1>12
  <2>2. (j + 1) - 1 = i
    BY <1>6, <1>8
  <2> QED BY <1>7, <1>10, <1>12, <2>1, <2>2 DEF RecordRow
<1>14. Progress(v, f, j + 1)'
  <2>1. Progress(v, f, j)
    BY <1>8, <1>9 DEF Found
  <2> QED BY <1>0, <1>4, <1>7, <1>13, <2>1, RecordEmitted
<1>15. Accepts(v, j + 1)'
  <2>1. Accepts(v, j)'
    BY <1>0, <1>4, <1>8, AcceptsSame DEF Found
  <2>2. More(recs[j + 1].at, v)'
    BY <1>7, <1>11, <1>12
  <2>3. Fits(recs[j + 1], v)'
    BY <1>7, <1>11, <1>12
  <2>4. ASSUME NEW m \in 1..(j + 1) PROVE More(recs[m].at, v)' /\ Fits(recs[m], v)'
    <3>1. CASE m = j + 1
      BY <2>2, <2>3, <3>1
    <3>2. CASE m # j + 1
      <4>1. m \in 1..j
        BY <1>8, <3>2
      <4> QED BY <2>1, <4>1 DEF Accepts
    <3> QED BY <3>1, <3>2
  <2> QED BY <2>4 DEF Accepts
<1>16. Found(v, j + 1)'
  BY <1>10, <1>14, <1>15 DEF Found
<1>17. After(j + 1, v)' = at + n
  <2>1. SizeOf(recs[j + 1])' = SizeOf(x)
    BY <1>11, <1>12
  <2>2. j + 1 # 0
    BY <1>8
  <2> QED BY <1>7, <1>10, <1>12, <2>1, <2>2 DEF After
<1>18. AtRecords'
  <2>1. i' = j + 1 /\ visit' = v /\ i' \in 0..Len(recs')
    <3>1. Len(recs') \in Nat
      BY <1>4
    <3> QED BY <1>1, <1>4, <1>6, <1>7, <1>8, <3>1
  <2>2. at' = After(i, visit)'
    BY <1>1, <1>17, <2>1
  <2>3. Found(visit, i)' /\ Entered(visit)'
    BY <1>10, <1>16, <2>1
  <2>4. /\ pc' = "tlvs" => hdr'.kind # "sd"
        /\ pc' = "options" => hdr'.kind = "sd"
    BY <1>1 DEF AtRecords
  <2> QED BY <2>1, <2>2, <2>3, <2>4 DEF AtRecords
<1> QED BY <1>1, <1>4, <1>5, <1>18 DEF IInv, UnderWay

(* A record that is not accepted ends the visit. *)
LEMMA RecordStop ==
  ASSUME IInv, AtRecords, pc \in {"tlvs", "options"}, More(at, visit),
         NEW r, Read(r), NEW x, x = [at |-> at, rec |-> r], ~Fits(x, visit),
         pc' = "done", UNCHANGED <<hdr, size, visit, at, i, counts, rows>>
  PROVE  IInv'
<1>0. TypeOK /\ visit \in Visits /\ Len(recs) \in Nat /\ i \in Nat
  BY DEF IInv, TypeOK
<1>2. SameHeader
  BY DEF SameHeader
<1>3. \A w \in Visits : Kept(w)
  BY DEF Kept
<1>4. /\ Captures' /\ Chain' /\ ToCome' /\ Behind' /\ Grown
      /\ recs' \in Seq([at : Nat, rec : Record])'
      /\ i < Len(recs')
      /\ recs'[i + 1] = x
  BY <1>2, <1>3, ReadFrame
<1>5. TypeOK'
  BY <1>0, <1>4 DEF TypeOK, RowType
<1>6. PICK j \in 0..Len(recs) : j = i
  BY DEF AtRecords
<1>7. PICK v \in Visits : v = visit
  BY <1>0
<1>8. Entered(v) /\ Found(v, j) /\ FixedCount(v) \in Nat /\ j \in Nat
  BY <1>0, <1>6, <1>7, FixedCountFacts DEF AtRecords
<1>9. Found(v, j)'
  BY <1>0, <1>3, <1>4, <1>8, FoundSame
<1>10. Stops(v, j)'
  <2>1. Entered(v)' = Entered(v) /\ \A y : Fits(y, v)' = Fits(y, v)
    BY <1>2, HeaderSame, RecordSame
  <2>2. recs'[j + 1] = x /\ j < Len(recs')
    BY <1>4, <1>6
  <2>3. ~Fits(recs[j + 1], v)'
    BY <1>7, <2>1, <2>2
  <2> QED BY <1>8, <2>1, <2>2, <2>3 DEF Stops
<1>11. j \in 0..Len(recs')
  <2>1. Len(recs') \in Nat
    BY <1>4
  <2> QED BY <1>4, <1>6, <1>8, <2>1
<1>12. FoundAll(visit)'
  BY <1>7, <1>9, <1>10, <1>11 DEF FoundAll
<1> QED BY <1>4, <1>5, <1>12 DEF IInv, UnderWay

(* The loop is at its end. *)
LEMMA RecordsEnd ==
  ASSUME IInv, AtRecords, ~More(at, visit), Leave
  PROVE  IInv'
<1>1. i \in 0..Len(recs) /\ Found(visit, i) /\ Stops(visit, i)
  BY DEF AtRecords, Stops
<1> QED BY <1>1, LeaveInv DEF FoundAll

-----------------------------------------------------------------------------
(* The loop of tlv_cursor. *)
LEMMA TlvFacts ==
  ASSUME IInv, pc = "tlvs"
  PROVE  /\ AtRecords /\ hdr.kind # "sd" /\ TypeOK /\ visit \in Visits
         /\ at \in Nat /\ i \in Nat /\ end \in Nat
         /\ end = EndOf(visit) /\ Limit(visit) = end /\ (More(at, visit) <=> at < end)
<1>1. AtRecords /\ hdr.kind # "sd" /\ TypeOK /\ visit \in Visits /\ at \in Nat /\ i \in Nat
  BY DEF IInv, UnderWay, AtRecords, TypeOK
<1>2. end = EndOf(visit) /\ Limit(visit) = end
  BY <1>1 DEF end, EndOf, Limit
<1>3. EndOf(visit) \in Nat
  BY <1>1, Numbers
<1> QED BY <1>1, <1>2, <1>3 DEF More

LEMMA TlvInv == ASSUME IInv, NEW r \in Record, Tlv(r) PROVE IInv'
<1>0. pc = "tlvs" /\ at < end /\ Read(r) /\ TlvFits(r)
  BY DEF Tlv
<1>1. /\ AtRecords /\ hdr.kind # "sd" /\ TypeOK /\ visit \in Visits
      /\ at \in Nat /\ i \in Nat /\ end \in Nat
      /\ end = EndOf(visit) /\ Limit(visit) = end /\ (More(at, visit) <=> at < end)
  BY <1>0, TlvFacts
<1>2. r.n \in Nat /\ r.lone \in BOOLEAN /\ r.last \in BOOLEAN
  BY <1>1, RecordFacts DEF TypeOK
<1>3. PICK x : x = [at |-> at, rec |-> r]
  OBVIOUS
<1>4. x.at = at /\ x.rec = r
  BY <1>3
<1>5. Fits(x, visit)
  BY <1>0, <1>1, <1>4 DEF Fits, TlvFits
<1>6. SizeOf(x) = IF r.lone THEN 1 ELSE r.n
  BY <1>1, <1>4 DEF SizeOf
<1>7. EndpointOf(x, visit) = 0
  BY <1>1 DEF EndpointOf
<1> DEFINE row == OptRow(IF r.lone THEN 1 ELSE r.n)
           n == IF ~r.lone THEN r.n ELSE IF r.last THEN end - at ELSE 1
<1>8. row \in RowType
  <2>1. (IF r.lone THEN 1 ELSE r.n) \in Nat
    BY <1>2
  <2> QED BY <1>1, <2>1, RowTyped DEF OptRow, Tables
<1>9. row = [table |-> RecordTable, at |-> at, n |-> SizeOf(x),
             index |-> i % IndexMod, endpoint |-> EndpointOf(x, visit)]
  BY <1>1, <1>6, <1>7 DEF OptRow, Row, RecordTable
<1>10. Emit(row) /\ StepOver(n)
  BY DEF Tlv
<1>11. r.last => r.lone
  <2>1. r \in Record /\ hdr.kind # "sd"
    BY <1>1
  <2>2. \/ r \in [n : RecordSizes, lone : {FALSE}, last : {FALSE}, endpoint : {"none"}]
        \/ r \in [n : {1}, lone : {TRUE}, last : {FALSE, hdr.kind = "ipv4"},
                  endpoint : {"none"}]
    BY <2>1 DEF Record
  <2>3. CASE r \in [n : RecordSizes, lone : {FALSE}, last : {FALSE}, endpoint : {"none"}]
    BY <2>3
  <2>4. CASE r \in [n : {1}, lone : {TRUE}, last : {FALSE, hdr.kind = "ipv4"},
                    endpoint : {"none"}]
    BY <2>4
  <2> QED BY <2>2, <2>3, <2>4
<1>12. n \in Nat
  BY <1>0, <1>1, <1>2
<1>13. at + n = IF r.last THEN EndOf(visit) ELSE at + SizeOf(x)
  <2>1. CASE r.last
    BY <2>1, <1>1, <1>11
  <2>2. CASE ~r.last
    BY <2>2, <1>6
  <2> QED BY <2>1, <2>2
<1> HIDE DEF row, n
<1>14. pc \in {"tlvs", "options"} /\ More(at, visit)
  BY <1>0, <1>1
<1> QED BY <1>0, <1>1, <1>3, <1>5, <1>8, <1>9, <1>10, <1>12, <1>13, <1>14, RecordStep

LEMMA TlvStopInv == ASSUME IInv, NEW r \in Record, TlvStop(r) PROVE IInv'
<1>0. pc = "tlvs" /\ at < end /\ Read(r) /\ ~TlvFits(r)
  BY DEF TlvStop
<1>1. /\ AtRecords /\ hdr.kind # "sd"
      /\ Limit(visit) = end /\ (More(at, visit) <=> at < end)
  BY <1>0, TlvFacts
<1>2. PICK x : x = [at |-> at, rec |-> r]
  OBVIOUS
<1>3. x.at = at /\ x.rec = r
  BY <1>2
<1>4. ~Fits(x, visit)
  BY <1>0, <1>1, <1>3 DEF Fits, TlvFits
<1>5. pc' = "done" /\ UNCHANGED <<hdr, size, visit, at, i, counts, rows>>
  BY DEF TlvStop
<1>6. pc \in {"tlvs", "options"} /\ More(at, visit)
  BY <1>0, <1>1
<1> QED BY <1>0, <1>1, <1>2, <1>4, <1>5, <1>6, RecordStop

LEMMA TlvsEndInv == ASSUME IInv, TlvsEnd PROVE IInv'
<1>1. pc = "tlvs" /\ at >= end /\ Leave
  BY DEF TlvsEnd
<1>2. AtRecords /\ at \in Nat /\ end \in Nat /\ (More(at, visit) <=> at < end)
  BY <1>1, TlvFacts
<1>3. ~More(at, visit)
  BY <1>1, <1>2
<1> QED BY <1>1, <1>2, <1>3, RecordsEnd

(* The loop over SD options. *)
LEMMA OptionFacts ==
  ASSUME IInv, pc = "options"
  PROVE  /\ AtRecords /\ hdr.kind = "sd" /\ TypeOK /\ visit \in Visits
         /\ at \in Nat /\ i \in Nat /\ OptionsEnd \in Nat /\ size[visit] \in Nat
         /\ Limit(visit) = OptionsEnd /\ (More(at, visit) <=> at + 3 <= OptionsEnd)
<1>1. AtRecords /\ hdr.kind = "sd" /\ TypeOK /\ visit \in Visits /\ at \in Nat /\ i \in Nat
  BY DEF IInv, UnderWay, AtRecords, TypeOK
<1>2. Limit(visit) = OptionsEnd
  BY <1>1 DEF OptionsEnd, end, EndOf, Limit
<1>3. Limit(visit) \in Nat /\ size[visit] \in Nat
  BY <1>1, Numbers, SizeFacts
<1> QED BY <1>1, <1>2, <1>3 DEF More

LEMMA OptionInv == ASSUME IInv, NEW r \in Record, Option(r) PROVE IInv'
<1>0. pc = "options" /\ at + 3 <= OptionsEnd /\ Read(r) /\ OptionFits(r)
  BY DEF Option
<1>1. /\ AtRecords /\ hdr.kind = "sd" /\ TypeOK /\ visit \in Visits
      /\ at \in Nat /\ i \in Nat /\ OptionsEnd \in Nat /\ size[visit] \in Nat
      /\ Limit(visit) = OptionsEnd /\ (More(at, visit) <=> at + 3 <= OptionsEnd)
  BY <1>0, OptionFacts
<1>2. r.n \in Nat /\ r.last \in BOOLEAN /\ ~r.last
  BY <1>1, RecordFacts DEF TypeOK
<1>3. PICK x : x = [at |-> at, rec |-> r]
  OBVIOUS
<1>4. x.at = at /\ x.rec = r
  BY <1>3
<1>5. Fits(x, visit)
  BY <1>0, <1>1, <1>4 DEF Fits, OptionFits
<1>6. SizeOf(x) = 3 + r.n
  BY <1>1, <1>4 DEF SizeOf
<1>7. EndpointOf(x, visit) = EndpointEnd(r)
  BY <1>1, <1>4 DEF EndpointOf, EndpointEnd
<1>71. EndpointEnd(r) \in Nat
  BY <1>1 DEF EndpointEnd
<1> DEFINE row == OptionRow(r.n, EndpointEnd(r))
           n == 3 + r.n
<1>8. row \in RowType
  <2>1. 3 + r.n \in Nat
    BY <1>2
  <2> QED BY <1>1, <1>71, <2>1, RowTyped DEF OptionRow, Tables
<1>9. row = [table |-> RecordTable, at |-> at, n |-> SizeOf(x),
             index |-> i % IndexMod, endpoint |-> EndpointOf(x, visit)]
  BY <1>1, <1>6, <1>7 DEF OptionRow, Row, RecordTable
<1>10. Emit(row) /\ StepOver(n)
  BY DEF Option
<1>12. n \in Nat
  BY <1>2
<1>13. at + n = IF r.last THEN EndOf(visit) ELSE at + SizeOf(x)
  BY <1>2, <1>6
<1> HIDE DEF row, n
<1>14. pc \in {"tlvs", "options"} /\ More(at, visit)
  BY <1>0, <1>1
<1> QED BY <1>0, <1>1, <1>3, <1>5, <1>8, <1>9, <1>10, <1>12, <1>13, <1>14, RecordStep

LEMMA OptionStopInv == ASSUME IInv, NEW r \in Record, OptionStop(r) PROVE IInv'
<1>0. pc = "options" /\ at + 3 <= OptionsEnd /\ Read(r) /\ ~OptionFits(r)
  BY DEF OptionStop
<1>1. /\ AtRecords /\ hdr.kind = "sd"
      /\ Limit(visit) = OptionsEnd /\ (More(at, visit) <=> at + 3 <= OptionsEnd)
  BY <1>0, OptionFacts
<1>2. PICK x : x = [at |-> at, rec |-> r]
  OBVIOUS
<1>3. x.at = at /\ x.rec = r
  BY <1>2
<1>4. ~Fits(x, visit)
  BY <1>0, <1>1, <1>3 DEF Fits, OptionFits
<1>5. pc' = "done" /\ UNCHANGED <<hdr, size, visit, at, i, counts, rows>>
  BY DEF OptionStop
<1>6. pc \in {"tlvs", "options"} /\ More(at, visit)
  BY <1>0, <1>1
<1> QED BY <1>0, <1>1, <1>2, <1>4, <1>5, <1>6, RecordStop

LEMMA OptionsDoneInv == ASSUME IInv, OptionsDone PROVE IInv'
<1>1. pc = "options" /\ at + 3 > OptionsEnd /\ Leave
  BY DEF OptionsDone
<1>2. /\ AtRecords /\ at \in Nat /\ OptionsEnd \in Nat
      /\ (More(at, visit) <=> at + 3 <= OptionsEnd)
  BY <1>1, OptionFacts
<1>3. ~More(at, visit)
  BY <1>1, <1>2
<1> QED BY <1>1, <1>2, <1>3, RecordsEnd

-----------------------------------------------------------------------------
LEMMA NextVisitInv == ASSUME IInv, NextVisit PROVE IInv'
<1>0. /\ TypeOK /\ visit \in Visits /\ Len(recs) \in Nat /\ Off \in Nat
      /\ FoundAll(visit) /\ pc = "done" /\ visit # "whole"
  BY ConstantsAssumption DEF IInv, UnderWay, TypeOK, NextVisit
<1>1. /\ hdr' = hdr /\ size' = size /\ recs' = recs /\ counts' = counts /\ rows' = rows
      /\ visit' = (IF visit = "count" THEN "scatter" ELSE "whole")
      /\ pc' = "enter" /\ at' = Off /\ i' = 0
  BY DEF NextVisit
<1>2. SameHeader
  BY <1>1 DEF SameHeader
<1>3. Grown /\ Len(recs)' \in Nat
  BY <1>0, <1>1, <1>2 DEF Grown
<1>4. \A w \in Visits : Kept(w)
  BY <1>1 DEF Kept
<1>5. TypeOK'
  <2>1. Record' = Record
    BY <1>2, RecordSetSame
  <2>2. visit' \in Visits
    BY <1>1 DEF Visits
  <2> QED BY <1>0, <1>1, <2>1, <2>2 DEF TypeOK, RowType
<1>6. Captures'
  BY <1>1 DEF IInv, Captures
<1>7. Chain'
  <2>1. Start' = Start /\ \A y : SizeOf(y)' = SizeOf(y)
    BY <1>2, HeaderSame, RecordSame
  <2> QED BY <1>1, <2>1 DEF IInv, Chain
<1>8. Rank[visit'] = Rank[visit] + 1 /\ Rank[visit] \in Nat
  BY <1>0, <1>1 DEF Rank, Visits
<1>9. \A w \in Visits : Rank[w] \in Nat /\ (Rank[w] = Rank[visit] => w = visit)
  BY <1>0 DEF Rank, Visits
<1>10. ASSUME NEW w \in Visits, Rank[w] > Rank[visit] PROVE Progress(w, 0, 0)'
  <2>1. Progress(w, 0, 0)
    BY <1>10 DEF IInv, ToCome
  <2> QED BY <1>0, <1>3, <1>4, <2>1, ProgressSame
<1>11. ASSUME NEW w \in Visits, Rank[w] <= Rank[visit] PROVE FoundAll(w)'
  <2>1. FoundAll(w)
    <3>1. CASE w = visit
      BY <1>0, <3>1
    <3>2. CASE w # visit
      <4>1. Rank[w] < Rank[visit]
        BY <1>8, <1>9, <1>11, <3>2
      <4> QED BY <4>1 DEF IInv, Behind
    <3> QED BY <3>1, <3>2
  <2>2. FixedCount(w) \in Nat
    BY <1>0, FixedCountFacts
  <2> QED BY <1>0, <1>3, <1>4, <2>1, <2>2, FoundAllSame
<1>12. ToCome'
  <2>1. ASSUME NEW w \in Visits, Rank[w] > Rank[visit'] PROVE Progress(w, 0, 0)'
    <3>1. Rank[w] > Rank[visit]
      BY <1>8, <1>9, <2>1
    <3> QED BY <1>10, <3>1
  <2> QED BY <2>1 DEF ToCome
<1>13. Behind'
  <2>1. ASSUME NEW w \in Visits, Rank[w] < Rank[visit'] PROVE FoundAll(w)'
    <3>1. Rank[w] <= Rank[visit]
      BY <1>8, <1>9, <2>1
    <3> QED BY <1>11, <3>1
  <2> QED BY <2>1 DEF Behind
<1>14. UnderWay'
  <2>1. PICK w \in Visits : w = visit'
    BY <1>5 DEF TypeOK
  <2>2. Rank[w] > Rank[visit]
    BY <1>8, <2>1
  <2>3. Progress(w, 0, 0)'
    BY <1>10, <2>2
  <2>4. Progress(visit, 0, 0)'
    BY <2>1, <2>3
  <2> QED BY <1>1, <2>4 DEF UnderWay
<1> QED BY <1>5, <1>6, <1>7, <1>12, <1>13, <1>14 DEF IInv

LEMMA InitIInv == ASSUME Init PROVE IInv
<1>1. /\ hdr \in Headers /\ visit = "count" /\ pc = "enter" /\ at = Off /\ i = 0
      /\ recs = <<>> /\ counts = [t \in Tables |-> 0] /\ rows = [v \in Visits |-> <<>>]
  BY DEF Init
<1>2. PICK s \in Sizes : /\ Off + FixedSize[hdr.kind] <= s
                         /\ size = [v \in Visits |-> IF v = "whole" THEN Whole ELSE s]
  BY DEF Init
<1>3. /\ Off \in Nat /\ Whole \in Nat /\ s \in Nat /\ s <= Whole
      /\ Off + FixedSize[hdr.kind] <= Whole
  BY <1>1, ConstantsAssumption
<1>4. TypeOK
  <2>1. size \in [Visits -> Sizes \cup {Whole}]
    BY <1>2
  <2>2. counts \in [Tables -> Nat] /\ rows \in [Visits -> Seq(RowType)]
    BY <1>1
  <2>3. recs \in Seq([at : Nat, rec : Record])
    BY <1>1
  <2> QED BY <1>1, <1>3, <2>1, <2>2, <2>3 DEF TypeOK, Visits
<1>5. Captures
  BY <1>2, <1>3 DEF Captures, Visits
<1>6. Chain
  BY <1>1 DEF Chain
<1>7. \A v \in Visits : Progress(v, 0, 0)
  BY <1>1 DEF Progress, CountedSoFar, WrittenSoFar, Tables
<1>8. ToCome
  BY <1>7 DEF ToCome
<1>9. Behind
  BY <1>1 DEF Behind, Rank, Visits
<1>10. UnderWay
  BY <1>1, <1>7 DEF UnderWay, Visits
<1> QED BY <1>4, <1>5, <1>6, <1>8, <1>9, <1>10 DEF IInv

LEMMA StutterInv == ASSUME IInv, UNCHANGED vars PROVE IInv'
<1>1. /\ hdr' = hdr /\ size' = size /\ visit' = visit /\ pc' = pc /\ at' = at /\ i' = i
      /\ recs' = recs /\ counts' = counts /\ rows' = rows
  BY DEF vars
<1>2. TypeOK'
  BY <1>1 DEF IInv, TypeOK, RowType, Record
<1>3. SameHeader /\ Grown /\ \A w \in Visits : Kept(w)
  BY <1>1 DEF IInv, TypeOK, SameHeader, Grown, Kept
<1>4. TypeOK /\ Len(recs) \in Nat /\ Len(recs)' \in Nat /\ visit \in Visits
      /\ FixedCount(visit) \in Nat
  <2>1. TypeOK /\ Len(recs) \in Nat /\ Len(recs)' \in Nat /\ visit \in Visits
    BY <1>1 DEF IInv, TypeOK
  <2> QED BY <2>1, FixedCountFacts
<1>5. ToCome' /\ Behind'
  BY <1>1, <1>3, <1>4, OthersSame
<1>6. Captures'
  BY <1>1 DEF IInv, Captures
<1>7. Chain'
  <2>1. Start' = Start /\ \A y : SizeOf(y)' = SizeOf(y)
    BY <1>3, HeaderSame, RecordSame
  <2> QED BY <1>1, <2>1 DEF IInv, Chain
<1>8. PICK v \in Visits : v = visit
  BY <1>4
<1>9. PICK j \in Nat : j = i
  BY DEF IInv, TypeOK
<1>10. CASE pc = "enter"
  <2>1. Progress(v, 0, 0)
    BY <1>8, <1>10 DEF IInv, UnderWay
  <2>2. Progress(v, 0, 0)'
    BY <2>1, <1>3, <1>4, ProgressSame
  <2>3. Progress(visit, 0, 0)'
    BY <2>2, <1>1, <1>8
  <2> QED BY <1>1, <1>2, <1>5, <1>6, <1>7, <1>10, <2>3 DEF IInv, UnderWay
<1>11. CASE pc \in {"segments", "entries"}
  <2>1. AtFixed
    BY <1>11 DEF IInv, UnderWay
  <2>2. Progress(v, j, 0)
    BY <1>8, <1>9, <2>1 DEF AtFixed
  <2>3. Progress(v, j, 0)'
    BY <2>2, <1>3, <1>4, ProgressSame
  <2>4. Progress(visit, i, 0)'
    BY <2>3, <1>1, <1>8, <1>9
  <2>5. FixedCount(visit)' = FixedCount(visit) /\ HasEntries(visit)' = HasEntries(visit)
        /\ Base' = Base
    BY <1>1, <1>3, HeaderSame
  <2>6. AtFixed'
    BY <1>1, <2>1, <2>4, <2>5 DEF AtFixed
  <2> QED BY <1>1, <1>2, <1>5, <1>6, <1>7, <1>11, <2>6 DEF IInv, UnderWay
<1>12. CASE pc \in {"tlvs", "options"}
  <2>1. AtRecords
    BY <1>12 DEF IInv, UnderWay
  <2>2. Found(v, j) /\ j \in 0..Len(recs)
    BY <1>8, <1>9, <2>1 DEF AtRecords
  <2>3. Found(v, j)' /\ After(j, v)' = After(j, v)
    BY <2>2, <1>3, <1>4, <1>8, FoundSame, AfterSame
  <2>4. Found(visit, i)' /\ After(i, visit)' = After(i, visit)
    BY <2>3, <1>1, <1>8, <1>9
  <2>5. Entered(visit)' = Entered(visit)
    BY <1>1, <1>3, HeaderSame
  <2>6. AtRecords'
    BY <1>1, <2>1, <2>4, <2>5 DEF AtRecords
  <2> QED BY <1>1, <1>2, <1>5, <1>6, <1>7, <1>12, <2>6 DEF IInv, UnderWay
<1>13. CASE pc = "done"
  <2>1. FoundAll(v)
    BY <1>8, <1>13 DEF IInv, UnderWay
  <2>2. FoundAll(v)'
    BY <2>1, <1>3, <1>4, <1>8, FoundAllSame
  <2>3. FoundAll(visit)'
    BY <2>2, <1>1, <1>8
  <2> QED BY <1>1, <1>2, <1>5, <1>6, <1>7, <1>13, <2>3 DEF IInv, UnderWay
<1>14. pc \in {"enter", "segments", "tlvs", "entries", "options", "done"}
  BY DEF IInv, TypeOK
<1> QED BY <1>10, <1>11, <1>12, <1>13, <1>14

LEMMA NextIInv == ASSUME IInv, [Next]_vars PROVE IInv'
<1>1. ASSUME NEW r \in Record, Tlv(r) \/ TlvStop(r) PROVE IInv'
  BY <1>1, TlvInv, TlvStopInv
<1>2. ASSUME NEW r \in Record, Option(r) \/ OptionStop(r) PROVE IInv'
  BY <1>2, OptionInv, OptionStopInv
<1>3. CASE UNCHANGED vars
  BY <1>3, StutterInv
<1> QED
  BY <1>1, <1>2, <1>3, EnterOptionsInv, EnterSrhInv, EnterSdInv, SegmentInv,
     SegmentsEndInv, TlvsEndInv, EntryInv, EntriesEndInv, OptionsDoneInv, NextVisitInv
     DEF Next

LEMMA SpecIInv == Spec => []IInv
<1>1. Init => IInv
  BY InitIInv
<1>2. IInv /\ [Next]_vars => IInv'
  BY NextIInv
<1> QED BY <1>1, <1>2, PTL DEF Spec

-----------------------------------------------------------------------------
(* The traversals keep their types, for every header and every size. *)
THEOREM ChildTypeOK == Spec => []TypeOK
  BY SpecIInv, PTL DEF IInv

(* The position behind k records, when there is one more, is its own. *)
LEMMA AfterIs ==
  ASSUME IInv, NEW v, NEW k \in 0..(Len(recs) - 1)
  PROVE  After(k, v) = recs[k + 1].at
<1>1. Len(recs) \in Nat /\ Chain /\ k \in Nat
  BY DEF IInv, TypeOK
<1>2. CASE k = 0
  <2>1. recs # <<>>
    BY <1>1
  <2> QED BY <1>1, <1>2, <2>1 DEF After, Chain
<1>3. CASE k # 0
  <2>1. k \in 1..(Len(recs) - 1)
    BY <1>1, <1>3
  <2> QED BY <1>1, <1>3, <2>1 DEF After, Chain
<1> QED BY <1>2, <1>3

(* A visit accepts no more records than where it would stop. *)
LEMMA AcceptsBound ==
  ASSUME IInv, NEW v \in Visits, NEW j \in 0..Len(recs), NEW k \in 0..Len(recs),
         Accepts(v, k), k > 0 => Entered(v), Stops(v, j)
  PROVE  k <= j
<1>1. Len(recs) \in Nat /\ j \in Nat /\ k \in Nat
  BY DEF IInv, TypeOK
<1>2. SUFFICES ASSUME j < k PROVE FALSE
  BY <1>1
<1>3. j \in 0..(Len(recs) - 1) /\ j + 1 \in 1..k /\ k > 0
  BY <1>1, <1>2
<1>4. More(recs[j + 1].at, v) /\ Fits(recs[j + 1], v) /\ Entered(v)
  BY <1>3 DEF Accepts
<1>5. After(j, v) = recs[j + 1].at
  BY <1>3, AfterIs
<1> QED BY <1>4, <1>5 DEF Stops

(* What visit v has written, wherever it is. *)
LEMMA Described ==
  ASSUME IInv, NEW v \in Visits, v # "count"
  PROVE  \E f \in 0..FixedCount(v), k \in 0..Len(recs) :
           /\ WrittenSoFar(v, f, k) /\ Accepts(v, k)
           /\ k > 0 => Entered(v) /\ f = FixedCount(v)
<1>0. /\ TypeOK /\ Len(recs) \in Nat /\ visit \in Visits /\ FixedCount(v) \in Nat
      /\ pc \in {"enter", "segments", "tlvs", "entries", "options", "done"}
  BY FixedCountFacts DEF IInv, TypeOK
<1>1. 0 \in 0..FixedCount(v) /\ FixedCount(v) \in 0..FixedCount(v) /\ 0 \in 0..Len(recs)
      /\ Accepts(v, 0)
  BY <1>0 DEF Accepts
<1>2. CASE Progress(v, 0, 0)
  <2>1. WrittenSoFar(v, 0, 0)
    BY <1>2 DEF Progress
  <2> QED BY <1>1, <2>1
<1>3. CASE FoundAll(v)
  <2>1. PICK k \in 0..Len(recs) : Found(v, k)
    BY <1>3 DEF FoundAll
  <2>2. WrittenSoFar(v, FixedCount(v), k) /\ Accepts(v, k) /\ (k > 0 => Entered(v))
    BY <2>1 DEF Found, Progress
  <2> QED BY <1>1, <2>2
<1>4. CASE v = visit
  <2>1. CASE pc = "enter"
    BY <1>2, <1>4, <2>1 DEF IInv, UnderWay
  <2>2. CASE pc \in {"segments", "entries"}
    <3>1. AtFixed
      BY <2>2 DEF IInv, UnderWay
    <3>2. i \in 0..FixedCount(v) /\ WrittenSoFar(v, i, 0)
      BY <1>4, <3>1 DEF AtFixed, Progress
    <3> QED BY <1>1, <3>2
  <2>3. CASE pc \in {"tlvs", "options"}
    <3>1. AtRecords
      BY <2>3 DEF IInv, UnderWay
    <3>2. i \in 0..Len(recs) /\ WrittenSoFar(v, FixedCount(v), i) /\ Accepts(v, i)
          /\ Entered(v)
      BY <1>4, <3>1 DEF AtRecords, Found, Progress
    <3> QED BY <1>1, <3>2
  <2>4. CASE pc = "done"
    BY <1>3, <1>4, <2>4 DEF IInv, UnderWay
  <2> QED BY <1>0, <2>1, <2>2, <2>3, <2>4
<1>5. CASE v # visit
  <2>1. Rank[v] > Rank[visit] \/ Rank[v] < Rank[visit]
    BY <1>0, <1>5 DEF Rank, Visits
  <2> QED BY <1>2, <1>3, <2>1 DEF IInv, ToCome, Behind
<1> QED BY <1>4, <1>5

-----------------------------------------------------------------------------
(* The number of rows of each table among those written. *)
LEMMA RowsPerTable ==
  ASSUME TypeOK, NEW v \in Visits, NEW f \in Nat, NEW k \in Nat, WrittenSoFar(v, f, k),
         NEW t \in Tables
  PROVE  Cardinality({m \in 1..Len(rows[v]) : rows[v][m].table = t})
           = IF t = FixedTable THEN f ELSE IF t = RecordTable THEN k ELSE 0
<1> DEFINE S == {m \in 1..Len(rows[v]) : rows[v][m].table = t}
<1>1. Len(rows[v]) = f + k
  BY DEF WrittenSoFar
<1>2. \A m \in 1..f : rows[v][m].table = FixedTable
  <2>1. \A m : FixedRow(m).table = FixedTable
    BY DEF FixedRow
  <2>2. \A m \in 1..f : rows[v][m] = FixedRow(m)
    BY DEF WrittenSoFar
  <2> QED BY ONLY <2>1, <2>2
<1>3. ASSUME NEW m \in (f + 1)..(f + k) PROVE rows[v][m].table = RecordTable
  <2>1. m - f \in 1..k /\ f + (m - f) = m
    OBVIOUS
  <2>2. rows[v][f + (m - f)] = RecordRow(m - f, v)
    BY <2>1 DEF WrittenSoFar
  <2> QED BY <2>1, <2>2 DEF RecordRow
<1>4. FixedTable # RecordTable
  BY DEF FixedTable, RecordTable
<1>5. CASE t = FixedTable
  <2>1. S = 1..f
    BY <1>1, <1>2, <1>3, <1>4, <1>5
  <2>2. Cardinality(1..f) = f
    BY FS_Interval
  <2> QED BY <1>5, <2>1, <2>2
<1>6. CASE t = RecordTable
  <2>1. S = (f + 1)..(f + k)
    BY <1>1, <1>2, <1>3, <1>4, <1>6
  <2>2. Cardinality((f + 1)..(f + k)) = k
    BY FS_Interval
  <2> QED BY <1>4, <1>6, <2>1, <2>2
<1>7. CASE t # FixedTable /\ t # RecordTable
  <2>1. S = {}
    BY <1>1, <1>2, <1>3, <1>7
  <2> QED BY <1>7, <2>1, FS_EmptySet
<1> QED BY <1>5, <1>6, <1>7

(* The two passes see the same bytes. *)
LEMMA SameCapture ==
  ASSUME IInv
  PROVE  /\ FixedCount("count") = FixedCount("scatter")
         /\ \A k : Stops("count", k) = Stops("scatter", k)
<1>1. size["count"] = size["scatter"]
  BY DEF IInv, Captures
<1>2. EndOf("count") = EndOf("scatter") /\ HasEntries("count") = HasEntries("scatter")
  BY <1>1 DEF EndOf, HasEntries
<1>3. FixedCount("count") = FixedCount("scatter")
  BY <1>2 DEF FixedCount
<1>4. Limit("count") = Limit("scatter") /\ Entered("count") = Entered("scatter")
  BY <1>2 DEF Limit, Entered
<1>5. /\ \A p : More(p, "count") = More(p, "scatter")
      /\ \A x : Fits(x, "count") = Fits(x, "scatter")
      /\ \A k : After(k, "count") = After(k, "scatter")
  BY <1>2, <1>4 DEF More, Fits, After
<1>6. ASSUME NEW k PROVE Stops("count", k) = Stops("scatter", k)
  BY <1>4, <1>5 DEF Stops
<1> QED BY <1>3, <1>6

LEMMA CountsFollow == ASSUME IInv PROVE CountsExact
<1>0. TypeOK /\ Len(recs) \in Nat /\ visit \in Visits
  BY DEF IInv, TypeOK
<1>1. CASE visit = "count"
  BY <1>1 DEF CountsExact
<1>2. CASE visit # "count"
  <2>1. Rank["count"] < Rank[visit] /\ "count" \in Visits /\ "scatter" \in Visits
    BY <1>0, <1>2 DEF Rank, Visits
  <2>2. PICK c \in 0..Len(recs) : Found("count", c) /\ Stops("count", c)
    BY <2>1 DEF IInv, Behind, FoundAll
  <2>3. CountedSoFar(FixedCount("scatter"), c) /\ Stops("scatter", c)
    BY <2>2, SameCapture DEF Found, Progress
  <2>4. FixedCount("scatter") \in Nat /\ c \in Nat
    BY <1>0, <2>1, FixedCountFacts
  <2>5. PICK f \in 0..FixedCount("scatter"), k \in 0..Len(recs) :
          /\ WrittenSoFar("scatter", f, k) /\ Accepts("scatter", k)
          /\ k > 0 => Entered("scatter")
          /\ visit = "whole" => f = FixedCount("scatter") /\ k = c
    <3>1. CASE visit = "whole"
      <4>1. Rank["scatter"] < Rank[visit]
        BY <3>1 DEF Rank
      <4>2. PICK k \in 0..Len(recs) : Found("scatter", k) /\ Stops("scatter", k)
        BY <2>1, <4>1 DEF IInv, Behind, FoundAll
      <4>3. /\ WrittenSoFar("scatter", FixedCount("scatter"), k)
            /\ Accepts("scatter", k) /\ (k > 0 => Entered("scatter"))
        BY <4>2 DEF Found, Progress
      <4>4. k <= c
        BY <2>1, <2>3, <4>3, AcceptsBound
      <4>5. c <= k
        <5>1. Accepts("count", c) /\ (c > 0 => Entered("count"))
          BY <2>2 DEF Found
        <5>2. Stops("count", k)
          BY <4>2, SameCapture
        <5> QED BY <2>1, <5>1, <5>2, AcceptsBound
      <4>6. k = c /\ FixedCount("scatter") \in 0..FixedCount("scatter")
        BY <1>0, <2>4, <4>4, <4>5
      <4> QED BY <4>3, <4>6
    <3>2. CASE visit # "whole"
      BY <2>1, <3>2, Described
    <3> QED BY <3>1, <3>2
  <2>6. k <= c /\ f <= FixedCount("scatter") /\ f \in Nat /\ k \in Nat
    <3>1. k <= c
      BY <2>1, <2>3, <2>5, AcceptsBound
    <3> QED BY <1>0, <2>4, <3>1
  <2>7. ASSUME NEW t \in Tables
        PROVE  LET n == Cardinality({m \in 1..Len(rows["scatter"]) :
                                       rows["scatter"][m].table = t})
               IN  n <= counts[t] /\ (visit = "whole" => n = counts[t])
    <3> DEFINE n == Cardinality({m \in 1..Len(rows["scatter"]) :
                                   rows["scatter"][m].table = t})
    <3>1. n = IF t = FixedTable THEN f ELSE IF t = RecordTable THEN k ELSE 0
      BY <1>0, <2>1, <2>5, <2>6, RowsPerTable
    <3>2. counts[t] = IF t = FixedTable THEN FixedCount("scatter")
                      ELSE IF t = RecordTable THEN c ELSE 0
      BY <2>3 DEF CountedSoFar
    <3> HIDE DEF n
    <3>3. n <= counts[t] /\ (visit = "whole" => n = counts[t])
      BY ONLY <3>1, <3>2, <2>5, <2>6
    <3> QED BY <3>3 DEF n
  <2> QED BY <2>7 DEF CountsExact
<1> QED BY <1>1, <1>2

(* For every header, capture and contents: the scatter pass writes to each *)
(* table at most the rows the count pass made room for, and in the end all *)
(* of them, so no row of another packet is overwritten and no slot stays   *)
(* blank.                                                                  *)
THEOREM ChildCountsExact == Spec => []CountsExact
<1>1. IInv => CountsExact
  BY CountsFollow
<1> QED BY <1>1, SpecIInv, PTL

-----------------------------------------------------------------------------
(* The count pass has its own callback, which writes no row. *)
NoRows == rows["count"] = <<>>

LEMMA NoRowsStep == ASSUME TypeOK, NoRows, [Next]_vars PROVE NoRows'
<1>1. rows \in [Visits -> Seq(RowType)]
  BY DEF TypeOK
<1>2. ASSUME NEW row, Emit(row) PROVE NoRows'
  <2>1. CASE visit = "count"
    BY <1>2, <2>1 DEF Emit, CountRow, NoRows
  <2>2. CASE visit # "count"
    <3>1. rows' = [rows EXCEPT ![visit] = Append(@, row)]
      BY <1>2, <2>2 DEF Emit, WriteRow
    <3>2. "count" \in Visits
      BY DEF Visits
    <3>3. rows'["count"] = rows["count"]
      BY ONLY <1>1, <2>2, <3>1, <3>2
    <3> QED BY <3>3 DEF NoRows
  <2> QED BY <2>1, <2>2
<1>3. ASSUME NEW label, NEW p, Goto(label, p) PROVE NoRows'
  BY <1>3 DEF Goto, NoRows
<1>4. CASE EnterOptions \/ EnterSrh \/ EnterSd \/ SegmentsEnd \/ TlvsEnd \/ EntriesEnd
           \/ OptionsDone
  BY <1>3, <1>4 DEF EnterOptions, EnterSrh, EnterSd, SegmentsEnd, TlvsEnd, EntriesEnd,
                    OptionsDone, Leave
<1>5. CASE Segment \/ Entry
  BY <1>2, <1>5 DEF Segment, Entry
<1>6. ASSUME NEW r \in Record, Tlv(r) \/ TlvStop(r) \/ Option(r) \/ OptionStop(r)
      PROVE  NoRows'
  <2>1. CASE Tlv(r)
    BY <1>2, <2>1 DEF Tlv
  <2>2. CASE Option(r)
    BY <1>2, <2>2 DEF Option
  <2>3. CASE TlvStop(r) \/ OptionStop(r)
    BY <2>3 DEF TlvStop, OptionStop, NoRows
  <2> QED BY <1>6, <2>1, <2>2, <2>3
<1>7. CASE NextVisit \/ UNCHANGED vars
  BY <1>7 DEF NextVisit, vars, NoRows
<1> QED BY <1>4, <1>5, <1>6, <1>7 DEF Next

LEMMA SpecNoRows == Spec => []NoRows
<1>1. Init => NoRows
  BY DEF Init, NoRows, Visits
<1>2. TypeOK /\ NoRows /\ [Next]_vars => NoRows'
  BY NoRowsStep
<1> QED BY <1>1, <1>2, ChildTypeOK, PTL DEF Spec

(* The rows of 16 bytes and the rows of records, each in its place. *)
LEMMA FixedInside ==
  ASSUME TypeOK, NEW v \in Visits, NEW m \in 1..FixedCount(v)
  PROVE  /\ Off < FixedRow(m).at /\ FixedRow(m).n = 16 /\ FixedRow(m).endpoint = 0
         /\ FixedRow(m).at = Base + 16 * (m - 1) /\ FixedRow(m).at \in Nat
         /\ FixedRow(m).at + 16 <= EndOf(v)
         /\ Claimed(FixedRow(m).table).from <= FixedRow(m).at
         /\ FixedRow(m).at + 16 <= Claimed(FixedRow(m).table).to
<1>1. FixedCount(v) \in Nat /\ (FixedCount(v) > 0 => Base + 16 * FixedCount(v) <= EndOf(v))
  BY FixedCountFacts
<1>2. Base \in Nat /\ Off < Base /\ EndOf(v) \in Nat /\ Off \in Nat
  BY Numbers, HeaderFacts DEF TypeOK
<1>3. FixedRow(m).at = Base + 16 * (m - 1) /\ FixedRow(m).n = 16 /\ FixedRow(m).endpoint = 0
  BY DEF FixedRow
<1>4. /\ Base + 16 * (m - 1) \in Nat /\ Off < Base + 16 * (m - 1)
      /\ Base + 16 * (m - 1) + 16 <= EndOf(v)
  BY ONLY <1>1, <1>2, m \in 1..FixedCount(v)
<1>5. FixedCount(v) > 0
  BY ONLY <1>1, m \in 1..FixedCount(v)
<1>6. /\ hdr.kind \in {"srh", "sd"} /\ Base + 16 * FixedCount(v) <= Start
      /\ hdr.kind = "sd" => Base + 16 * FixedCount(v) <= OptionsWord
  BY <1>5, FixedCountFacts
<1>7. Off \in Nat /\ hdr.n \in Nat
  BY HeaderFacts DEF TypeOK
<1>8. CASE hdr.kind = "srh"
  <2>1. /\ Claimed(FixedRow(m).table) = [from |-> Off + 8, to |-> Off + 8 + 16 * hdr.n]
        /\ Base = Off + 8 /\ Start = Off + 8 + 16 * hdr.n
    BY <1>7, <1>8 DEF Claimed, FixedRow, FixedTable, Base, Start, TlvStart
  <2>2. /\ Claimed(FixedRow(m).table).from = Base
        /\ Claimed(FixedRow(m).table).to = Start
    BY <2>1
  <2>3. Start \in Nat
    BY ONLY <1>7, <2>1
  <2> QED BY ONLY <1>1, <1>2, <1>3, <1>4, <1>6, <2>2, <2>3, m \in 1..FixedCount(v)
<1>9. CASE hdr.kind = "sd"
  <2>1. /\ Claimed(FixedRow(m).table) = [from |-> Off + 24, to |-> Off + 24 + hdr.n]
        /\ Base = Off + 24 /\ OptionsWord = Off + 24 + hdr.n
    BY <1>7, <1>9 DEF Claimed, FixedRow, FixedTable, Base, Entries, OptionsWord
  <2>2. /\ Claimed(FixedRow(m).table).from = Base
        /\ Claimed(FixedRow(m).table).to = OptionsWord
    BY <2>1
  <2>3. OptionsWord \in Nat
    BY ONLY <1>7, <2>1
  <2> QED BY ONLY <1>1, <1>2, <1>3, <1>4, <1>6, <1>9, <2>2, <2>3, m \in 1..FixedCount(v)
<1> QED BY <1>6, <1>8, <1>9

LEMMA RecordInside ==
  ASSUME IInv, NEW v \in Visits, NEW m \in 1..Len(recs),
         More(recs[m].at, v), Fits(recs[m], v)
  PROVE  LET row == RecordRow(m, v)
         IN  /\ row.at = recs[m].at /\ row.n = SizeOf(recs[m])
             /\ row.at \in Nat /\ row.n \in Nat
             /\ Start <= row.at
             /\ row.at + row.n <= EndOf(v)
             /\ Claimed(row.table).from <= row.at
             /\ row.at + row.n <= Claimed(row.table).to
             /\ row.endpoint <= size[v]
<1> DEFINE x == recs[m]
<1>0. TypeOK /\ Chain
  BY DEF IInv
<1>1. /\ x.at \in Nat /\ x.rec.n \in Nat /\ x.rec.lone \in BOOLEAN /\ SizeOf(x) \in Nat
  BY <1>0, ReadFacts
<1>2. /\ EndOf(v) \in Nat /\ Limit(v) \in Nat /\ Limit(v) <= EndOf(v) /\ size[v] \in Nat
  BY <1>0, Numbers, SizeFacts
<1>3. Start <= x.at
  BY <1>0 DEF Chain
<1> HIDE DEF x
<1>4. More(x.at, v) /\ Fits(x, v)
  BY DEF x
<1>5. x.at + SizeOf(x) <= Limit(v)
  <2>1. CASE hdr.kind = "sd"
    BY ONLY <1>1, <1>2, <1>4, <2>1 DEF Fits, SizeOf
  <2>2. CASE hdr.kind # "sd" /\ x.rec.lone
    BY ONLY <1>1, <1>2, <1>4, <2>2 DEF More, SizeOf
  <2>3. CASE hdr.kind # "sd" /\ ~x.rec.lone
    BY ONLY <1>1, <1>2, <1>4, <2>3 DEF Fits, SizeOf
  <2> QED BY <1>1, <2>1, <2>2, <2>3
<1>6. EndpointOf(x, v) <= size[v]
  BY ONLY <1>1, <1>2 DEF EndpointOf
<1>7. LET row == RecordRow(m, v)
      IN  row.at = x.at /\ row.n = SizeOf(x) /\ row.endpoint = EndpointOf(x, v)
  BY DEF RecordRow, x
<1>8. /\ Off \in Nat /\ hdr.len \in Nat /\ hdr.n \in Nat /\ hdr.olen \in Nat
      /\ hdr.kind \in Kinds /\ EndOf(v) <= Off + hdr.len
  BY <1>0, Numbers, HeaderFacts DEF TypeOK
<1>9. /\ Claimed(RecordTable).from = Start
      /\ Limit(v) <= Claimed(RecordTable).to
      /\ Claimed(RecordTable).to \in Nat
  <2>1. CASE hdr.kind = "sd"
    <3>1. /\ Claimed(RecordTable) = [from |-> Off + 28 + hdr.n, to |-> Off + 28 + hdr.n + hdr.olen]
          /\ Start = Off + 28 + hdr.n
          /\ Limit(v) = Min2(Off + 28 + hdr.n + hdr.olen, EndOf(v))
      BY <1>8, <2>1 DEF Claimed, RecordTable, Start, Limit, OptionsWord, Entries
    <3>2. Limit(v) <= Off + 28 + hdr.n + hdr.olen
      BY ONLY <1>2, <1>8, <3>1 DEF Min2
    <3>3. Off + 28 + hdr.n + hdr.olen \in Nat
      BY ONLY <1>8
    <3> QED BY <3>1, <3>2, <3>3
  <2>2. CASE hdr.kind # "sd"
    <3>1. /\ Claimed(RecordTable).to = Off + hdr.len
          /\ Claimed(RecordTable).from =
               Off + FixedSize[hdr.kind] + (IF hdr.kind = "srh" THEN 16 * hdr.n ELSE 0)
      BY <2>2 DEF Claimed, RecordTable
    <3>2. Claimed(RecordTable).from = Start
      <4>1. CASE hdr.kind = "srh"
        BY <1>8, <3>1, <4>1 DEF Start, TlvStart, FixedSize
      <4>2. CASE hdr.kind \in {"ipv4", "opt"}
        BY <1>8, <3>1, <4>2 DEF Start, FixedSize
      <4> QED BY <1>8, <2>2, <4>1, <4>2 DEF Kinds
    <3>3. Limit(v) <= Off + hdr.len /\ Off + hdr.len \in Nat
      BY ONLY <1>2, <1>8
    <3> QED BY <3>1, <3>2, <3>3
  <2> QED BY <2>1, <2>2
<1>11. RecordRow(m, v).table = RecordTable
  BY DEF RecordRow
<1>12. /\ Claimed(RecordTable).from <= x.at
       /\ x.at + SizeOf(x) <= Claimed(RecordTable).to /\ x.at + SizeOf(x) <= EndOf(v)
  <2>1. Claimed(RecordTable).from <= x.at
    BY <1>3, <1>9
  <2>2. PICK to \in Nat : to = Claimed(RecordTable).to
    BY <1>9
  <2>3. PICK s \in Nat : s = SizeOf(x)
    BY <1>1
  <2>4. x.at + s <= to /\ x.at + s <= EndOf(v)
    BY ONLY <1>1, <1>2, <1>5, <1>9, <2>2, <2>3
  <2> QED BY ONLY <2>1, <2>2, <2>3, <2>4
<1> QED BY ONLY <1>1, <1>3, <1>6, <1>7, <1>11, <1>12 DEF x

LEMMA InsideFollows == ASSUME IInv, NoRows PROVE ChildrenInside
<1>0. TypeOK
  BY DEF IInv
<1>1. SUFFICES ASSUME NEW v \in Visits, NEW q \in 1..Len(rows[v])
               PROVE  LET r == rows[v][q]
                      IN  /\ r.at + r.n <= size[v]
                          /\ r.at + r.n <= Off + hdr.len
                          /\ Claimed(r.table).from <= r.at
                          /\ r.at + r.n <= Claimed(r.table).to
                          /\ r.endpoint <= size[v]
  BY DEF ChildrenInside
<1>2. v # "count"
  BY <1>1 DEF NoRows
<1>3. PICK f \in 0..FixedCount(v), k \in 0..Len(recs) :
        /\ WrittenSoFar(v, f, k) /\ Accepts(v, k)
        /\ k > 0 => Entered(v) /\ f = FixedCount(v)
  BY <1>2, Described
<1>4. /\ FixedCount(v) \in Nat /\ Len(recs) \in Nat /\ f \in Nat /\ k \in Nat
      /\ EndOf(v) \in Nat /\ size[v] \in Nat /\ EndOf(v) <= size[v]
      /\ EndOf(v) <= Off + hdr.len /\ Off < Start /\ Off + hdr.len \in Nat
      /\ Off \in Nat /\ Start \in Nat
  <2>1. FixedCount(v) \in Nat /\ Len(recs) \in Nat /\ size[v] \in Nat
    BY <1>0, FixedCountFacts, SizeFacts DEF TypeOK
  <2>2. Off \in Nat /\ hdr.len \in Nat
    BY <1>0, HeaderFacts DEF TypeOK
  <2>3. /\ EndOf(v) \in Nat /\ EndOf(v) <= size[v] /\ EndOf(v) <= Off + hdr.len
        /\ Off < Start /\ Start \in Nat
    BY <1>0, Numbers
  <2>4. f \in Nat /\ k \in Nat
    BY ONLY <1>3, <2>1
  <2> QED BY ONLY <2>1, <2>2, <2>3, <2>4
<1>5. Len(rows[v]) = f + k
  BY <1>3 DEF WrittenSoFar
<1>6. CASE q <= f
  <2>1. q \in 1..f /\ q \in 1..FixedCount(v)
    BY ONLY <1>3, <1>4, <1>5, <1>6, q \in 1..Len(rows[v])
  <2>2. rows[v][q] = FixedRow(q)
    BY <1>3, <2>1 DEF WrittenSoFar
  <2>3. /\ Off < FixedRow(q).at /\ FixedRow(q).n = 16 /\ FixedRow(q).endpoint = 0
        /\ FixedRow(q).at \in Nat /\ FixedRow(q).at + 16 <= EndOf(v)
        /\ Claimed(FixedRow(q).table).from <= FixedRow(q).at
        /\ FixedRow(q).at + 16 <= Claimed(FixedRow(q).table).to
    BY <1>0, <2>1, FixedInside
  <2> QED BY ONLY <1>4, <2>2, <2>3
<1>7. CASE ~(q <= f)
  <2>1. q - f \in 1..k /\ f + (q - f) = q /\ q - f \in 1..Len(recs)
    BY ONLY <1>3, <1>4, <1>5, <1>7, q \in 1..Len(rows[v])
  <2>2. rows[v][q] = RecordRow(q - f, v)
    BY <1>3, <2>1 DEF WrittenSoFar
  <2>3. More(recs[q - f].at, v) /\ Fits(recs[q - f], v)
    BY <1>3, <2>1 DEF Accepts
  <2>4. LET row == RecordRow(q - f, v)
        IN  /\ row.at \in Nat /\ row.n \in Nat /\ Start <= row.at
            /\ row.at + row.n <= EndOf(v) /\ row.endpoint <= size[v]
            /\ Claimed(row.table).from <= row.at
            /\ row.at + row.n <= Claimed(row.table).to
    BY <2>1, <2>3, RecordInside
  <2> QED BY ONLY <1>4, <2>2, <2>4
<1> QED BY <1>6, <1>7

LEMMA DisjointFollows == ASSUME IInv, NoRows PROVE ChildrenDisjoint
<1>0. TypeOK /\ Chain
  BY DEF IInv
<1>1. SUFFICES ASSUME NEW v \in Visits, NEW q \in 2..Len(rows[v])
               PROVE  rows[v][q - 1].at + rows[v][q - 1].n <= rows[v][q].at
  BY DEF ChildrenDisjoint
<1>2. v # "count"
  BY <1>1 DEF NoRows
<1>3. PICK f \in 0..FixedCount(v), k \in 0..Len(recs) :
        /\ WrittenSoFar(v, f, k) /\ Accepts(v, k)
        /\ k > 0 => Entered(v) /\ f = FixedCount(v)
  BY <1>2, Described
<1>4. /\ FixedCount(v) \in Nat /\ Len(recs) \in Nat /\ f \in Nat /\ k \in Nat
      /\ Start \in Nat /\ Base \in Nat
      /\ hdr.kind \in {"srh", "sd"} => Base + 16 * FixedCount(v) <= Start
  BY <1>0, FixedCountFacts, Numbers
<1>5. Len(rows[v]) = f + k
  BY <1>3 DEF WrittenSoFar
<1>6. CASE q <= f
  <2>1. /\ q \in 1..f /\ q \in 1..FixedCount(v)
        /\ q - 1 \in 1..f /\ q - 1 \in 1..FixedCount(v) /\ q \in Int
    BY ONLY <1>3, <1>4, <1>5, <1>6, q \in 2..Len(rows[v])
  <2>2. rows[v][q] = FixedRow(q) /\ rows[v][q - 1] = FixedRow(q - 1)
    BY <1>3, <2>1 DEF WrittenSoFar
  <2>3. /\ FixedRow(q).at = Base + 16 * (q - 1)
        /\ FixedRow(q - 1).at = Base + 16 * ((q - 1) - 1) /\ FixedRow(q - 1).n = 16
    BY <1>0, <2>1, FixedInside
  <2> QED BY ONLY <1>4, <2>1, <2>2, <2>3
<1>7. CASE q = f + 1
  <2>1. q - 1 = f /\ f \in 1..f /\ f \in 1..FixedCount(v) /\ 1 \in 1..k /\ k > 0
        /\ 1 \in 1..Len(recs) /\ q = f + 1
    BY ONLY <1>3, <1>4, <1>5, <1>7, q \in 2..Len(rows[v])
  <2>2. rows[v][q] = RecordRow(1, v) /\ rows[v][q - 1] = FixedRow(f)
    BY <1>3, <2>1 DEF WrittenSoFar
  <2>3. FixedRow(f).at = Base + 16 * (f - 1) /\ FixedRow(f).n = 16
    BY <1>0, <2>1, FixedInside
  <2>4. More(recs[1].at, v) /\ Fits(recs[1], v)
    BY <1>3, <2>1 DEF Accepts
  <2>5. RecordRow(1, v).at \in Nat /\ Start <= RecordRow(1, v).at
    BY <2>1, <2>4, RecordInside
  <2>6. f = FixedCount(v) /\ hdr.kind \in {"srh", "sd"}
    <3>1. f = FixedCount(v)
      BY <1>3, <2>1
    <3>2. FixedCount(v) # 0
      BY <2>1, <3>1
    <3> QED BY <3>1, <3>2 DEF FixedCount
  <2> QED BY ONLY <1>4, <2>2, <2>3, <2>5, <2>6
<1>8. CASE q > f + 1
  <2> DEFINE m == q - f
  <2>1. /\ m \in 1..k /\ f + m = q /\ m \in 1..Len(recs) /\ m \in Int
        /\ m - 1 \in 1..k /\ f + (m - 1) = q - 1 /\ m - 1 \in 1..Len(recs)
        /\ m - 1 \in 1..(Len(recs) - 1) /\ (m - 1) + 1 = m
    BY ONLY <1>3, <1>4, <1>5, <1>8, q \in 2..Len(rows[v])
  <2> HIDE DEF m
  <2>2. rows[v][q] = RecordRow(m, v) /\ rows[v][q - 1] = RecordRow(m - 1, v)
    BY <1>3, <2>1 DEF WrittenSoFar
  <2>3. /\ More(recs[m].at, v) /\ Fits(recs[m], v)
        /\ More(recs[m - 1].at, v) /\ Fits(recs[m - 1], v)
    BY <1>3, <2>1 DEF Accepts
  <2>4. /\ RecordRow(m, v).at = recs[m].at /\ RecordRow(m, v).at \in Nat
        /\ RecordRow(m - 1, v).at = recs[m - 1].at
        /\ RecordRow(m - 1, v).n = SizeOf(recs[m - 1])
    BY <2>1, <2>3, RecordInside
  <2>5. recs[m].at = recs[m - 1].at + SizeOf(recs[m - 1])
    BY <1>0, <2>1 DEF Chain
  <2> QED BY ONLY <2>2, <2>4, <2>5
<1> QED BY ONLY <1>4, <1>5, <1>6, <1>7, <1>8, q \in 2..Len(rows[v])

-----------------------------------------------------------------------------
(* What a cut capture lets a visit see, the whole packet does too. *)
LEMMA WholeSeesMore ==
  ASSUME IInv
  PROVE  /\ EndOf("scatter") <= EndOf("whole")
         /\ Limit("scatter") <= Limit("whole")
         /\ size["scatter"] <= size["whole"]
         /\ HasEntries("scatter") => HasEntries("whole")
         /\ Entered("scatter") => Entered("whole")
<1>0. TypeOK /\ "scatter" \in Visits /\ "whole" \in Visits
  BY DEF IInv, Visits
<1>1. /\ size["scatter"] \in Nat /\ size["whole"] \in Nat
      /\ size["scatter"] <= size["whole"]
  BY <1>0, SizeFacts DEF IInv, Captures
<1>2. /\ Off \in Nat /\ hdr.len \in Nat /\ hdr.olen \in Nat
  BY <1>0, HeaderFacts DEF TypeOK
<1>3. /\ Entries \in Nat /\ OptionsWord \in Nat /\ Start \in Nat
      /\ EndOf("scatter") \in Nat /\ EndOf("whole") \in Nat
  BY <1>0, Numbers
<1>4. EndOf("scatter") <= EndOf("whole")
  BY ONLY <1>1, <1>2 DEF EndOf, Min2
<1>5. Limit("scatter") <= Limit("whole")
  BY ONLY <1>2, <1>3, <1>4 DEF Limit, Min2
<1>6. HasEntries("scatter") => HasEntries("whole")
  BY ONLY <1>1, <1>2, <1>3, <1>4 DEF HasEntries
<1>7. Entered("scatter") => Entered("whole")
  BY ONLY <1>3, <1>4, <1>6 DEF Entered
<1> QED BY <1>1, <1>4, <1>5, <1>6, <1>7

(* It finds as many children of 16 bytes, or more; just as many when the   *)
(* cut capture gets to the records behind them.                            *)
LEMMA WholeFixed ==
  ASSUME IInv
  PROVE  /\ FixedCount("scatter") <= FixedCount("whole")
         /\ Entered("scatter") => FixedCount("scatter") = FixedCount("whole")
<1> DEFINE e == EndOf("scatter")
           w == EndOf("whole")
<1>0. TypeOK /\ "scatter" \in Visits /\ "whole" \in Visits
  BY DEF IInv, Visits
<1>1. /\ e \in Nat /\ w \in Nat /\ Base \in Nat /\ Entries \in Nat /\ OptionsWord \in Nat
  BY <1>0, Numbers
<1>2. /\ Off \in Nat /\ hdr.n \in Nat /\ hdr.kind \in Kinds
  BY <1>0, HeaderFacts DEF TypeOK
<1>3. e <= w /\ (HasEntries("scatter") => HasEntries("whole"))
  BY WholeSeesMore
<1>4. FixedCount("scatter") \in Nat /\ FixedCount("whole") \in Nat
  BY <1>0, FixedCountFacts
<1>5. CASE hdr.kind = "srh" /\ Base <= e
  <2>1. /\ FixedCount("scatter") = Min2(hdr.n, (e - Base) \div 16)
        /\ FixedCount("whole") = Min2(hdr.n, (w - Base) \div 16)
    <3>1. Base <= w
      BY ONLY <1>1, <1>3, <1>5
    <3> QED BY <1>5, <3>1 DEF FixedCount
  <2>2. Entered("scatter") => Base + 16 * hdr.n < e
    <3>1. Start = Base + 16 * hdr.n
      BY <1>2, <1>5 DEF Start, TlvStart, Base
    <3> QED BY <1>5, <3>1 DEF Entered
  <2> HIDE DEF e, w
  <2>3. e - Base \in Nat /\ w - Base \in Nat /\ e - Base <= w - Base
    BY ONLY <1>1, <1>3, <1>5
  <2>4. /\ (e - Base) \div 16 <= (w - Base) \div 16
        /\ (e - Base) \div 16 \in Nat /\ (w - Base) \div 16 \in Nat
    BY ONLY <2>3, Sixteens, Sixteens2
  <2>5. Base + 16 * hdr.n < e => hdr.n <= (e - Base) \div 16
    <3>1. CASE hdr.n = 0
      BY ONLY <2>4, <3>1
    <3>2. CASE hdr.n # 0
      <4>1. hdr.n - 1 \in Nat
        BY ONLY <1>2, <3>2
      <4>2. hdr.n - 1 < (e - Base) \div 16 <=> 16 * (hdr.n - 1) + 16 <= e - Base
        BY ONLY <2>3, <4>1, Sixteens
      <4> QED BY ONLY <1>1, <1>2, <2>4, <4>2
    <3> QED BY <3>1, <3>2
  <2> QED BY ONLY <1>2, <2>1, <2>2, <2>4, <2>5 DEF Min2
<1>6. CASE hdr.kind = "sd" /\ HasEntries("scatter")
  <2> DEFINE a == Min2(Entries + hdr.n, e)
             b == Min2(Entries + hdr.n, w)
  <2>1. /\ FixedCount("scatter") = (a - Entries) \div 16
        /\ FixedCount("whole") = (b - Entries) \div 16
    BY <1>3, <1>6 DEF FixedCount
  <2>2. Entries <= e
    BY <1>6 DEF HasEntries
  <2>3. Entered("scatter") => Entries + hdr.n + 4 <= e
    BY <1>6 DEF Entered, Start, OptionsWord
  <2> HIDE DEF e, w
  <2>4. /\ a - Entries \in Nat /\ b - Entries \in Nat /\ a - Entries <= b - Entries
        /\ Entries + hdr.n + 4 <= e => a = b
    BY ONLY <1>1, <1>2, <1>3, <2>2 DEF Min2
  <2> HIDE DEF a, b
  <2>5. (a - Entries) \div 16 <= (b - Entries) \div 16
    BY ONLY <2>4, Sixteens2
  <2> QED BY ONLY <2>1, <2>3, <2>4, <2>5
<1>7. CASE ~(hdr.kind = "srh" /\ Base <= e) /\ ~(hdr.kind = "sd" /\ HasEntries("scatter"))
  <2>1. FixedCount("scatter") = 0
    BY <1>7 DEF FixedCount
  <2>2. CASE hdr.kind = "srh"
    <3>1. Start = Base + 16 * hdr.n
      BY <1>2, <2>2 DEF Start, TlvStart, Base
    <3>2. Entered("scatter") => Start < e
      BY <2>2 DEF Entered
    <3>3. ~(Base <= e)
      BY <1>7, <2>2
    <3>4. ~Entered("scatter")
      BY ONLY <1>1, <1>2, <3>1, <3>2, <3>3
    <3> QED BY ONLY <1>4, <2>1, <3>4
  <2>3. CASE hdr.kind = "sd"
    <3>1. ~Entered("scatter")
      BY <1>7, <2>3 DEF Entered
    <3> QED BY ONLY <1>4, <2>1, <3>1
  <2>4. CASE hdr.kind \notin {"srh", "sd"}
    <3>1. FixedCount("whole") = 0
      BY <2>4 DEF FixedCount
    <3> QED BY ONLY <2>1, <3>1
  <2> QED BY <2>2, <2>3, <2>4
<1> QED BY <1>5, <1>6, <1>7

LEMMA WholeAccepts ==
  ASSUME IInv, NEW k \in 0..Len(recs), Accepts("scatter", k)
  PROVE  Accepts("whole", k)
<1>0. TypeOK /\ Len(recs) \in Nat /\ "scatter" \in Visits /\ "whole" \in Visits
  BY DEF IInv, Visits, TypeOK
<1>1. /\ Limit("scatter") \in Nat /\ Limit("whole") \in Nat
      /\ Limit("scatter") <= Limit("whole")
  BY <1>0, Numbers, WholeSeesMore
<1>2. ASSUME NEW m \in 1..k
      PROVE  More(recs[m].at, "whole") /\ Fits(recs[m], "whole")
  <2>1. m \in 1..Len(recs)
    BY <1>0
  <2>2. recs[m].at \in Nat /\ recs[m].rec.n \in Nat /\ recs[m].rec.lone \in BOOLEAN
    BY <1>0, <2>1, ReadFacts
  <2>3. More(recs[m].at, "scatter") /\ Fits(recs[m], "scatter")
    BY DEF Accepts
  <2>4. More(recs[m].at, "whole")
    BY ONLY <1>1, <2>2, <2>3 DEF More
  <2>5. Fits(recs[m], "whole")
    BY ONLY <1>1, <2>2, <2>3 DEF Fits
  <2> QED BY <2>4, <2>5
<1> QED BY <1>2 DEF Accepts

(* An endpoint that lies in its option is in the cut capture as well. *)
LEMMA SameEndpoint ==
  ASSUME IInv, NEW m \in 1..Len(recs), More(recs[m].at, "scatter"),
         Fits(recs[m], "scatter"),
         EndpointOf(recs[m], "whole") <= recs[m].at + SizeOf(recs[m])
  PROVE  EndpointOf(recs[m], "scatter") = EndpointOf(recs[m], "whole")
<1> DEFINE x == recs[m]
<1>0. TypeOK /\ "scatter" \in Visits /\ "whole" \in Visits
  BY DEF IInv, Visits
<1>1. x.at \in Nat /\ SizeOf(x) \in Nat
  BY <1>0, ReadFacts
<1>2. /\ size["scatter"] \in Nat /\ size["whole"] \in Nat
      /\ size["scatter"] <= size["whole"]
      /\ EndOf("scatter") <= size["scatter"] /\ EndOf("scatter") \in Nat
  BY <1>0, SizeFacts, Numbers, WholeSeesMore
<1>3. x.at + SizeOf(x) <= EndOf("scatter")
  <2>1. LET row == RecordRow(m, "scatter")
        IN  /\ row.at = x.at /\ row.n = SizeOf(x) /\ row.at + row.n <= EndOf("scatter")
    BY <1>0, RecordInside
  <2> QED BY <2>1
<1>4. EndpointOf(x, "whole") <= x.at + SizeOf(x)
  OBVIOUS
<1> HIDE DEF x
<1>5. EndpointOf(x, "scatter") = EndpointOf(x, "whole")
  BY ONLY <1>1, <1>2, <1>3, <1>4 DEF EndpointOf
<1> QED BY <1>5 DEF x

LEMMA PrefixFollows == ASSUME IInv PROVE CutIsPrefix
<1> DEFINE cut == rows["scatter"]
           whole == rows["whole"]
<1>1. SUFFICES ASSUME visit = "whole", pc = "done"
               PROVE  /\ Len(cut) <= Len(whole)
                      /\ \A q \in 1..Len(cut) :
                           /\ cut[q].table = whole[q].table
                           /\ cut[q].at = whole[q].at
                           /\ cut[q].index = whole[q].index
                           /\ cut[q].n = whole[q].n
                           /\ whole[q].endpoint <= whole[q].at + whole[q].n =>
                                cut[q].endpoint = whole[q].endpoint
  BY DEF CutIsPrefix
<1>2. TypeOK /\ Len(recs) \in Nat /\ "scatter" \in Visits /\ "whole" \in Visits
  BY DEF IInv, Visits, TypeOK
<1>3. PICK j \in 0..Len(recs) : Found("scatter", j)
  <2>1. Rank["scatter"] < Rank[visit]
    BY <1>1 DEF Rank
  <2> QED BY <1>2, <2>1 DEF IInv, Behind, FoundAll
<1>4. PICK k \in 0..Len(recs) : Found("whole", k) /\ Stops("whole", k)
  BY <1>1 DEF IInv, UnderWay, FoundAll
<1> DEFINE f == FixedCount("scatter")
           g == FixedCount("whole")
<1>5. WrittenSoFar("scatter", f, j) /\ Accepts("scatter", j) /\ (j > 0 => Entered("scatter"))
  BY <1>3 DEF Found, Progress
<1>6. WrittenSoFar("whole", g, k)
  BY <1>4 DEF Found, Progress
<1>7. f \in Nat /\ g \in Nat /\ j \in Nat /\ k \in Nat /\ f <= g /\ (j > 0 => f = g)
  BY <1>2, <1>5, FixedCountFacts, WholeFixed
<1>8. j <= k
  <2>1. Accepts("whole", j)
    BY <1>5, WholeAccepts
  <2>2. j > 0 => Entered("whole")
    BY <1>5, WholeSeesMore
  <2> QED BY <1>2, <1>4, <2>1, <2>2, AcceptsBound
<1> HIDE DEF f, g
<1>9. /\ Len(cut) = f + j /\ Len(whole) = g + k
      /\ \A m \in 1..f : cut[m] = FixedRow(m)
      /\ \A m \in 1..g : whole[m] = FixedRow(m)
      /\ \A m \in 1..j : cut[f + m] = RecordRow(m, "scatter")
      /\ \A m \in 1..k : whole[g + m] = RecordRow(m, "whole")
  BY <1>5, <1>6 DEF WrittenSoFar
<1> HIDE DEF cut, whole
<1>10. Len(cut) <= Len(whole)
  BY ONLY <1>7, <1>8, <1>9
<1>11. ASSUME NEW q \in 1..Len(cut)
       PROVE  /\ cut[q].table = whole[q].table
              /\ cut[q].at = whole[q].at
              /\ cut[q].index = whole[q].index
              /\ cut[q].n = whole[q].n
              /\ whole[q].endpoint <= whole[q].at + whole[q].n =>
                   cut[q].endpoint = whole[q].endpoint
  <2>1. CASE q <= f
    <3>1. q \in 1..f /\ q \in 1..g
      BY ONLY <1>7, <1>9, <2>1, q \in 1..Len(cut)
    <3>2. cut[q] = whole[q]
      BY ONLY <1>9, <3>1
    <3> QED BY ONLY <3>2
  <2>2. CASE ~(q <= f)
    <3>1. PICK m \in 1..j : q = f + m
      <4>1. q - f \in 1..j /\ q = f + (q - f)
        BY ONLY <1>7, <1>9, <2>2, q \in 1..Len(cut)
      <4> QED BY <4>1
    <3>2. q = g + m /\ m \in 1..k /\ m \in 1..Len(recs)
      BY ONLY <1>2, <1>3, <1>7, <1>8, <3>1
    <3>3. cut[q] = RecordRow(m, "scatter") /\ whole[q] = RecordRow(m, "whole")
      BY ONLY <1>9, <3>1, <3>2
    <3>4. /\ cut[q].table = RecordTable /\ whole[q].table = RecordTable
          /\ cut[q].at = recs[m].at /\ whole[q].at = recs[m].at
          /\ cut[q].index = (m - 1) % IndexMod /\ whole[q].index = (m - 1) % IndexMod
          /\ cut[q].n = SizeOf(recs[m]) /\ whole[q].n = SizeOf(recs[m])
          /\ cut[q].endpoint = EndpointOf(recs[m], "scatter")
          /\ whole[q].endpoint = EndpointOf(recs[m], "whole")
      BY ONLY <3>3 DEF RecordRow
    <3>5. More(recs[m].at, "scatter") /\ Fits(recs[m], "scatter")
      BY <1>5, <3>1 DEF Accepts
    <3>6. EndpointOf(recs[m], "whole") <= recs[m].at + SizeOf(recs[m]) =>
            EndpointOf(recs[m], "scatter") = EndpointOf(recs[m], "whole")
      BY <3>2, <3>5, SameEndpoint
    <3> QED BY ONLY <3>4, <3>6
  <2> QED BY <2>1, <2>2
<1> QED BY <1>10, <1>11 DEF cut, whole

(* For every header, capture and contents: every child lies in the bytes   *)
(* its visit may see, in its header and in the array it belongs to, in the *)
(* order of the packet and apart from the others; and a capture that cuts  *)
(* the packet short yields a prefix of the children of the whole packet.   *)
(* Except for the endpoint columns of SD options too short to hold their   *)
(* endpoint: those are read behind the option, though never behind the     *)
(* packet, and may differ in the cut one.                                  *)
THEOREM ChildChildrenExact == Spec => []ChildrenExact
<1>1. IInv /\ NoRows => ChildrenExact
  BY InsideFollows, DisjointFollows, PrefixFollows DEF ChildrenExact, ChildrenApart
<1> QED BY <1>1, SpecIInv, SpecNoRows, PTL
=============================================================================
