--------------------------- MODULE TlvCursor_proofs ---------------------------
(***************************************************************************)
(* The record cursors stay inside their region, for every region: what is  *)
(* model-checked on short ones holds for all lengths and all bytes.        *)
(***************************************************************************)
EXTENDS TlvCursor, SequenceTheorems, TLAPS

(* What next() can meet at the cursor when it returns false. *)
Dead ==
  \/ Tlv /\ p >= end
  \/ Tlv /\ p < end /\ ~SingleByte /\ p + 2 > end
  \/ Tlv /\ p + 2 <= end /\ ~SingleByte /\ ~RecordFits
  \/ SomeIp /\ p + 2 > end
  \/ SomeIp /\ p + 2 <= end /\ WireType = 4
  \/ SomeIp /\ p + 2 <= end /\ WireType # 4 /\ ValueAt > end
  \/ SomeIp /\ p + 2 <= end /\ WireType # 4 /\ ValueAt <= end
       /\ ValueAt + ValueLength > end
  \/ Lldp /\ p + 2 > end
  \/ Lldp /\ p + 2 <= end /\ (LldpType = 0 \/ p + 2 + LldpLength > end)

(* RecordsTile and Exhausted need no more than that a failed call leaves    *)
(* the cursor on the bytes that made it fail.                               *)
IInv == TypeOK /\ ReadsInside /\ RecordsTile /\ (~more => Dead)

-----------------------------------------------------------------------------
(* Bytes and the numbers read from them. *)
LEMMA BytesType ==
  ASSUME TypeOK
  PROVE  /\ end \in Nat
         /\ \A i \in Nat : ByteAt(i) \in 0..255
<1>1. end \in Nat /\ buf \in Seq(0..255)
  BY DEF TypeOK, end
<1>2. ASSUME NEW i \in Nat PROVE ByteAt(i) \in 0..255
  <2>1. CASE i < end
    <3>1. (i + 1) \in 1..Len(buf)
      BY <1>1, <2>1 DEF end
    <3>2. buf[i + 1] \in 0..255
      BY ONLY <1>1, <3>1, ElementOfSeq
    <3> QED BY <2>1, <3>2 DEF ByteAt
  <2>2. CASE ~(i < end)
    BY <2>2 DEF ByteAt
  <2> QED BY <2>1, <2>2
<1> QED BY <1>1, <1>2

LEMMA TlvType ==
  ASSUME TypeOK
  PROVE  /\ type \in Nat
         /\ len \in Nat
         /\ WholeLength \in Nat
<1>1. p \in Nat /\ p + 1 \in Nat
  BY BytesType DEF TypeOK
<1>b. \A i \in Nat : ByteAt(i) \in 0..255
  BY BytesType
<1>2. ByteAt(p) \in 0..255 /\ ByteAt(p + 1) \in 0..255
  BY ONLY <1>1, <1>b
<1> QED BY ONLY <1>2 DEF type, len, WholeLength

(* The arithmetic of a tag. *)
LEMMA TagArithmetic ==
  ASSUME NEW a \in 0..255, NEW b \in 0..255
  PROVE  (a \div 16) % 8 \in 0..7 /\ (a % 16) * 256 + b \in Nat
  OBVIOUS

LEMMA MemberType ==
  ASSUME TypeOK
  PROVE  /\ WireType \in Nat
         /\ DataId \in Nat
         /\ LengthWidth \in Nat
         /\ ValueAt = p + 2 + LengthWidth
         /\ ValueLength \in Nat
<1>1. p \in Nat
  BY BytesType DEF TypeOK
<1>b. \A i \in Nat : ByteAt(i) \in 0..255
  BY BytesType
<1>2. /\ p + 1 \in Nat /\ p + 2 \in Nat /\ p + 3 \in Nat
      /\ p + 4 \in Nat /\ p + 5 \in Nat
  BY <1>1
<1>3. /\ ByteAt(p) \in 0..255 /\ ByteAt(p + 1) \in 0..255 /\ ByteAt(p + 2) \in 0..255
      /\ ByteAt(p + 3) \in 0..255 /\ ByteAt(p + 4) \in 0..255 /\ ByteAt(p + 5) \in 0..255
  BY ONLY <1>1, <1>2, <1>b
<1>4. WireType \in 0..7 /\ DataId \in Nat
  BY ONLY <1>3, TagArithmetic DEF WireType, DataId
<1>5. LengthWidth \in Nat
  BY <1>4 DEF LengthWidth
<1>6. LengthField \in Nat
  <2>1. PICK b2 \in 0..255, b3 \in 0..255, b4 \in 0..255, b5 \in 0..255 :
          /\ b2 = ByteAt(p + 2) /\ b3 = ByteAt(p + 3)
          /\ b4 = ByteAt(p + 4) /\ b5 = ByteAt(p + 5)
    BY ONLY <1>3
  <2>2. LengthField = IF LengthWidth = 1 THEN b2
                      ELSE IF LengthWidth = 2 THEN b2 * 256 + b3
                      ELSE b2 * 16777216 + b3 * 65536 + b4 * 256 + b5
    BY ONLY <2>1, SMT DEF LengthField
  <2>3. b2 * 256 + b3 \in Nat /\ b2 * 16777216 + b3 * 65536 + b4 * 256 + b5 \in Nat
    BY SMT
  <2> QED BY <2>2, <2>3, SMT
<1>7. ValueLength \in Nat
  BY <1>4, <1>6 DEF ValueLength
<1> QED BY <1>4, <1>5, <1>7 DEF ValueAt

LEMMA LldpHeaderType ==
  ASSUME TypeOK
  PROVE  LldpType \in Nat /\ LldpLength \in Nat /\ AfterAddr \in Nat
<1>1. p \in Nat /\ p + 1 \in Nat /\ p + 2 \in Nat
  BY BytesType DEF TypeOK
<1>b. \A i \in Nat : ByteAt(i) \in 0..255
  BY BytesType
<1>2. PICK b0 \in 0..255, b1 \in 0..255, b2 \in 0..255 :
        b0 = ByteAt(p) /\ b1 = ByteAt(p + 1) /\ b2 = ByteAt(p + 2)
  BY ONLY <1>1, <1>b
<1>3. b0 \div 2 \in Nat /\ (b0 % 2) * 256 + b1 \in Nat /\ 1 + b2 \in Nat
  BY SMT
<1> QED BY <1>2, <1>3 DEF LldpType, LldpLength, AfterAddr

(* A row is made of octets of its own value. *)
LEMMA RowInsideValue ==
  ASSUME TypeOK
  PROVE  RowReads \in SUBSET Nat /\ \A i \in RowReads : i < LldpLength
<1>1. LldpType \in Nat /\ LldpLength \in Nat /\ AfterAddr \in Nat
  BY LldpHeaderType
<1>2. CASE LldpLength >= 1
  <2>1. \A i \in MgmtReads : i \in Nat /\ i < LldpLength
    BY <1>1, <1>2 DEF MgmtReads
  <2> QED BY <1>1, <1>2, <2>1 DEF RowReads, HeadBytes
<1>3. CASE ~(LldpLength >= 1)
  BY <1>1, <1>3 DEF RowReads, HeadBytes
<1> QED BY <1>2, <1>3

-----------------------------------------------------------------------------
(* The two outcomes of a call. *)

(* A call that returns false keeps the invariant, if it looked only at      *)
(* bytes of the region and the cursor is where next() fails again.          *)
LEMMA StopKeeps ==
  ASSUME IInv, NEW looked \in SUBSET Nat, \A i \in looked : i < end,
         Dead, Stop(looked)
  PROVE  IInv'
<1>1. UNCHANGED <<pad, buf, p, recs>> /\ more' = FALSE /\ reads' = looked
  BY DEF Stop
<1>2. Dead'
  BY <1>1, SMT DEF Dead, Tlv, SomeIp, SingleByte, RecordFits, WholeLength, type, len, ByteAt, end,
     WireType, ValueAt, ValueLength, LengthWidth, LengthField, Lldp, LldpType, LldpLength
<1>3. TypeOK'
  BY <1>1 DEF IInv, TypeOK, end
<1>4. ReadsInside' /\ RecordsTile'
  BY <1>1 DEF IInv, ReadsInside, RecordsTile, end
<1> QED BY <1>2, <1>3, <1>4 DEF IInv

(* A call that returns a record: it begins at the cursor and ends inside    *)
(* the region, its value is inside it, and so is all that was read.         *)
LEMMA EmitKeeps ==
  ASSUME IInv, NEW looked \in SUBSET Nat,
         NEW stop \in Nat, \A i \in looked : i < stop,
         NEW ty \in Nat, NEW v \in Nat, NEW l \in Nat,
         p < v, v + l <= stop, v <= stop, stop <= end,
         Emit(looked, ty, v, l, stop)
  PROVE  IInv'
<1> DEFINE r == [at |-> p, type |-> ty, value |-> v, length |-> l, stop |-> stop]
<1>1. /\ UNCHANGED <<pad, buf>> /\ more' = TRUE /\ reads' = looked
      /\ recs' = Append(recs, r) /\ p' = stop
  BY DEF Emit
<1>2. end' = end /\ end \in Nat /\ p \in Nat
  BY <1>1, BytesType DEF IInv, TypeOK, end
<1>3. r \in RecordType /\ recs \in Seq(RecordType)
  BY <1>2 DEF RecordType, IInv, TypeOK
<1>a. recs' \in Seq(RecordType)
  BY <1>1, <1>3
<1>4. TypeOK'
  BY <1>1, <1>2, <1>a DEF IInv, TypeOK
<1>5. ReadsInside'
  <2>1. \A i \in looked : i \in Nat /\ i < stop
    OBVIOUS
  <2> QED BY ONLY <1>1, <1>2, <2>1, stop \in Nat, stop <= end DEF ReadsInside
<1>6. RecordsTile'
  <2>1. Len(recs) \in Nat /\ Len(recs') = Len(recs) + 1
        /\ \A i \in 1..Len(recs) : recs'[i] = recs[i]
        /\ recs'[Len(recs) + 1] = r
    BY <1>1, <1>3
  <2>2. r.at = p /\ r.value = v /\ r.length = l /\ r.stop = stop
    OBVIOUS
  <2>b. /\ recs'[Len(recs) + 1].at = p
        /\ recs'[Len(recs) + 1].value = v
        /\ recs'[Len(recs) + 1].length = l
        /\ recs'[Len(recs) + 1].stop = stop
    BY <1>1, <1>3
  <2>3. p = IF recs = <<>> THEN 0 ELSE recs[Len(recs)].stop
    BY DEF IInv, RecordsTile
  <2>4. recs # <<>> <=> Len(recs) > 0
    BY <1>3
  <2>5. ASSUME NEW i \in 1..Len(recs')
        PROVE  /\ recs'[i].at = (IF i = 1 THEN 0 ELSE recs'[i - 1].stop)
               /\ recs'[i].at < recs'[i].value
               /\ recs'[i].value <= recs'[i].stop
               /\ recs'[i].value + recs'[i].length <= recs'[i].stop
               /\ recs'[i].stop <= end'
    <3>1. CASE i = Len(recs) + 1
      <4>1. /\ recs'[i].at = p /\ recs'[i].value = v
            /\ recs'[i].length = l /\ recs'[i].stop = stop
        BY ONLY <3>1, <2>b
      <4>2. CASE recs = <<>>
        <5>1. Len(recs) = 0 /\ i = 1
          BY <3>1, <4>2, <1>3, <2>4
        <5>3. p = 0
          BY <4>2, <2>3
        <5> QED BY ONLY <5>1, <4>1, <5>3, <1>2, p < v, v + l <= stop, v <= stop, stop <= end
      <4>3. CASE recs # <<>>
        <5>1. Len(recs) \in 1..Len(recs) /\ i # 1 /\ i - 1 = Len(recs)
          BY <3>1, <4>3, <2>1, <2>4
        <5>2. recs'[i - 1] = recs[Len(recs)]
          BY <5>1, <2>1
        <5> QED BY <4>1, <4>3, <5>1, <5>2, <1>2, <2>2, <2>3
      <4> QED BY <4>2, <4>3
    <3>2. CASE i \in 1..Len(recs)
      <4>1. (i - 1) \in 1..Len(recs) \/ i = 1
        BY <2>1, <3>2
      <4> QED BY <3>2, <4>1, <1>2, <2>1 DEF IInv, RecordsTile
    <3> QED BY <2>1, <3>1, <3>2
  <2>6. p' = IF recs' = <<>> THEN 0 ELSE recs'[Len(recs')].stop
    BY <1>1, <1>3, <1>a, <2>1, <2>2
  <2> QED BY <2>5, <2>6 DEF RecordsTile
<1> QED BY <1>1, <1>4, <1>5, <1>6 DEF IInv

-----------------------------------------------------------------------------
LEMMA InitIInv == Init => IInv
<1> SUFFICES ASSUME Init PROVE IInv
  OBVIOUS
<1>3. buf \in Seq(0..255)
  BY RegionsAssumption DEF Init
<1>4. TypeOK
  BY <1>3 DEF Init, TypeOK, end
<1> QED BY <1>4 DEF Init, IInv, ReadsInside, RecordsTile

LEMMA NextIInv == IInv /\ [Next]_vars => IInv'
<1> SUFFICES ASSUME IInv, [Next]_vars PROVE IInv'
  OBVIOUS
<1>0. /\ TypeOK /\ end \in Nat /\ p \in Nat
      /\ type \in Nat /\ len \in Nat /\ WholeLength \in Nat
      /\ WireType \in Nat /\ DataId \in Nat /\ LengthWidth \in Nat
      /\ ValueAt \in Nat /\ ValueAt = p + 2 + LengthWidth
      /\ ValueLength \in Nat
      /\ LldpType \in Nat /\ LldpLength \in Nat
  <2>1. TypeOK
    BY DEF IInv
  <2>2. end \in Nat /\ p \in Nat
    BY <2>1, BytesType DEF TypeOK
  <2> QED BY <2>1, <2>2, TlvType, MemberType, LldpHeaderType
<1>1. CASE AtEnd
  BY <1>0, <1>1, StopKeeps DEF AtEnd, Dead
<1>2. CASE Single
  <2>1. PICK stop \in {end, p + 1} : Emit({p}, type, p + 1, 0, stop)
    BY <1>2 DEF Single
  <2> QED BY <1>0, <1>2, <2>1, EmitKeeps DEF Single
<1>3. CASE NoLength
  BY <1>0, <1>3, StopKeeps DEF NoLength, Dead
<1>4. CASE Record
  <2>1. /\ Emit({p, p + 1}, type, p + 2, WholeLength - 2, p + WholeLength)
        /\ WholeLength >= 2 /\ p + WholeLength <= end
    BY <1>4 DEF Record, RecordFits
  <2> QED BY <1>0, <2>1, EmitKeeps
<1>5. CASE Malformed
  BY <1>0, <1>5, StopKeeps DEF Malformed, Dead
<1>6. CASE NoTag
  BY <1>0, <1>6, StopKeeps DEF NoTag, Dead
<1>7. CASE ConfigWidth
  BY <1>0, <1>7, StopKeeps DEF ConfigWidth, Dead, TagBytes
<1>8. CASE NoLengthField
  BY <1>0, <1>8, StopKeeps DEF NoLengthField, Dead, TagBytes
<1>9. CASE ValueTooLong
  <2>1. MemberHeader \in SUBSET Nat /\ \A i \in MemberHeader : i < end
    BY <1>0, <1>9 DEF ValueTooLong, MemberHeader
  <2> QED BY <1>0, <1>9, <2>1, StopKeeps DEF ValueTooLong, Dead
<1>10. CASE Member
  <2>1. MemberHeader \in SUBSET Nat /\ \A i \in MemberHeader : i < ValueAt + ValueLength
    BY <1>0, <1>10 DEF Member, MemberHeader
  <2>2. /\ Emit(MemberHeader, DataId, ValueAt, ValueLength, ValueAt + ValueLength)
        /\ ValueAt + ValueLength <= end
    BY <1>10 DEF Member
  <2>3. p < ValueAt /\ ValueAt + ValueLength \in Nat
    BY <1>0
  <2> QED BY <1>0, <2>1, <2>2, <2>3, EmitKeeps
<1>11. CASE LldpNoHeader
  BY <1>0, <1>11, StopKeeps DEF LldpNoHeader, Dead
<1>12. CASE LldpStops
  BY <1>0, <1>12, StopKeeps DEF LldpStops, Dead
<1>13. CASE LldpTlv
  <2> DEFINE looked == {p, p + 1} \cup {p + 2 + i : i \in RowReads}
  <2>1. RowReads \in SUBSET Nat /\ \A i \in RowReads : i < LldpLength
    BY <1>0, RowInsideValue
  <2>2. looked \in SUBSET Nat /\ \A i \in looked : i < p + 2 + LldpLength
    BY <1>0, <2>1
  <2>3. /\ Emit(looked, LldpType, p + 2, LldpLength, p + 2 + LldpLength)
        /\ p + 2 + LldpLength <= end
    BY <1>13 DEF LldpTlv
  <2>4. p + 2 \in Nat /\ p + 2 + LldpLength \in Nat
    BY <1>0
  <2> HIDE DEF looked
  <2> QED BY <1>0, <2>2, <2>3, <2>4, EmitKeeps
<1>14. CASE UNCHANGED vars
  <2>1. UNCHANGED <<pad, buf, p, recs, more, reads>>
    BY <1>14 DEF vars
  <2>2. Dead' = Dead
    BY <2>1, SMT DEF Dead, Tlv, SomeIp, SingleByte, RecordFits, WholeLength, type, len, ByteAt, end,
       WireType, ValueAt, ValueLength, LengthWidth, LengthField, Lldp, LldpType, LldpLength
  <2>3. TypeOK' /\ ReadsInside' /\ RecordsTile'
    BY <2>1 DEF IInv, TypeOK, ReadsInside, RecordsTile, end
  <2> QED BY <2>1, <2>2, <2>3 DEF IInv
<1> QED
  BY <1>1, <1>2, <1>3, <1>4, <1>5, <1>6, <1>7, <1>8, <1>9, <1>10, <1>11, <1>12, <1>13, <1>14
  DEF Next

(* All cursors, in every convention: no byte outside the region is read, a  *)
(* record is made of its own bytes, and the records tile the region from    *)
(* its start.                                                               *)
THEOREM CursorSafe == Spec => [](TypeOK /\ RecordsSafe)
<1>1. Spec => []IInv
  BY InitIInv, NextIInv, PTL DEF Spec
<1>2. IInv => TypeOK /\ RecordsSafe
  BY DEF IInv, RecordsSafe
<1> QED BY <1>1, <1>2, PTL

(* A cursor that has returned false returns false for ever. *)
THEOREM CursorExhausted == Spec => Exhausted
<1>1. IInv /\ [Next]_vars => [~more => (~more' /\ p' = p /\ recs' = recs)]_vars
  <2> SUFFICES ASSUME IInv, Next, ~more
               PROVE  ~more' /\ p' = p /\ recs' = recs
    BY DEF vars
  <2>1. Dead
    BY DEF IInv
  <2>2. CASE AtEnd \/ NoLength \/ Malformed \/ NoTag \/ ConfigWidth \/ NoLengthField
           \/ ValueTooLong \/ LldpNoHeader \/ LldpStops
    BY <2>2 DEF AtEnd, NoLength, Malformed, NoTag, ConfigWidth, NoLengthField, ValueTooLong,
       LldpNoHeader, LldpStops, Stop
  <2>0. p \in Nat /\ end \in Nat
    BY BytesType DEF IInv, TypeOK
  <2>b. LldpLength \in Nat
    BY LldpHeaderType DEF IInv
  <2>a. ValueAt \in Nat /\ ValueLength \in Nat
    <3>1. LengthWidth \in Nat /\ ValueLength \in Nat
      BY MemberType DEF IInv
    <3> QED BY <2>0, <3>1 DEF ValueAt
  <2>3. ~Single
    BY <2>0, <2>1 DEF Single, Dead, Tlv, SomeIp, Lldp
  <2>4. ~Record
    BY <2>0, <2>1 DEF Record, Dead, Tlv, SomeIp, Lldp
  <2>5. ~Member
    BY <2>0, <2>a, <2>1 DEF Member, Dead, Tlv, SomeIp, Lldp
  <2>6. ~LldpTlv
    BY <2>0, <2>b, <2>1 DEF LldpTlv, Dead, Tlv, SomeIp, Lldp
  <2> QED BY <2>2, <2>3, <2>4, <2>5, <2>6 DEF Next
<1>2. Spec => []IInv
  BY InitIInv, NextIInv, PTL DEF Spec
<1> QED BY <1>1, <1>2, PTL DEF Spec, Exhausted

(* The cursor and its records keep their types: the position never leaves   *)
(* the region, in any convention.                                           *)
THEOREM CursorTypeOK == Spec => []TypeOK
  BY CursorSafe, PTL
=============================================================================
