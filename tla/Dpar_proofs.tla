------------------------- MODULE Dpar_proofs --------------------------------
(***************************************************************************)
(* The rule engine for every catalog, palette, rules text and packet.      *)
(*                                                                         *)
(* Rules, powers of two and the records a parser finds are recursive       *)
(* functions; what they compute is proved by induction, in the form of     *)
(* statements about sets of numbers (Upward, Downward).                    *)
(***************************************************************************)
EXTENDS Dpar, TLAPS, FiniteSetTheorems, WellFoundedInduction

-----------------------------------------------------------------------------
(* Induction. *)

LEMMA LeastNat ==
  ASSUME NEW T, T \subseteq Nat, T # {}
  PROVE  \E x \in T : \A y \in T : x <= y
<1>1. IsWellFoundedOn(OpToRel(<, Nat), Nat)
  BY NatLessThanWellFounded
<1>2. \E x \in T : \A y \in T : ~(<<y, x>> \in OpToRel(<, Nat))
  BY <1>1, WFMin
<1>3. PICK x \in T : \A y \in T : ~(<<y, x>> \in OpToRel(<, Nat))
  BY <1>2
<1>4. \A y \in T : ~(y < x)
  BY <1>3 DEF OpToRel
<1> QED BY <1>4

LEMMA Upward ==
  ASSUME NEW N \in Nat, NEW P, 0 \in P, \A k \in 1..N : k - 1 \in P => k \in P
  PROVE  \A k \in 0..N : k \in P
<1> SUFFICES ASSUME NEW k \in 0..N, k \notin P PROVE FALSE
  OBVIOUS
<1> DEFINE T == {x \in 0..N : x \notin P}
<1>1. PICK x \in T : \A y \in T : x <= y
  <2>1. T \subseteq Nat /\ T # {}
    OBVIOUS
  <2> HIDE DEF T
  <2> QED BY <2>1, LeastNat
<1>2. x \in 1..N /\ x - 1 \in 0..N /\ x - 1 < x
  BY <1>1
<1>3. x - 1 \in P
  BY <1>1, <1>2
<1> QED BY <1>1, <1>2, <1>3

LEMMA Downward ==
  ASSUME NEW N \in Nat, NEW P,
         \A a \in 0..N : (\A b \in 0..N : b > a => b \in P) => a \in P
  PROVE  \A a \in 0..N : a \in P
<1> SUFFICES ASSUME NEW a \in 0..N, a \notin P PROVE FALSE
  OBVIOUS
<1> DEFINE T == {x \in 0..N : N - x \notin P}
<1>1. PICK x \in T : \A y \in T : x <= y
  <2>1. T \subseteq Nat
    OBVIOUS
  <2>2. N - a \in T
    BY SMT
  <2> HIDE DEF T
  <2> QED BY <2>1, <2>2, LeastNat
<1>2. N - x \in 0..N /\ N - x \notin P
  BY <1>1
<1>3. ASSUME NEW b \in 0..N, b > N - x PROVE b \in P
  <2>1. N - b \in 0..N /\ ~(x <= N - b) /\ N - (N - b) = b
    BY <1>1, <1>3
  <2>2. N - b \notin T
    BY <1>1, <2>1
  <2> QED BY <2>1, <2>2
<1> QED BY <1>2, <1>3

-----------------------------------------------------------------------------
(* Powers of two. *)

Pow2Eq(f, N) == f = [k \in 0..N |-> IF k = 0 THEN 1 ELSE 2 * f[k - 1]]

LEMMA Pow2Exists == ASSUME NEW N \in Nat PROVE \E f : Pow2Eq(f, N)
<1> DEFINE P == {k \in 0..N : \E f : Pow2Eq(f, k)}
<1>1. 0 \in P
  <2>1. Pow2Eq([k \in 0..0 |-> 1], 0)
    BY DEF Pow2Eq
  <2> QED BY <2>1
<1>2. ASSUME NEW m \in 1..N, m - 1 \in P PROVE m \in P
  <2>1. PICK f : Pow2Eq(f, m - 1)
    BY <1>2
  <2> DEFINE g == [k \in 0..m |-> IF k = m THEN 2 * f[m - 1] ELSE f[k]]
  <2>2. \A k \in 0..(m - 1) : f[k] = IF k = 0 THEN 1 ELSE 2 * f[k - 1]
    BY <2>1 DEF Pow2Eq
  <2>3. \A k \in 0..m : g[k] = IF k = 0 THEN 1 ELSE 2 * g[k - 1]
    <3> TAKE k \in 0..m
    <3>1. CASE k = m
      <4>1. m # 0 /\ m - 1 \in 0..m /\ m - 1 # m
        OBVIOUS
      <4>2. g[k] = 2 * f[m - 1] /\ g[k - 1] = f[m - 1]
        BY <3>1, <4>1
      <4> QED BY <3>1, <4>1, <4>2
    <3>2. CASE k # m
      <4>1. k \in 0..(m - 1) /\ (k # 0 => k - 1 \in 0..m /\ k - 1 # m)
        BY <3>2
      <4>2. g[k] = f[k] /\ (k # 0 => g[k - 1] = f[k - 1])
        BY <3>2, <4>1
      <4> QED BY <2>2, <4>1, <4>2
    <3> QED BY <3>1, <3>2
  <2>4. g = [k \in 0..m |-> g[k]]
    OBVIOUS
  <2> HIDE DEF g
  <2>5. Pow2Eq(g, m)
    BY <2>3, <2>4 DEF Pow2Eq
  <2> QED BY <2>5
<1> HIDE DEF P
<1>3. N \in P
  BY <1>1, <1>2, Upward
<1> QED BY <1>3 DEF P

LEMMA Pow2Def ==
  /\ WordBits \in Nat
  /\ Pow2[0] = 1
  /\ \A k \in 1..WordBits : Pow2[k] = 2 * Pow2[k - 1]
<1>1. WordBits \in Nat
  BY DparAssumption
<1>2. Pow2 = CHOOSE f : Pow2Eq(f, WordBits)
  BY DEF Pow2, Pow2Eq
<1>3. Pow2Eq(Pow2, WordBits)
  BY <1>1, <1>2, Pow2Exists
<1> QED BY <1>1, <1>3 DEF Pow2Eq

LEMMA Pow2Positive == \A k \in 0..WordBits : Pow2[k] \in Nat /\ Pow2[k] >= 1
<1> DEFINE P == {k \in 0..WordBits : Pow2[k] \in Nat /\ Pow2[k] >= 1}
<1>1. 0 \in P
  BY Pow2Def
<1>2. ASSUME NEW m \in 1..WordBits, m - 1 \in P PROVE m \in P
  <2>1. Pow2[m] = 2 * Pow2[m - 1] /\ Pow2[m - 1] \in Nat /\ Pow2[m - 1] >= 1
    BY <1>2, Pow2Def
  <2> QED BY <2>1, Pow2Def
<1> HIDE DEF P
<1>3. \A k \in 0..WordBits : k \in P
  BY <1>1, <1>2, Pow2Def, Upward
<1> QED BY <1>3 DEF P

(* A field narrower than the word holds at most half of its numbers. *)
LEMMA Pow2Half ==
  ASSUME NEW b \in 0..WordBits
  PROVE  b < WordBits => 2 * Pow2[b] <= Word
<1> DEFINE P == {k \in 0..WordBits : b < k => 2 * Pow2[b] <= Pow2[k]}
<1>1. 0 \in P
  BY Pow2Def
<1>2. ASSUME NEW m \in 1..WordBits, m - 1 \in P PROVE m \in P
  <2>1. /\ Pow2[m] = 2 * Pow2[m - 1] /\ Pow2[m - 1] \in Nat /\ Pow2[b] \in Nat
        /\ Pow2[m] \in Nat
    BY <1>2, Pow2Def, Pow2Positive
  <2>2. CASE b = m - 1
    BY <2>1, <2>2, Pow2Def
  <2>3. CASE b < m - 1
    BY <1>2, <2>1, <2>3, Pow2Def
  <2>4. CASE b > m - 1
    BY <2>4, Pow2Def
  <2> QED BY <2>2, <2>3, <2>4, Pow2Def
<1> HIDE DEF P
<1>3. WordBits \in P
  BY <1>1, <1>2, Pow2Def, Upward
<1> QED BY <1>3 DEF P, Word

-----------------------------------------------------------------------------
(* The lines that hold rules. *)

UpToEq(f, lines, N) ==
  f = [k \in 0..N |-> IF k = 0 THEN <<>>
                      ELSE IF lines[k].blank THEN f[k - 1]
                      ELSE Append(f[k - 1], lines[k])]

LEMMA UpToExists == ASSUME NEW N \in Nat, NEW lines PROVE \E f : UpToEq(f, lines, N)
<1> DEFINE P == {k \in 0..N : \E f : UpToEq(f, lines, k)}
<1>1. 0 \in P
  <2>1. UpToEq([k \in 0..0 |-> <<>>], lines, 0)
    BY DEF UpToEq
  <2> QED BY <2>1
<1>2. ASSUME NEW m \in 1..N, m - 1 \in P PROVE m \in P
  <2>1. PICK f : UpToEq(f, lines, m - 1)
    BY <1>2
  <2> DEFINE body(s, k) == IF lines[k].blank THEN s ELSE Append(s, lines[k])
             g == [k \in 0..m |-> IF k = m THEN body(f[m - 1], m) ELSE f[k]]
  <2>2. \A k \in 0..(m - 1) : f[k] = IF k = 0 THEN <<>> ELSE body(f[k - 1], k)
    BY <2>1 DEF UpToEq
  <2> HIDE DEF body
  <2>3. \A k \in 0..m : g[k] = IF k = 0 THEN <<>> ELSE body(g[k - 1], k)
    <3> TAKE k \in 0..m
    <3>1. CASE k = m
      <4>1. m # 0 /\ m - 1 \in 0..m /\ m - 1 # m
        OBVIOUS
      <4>2. g[k] = body(f[m - 1], m) /\ g[k - 1] = f[m - 1]
        BY <3>1, <4>1
      <4> QED BY <3>1, <4>1, <4>2
    <3>2. CASE k # m
      <4>1. k \in 0..(m - 1) /\ (k # 0 => k - 1 \in 0..m /\ k - 1 # m)
        BY <3>2
      <4>2. g[k] = f[k] /\ (k # 0 => g[k - 1] = f[k - 1])
        BY <3>2, <4>1
      <4> QED BY <2>2, <4>1, <4>2
    <3> QED BY <3>1, <3>2
  <2>4. g = [k \in 0..m |-> g[k]]
    OBVIOUS
  <2> HIDE DEF g
  <2>5. UpToEq(g, lines, m)
    BY <2>3, <2>4 DEF UpToEq, body
  <2> QED BY <2>5
<1> HIDE DEF P
<1>3. N \in P
  BY <1>1, <1>2, Upward
<1> QED BY <1>3 DEF P

LEMMA RuleLinesType ==
  ASSUME NEW lines \in Seq(LineText)
  PROVE  RuleLines(lines) \in Seq(LineText)
<1> DEFINE N == Len(lines)
           up == CHOOSE f : UpToEq(f, lines, N)
           P == {k \in 0..N : up[k] \in Seq(LineText)}
<1>1. N \in Nat /\ \A k \in 1..N : lines[k] \in LineText
  OBVIOUS
<1>2. RuleLines(lines) = up[N]
  BY DEF RuleLines, UpToEq
<1>3. UpToEq(up, lines, N)
  BY <1>1, UpToExists
<1> HIDE DEF up, N
<1>4. /\ up[0] = <<>>
      /\ \A k \in 1..N : up[k] = IF lines[k].blank THEN up[k - 1] ELSE Append(up[k - 1], lines[k])
  <2>1. \A k \in 0..N : up[k] = IF k = 0 THEN <<>>
                                ELSE IF lines[k].blank THEN up[k - 1]
                                ELSE Append(up[k - 1], lines[k])
    BY <1>3 DEF UpToEq
  <2>2. 0 \in 0..N /\ \A k \in 1..N : k \in 0..N /\ k # 0
    BY <1>1
  <2> QED BY ONLY <2>1, <2>2, Zenon
<1>5. 0 \in P
  <2>1. <<>> \in Seq(LineText) /\ 0 \in 0..N
    BY <1>1
  <2> QED BY <1>4, <2>1
<1>6. ASSUME NEW k \in 1..N, k - 1 \in P PROVE k \in P
  <2>1. up[k - 1] \in Seq(LineText) /\ lines[k] \in LineText
    BY <1>1, <1>6
  <2>2. up[k] \in Seq(LineText)
    <3>1. CASE lines[k].blank
      BY <1>4, <2>1, <3>1
    <3>2. CASE ~lines[k].blank
      <4>1. up[k] = Append(up[k - 1], lines[k])
        BY <1>4, <3>2
      <4> QED BY ONLY <2>1, <4>1
    <3> QED BY <3>1, <3>2
  <2> QED BY <1>1, <2>2
<1> HIDE DEF P
<1>7. N \in P
  <2>1. \A k \in 1..N : k - 1 \in P => k \in P
    BY <1>6
  <2>2. \A k \in 0..N : k \in P
    BY ONLY <1>1, <1>5, <2>1, Upward, Zenon
  <2> QED BY <1>1, <2>2
<1> QED BY <1>2, <1>7 DEF P

-----------------------------------------------------------------------------
(* The records a parser finds lie in its region, one behind the other. *)

FromEq(f, at, e) ==
  f = [a \in 0..e |-> IF a \in DOMAIN at /\ a + at[a] <= e
                      THEN <<[at |-> a, len |-> at[a]]>> \o f[a + at[a]]
                      ELSE <<>>]

LengthsOK(at) == \A a \in DOMAIN at : a \in Nat /\ at[a] \in Nat \ {0}

LEMMA FromExists ==
  ASSUME NEW e \in Nat, NEW at, LengthsOK(at)
  PROVE  \E f : FromEq(f, at, e)
<1> DEFINE fits(a) == a \in DOMAIN at /\ a + at[a] <= e
           body(s, a) == <<[at |-> a, len |-> at[a]]>> \o s
           Eq(f, b) == f = [a \in b..e |-> IF fits(a) THEN body(f[a + at[a]], a) ELSE <<>>]
           P == {b \in 0..e : \E f : Eq(f, b)}
<1>0. \A a \in 0..e : fits(a) => a + at[a] \in (a + 1)..e
  BY DEF LengthsOK
<1> HIDE DEF fits, body
<1>1. ASSUME NEW b \in 0..e, \A x \in 0..e : x > b => x \in P
      PROVE  b \in P
  <2>1. CASE b = e
    <3>1. \A a \in b..e : a = e /\ ~fits(a)
      BY <1>0, <2>1
    <3>2. Eq([a \in b..e |-> <<>>], b)
      BY <3>1
    <3> QED BY <3>2
  <2>2. CASE b # e
    <3>1. b + 1 \in 0..e /\ b + 1 > b
      BY <2>2
    <3>2. b + 1 \in P
      BY <1>1, <3>1
    <3>3. PICK f : Eq(f, b + 1)
      BY <3>2
    <3> DEFINE g == [a \in b..e |-> IF a = b THEN (IF fits(a) THEN body(f[a + at[a]], a) ELSE <<>>)
                                    ELSE f[a]]
    <3>4. \A a \in (b + 1)..e : f[a] = IF fits(a) THEN body(f[a + at[a]], a) ELSE <<>>
      BY <3>3
    <3>5. \A a \in b..e : fits(a) => a + at[a] \in b..e /\ a + at[a] # b
      BY <1>0
    <3>6. \A a \in b..e : g[a] = IF fits(a) THEN body(g[a + at[a]], a) ELSE <<>>
      <4> TAKE a \in b..e
      <4>1. fits(a) => g[a + at[a]] = f[a + at[a]]
        BY <3>5
      <4>2. CASE a = b
        BY <4>1, <4>2
      <4>3. CASE a # b
        <5>1. a \in (b + 1)..e
          BY <4>3
        <5>2. g[a] = f[a]
          BY <4>3
        <5> QED BY <3>4, <4>1, <5>1, <5>2
      <4> QED BY <4>2, <4>3
    <3>7. g = [a \in b..e |-> g[a]]
      OBVIOUS
    <3> HIDE DEF g
    <3>8. Eq(g, b)
      BY <3>6, <3>7
    <3> QED BY <3>8
  <2> QED BY <2>1, <2>2
<1> HIDE DEF P
<1>2. 0 \in P
  <2>1. \A b \in 0..e : (\A x \in 0..e : x > b => x \in P) => b \in P
    BY <1>1
  <2>2. \A b \in 0..e : b \in P
    BY ONLY <2>1, Downward, e \in Nat, Zenon
  <2> QED BY <2>2
<1>3. PICK f : Eq(f, 0)
  BY <1>2 DEF P
<1> QED BY <1>3 DEF FromEq, fits, body

RecordsIn(b, e) == {r \in [at : Nat, len : Nat] : b <= r.at /\ r.at + r.len <= e}

LEMMA RecordsInside ==
  ASSUME NEW e \in Nat, NEW at, LengthsOK(at)
  PROVE  \A b \in 0..e : RecordsFrom(at, e)[b] \in Seq(RecordsIn(0, e))
<1> DEFINE f == CHOOSE g : FromEq(g, at, e)
           R == RecordsIn(0, e)
           P == {b \in 0..e : f[b] \in Seq(R)}
<1>1. RecordsFrom(at, e) = f
  BY DEF RecordsFrom, FromEq
<1>2. FromEq(f, at, e)
  BY FromExists
<1> HIDE DEF f
<1>3. \A a \in 0..e : f[a] = IF a \in DOMAIN at /\ a + at[a] <= e
                             THEN <<[at |-> a, len |-> at[a]]>> \o f[a + at[a]]
                             ELSE <<>>
  BY <1>2 DEF FromEq
<1>4. ASSUME NEW b \in 0..e, \A x \in 0..e : x > b => x \in P
      PROVE  b \in P
  <2>1. CASE b \in DOMAIN at /\ b + at[b] <= e
    <3>1. at[b] \in Nat /\ b + at[b] \in 0..e /\ b + at[b] > b
      BY <2>1 DEF LengthsOK
    <3>2. f[b + at[b]] \in Seq(R)
      BY <1>4, <3>1
    <3>3. [at |-> b, len |-> at[b]] \in R
      BY <2>1, <3>1 DEF RecordsIn
    <3> HIDE DEF R
    <3>4. <<[at |-> b, len |-> at[b]]>> \in Seq(R)
      BY <3>3
    <3>5. f[b] = <<[at |-> b, len |-> at[b]]>> \o f[b + at[b]]
      BY <1>3, <2>1
    <3>6. f[b] \in Seq(R)
      BY ONLY <3>2, <3>4, <3>5
    <3> QED BY <3>6
  <2>2. CASE ~(b \in DOMAIN at /\ b + at[b] <= e)
    <3>1. f[b] = <<>>
      BY <1>3, <2>2
    <3> HIDE DEF R
    <3>2. <<>> \in Seq(R)
      OBVIOUS
    <3> QED BY <3>1, <3>2
  <2> QED BY <2>1, <2>2
<1> HIDE DEF P
<1>5. \A b \in 0..e : b \in P
  BY <1>4, Downward
<1> QED BY <1>1, <1>5 DEF P

-----------------------------------------------------------------------------
(* Where a region lies. *)

LEMMA MaxIn ==
  ASSUME NEW N \in Nat, NEW S, S \subseteq 0..N, S # {}
  PROVE  Max(S) \in S /\ \A y \in S : Max(S) >= y
<1> DEFINE T == {d \in 0..N : N - d \in S}
<1>1. T \subseteq Nat /\ T # {}
  <2>1. PICK s \in S : TRUE
    OBVIOUS
  <2>2. N - s \in T
    <3>1. s \in 0..N /\ N - s \in 0..N /\ N - (N - s) = s
      OBVIOUS
    <3> QED BY <3>1
  <2> QED BY <2>2
<1> HIDE DEF T
<1>2. PICK d \in T : \A y \in T : d <= y
  BY <1>1, LeastNat
<1>3. N - d \in S
  BY <1>2 DEF T
<1>4. ASSUME NEW y \in S PROVE N - d >= y
  <2>1. y \in 0..N /\ N - y \in 0..N /\ N - (N - y) = y
    OBVIOUS
  <2>2. N - y \in T
    BY <2>1 DEF T
  <2>3. d <= N - y /\ d \in Nat
    BY <1>1, <1>2, <2>2
  <2> QED BY <2>1, <2>3
<1>5. \E x \in S : \A y \in S : x >= y
  BY <1>3, <1>4
<1> QED BY <1>5 DEF Max

LEMMA PairMax ==
  ASSUME NEW a \in Nat, NEW b \in Nat
  PROVE  /\ Max({a, b}) \in Nat /\ Max({a, b}) \in {a, b}
         /\ Max({a, b}) >= a /\ Max({a, b}) >= b
<1>1. \E x \in {a, b} : \A y \in {a, b} : x >= y
  OBVIOUS
<1>2. Max({a, b}) \in {a, b} /\ \A y \in {a, b} : Max({a, b}) >= y
  BY <1>1 DEF Max
<1> HIDE DEF Max
<1> QED BY <1>2

LEMMA PairMin ==
  ASSUME NEW a \in Nat, NEW b \in Nat
  PROVE  /\ Min({a, b}) \in Nat
         /\ Min({a, b}) <= a /\ Min({a, b}) <= b
<1>1. \E x \in {a, b} : \A y \in {a, b} : x <= y
  OBVIOUS
<1>2. Min({a, b}) \in {a, b} /\ \A y \in {a, b} : Min({a, b}) <= y
  BY <1>1 DEF Min
<1> QED BY <1>2

LEMMA Regions ==
  ASSUME NEW region \in DOMAIN Anchor
  PROVE  region \in {"eth_payload", "vlan_payload", "udp_payload", "tcp_payload", "someip_payload"}
  BY DEF Anchor

LEMMA LastPduFacts ==
  ASSUME pkt \in Packets, NEW nd, Present(nd)
  PROVE  /\ LastPdu(nd).off \in Nat /\ LastPdu(nd).data_offset \in Nat
         /\ LastPdu(nd).length \in Nat
<1> DEFINE S == {j \in 1..Len(pkt.walk) : pkt.walk[j].node = nd}
<1>1. /\ Len(pkt.walk) \in Nat
      /\ \A j \in 1..Len(pkt.walk) :
            pkt.walk[j].off \in Nat /\ pkt.walk[j].data_offset \in Nat /\ pkt.walk[j].length \in Nat
  <2>1. pkt.walk \in Seq(Range(pkt.walk))
    BY DparAssumption
  <2> QED BY <2>1, DparAssumption
<1>2. S \subseteq 0..Len(pkt.walk) /\ S # {}
  BY <1>1 DEF Present
<1>3. LastPdu(nd) = pkt.walk[Max(S)]
  BY DEF LastPdu
<1>4. \A j \in S : j \in 1..Len(pkt.walk)
  OBVIOUS
<1> HIDE DEF S
<1>5. Max(S) \in S
  BY <1>1, <1>2, MaxIn
<1> QED BY <1>1, <1>3, <1>4, <1>5

(* There is one innermost PDU of a node that is present, the one the code   *)
(* keeps.                                                                   *)
LEMMA InnermostIsLast ==
  ASSUME pkt \in Packets, NEW nd
  PROVE  /\ Present(nd) => Innermost(nd) = {LastPdu(nd)}
         /\ ~Present(nd) => Innermost(nd) = {}
<1> DEFINE S == {j \in 1..Len(pkt.walk) : pkt.walk[j].node = nd}
           I == {l \in 1..Len(pkt.walk) :
                  /\ pkt.walk[l].node = nd
                  /\ \A m \in 1..Len(pkt.walk) : pkt.walk[m].node = nd => m <= l}
<1>1. Len(pkt.walk) \in Nat
  <2>1. pkt.walk \in Seq(Range(pkt.walk))
    BY DparAssumption
  <2> QED BY <2>1
<1>2. LastPdu(nd) = pkt.walk[Max(S)] /\ Innermost(nd) = {pkt.walk[j] : j \in I}
  BY DEF LastPdu, Innermost
<1>3. \A l : l \in I <=> l \in S /\ \A m \in S : m <= l
  OBVIOUS
<1>4. CASE Present(nd)
  <2>1. S \subseteq 0..Len(pkt.walk) /\ S # {}
    BY <1>1, <1>4 DEF Present
  <2> HIDE DEF S, I
  <2>2. Max(S) \in S /\ \A m \in S : m <= Max(S)
    BY <1>1, <2>1, MaxIn
  <2>3. \A l : l \in I <=> l = Max(S)
    <3>1. \A l \in S : l \in Nat
      BY <1>1, <2>1
    <3> QED BY <1>3, <2>2, <3>1
  <2> QED BY <1>2, <1>4, <2>3
<1>5. CASE ~Present(nd)
  <2>1. I = {}
    BY <1>5 DEF Present
  <2> HIDE DEF I
  <2> QED BY <1>2, <1>5, <2>1
<1> QED BY <1>4, <1>5

(* A rule fires when it matches and its region is there, and emits then     *)
(* what is there; without its region there is nothing.                      *)
LEMMA FiresIff ==
  ASSUME pkt \in Packets, NEW rule
  PROVE  /\ Fires(rule) <=> Matches(rule) /\ AnchorsOf(rule) # {}
         /\ Fires(rule) => RowsOf(rule) = Range(Emitted(rule))
         /\ AnchorsOf(rule) = {} => RowsOf(rule) = {}
<1>1. PredsHold(rule) <=> Matches(rule)
  <2>1. ASSUME NEW k \in 1..Len(rule.preds)
        PROVE  PredHolds(rule.preds[k]) <=>
                 \E pdu \in Innermost(Catalog[rule.preds[k].field].node) :
                   cmp_apply(pdu.fields[rule.preds[k].field], rule.preds[k].op, rule.preds[k].operand)
    <3> DEFINE nd == Catalog[rule.preds[k].field].node
    <3>1. CASE Present(nd)
      <4>1. Innermost(nd) = {LastPdu(nd)}
        BY <3>1, InnermostIsLast
      <4> QED BY <3>1, <4>1, Zenon DEF PredHolds
    <3>2. CASE ~Present(nd)
      <4>1. Innermost(nd) = {}
        BY <3>2, InnermostIsLast
      <4> QED BY <3>2, <4>1, Zenon DEF PredHolds
    <3> QED BY <3>1, <3>2
  <2> QED BY <2>1, Zenon DEF PredsHold, Matches
<1> DEFINE last == LastPdu(Anchor[rule.region])
<1>2. CASE RegionResolves(rule.region)
  <2>1. Innermost(Anchor[rule.region]) = {last} /\ RegionBegin(rule.region, last) <= pkt.size
    BY <1>2, InnermostIsLast, Zenon DEF RegionResolves, AnchorPdu
  <2>2. AnchorsOf(rule) = {last}
    BY <2>1, Zenon DEF AnchorsOf
  <2>3. RowsOf(rule) = Range(RowsFrom(rule, last))
    BY <2>2, Zenon DEF RowsOf
  <2>4. Emitted(rule) = RowsFrom(rule, last)
    BY Zenon DEF Emitted, AnchorPdu
  <2> HIDE DEF last
  <2>5. AnchorsOf(rule) # {}
    BY <2>2
  <2> QED BY <1>1, <1>2, <2>3, <2>4, <2>5, Zenon DEF Fires
<1>3. CASE ~RegionResolves(rule.region)
  <2>1. AnchorsOf(rule) = {}
    <3>1. CASE Present(Anchor[rule.region])
      <4>1. Innermost(Anchor[rule.region]) = {last} /\ ~(RegionBegin(rule.region, last) <= pkt.size)
        BY <1>3, <3>1, InnermostIsLast, Zenon DEF RegionResolves, AnchorPdu
      <4> QED BY <4>1, Zenon DEF AnchorsOf
    <3>2. CASE ~Present(Anchor[rule.region])
      <4>1. Innermost(Anchor[rule.region]) = {}
        BY <3>2, InnermostIsLast
      <4> QED BY <4>1, Zenon DEF AnchorsOf
    <3> QED BY <3>1, <3>2
  <2>2. RowsOf(rule) = {}
    BY <2>1, Zenon DEF RowsOf
  <2> QED BY <1>3, <2>1, <2>2, Zenon DEF Fires
<1> QED BY <1>2, <1>3

(* The region of a rule that fires lies in the packet. *)
LEMMA RegionInside ==
  ASSUME pkt \in Packets, NEW region \in DOMAIN Anchor, RegionResolves(region),
         NEW a, a = AnchorPdu(region)
  PROVE  /\ RegionBegin(region, a) \in Nat /\ RegionEnd(region, a) \in Nat
         /\ RegionBegin(region, a) <= RegionEnd(region, a)
         /\ RegionEnd(region, a) <= pkt.size /\ pkt.size \in Nat
<1>1. a.off \in Nat /\ a.data_offset \in Nat /\ a.length \in Nat
  BY LastPduFacts DEF RegionResolves, AnchorPdu
<1>2. pkt.size \in Nat /\ RegionBegin(region, a) <= pkt.size
  BY DparAssumption DEF RegionResolves
<1>3. RegionBegin(region, a) \in Nat
  <2>1. Max({20, a.data_offset * 4}) \in Nat
    BY <1>1, PairMax
  <2>2. CASE region = "eth_payload"
    BY <1>1, <2>2 DEF RegionBegin
  <2>3. CASE region = "vlan_payload"
    BY <1>1, <2>3 DEF RegionBegin
  <2>4. CASE region = "udp_payload"
    BY <1>1, <2>4 DEF RegionBegin
  <2>5. CASE region = "tcp_payload"
    BY <1>1, <2>1, <2>5 DEF RegionBegin
  <2>6. CASE region = "someip_payload"
    BY <1>1, <2>6 DEF RegionBegin
  <2> QED BY <2>2, <2>3, <2>4, <2>5, <2>6, Regions
<1>4. CASE region # "someip_payload"
  BY <1>2, <1>3, <1>4 DEF RegionEnd
<1>5. CASE region = "someip_payload"
  <2> DEFINE m == Min({a.off + 8 + a.length, pkt.size})
  <2>1. m \in Nat /\ m <= pkt.size
    BY <1>1, <1>2, PairMin
  <2>2. RegionEnd(region, a) = Max({m, RegionBegin(region, a)})
    BY <1>5 DEF RegionEnd
  <2> HIDE DEF m
  <2> QED BY <1>2, <1>3, <2>1, <2>2, PairMax
<1> QED BY <1>4, <1>5

(* The rows of a rule that fires. *)
RuleOK(rule) == rule.kind \in Kinds /\ rule.region \in DOMAIN Anchor /\ rule.rule_id \in Nat

LEMMA EmittedFacts ==
  ASSUME pkt \in Packets, runs \in Seq(Packets), NEW rule, RuleOK(rule), Fires(rule)
  PROVE  /\ Emitted(rule) \in Seq(RowType)
         /\ \A j \in 1..Len(Emitted(rule)) :
              /\ Emitted(rule)[j].packet_id = Len(runs)
              /\ Emitted(rule)[j].rule_id = rule.rule_id
              /\ Emitted(rule)[j].index = j - 1
              /\ Emitted(rule)[j].at + Emitted(rule)[j].len <= pkt.size
<1> DEFINE b == RegionBegin(rule.region, AnchorPdu(rule.region))
           e == RegionEnd(rule.region, AnchorPdu(rule.region))
           recs == ParserRecords(rule.kind, b, e)
<1>1. b \in Nat /\ e \in Nat /\ b <= e /\ e <= pkt.size /\ pkt.size \in Nat
  BY RegionInside DEF RuleOK, Fires
<1> HIDE DEF b, e
<1>2. LengthsOK(pkt.records[rule.kind])
  BY DparAssumption DEF LengthsOK, RuleOK
<1>3. recs \in Seq(RecordsIn(0, e))
  <2>1. b \in 0..e
    BY <1>1
  <2> QED BY <1>1, <1>2, <2>1, RecordsInside DEF ParserRecords
<1>4. Emitted(rule) =
        [j \in 1..Len(recs) |->
           [packet_id |-> Len(runs), rule_id |-> rule.rule_id, index |-> j - 1,
            at |-> recs[j].at, len |-> recs[j].len]]
  BY DEF Emitted, RowsFrom, b, e
<1> HIDE DEF recs
<1>5. Len(recs) \in Nat /\ Len(runs) \in Nat
  BY <1>3
<1>6. \A j \in 1..Len(recs) :
        recs[j].at \in Nat /\ recs[j].len \in Nat /\ recs[j].at + recs[j].len <= pkt.size
  <2> TAKE j \in 1..Len(recs)
  <2>1. recs[j] \in RecordsIn(0, e)
    BY <1>3
  <2>2. recs[j].at \in Nat /\ recs[j].len \in Nat /\ recs[j].at + recs[j].len <= e
    BY <2>1 DEF RecordsIn
  <2> QED BY <1>1, <2>2
<1>7. /\ Emitted(rule) \in Seq(RowType) /\ Len(Emitted(rule)) = Len(recs)
  <2> DEFINE row(j) == [packet_id |-> Len(runs), rule_id |-> rule.rule_id, index |-> j - 1,
                        at |-> recs[j].at, len |-> recs[j].len]
  <2>1. \A j \in 1..Len(recs) : row(j) \in RowType
    BY <1>5, <1>6 DEF RowType, RuleOK
  <2>2. Emitted(rule) = [j \in 1..Len(recs) |-> row(j)]
    BY <1>4
  <2> HIDE DEF row
  <2> QED BY <1>5, <2>1, <2>2
<1> QED BY <1>4, <1>6, <1>7

-----------------------------------------------------------------------------
(***************************************************************************)
(* The invariant.  The rules in force are those of the text that compiled  *)
(* last (InForce); every row belongs to a packet that was run and lies in  *)
(* it (RowsKnown); and inside run() the rows of the packet are those of    *)
(* the rules evaluated so far (MatchedUpTo), which becomes AllMatch when   *)
(* the loop has reached the last rule.                                     *)
(***************************************************************************)
InForce ==
  /\ text \in Seq(LineText)
  /\ compile_rules(text).ok
  /\ rules = compile_rules(text).rules

History ==
  /\ runs \in Seq(Packets)
  /\ marks \in [Kinds -> Nat]
  /\ \A kd \in Kinds : marks[kd] <= Len(tables[kd])

Running ==
  phase = "rules" => /\ ri <= Len(rules)
                     /\ runs # <<>> /\ pkt = runs[Len(runs)]

RowsKnown ==
  \A kd \in Kinds : \A j \in 1..Len(tables[kd]) :
    tables[kd][j].packet_id \in 1..Len(runs)

Fired(kd, m) ==
  UNION {Range(Emitted(rules[k])) : k \in {x \in 1..m : rules[x].kind = kd /\ Fires(rules[x])}}

MatchedUpTo(m) ==
  /\ any <=> \E k \in 1..m : Fires(rules[k])
  /\ \A kd \in Kinds :
       /\ {tables[kd][j] : j \in RowsOfPacket(kd)} = Fired(kd, m)
       /\ \A j \in RowsOfPacket(kd) : tables[kd][j].rule_id < m
       /\ \A j, k \in RowsOfPacket(kd) : j < k => Precedes(tables[kd][j], tables[kd][k])

Matched == phase = "rules" => MatchedUpTo(ri)

Accounted == IsFiniteSet(AllRows) /\ RowsAccounted

DInv == /\ TypeOK /\ InForce /\ History /\ Running /\ RowsKnown /\ RowsInsidePacket
        /\ Matched /\ Accounted

-----------------------------------------------------------------------------
(* What a text that compiled is. *)

LEMMA Compiled ==
  ASSUME NEW lines \in Seq(LineText), compile_rules(lines).ok
  PROVE  /\ compile_rules(lines).rules \in Seq(Range(compile_rules(lines).rules))
         /\ Len(compile_rules(lines).rules) = Len(RuleLines(lines))
         /\ Len(RuleLines(lines)) \in Nat
         /\ \A k \in 1..Len(RuleLines(lines)) :
              /\ RuleLines(lines)[k] \in LineText
              /\ LineErrors(RuleLines(lines)[k]) = {}
              /\ compile_rules(lines).rules[k] = RuleOf(RuleLines(lines)[k], k - 1)
<1> DEFINE rl == RuleLines(lines)
           rs == compile_rules(lines).rules
<1>1. rl \in Seq(LineText)
  BY RuleLinesType
<1>2. \A k \in 1..Len(rl) : LineErrors(rl[k]) = {}
  BY DEF compile_rules
<1>3. rs = [k \in 1..Len(rl) |-> RuleOf(rl[k], k - 1)]
  BY <1>2 DEF compile_rules
<1> HIDE DEF rl, rs
<1>4. Len(rl) \in Nat /\ \A k \in 1..Len(rl) : rl[k] \in LineText
  BY <1>1
<1>5. rs \in Seq(Range(rs)) /\ Len(rs) = Len(rl)
  <2>1. \A k \in 1..Len(rl) : rs[k] \in Range(rs)
    BY <1>3 DEF Range
  <2>2. rs = [k \in 1..Len(rl) |-> rs[k]]
    BY <1>3
  <2> QED BY <1>4, <2>1, <2>2
<1>6. \A k \in 1..Len(rl) : rs[k] = RuleOf(rl[k], k - 1)
  BY <1>3
<1> QED BY <1>2, <1>4, <1>5, <1>6 DEF rl, rs

(* A line without errors is a rule the engine can run. *)
LEMMA LineRule ==
  ASSUME NEW line \in LineText, LineErrors(line) = {}, NEW id \in Nat
  PROVE  RuleOK(RuleOf(line, id)) /\ RuleOf(line, id).rule_id = id
<1>1. TailErrors(line.tail) = {}
  <2> DEFINE others == (UNION {PredErrors(line.preds[i]) : i \in 1..Len(line.preds)}) \cup
                        If(Len(line.preds) = 0, "expected predicate") \cup
                        If(Len(line.preds) > MaxPreds, "too many predicates")
  <2>1. LineErrors(line) = others \cup TailErrors(line.tail)
    BY Zenon DEF LineErrors
  <2> HIDE DEF others
  <2> QED BY <2>1
<1>2. line.tail \in Seq(STRING) /\ Len(line.tail) \in Nat
  BY DEF LineText
<1>3. ~(Len(line.tail) = 0 \/ Head(line.tail) # "=>")
  BY <1>1 DEF TailErrors
<1>4. /\ If(Len(line.tail) < 2, "expected a parser") = {}
      /\ If(Len(line.tail) >= 2 /\ line.tail[2] \notin Kinds, "unknown parser") = {}
      /\ If(Len(line.tail) < 3, "expected a region") = {}
      /\ If(Len(line.tail) >= 3 /\ line.tail[3] \notin DOMAIN Anchor, "unknown region") = {}
  BY <1>1, <1>3 DEF TailErrors
<1>5. line.tail[2] \in Kinds /\ line.tail[3] \in DOMAIN Anchor
  <2>1. ~(Len(line.tail) < 3) /\ ~(Len(line.tail) >= 2 /\ line.tail[2] \notin Kinds)
        /\ ~(Len(line.tail) >= 3 /\ line.tail[3] \notin DOMAIN Anchor)
    BY <1>4 DEF If
  <2>2. Len(line.tail) >= 2 /\ Len(line.tail) >= 3
    BY <1>2, <2>1
  <2> QED BY <2>1, <2>2
<1> QED BY <1>5 DEF RuleOf, RuleOK

(* An operand of Distinct that compiled without an error is the number in   *)
(* the text.                                                                *)
LEMMA OperandMeans ==
  ASSUME NEW p \in PredText, PredErrors(p) = {}, Distinct(p)
  PROVE  parse_u64(p.value) = p.value
<1>1. ~p.short
  BY DEF PredErrors, If
<1>2. /\ If(p.lhs \notin DOMAIN Catalog, "unknown field") = {}
      /\ If(/\ p.lhs \in DOMAIN Catalog
            /\ Catalog[p.lhs].bits < WordBits
            /\ parse_u64(p.value) >= Pow2[Catalog[p.lhs].bits], "operand overflows") = {}
  BY <1>1 DEF PredErrors
<1> DEFINE bits == Catalog[p.lhs].bits
           B == Pow2[bits]
           v == p.value
           op == parse_u64(v)
<1>3. p.lhs \in DOMAIN Catalog /\ ~(bits < WordBits /\ op >= B)
  BY <1>2 DEF If
<1>4. bits \in 1..WordBits /\ WordBits \in Nat
  BY <1>3, DparAssumption
<1>5. /\ B \in Nat /\ B >= 1 /\ Word \in Nat /\ Word >= 1
      /\ bits < WordBits => 2 * B <= Word
      /\ bits = WordBits => B = Word
  BY <1>4, Pow2Positive, Pow2Half DEF Word
<1>7. v \in Int
  BY DEF PredText
<1>6. IF bits = WordBits THEN v \in 0..(Word - 1) ELSE v \notin -(Word - 1)..(B - Word - 1)
  BY DEF Distinct
<1>8. op = IF v \in -(Word - 1)..(Word - 1) THEN v % Word ELSE Word - 1
  BY DEF parse_u64
<1>9. bits < WordBits \/ bits = WordBits
  BY <1>4
<1> HIDE DEF bits, B, v, op
<1>10. CASE v >= 0 /\ v < Word
  <2>1. v \in 0..(Word - 1) /\ v \in -(Word - 1)..(Word - 1)
    BY <1>5, <1>7, <1>10
  <2>2. v % Word = v
    BY <1>5, <2>1
  <2> QED BY <1>8, <2>1, <2>2 DEF op, v
<1>11. CASE v < 0
  <2>1. bits < WordBits /\ v \notin -(Word - 1)..(B - Word - 1)
    BY <1>4, <1>5, <1>6, <1>9, <1>11
  <2>2. CASE v \in -(Word - 1)..(Word - 1)
    <3>1. v % Word = v + Word
      BY <1>5, <1>7, <1>11, <2>2
    <3>2. op = v + Word
      BY <1>8, <2>2, <3>1
    <3>3. op >= B
      BY <1>5, <1>7, <2>1, <2>2, <3>2
    <3> QED BY <1>3, <2>1, <3>3
  <2>3. CASE v \notin -(Word - 1)..(Word - 1)
    <3>1. op = Word - 1
      BY <1>8, <2>3
    <3>2. op >= B
      BY <1>5, <2>1, <3>1
    <3> QED BY <1>3, <2>1, <3>2
  <2> QED BY <2>2, <2>3
<1>12. CASE v >= Word
  <2>1. ~(v \in -(Word - 1)..(Word - 1))
    BY <1>5, <1>7, <1>12
  <2>2. op = Word - 1
    BY <1>8, <2>1
  <2>3. bits < WordBits
    BY <1>5, <1>6, <1>7, <1>9, <1>12
  <2>4. op >= B
    BY <1>5, <2>2, <2>3
  <2> QED BY <1>3, <2>3, <2>4
<1> QED BY <1>5, <1>7, <1>10, <1>11, <1>12

(* The static part of the invariant says what the rules are. *)
LEMMA RulesKnown ==
  ASSUME InForce
  PROVE  /\ rules \in Seq(Range(rules)) /\ Len(rules) \in Nat
         /\ \A k \in 1..Len(rules) : RuleOK(rules[k]) /\ rules[k].rule_id = k - 1
<1>1. /\ rules \in Seq(Range(rules))
      /\ Len(rules) = Len(RuleLines(text)) /\ Len(RuleLines(text)) \in Nat
      /\ \A k \in 1..Len(RuleLines(text)) :
           /\ RuleLines(text)[k] \in LineText
           /\ LineErrors(RuleLines(text)[k]) = {}
           /\ rules[k] = RuleOf(RuleLines(text)[k], k - 1)
  BY Compiled DEF InForce
<1>2. ASSUME NEW k \in 1..Len(rules) PROVE RuleOK(rules[k]) /\ rules[k].rule_id = k - 1
  <2>1. k - 1 \in Nat
    BY <1>1
  <2>2. /\ RuleLines(text)[k] \in LineText /\ LineErrors(RuleLines(text)[k]) = {}
        /\ rules[k] = RuleOf(RuleLines(text)[k], k - 1)
    BY <1>1, Zenon
  <2>3. /\ RuleOK(RuleOf(RuleLines(text)[k], k - 1))
        /\ RuleOf(RuleLines(text)[k], k - 1).rule_id = k - 1
    BY ONLY <2>1, <2>2, LineRule, Zenon
  <2> QED BY ONLY <2>2, <2>3, Zenon
<1> QED BY <1>1, <1>2

LEMMA RulesMean == ASSUME InForce PROVE RulesMeanText
<1> DEFINE rl == RuleLines(text)
<1>1. /\ Len(rules) = Len(rl)
      /\ \A k \in 1..Len(rl) :
           /\ rl[k] \in LineText
           /\ LineErrors(rl[k]) = {}
           /\ rules[k] = RuleOf(rl[k], k - 1)
  BY Compiled DEF InForce
<1> HIDE DEF rl
<1>2. ASSUME NEW k \in 1..Len(rl)
      PROVE  /\ Len(rules[k].preds) = Len(rl[k].preds)
             /\ \A j \in 1..Len(rl[k].preds) :
                  LET p == rl[k].preds[j]
                      pr == rules[k].preds[j]
                  IN  Distinct(p) =>
                        \A v \in 0..(Pow2[Catalog[p.lhs].bits] - 1) :
                          cmp_apply(v, pr.op, pr.operand) = cmp_apply(v, p.op, p.value)
  <2>1. rl[k].preds \in Seq(PredText) /\ Len(rl[k].preds) \in Nat
    BY <1>1 DEF LineText
  <2>2. rules[k].preds = [j \in 1..Len(rl[k].preds) |->
                            [field |-> rl[k].preds[j].lhs, op |-> rl[k].preds[j].op,
                             operand |-> parse_u64(rl[k].preds[j].value)]]
    <3>1. rules[k] = RuleOf(rl[k], k - 1)
      BY <1>1, Zenon
    <3> QED BY ONLY <3>1 DEF RuleOf
  <2>3. Len(rules[k].preds) = Len(rl[k].preds)
    BY <2>1, <2>2
  <2>4. ASSUME NEW j \in 1..Len(rl[k].preds), Distinct(rl[k].preds[j])
        PROVE  /\ rules[k].preds[j].op = rl[k].preds[j].op
               /\ rules[k].preds[j].operand = rl[k].preds[j].value
    <3>1. rl[k].preds[j] \in PredText
      BY <2>1
    <3>2. PredErrors(rl[k].preds[j]) = {}
      BY <1>1 DEF LineErrors
    <3>3. parse_u64(rl[k].preds[j].value) = rl[k].preds[j].value
      BY <2>4, <3>1, <3>2, OperandMeans
    <3> QED BY <2>2, <3>3
  <2> QED BY <2>3, <2>4
<1> QED BY <1>1, <1>2 DEF RulesMeanText, rl

-----------------------------------------------------------------------------
LEMMA NoLines == RuleLines(<<>>) = <<>>
<1> DEFINE lines == <<>>
           up == CHOOSE f : UpToEq(f, lines, 0)
<1>1. Len(lines) = 0
  OBVIOUS
<1>2. RuleLines(lines) = (CHOOSE f : UpToEq(f, lines, Len(lines)))[Len(lines)]
  BY DEF RuleLines, UpToEq
<1>3. UpToEq(up, lines, 0)
  BY UpToExists
<1> HIDE DEF up
<1>4. up[0] = <<>>
  BY <1>3 DEF UpToEq
<1> QED BY <1>1, <1>2, <1>4 DEF up

LEMMA InitDInv == Init => DInv
<1> SUFFICES ASSUME Init PROVE DInv
  OBVIOUS
<1>1. /\ rules = <<>> /\ stats = NoStats /\ perRule = <<>> /\ phase = "idle" /\ pkt \in Packets
      /\ tables = [kd \in Kinds |-> <<>>] /\ ri = 0 /\ any = FALSE /\ runs = <<>>
      /\ text = <<>> /\ loaded = TRUE /\ marks = [kd \in Kinds |-> 0]
  BY DEF Init
<1>2. TypeOK
  <2>1. stats \in Stats
    BY <1>1 DEF NoStats, Stats
  <2>2. perRule \in Seq(Stat) /\ Len(perRule) = Len(rules)
    BY <1>1
  <2>3. tables \in [Kinds -> Seq(RowType)]
    BY <1>1
  <2>4. \A k \in 1..Len(rules) : rules[k].rule_id = k - 1
    BY <1>1
  <2> QED BY <1>1, <2>1, <2>2, <2>3, <2>4 DEF TypeOK
<1>3. InForce
  <2>1. text \in Seq(LineText)
    BY <1>1
  <2>2. RuleLines(text) = <<>> /\ Len(RuleLines(text)) = 0
    BY <1>1, NoLines
  <2>3. compile_rules(text).ok
    BY <2>2 DEF compile_rules
  <2>4. compile_rules(text).rules = <<>>
    <3>1. /\ compile_rules(text).rules \in Seq(Range(compile_rules(text).rules))
          /\ Len(compile_rules(text).rules) = 0
      BY <2>1, <2>2, <2>3, Compiled
    <3> QED BY <3>1
  <2> QED BY <1>1, <2>1, <2>3, <2>4 DEF InForce
<1>4. History
  <2>1. runs \in Seq(Packets) /\ marks \in [Kinds -> Nat]
    BY <1>1
  <2>2. \A kd \in Kinds : marks[kd] <= Len(tables[kd])
    BY <1>1
  <2> QED BY <2>1, <2>2 DEF History
<1>5. Running /\ Matched
  BY <1>1 DEF Running, Matched
<1>6. \A kd \in Kinds : Len(tables[kd]) = 0
  BY <1>1
<1>7. RowsKnown /\ RowsInsidePacket
  BY <1>6 DEF RowsKnown, RowsInsidePacket
<1>8. Accounted
  <2>1. AllRows = {}
    BY <1>6 DEF AllRows
  <2>2. stats.rows_emitted = 0 /\ Len(perRule) = 0
    BY <1>1 DEF NoStats
  <2> QED BY <2>1, <2>2, FS_EmptySet DEF Accounted, RowsAccounted
<1> QED BY <1>2, <1>3, <1>4, <1>5, <1>7, <1>8 DEF DInv

(* What a rule does to a packet depends on the rule and the packet. *)
LEMMA SameRun ==
  ASSUME NEW rule, pkt' = pkt, runs' = runs
  PROVE  (Emitted(rule))' = Emitted(rule) /\ (Fires(rule))' = Fires(rule)
<1>1. \A nd : (Present(nd))' = Present(nd) /\ (LastPdu(nd))' = LastPdu(nd)
  BY DEF Present, LastPdu
<1>2. \A region, a : (RegionEnd(region, a))' = RegionEnd(region, a)
  BY DEF RegionEnd
<1>3. (Emitted(rule))' = Emitted(rule)
  BY <1>1, <1>2 DEF Emitted, RowsFrom, AnchorPdu, ParserRecords
<1>4. (Fires(rule))' = Fires(rule)
  BY <1>1 DEF Fires, PredsHold, PredHolds, RegionResolves, AnchorPdu
<1> QED BY <1>3, <1>4

LEMMA SameMatch ==
  ASSUME NEW m, MatchedUpTo(m), pkt' = pkt, runs' = runs, rules' = rules,
         tables' = tables, any' = any
  PROVE  (MatchedUpTo(m))'
<1>1. \A rule : (Emitted(rule))' = Emitted(rule) /\ (Fires(rule))' = Fires(rule)
  BY SameRun
<1>2. \A kd : (Fired(kd, m))' = Fired(kd, m)
  BY <1>1 DEF Fired
<1>3. \A kd : (RowsOfPacket(kd))' = RowsOfPacket(kd)
  BY DEF RowsOfPacket
<1> QED BY <1>1, <1>2, <1>3 DEF MatchedUpTo

(* Steps that write no row and evaluate no rule. *)
LEMMA SameRows ==
  ASSUME DInv, tables' = tables
  PROVE  AllRows' = AllRows
  BY DEF AllRows

LEMMA LoadInv == ASSUME DInv, NEW t \in Texts, load_rules(t) PROVE DInv'
<1>1. /\ phase = "idle"
      /\ LoadOk(t) \/ LoadError(t)
      /\ UNCHANGED <<stats, tables, phase, pkt, ri, any, runs>>
  BY DEF load_rules, runVars
<1>2. AllRows' = AllRows
  BY <1>1, SameRows
<1>3. Running' /\ Matched'
  BY <1>1 DEF Running, Matched
<1>4. RowsKnown' /\ RowsInsidePacket'
  BY <1>1 DEF DInv, RowsKnown, RowsInsidePacket
<1>5. CASE LoadError(t)
  <2>1. loaded' = FALSE /\ UNCHANGED <<rules, text, perRule, marks>>
    BY <1>5 DEF LoadError
  <2>2. TypeOK' /\ InForce' /\ History'
    BY <1>1, <2>1 DEF DInv, TypeOK, InForce, History
  <2>3. Accounted'
    BY <1>1, <1>2, <2>1 DEF DInv, Accounted, RowsAccounted, RowsSince
  <2> QED BY <1>3, <1>4, <2>2, <2>3 DEF DInv
<1>6. CASE LoadOk(t)
  <2>1. /\ compile_rules(t).ok /\ rules' = compile_rules(t).rules /\ text' = t
        /\ perRule' = [k \in 1..Len(rules') |-> NoStat] /\ marks' = Sizes /\ loaded' = TRUE
    BY <1>6 DEF LoadOk
  <2>2. t \in Seq(LineText)
    BY DparAssumption
  <2>3. InForce'
    BY <2>1, <2>2 DEF InForce
  <2>4. /\ Len(rules') \in Nat
        /\ \A k \in 1..Len(rules') : rules'[k].rule_id = k - 1
    <3>1. /\ Len(rules') = Len(RuleLines(t)) /\ Len(RuleLines(t)) \in Nat
          /\ \A k \in 1..Len(RuleLines(t)) :
               /\ RuleLines(t)[k] \in LineText
               /\ rules'[k] = RuleOf(RuleLines(t)[k], k - 1)
      BY <2>1, <2>2, Compiled
    <3>2. ASSUME NEW k \in 1..Len(rules') PROVE rules'[k].rule_id = k - 1
      <4>1. rules'[k] = RuleOf(RuleLines(t)[k], k - 1)
        BY <3>1
      <4> QED BY ONLY <4>1 DEF RuleOf
    <3> QED BY <3>1, <3>2
  <2>5. perRule' \in Seq(Stat) /\ Len(perRule') = Len(rules')
    <3>1. NoStat \in Stat
      BY DEF NoStat, Stat
    <3> HIDE DEF NoStat, Stat
    <3> QED BY <2>1, <2>4, <3>1
  <2>6. TypeOK'
    BY <1>1, <2>1, <2>4, <2>5 DEF DInv, TypeOK
  <2>7. tables \in [Kinds -> Seq(RowType)]
    BY DEF DInv, TypeOK
  <2>8. \A kd \in Kinds : marks'[kd] = Len(tables[kd]) /\ Len(tables[kd]) \in Nat
    BY <2>1, <2>7 DEF Sizes
  <2>9. History'
    <3>1. marks' \in [Kinds -> Nat]
      BY <2>1, <2>8 DEF Sizes
    <3> QED BY <1>1, <2>8, <3>1 DEF DInv, History
  <2>10. Accounted'
    <3>1. \A id : {x \in AllRows : x[2] > marks'[x[1]] /\ tables[x[1]][x[2]].rule_id = id} = {}
      <4> SUFFICES ASSUME NEW x \in AllRows PROVE ~(x[2] > marks'[x[1]])
        OBVIOUS
      <4>1. PICK kd \in Kinds : x \in {kd} \X (1..Len(tables[kd]))
        BY DEF AllRows
      <4>2. x[1] = kd /\ x[2] \in 1..Len(tables[kd])
        BY <4>1
      <4> QED BY <2>8, <4>2
    <3>2. \A k \in 1..Len(perRule') : perRule'[k].rows_emitted = 0
      BY <2>1, <2>4, <2>5 DEF NoStat
    <3>3. \A id : (RowsSince(id))' = {}
      BY <1>1, <1>2, <3>1 DEF RowsSince
    <3> QED BY <1>1, <1>2, <3>2, <3>3, FS_EmptySet DEF DInv, Accounted, RowsAccounted
  <2> QED BY <1>3, <1>4, <2>3, <2>6, <2>9, <2>10 DEF DInv
<1> QED BY <1>1, <1>5, <1>6

(* A packet more to run: no row is of it yet. *)
LEMMA NewPacket ==
  ASSUME DInv, NEW p \in Packets, runs' = Append(runs, p), tables' = tables
  PROVE  /\ runs' \in Seq(Packets) /\ runs' # <<>> /\ runs'[Len(runs')] = p
         /\ Len(runs') = Len(runs) + 1 /\ Len(runs) \in Nat
         /\ RowsKnown' /\ RowsInsidePacket'
         /\ \A kd \in Kinds : (RowsOfPacket(kd))' = {}
<1>1. runs \in Seq(Packets) /\ Len(runs) \in Nat
  BY DEF DInv, History
<1>2. /\ runs' \in Seq(Packets) /\ runs' # <<>> /\ runs'[Len(runs')] = p
      /\ Len(runs') = Len(runs) + 1
      /\ \A k \in 1..Len(runs) : runs'[k] = runs[k]
  BY <1>1
<1>3. \A kd \in Kinds : \A j \in 1..Len(tables[kd]) : tables[kd][j].packet_id \in 1..Len(runs)
  BY DEF DInv, RowsKnown
<1>4. RowsKnown'
  BY <1>1, <1>2, <1>3 DEF RowsKnown
<1>5. RowsInsidePacket'
  BY <1>2, <1>3 DEF DInv, RowsInsidePacket
<1>6. \A kd \in Kinds : (RowsOfPacket(kd))' = {}
  <2> SUFFICES ASSUME NEW kd \in Kinds, NEW j \in 1..Len(tables[kd]),
                      tables[kd][j].packet_id = Len(runs')
               PROVE  FALSE
    BY DEF RowsOfPacket
  <2> QED BY <1>1, <1>2, <1>3
<1> QED BY <1>1, <1>2, <1>4, <1>5, <1>6

LEMMA RunEmptyInv == ASSUME DInv, NEW p \in Packets, RunEmpty(p) PROVE DInv'
<1>1. /\ phase = "idle" /\ runs' = Append(runs, p) /\ pkt' = p
      /\ UNCHANGED <<rules, stats, perRule, tables, phase, ri, any, text, loaded, loads, marks>>
  BY DEF RunEmpty, engineVars, loadVars
<1>2. runs' \in Seq(Packets) /\ RowsKnown' /\ RowsInsidePacket'
  BY <1>1, NewPacket
<1>3. TypeOK' /\ InForce'
  BY <1>1 DEF DInv, TypeOK, InForce
<1>4. History' /\ Running' /\ Matched'
  BY <1>1, <1>2 DEF DInv, History, Running, Matched
<1>5. Accounted'
  BY <1>1, SameRows DEF DInv, Accounted, RowsAccounted, RowsSince
<1> QED BY <1>2, <1>3, <1>4, <1>5 DEF DInv

LEMMA RunBeginInv == ASSUME DInv, NEW p \in Packets, RunBegin(p) PROVE DInv'
<1>1. /\ phase = "idle" /\ runs' = Append(runs, p) /\ pkt' = p /\ phase' = "rules"
      /\ ri' = 0 /\ any' = FALSE /\ stats' = [stats EXCEPT !.packets_seen = @ + 1]
      /\ UNCHANGED <<rules, perRule, tables, text, loaded, loads, marks>>
  BY DEF RunBegin, loadVars
<1>2. /\ runs' \in Seq(Packets) /\ RowsKnown' /\ RowsInsidePacket'
      /\ runs' # <<>> /\ runs'[Len(runs')] = p
      /\ \A kd \in Kinds : (RowsOfPacket(kd))' = {}
  BY <1>1, NewPacket
<1>3. stats \in Stats /\ stats' \in Stats /\ stats'.rows_emitted = stats.rows_emitted
  BY <1>1 DEF DInv, TypeOK, Stats
<1>4. TypeOK' /\ InForce'
  <2>1. ri' \in Nat /\ any' \in BOOLEAN
    BY <1>1
  <2> QED BY <1>1, <1>3, <2>1 DEF DInv, TypeOK, InForce
<1>5. History'
  BY <1>1, <1>2 DEF DInv, History
<1>6. Running'
  <2>1. Len(rules) \in Nat
    BY RulesKnown DEF DInv
  <2> QED BY <1>1, <1>2, <2>1 DEF Running
<1>7. Matched'
  <2>1. \A kd : (Fired(kd, 0))' = {}
    BY DEF Fired
  <2>2. (MatchedUpTo(0))'
    BY <1>1, <1>2, <2>1 DEF MatchedUpTo
  <2> QED BY <1>1, <2>2 DEF Matched
<1>8. Accounted'
  BY <1>1, <1>3, SameRows DEF DInv, Accounted, RowsAccounted, RowsSince
<1> QED BY <1>2, <1>4, <1>5, <1>6, <1>7, <1>8 DEF DInv

LEMMA RunEndInv == ASSUME DInv, RunEnd PROVE DInv'
<1>1. /\ phase = "rules" /\ phase' = "idle"
      /\ stats' = IF any THEN [stats EXCEPT !.packets_matched_any = @ + 1] ELSE stats
      /\ UNCHANGED <<rules, perRule, tables, pkt, ri, any, runs, text, loaded, loads, marks>>
  BY DEF RunEnd, loadVars
<1>2. stats' \in Stats /\ stats'.rows_emitted = stats.rows_emitted
  <2>1. stats \in Stats
    BY DEF DInv, TypeOK
  <2>2. CASE any
    BY <1>1, <2>1, <2>2 DEF Stats
  <2>3. CASE ~any
    BY <1>1, <2>1, <2>3
  <2> QED BY <2>2, <2>3
<1>3. TypeOK' /\ InForce' /\ History' /\ Running' /\ Matched'
  BY <1>1, <1>2 DEF DInv, TypeOK, InForce, History, Running, Matched
<1>4. RowsKnown' /\ RowsInsidePacket'
  BY <1>1 DEF DInv, RowsKnown, RowsInsidePacket
<1>5. Accounted'
  BY <1>1, <1>2, SameRows DEF DInv, Accounted, RowsAccounted, RowsSince
<1> QED BY <1>3, <1>4, <1>5 DEF DInv

(* The next rule is evaluated: what there is of it before it has fired. *)
LEMMA RuleHere ==
  ASSUME DInv, phase = "rules", ri < Len(rules)
  PROVE  /\ ri \in Nat /\ ri + 1 \in 1..Len(rules) /\ Len(rules) \in Nat
         /\ RuleOK(rules[ri + 1]) /\ rules[ri + 1].rule_id = ri
         /\ pkt \in Packets /\ runs \in Seq(Packets) /\ Len(runs) \in Nat
         /\ runs # <<>> /\ pkt = runs[Len(runs)]
<1>1. Len(rules) \in Nat /\ \A k \in 1..Len(rules) : RuleOK(rules[k]) /\ rules[k].rule_id = k - 1
  BY RulesKnown DEF DInv
<1>2. /\ ri \in Nat /\ pkt \in Packets /\ runs \in Seq(Packets)
      /\ runs # <<>> /\ pkt = runs[Len(runs)]
  BY DEF DInv, TypeOK, History, Running
<1>3. ri + 1 \in 1..Len(rules) /\ (ri + 1) - 1 = ri
  BY <1>1, <1>2
<1> QED BY <1>1, <1>2, <1>3

LEMMA RowHere ==
  ASSUME DInv, NEW kd \in Kinds, NEW j \in 1..Len(tables[kd])
  PROVE  tables[kd][j] \in RowType
<1>1. tables[kd] \in Seq(RowType)
  BY DEF DInv, TypeOK
<1> QED BY <1>1

LEMMA FiredStep ==
  ASSUME NEW kd, NEW m \in Nat
  PROVE  Fired(kd, m + 1) =
           IF rules[m + 1].kind = kd /\ Fires(rules[m + 1])
           THEN Fired(kd, m) \cup Range(Emitted(rules[m + 1])) ELSE Fired(kd, m)
<1>1. \A x : x \in 1..(m + 1) <=> x \in 1..m \/ x = m + 1
  OBVIOUS
<1>2. ASSUME NEW r
      PROVE  r \in Fired(kd, m + 1) <=>
               \/ r \in Fired(kd, m)
               \/ /\ rules[m + 1].kind = kd /\ Fires(rules[m + 1])
                  /\ r \in Range(Emitted(rules[m + 1]))
  BY <1>1, Zenon DEF Fired
<1> QED BY <1>2

LEMMA RulePassInv == ASSUME DInv, RulePass PROVE DInv'
<1>1. /\ phase = "rules" /\ ri < Len(rules) /\ ~Fires(rules[ri + 1]) /\ ri' = ri + 1
      /\ stats' = [stats EXCEPT !.rules_evaluated = @ + 1]
      /\ UNCHANGED <<rules, perRule, tables, phase, pkt, any, runs, text, loaded, loads, marks>>
  BY DEF RulePass, loadVars
<1>2. ri \in Nat /\ Len(rules) \in Nat
  BY <1>1, RuleHere
<1>3. stats' \in Stats /\ stats'.rows_emitted = stats.rows_emitted
  <2>1. stats \in Stats
    BY DEF DInv, TypeOK
  <2> QED BY <1>1, <2>1 DEF Stats
<1>4. TypeOK' /\ InForce' /\ History'
  BY <1>1, <1>2, <1>3 DEF DInv, TypeOK, InForce, History
<1>5. Running'
  BY <1>1, <1>2 DEF DInv, Running
<1>6. RowsKnown' /\ RowsInsidePacket'
  BY <1>1 DEF DInv, RowsKnown, RowsInsidePacket
<1>7. Accounted'
  BY <1>1, <1>3, SameRows DEF DInv, Accounted, RowsAccounted, RowsSince
<1>8. Matched'
  <2>1. PICK m \in Nat : m = ri
    BY <1>2
  <2>2. MatchedUpTo(m)
    BY <1>1, <2>1 DEF DInv, Matched
  <2>3. ~Fires(rules[m + 1])
    BY <1>1, <2>1
  <2>4. MatchedUpTo(m + 1)
    <3>1. (\E k \in 1..(m + 1) : Fires(rules[k])) <=> (\E k \in 1..m : Fires(rules[k]))
      <4>1. \A x : x \in 1..(m + 1) <=> x \in 1..m \/ x = m + 1
        OBVIOUS
      <4> QED BY <2>3, <4>1
    <3>2. \A kd : Fired(kd, m + 1) = Fired(kd, m)
      BY <2>3, FiredStep
    <3>3. ASSUME NEW kd \in Kinds, NEW j \in RowsOfPacket(kd)
          PROVE  tables[kd][j].rule_id < m + 1
      <4>1. tables[kd][j].rule_id \in Nat /\ tables[kd][j].rule_id < m
        <5>1. j \in 1..Len(tables[kd])
          BY DEF RowsOfPacket
        <5>2. tables[kd][j] \in RowType
          BY <5>1, RowHere
        <5> QED BY <2>2, <5>2 DEF RowType, MatchedUpTo
      <4> QED BY <4>1
    <3> QED BY <2>2, <3>1, <3>2, <3>3 DEF MatchedUpTo
  <2>5. PICK q : q = m + 1
    OBVIOUS
  <2>6. (MatchedUpTo(q))'
    BY <1>1, <2>4, <2>5, SameMatch
  <2>7. ri' = q
    BY <1>1, <2>1, <2>5
  <2> QED BY <2>6, <2>7 DEF Matched
<1> QED BY <1>4, <1>5, <1>6, <1>7, <1>8 DEF DInv

Joined(t, r, s) ==
  /\ Len(s) = Len(t) + Len(r) /\ Len(t) \in Nat /\ Len(r) \in Nat
  /\ \A j \in 1..Len(t) : j \in 1..Len(s) /\ s[j] = t[j]
  /\ \A j \in (Len(t) + 1)..(Len(t) + Len(r)) :
       /\ j \in 1..Len(s) /\ j - Len(t) \in 1..Len(r)
       /\ s[j] = r[j - Len(t)]

LEMMA Concat ==
  ASSUME NEW S, NEW t \in Seq(S), NEW r \in Seq(S)
  PROVE  t \o r \in Seq(S) /\ Joined(t, r, t \o r)
<1>1. Len(t) \in Nat /\ Len(r) \in Nat
  OBVIOUS
<1>2. t \o r \in Seq(S) /\ Len(t \o r) = Len(t) + Len(r)
  OBVIOUS
<1>3. ASSUME NEW j \in 1..Len(t)
      PROVE  j \in 1..Len(t \o r) /\ (t \o r)[j] = t[j]
  BY <1>1, <1>2
<1>4. ASSUME NEW j \in (Len(t) + 1)..(Len(t) + Len(r))
      PROVE  /\ j \in 1..Len(t \o r) /\ j - Len(t) \in 1..Len(r)
             /\ (t \o r)[j] = r[j - Len(t)]
  <2>1. j \in 1..(Len(t) + Len(r)) /\ j - Len(t) \in 1..Len(r) /\ j > Len(t)
    BY <1>1
  <2> QED BY <1>1, <1>2, <2>1
<1> QED BY <1>1, <1>2, <1>3, <1>4, Zenon DEF Joined

LEMMA Split ==
  ASSUME NEW a \in Nat, NEW b \in Nat, NEW j \in 1..(a + b)
  PROVE  j \in 1..a \/ j \in (a + 1)..(a + b)
  OBVIOUS

(* A rule fires: its rows go behind those of its table. *)
NewRows == {rules[ri + 1].kind} \X
             ((Len(tables[rules[ri + 1].kind]) + 1)..
              (Len(tables[rules[ri + 1].kind]) + Len(Emitted(rules[ri + 1]))))

Grown(K, rows) ==
  /\ K \in Kinds /\ Len(tables[K]) \in Nat /\ Len(rows) \in Nat
  /\ tables' \in [Kinds -> Seq(RowType)]
  /\ Len(tables'[K]) = Len(tables[K]) + Len(rows)
  /\ \A kd \in Kinds : kd # K => tables'[kd] = tables[kd]
  /\ \A kd \in Kinds : \A j \in 1..Len(tables[kd]) :
       j \in 1..Len(tables'[kd]) /\ tables'[kd][j] = tables[kd][j]
  /\ \A j \in (Len(tables[K]) + 1)..(Len(tables[K]) + Len(rows)) :
       /\ j \in 1..Len(tables'[K]) /\ j - Len(tables[K]) \in 1..Len(rows)
       /\ tables'[K][j] = rows[j - Len(tables[K])]
  /\ \A j \in 1..Len(rows) :
       /\ rows[j] \in RowType
       /\ rows[j].packet_id = Len(runs) /\ rows[j].rule_id = ri /\ rows[j].index = j - 1
       /\ rows[j].at + rows[j].len <= pkt.size

LEMMA TableGrows ==
  ASSUME DInv, RuleFire,
         NEW K, K = rules[ri + 1].kind,
         NEW rows, rows = Emitted(rules[ri + 1])
  PROVE  Grown(K, rows)
<1>1. /\ phase = "rules" /\ ri < Len(rules) /\ Fires(rules[ri + 1])
      /\ tables' = [tables EXCEPT ![K] = @ \o rows]
  BY DEF RuleFire
<1>2. /\ RuleOK(rules[ri + 1]) /\ rules[ri + 1].rule_id = ri
      /\ pkt \in Packets /\ runs \in Seq(Packets)
  BY <1>1, RuleHere
<1>3. /\ rows \in Seq(RowType)
      /\ \A j \in 1..Len(rows) :
           /\ rows[j].packet_id = Len(runs) /\ rows[j].rule_id = ri /\ rows[j].index = j - 1
           /\ rows[j].at + rows[j].len <= pkt.size
  BY <1>1, <1>2, EmittedFacts
<1>4. K \in Kinds /\ tables \in [Kinds -> Seq(RowType)] /\ tables[K] \in Seq(RowType)
  BY <1>2 DEF RuleOK, DInv, TypeOK
<1> DEFINE s == tables[K] \o rows
<1>5. /\ s \in Seq(RowType) /\ Len(s) = Len(tables[K]) + Len(rows)
      /\ Len(tables[K]) \in Nat /\ Len(rows) \in Nat
      /\ \A j \in 1..Len(tables[K]) : j \in 1..Len(s) /\ s[j] = tables[K][j]
      /\ \A j \in (Len(tables[K]) + 1)..(Len(tables[K]) + Len(rows)) :
           /\ j \in 1..Len(s) /\ j - Len(tables[K]) \in 1..Len(rows)
           /\ s[j] = rows[j - Len(tables[K])]
  <2>1. s \in Seq(RowType) /\ Joined(tables[K], rows, s)
    BY <1>3, <1>4, Concat
  <2> HIDE DEF s
  <2> QED BY ONLY <2>1, Zenon DEF Joined
<1>6. \A j \in 1..Len(rows) : rows[j] \in RowType
  BY <1>3
<1>7. tables'[K] = s /\ \A kd \in Kinds : kd # K => tables'[kd] = tables[kd]
  BY <1>1, <1>4
<1> HIDE DEF s
<1>8. tables' \in [Kinds -> Seq(RowType)]
  <2>1. tables' = [tables EXCEPT ![K] = s]
    BY <1>1 DEF s
  <2> QED BY <1>4, <1>5, <2>1
<1>9. ASSUME NEW kd \in Kinds, NEW j \in 1..Len(tables[kd])
      PROVE  j \in 1..Len(tables'[kd]) /\ tables'[kd][j] = tables[kd][j]
  <2>1. CASE kd = K
    <3>1. j \in 1..Len(tables[K])
      BY <2>1
    <3> QED BY ONLY <1>5, <1>7, <2>1, <3>1, Zenon
  <2>2. CASE kd # K
    BY <1>7, <2>2
  <2> QED BY <2>1, <2>2
<1>10. ASSUME NEW j \in (Len(tables[K]) + 1)..(Len(tables[K]) + Len(rows))
       PROVE  /\ j \in 1..Len(tables'[K]) /\ j - Len(tables[K]) \in 1..Len(rows)
              /\ tables'[K][j] = rows[j - Len(tables[K])]
  BY <1>5, <1>7, Zenon
<1>11. Len(tables'[K]) = Len(tables[K]) + Len(rows)
  BY <1>5, <1>7, Zenon
<1> QED BY ONLY <1>3, <1>4, <1>5, <1>6, <1>7, <1>8, <1>9, <1>10, <1>11, Zenon DEF Grown

(* So a row is an old one, where it was, or one of the rule's. *)
LEMMA OldOrNew ==
  ASSUME DInv, RuleFire,
         NEW K, K = rules[ri + 1].kind,
         NEW rows, rows = Emitted(rules[ri + 1]),
         NEW kd \in Kinds, NEW j \in 1..Len(tables'[kd])
  PROVE  \/ j \in 1..Len(tables[kd]) /\ tables'[kd][j] = tables[kd][j]
         \/ kd = K /\ j \in (Len(tables[K]) + 1)..(Len(tables[K]) + Len(rows))
<1>1. /\ K \in Kinds /\ Len(tables[K]) \in Nat /\ Len(rows) \in Nat
      /\ Len(tables'[K]) = Len(tables[K]) + Len(rows)
      /\ \A x \in Kinds : x # K => tables'[x] = tables[x]
      /\ \A x \in Kinds : \A y \in 1..Len(tables[x]) : tables'[x][y] = tables[x][y]
  <2>1. Grown(K, rows)
    BY TableGrows, Zenon
  <2> QED BY ONLY <2>1, Zenon DEF Grown
<1>2. CASE kd # K
  BY <1>1, <1>2
<1>3. CASE kd = K
  <2>1. j \in 1..Len(tables[kd]) \/ j \in (Len(tables[K]) + 1)..(Len(tables[K]) + Len(rows))
    <3>1. j \in 1..(Len(tables[K]) + Len(rows))
      BY <1>1, <1>3, Zenon
    <3> QED BY ONLY <1>1, <1>3, <3>1, Split, Zenon
  <2> QED BY <1>1, <1>3, <2>1, Zenon
<1> QED BY <1>2, <1>3

LEMMA FireRows == ASSUME DInv, RuleFire PROVE RowsKnown' /\ RowsInsidePacket'
<1> DEFINE K == rules[ri + 1].kind
           rows == Emitted(rules[ri + 1])
<1>1. runs' = runs /\ phase = "rules" /\ ri < Len(rules)
  BY DEF RuleFire
<1>2. Len(runs) \in Nat /\ runs # <<>> /\ runs \in Seq(Packets) /\ pkt = runs[Len(runs)]
  BY <1>1, RuleHere
<1>3. /\ \A j \in (Len(tables[K]) + 1)..(Len(tables[K]) + Len(rows)) :
           /\ j - Len(tables[K]) \in 1..Len(rows)
           /\ tables'[K][j] = rows[j - Len(tables[K])]
      /\ \A j \in 1..Len(rows) :
           rows[j].packet_id = Len(runs) /\ rows[j].at + rows[j].len <= pkt.size
  <2>1. Grown(K, rows)
    BY TableGrows, Zenon
  <2> QED BY ONLY <2>1, Zenon DEF Grown
<1>4. \A kd \in Kinds : \A j \in 1..Len(tables'[kd]) :
        \/ j \in 1..Len(tables[kd]) /\ tables'[kd][j] = tables[kd][j]
        \/ kd = K /\ j \in (Len(tables[K]) + 1)..(Len(tables[K]) + Len(rows))
  BY OldOrNew
<1> HIDE DEF K, rows
<1>5. ASSUME NEW kd \in Kinds, NEW j \in 1..Len(tables'[kd])
      PROVE  /\ tables'[kd][j].packet_id \in 1..Len(runs)
             /\ tables'[kd][j].at + tables'[kd][j].len <= runs[tables'[kd][j].packet_id].size
  <2>1. CASE j \in 1..Len(tables[kd]) /\ tables'[kd][j] = tables[kd][j]
    BY <2>1 DEF DInv, RowsKnown, RowsInsidePacket
  <2>2. CASE kd = K /\ j \in (Len(tables[K]) + 1)..(Len(tables[K]) + Len(rows))
    <3>1. tables'[kd][j].packet_id = Len(runs) /\ tables'[kd][j].at + tables'[kd][j].len <= pkt.size
      BY <1>3, <2>2
    <3>2. Len(runs) \in 1..Len(runs)
      BY <1>2
    <3> QED BY <1>2, <3>1, <3>2
  <2> QED BY <1>4, <2>1, <2>2
<1> QED BY <1>1, <1>5 DEF RowsKnown, RowsInsidePacket


LEMMA NewRowsAre ==
  ASSUME DInv, RuleFire
  PROVE  /\ AllRows' = AllRows \cup NewRows /\ AllRows \cap NewRows = {}
         /\ IsFiniteSet(NewRows) /\ Cardinality(NewRows) = Len(Emitted(rules[ri + 1]))
<1> DEFINE K == rules[ri + 1].kind
           rows == Emitted(rules[ri + 1])
           L == Len(tables[K])
           M == Len(rows)
           new == (L + 1)..(L + M)
<1>1. Grown(K, rows)
  BY TableGrows, Zenon
<1>2. NewRows = {K} \X new
  BY DEF NewRows
<1>3. \A kd \in Kinds : \A j \in 1..Len(tables'[kd]) :
        j \in 1..Len(tables[kd]) \/ (kd = K /\ j \in new)
  BY OldOrNew
<1> HIDE DEF K, rows
<1>4. /\ K \in Kinds /\ L \in Nat /\ M \in Nat
      /\ \A kd \in Kinds : \A j \in 1..Len(tables[kd]) : j \in 1..Len(tables'[kd])
      /\ \A j \in new : j \in 1..Len(tables'[K])
  BY ONLY <1>1, Zenon DEF Grown
<1>5. \A j \in new : j \notin 1..L
  BY <1>4
<1> HIDE DEF new, L, M
<1>6. AllRows' = UNION {{kd} \X (1..Len(tables'[kd])) : kd \in Kinds}
  BY DEF AllRows
<1>7. AllRows' \subseteq AllRows \cup NewRows
  <2> SUFFICES ASSUME NEW x \in AllRows' PROVE x \in AllRows \cup NewRows
    OBVIOUS
  <2>1. PICK kd \in Kinds : x \in {kd} \X (1..Len(tables'[kd]))
    BY <1>6
  <2>2. PICK j \in 1..Len(tables'[kd]) : x = <<kd, j>>
    BY <2>1
  <2>3. CASE j \in 1..Len(tables[kd])
    BY <2>2, <2>3 DEF AllRows
  <2>4. CASE kd = K /\ j \in new
    BY <1>2, <2>2, <2>4
  <2> QED BY <1>3, <2>3, <2>4
<1>8. AllRows \cup NewRows \subseteq AllRows'
  <2>1. ASSUME NEW x \in AllRows PROVE x \in AllRows'
    <3>1. PICK kd \in Kinds : x \in {kd} \X (1..Len(tables[kd]))
      BY DEF AllRows
    <3>2. x \in {kd} \X (1..Len(tables'[kd]))
      BY <1>4, <3>1
    <3> QED BY <1>6, <3>2
  <2>2. ASSUME NEW x \in NewRows PROVE x \in AllRows'
    <3>1. x \in {K} \X (1..Len(tables'[K]))
      BY <1>2, <1>4
    <3> QED BY <1>4, <1>6, <3>1
  <2> QED BY <2>1, <2>2
<1>9. AllRows \cap NewRows = {}
  <2> SUFFICES ASSUME NEW x \in AllRows, x \in NewRows PROVE FALSE
    OBVIOUS
  <2>1. PICK kd \in Kinds : x \in {kd} \X (1..Len(tables[kd]))
    BY DEF AllRows
  <2>2. x[1] = kd /\ x[2] \in 1..Len(tables[kd]) /\ x[1] = K /\ x[2] \in new
    BY <1>2, <2>1
  <2> QED BY <1>5, <2>2 DEF L
<1>10. IsFiniteSet(NewRows) /\ Cardinality(NewRows) = M
  <2>1. IsFiniteSet(new) /\ Cardinality(new) = M
    <3>1. IsFiniteSet(new) /\ Cardinality(new) = IF L + 1 > L + M THEN 0 ELSE (L + M) - (L + 1) + 1
      BY <1>4, FS_Interval DEF new
    <3> QED BY <1>4, <3>1
  <2>2. IsFiniteSet({K}) /\ Cardinality({K}) = 1
    BY FS_Singleton
  <2>3. IsFiniteSet({K} \X new) /\ Cardinality({K} \X new) = 1 * M
    BY <2>1, <2>2, FS_Product
  <2> QED BY <1>2, <1>4, <2>3
<1> QED BY <1>7, <1>8, <1>9, <1>10 DEF M, rows

LEMMA Disjoint ==
  ASSUME NEW S, NEW T, IsFiniteSet(S), IsFiniteSet(T), S \cap T = {}
  PROVE  /\ IsFiniteSet(S \cup T) /\ Cardinality(S \cup T) = Cardinality(S) + Cardinality(T)
         /\ Cardinality(S) \in Nat /\ Cardinality(T) \in Nat
<1>1. Cardinality(S) \in Nat /\ Cardinality(T) \in Nat
  BY FS_CardinalityType
<1>2. IsFiniteSet(S \cup T) /\ Cardinality(S \cup T) = Cardinality(S) + Cardinality(T) - Cardinality(S \cap T)
  BY FS_Union
<1>3. Cardinality(S \cap T) = 0
  BY FS_EmptySet
<1> QED BY <1>1, <1>2, <1>3

LEMMA RowsSinceStep ==
  ASSUME DInv, RuleFire, NEW id
  PROVE  (RowsSince(id))' = IF id = ri THEN RowsSince(id) \cup NewRows ELSE RowsSince(id)
<1> DEFINE K == rules[ri + 1].kind
           rows == Emitted(rules[ri + 1])
           L == Len(tables[K])
           new == (L + 1)..(L + Len(rows))
<1>1. Grown(K, rows)
  BY TableGrows, Zenon
<1>2. NewRows = {K} \X new /\ AllRows' = AllRows \cup NewRows /\ AllRows \cap NewRows = {}
  BY NewRowsAre DEF NewRows
<1>3. marks' = marks
  BY DEF RuleFire, loadVars
<1> HIDE DEF K, rows
<1>4. /\ K \in Kinds /\ L \in Nat /\ Len(rows) \in Nat
      /\ \A kd \in Kinds : \A j \in 1..Len(tables[kd]) : tables'[kd][j] = tables[kd][j]
      /\ \A j \in new : j - L \in 1..Len(rows) /\ tables'[K][j] = rows[j - L]
      /\ \A j \in 1..Len(rows) : rows[j].rule_id = ri
  BY ONLY <1>1, Zenon DEF Grown
<1>5. marks[K] \in Nat /\ marks[K] <= L
  BY <1>4 DEF DInv, History
<1>6. \A j \in new : j > marks[K]
  BY <1>4, <1>5
<1> HIDE DEF L, new
<1>7. ASSUME NEW x \in AllRows PROVE tables'[x[1]][x[2]] = tables[x[1]][x[2]]
  <2>1. PICK kd \in Kinds : x \in {kd} \X (1..Len(tables[kd]))
    BY DEF AllRows
  <2>2. x[1] = kd /\ x[2] \in 1..Len(tables[kd])
    BY <2>1
  <2> QED BY <1>4, <2>2
<1>8. ASSUME NEW x \in NewRows PROVE x[2] > marks[x[1]] /\ tables'[x[1]][x[2]].rule_id = ri
  <2>1. x[1] = K /\ x[2] \in new
    BY <1>2
  <2> QED BY <1>4, <1>6, <2>1
<1>9. (RowsSince(id))' = {x \in AllRows' : x[2] > marks[x[1]] /\ tables'[x[1]][x[2]].rule_id = id}
  BY <1>3 DEF RowsSince
<1>10. CASE id = ri
  BY <1>2, <1>7, <1>8, <1>9, <1>10 DEF RowsSince
<1>11. CASE id # ri
  BY <1>2, <1>7, <1>8, <1>9, <1>11 DEF RowsSince
<1> QED BY <1>10, <1>11

(* The counters of a step that fires move by the rows it appends. *)
LEMMA FireCounters ==
  ASSUME DInv, RuleFire
  PROVE  /\ stats \in Stats /\ stats' \in Stats
         /\ stats'.rows_emitted = stats.rows_emitted + Len(Emitted(rules[ri + 1]))
         /\ perRule \in Seq(Stat) /\ perRule' \in Seq(Stat) /\ Len(perRule') = Len(perRule)
         /\ \A k \in 1..Len(perRule) :
              perRule'[k].rows_emitted =
                IF k = ri + 1 THEN perRule[k].rows_emitted + Len(Emitted(rules[ri + 1]))
                ELSE perRule[k].rows_emitted
<1> DEFINE rows == Emitted(rules[ri + 1])
<1>1. /\ phase = "rules" /\ ri < Len(rules)
      /\ perRule' = [perRule EXCEPT ![rules[ri + 1].rule_id + 1] =
                       [matched |-> @.matched + 1, rows_emitted |-> @.rows_emitted + Len(rows)]]
      /\ stats' = [stats EXCEPT !.rules_evaluated = @ + 1, !.rows_emitted = @ + Len(rows)]
  BY DEF RuleFire
<1>2. ri \in Nat /\ ri + 1 \in 1..Len(rules) /\ rules[ri + 1].rule_id = ri
  BY <1>1, RuleHere
<1>3. Len(rows) \in Nat
  <2>1. Grown(rules[ri + 1].kind, rows)
    BY TableGrows, Zenon
  <2> QED BY ONLY <2>1 DEF Grown
<1> HIDE DEF rows
<1>4. stats \in Stats /\ perRule \in Seq(Stat) /\ Len(perRule) = Len(rules)
  BY DEF DInv, TypeOK
<1>5. stats' \in Stats /\ stats'.rows_emitted = stats.rows_emitted + Len(rows)
  <2> DEFINE counted == [stats EXCEPT !.rules_evaluated = @ + 1]
  <2>1. counted \in Stats /\ counted.rows_emitted = stats.rows_emitted
    BY <1>4 DEF Stats
  <2>2. stats' = [counted EXCEPT !.rows_emitted = @ + Len(rows)]
    BY <1>1
  <2> HIDE DEF counted
  <2>3. stats' \in Stats /\ stats'.rows_emitted = counted.rows_emitted + Len(rows)
    BY <1>3, <2>1, <2>2 DEF Stats
  <2> QED BY <2>1, <2>3
<1>6. PICK n \in 1..Len(perRule) : n = ri + 1
  BY <1>2, <1>4
<1> DEFINE new == [matched |-> perRule[n].matched + 1, rows_emitted |-> perRule[n].rows_emitted + Len(rows)]
<1>7. perRule[n] \in Stat
  BY <1>4, <1>6
<1>8. new \in Stat /\ new.rows_emitted = perRule[n].rows_emitted + Len(rows)
  BY <1>3, <1>7 DEF Stat
<1>9. perRule' = [perRule EXCEPT ![n] = new]
  BY <1>1, <1>2, <1>6
<1> HIDE DEF new
<1>10. /\ perRule' \in Seq(Stat) /\ Len(perRule') = Len(perRule)
       /\ \A k \in 1..Len(perRule) : perRule'[k] = IF k = n THEN new ELSE perRule[k]
  <2> HIDE DEF Stat
  <2> QED BY <1>4, <1>6, <1>8, <1>9
<1> QED BY <1>4, <1>5, <1>6, <1>8, <1>10 DEF rows

LEMMA FireAccounted == ASSUME DInv, RuleFire PROVE Accounted'
<1> DEFINE M == Len(Emitted(rules[ri + 1]))
<1>1. /\ AllRows' = AllRows \cup NewRows /\ AllRows \cap NewRows = {}
      /\ IsFiniteSet(NewRows) /\ Cardinality(NewRows) = M
  BY NewRowsAre
<1>2. /\ stats'.rows_emitted = stats.rows_emitted + M
      /\ Len(perRule') = Len(perRule)
      /\ \A k \in 1..Len(perRule) :
           perRule'[k].rows_emitted =
             IF k = ri + 1 THEN perRule[k].rows_emitted + M ELSE perRule[k].rows_emitted
  BY FireCounters
<1>3. /\ IsFiniteSet(AllRows) /\ stats.rows_emitted = Cardinality(AllRows)
      /\ \A k \in 1..Len(perRule) : perRule[k].rows_emitted = Cardinality(RowsSince(k - 1))
  BY DEF DInv, Accounted, RowsAccounted
<1>4. ri \in Nat
  BY DEF DInv, TypeOK
<1> HIDE DEF M
<1>5. IsFiniteSet(AllRows') /\ Cardinality(AllRows') = Cardinality(AllRows) + M
  BY <1>1, <1>3, Disjoint
<1>6. stats'.rows_emitted = Cardinality(AllRows')
  BY <1>2, <1>3, <1>5
<1>7. ASSUME NEW k \in 1..Len(perRule) PROVE perRule'[k].rows_emitted = (Cardinality(RowsSince(k - 1)))'
  <2>1. PICK id \in Int : id = k - 1
    OBVIOUS
  <2>2. (RowsSince(id))' = IF id = ri THEN RowsSince(id) \cup NewRows ELSE RowsSince(id)
    BY RowsSinceStep
  <2>3. perRule[k].rows_emitted = Cardinality(RowsSince(id))
    BY <1>3, <2>1
  <2>4. (RowsSince(k - 1))' = (RowsSince(id))'
    BY <2>1 DEF RowsSince
  <2>5. CASE id = ri
    <3>1. RowsSince(id) \subseteq AllRows
      BY DEF RowsSince
    <3>2. IsFiniteSet(RowsSince(id)) /\ RowsSince(id) \cap NewRows = {}
      BY <1>1, <1>3, <3>1, FS_Subset
    <3>3. Cardinality(RowsSince(id) \cup NewRows) = Cardinality(RowsSince(id)) + M
      BY <1>1, <3>2, Disjoint
    <3>4. k = ri + 1
      BY <1>4, <2>1, <2>5
    <3> QED BY <1>2, <2>2, <2>3, <2>4, <2>5, <3>3, <3>4
  <2>6. CASE id # ri
    <3>1. k # ri + 1
      BY <1>4, <2>1, <2>6
    <3> QED BY <1>2, <2>2, <2>3, <2>4, <2>6, <3>1
  <2> QED BY <2>5, <2>6
<1> QED BY <1>2, <1>5, <1>6, <1>7 DEF Accounted, RowsAccounted

(* The rows of the packet are joined by those of the rule. *)
LEMMA PacketRows ==
  ASSUME DInv, RuleFire, NEW K, K = rules[ri + 1].kind,
         NEW rows, rows = Emitted(rules[ri + 1]), NEW kd \in Kinds
  PROVE  (RowsOfPacket(kd))' =
           IF kd = K THEN RowsOfPacket(kd) \cup ((Len(tables[K]) + 1)..(Len(tables[K]) + Len(rows)))
           ELSE RowsOfPacket(kd)
<1> DEFINE L == Len(tables[K])
           new == (L + 1)..(L + Len(rows))
<1>1. /\ \A j \in 1..Len(tables[kd]) : j \in 1..Len(tables'[kd]) /\ tables'[kd][j] = tables[kd][j]
      /\ \A j \in new : /\ j \in 1..Len(tables'[K]) /\ j - L \in 1..Len(rows)
                        /\ tables'[K][j] = rows[j - L]
      /\ \A j \in 1..Len(rows) : rows[j].packet_id = Len(runs)
  <2>1. Grown(K, rows)
    BY TableGrows, Zenon
  <2> QED BY ONLY <2>1, kd \in Kinds, Zenon DEF Grown
<1>2. \A j \in 1..Len(tables'[kd]) : j \in 1..Len(tables[kd]) \/ (kd = K /\ j \in new)
  BY OldOrNew
<1>3. runs' = runs
  BY DEF RuleFire
<1> HIDE DEF new, L
<1>4. (RowsOfPacket(kd))' = {j \in 1..Len(tables'[kd]) : tables'[kd][j].packet_id = Len(runs)}
  BY <1>3 DEF RowsOfPacket
<1>5. CASE kd = K
  <2>1. ASSUME NEW j
        PROVE  j \in (RowsOfPacket(kd))' <=> j \in RowsOfPacket(kd) \/ j \in new
    BY <1>1, <1>2, <1>4, <1>5, Zenon DEF RowsOfPacket
  <2> QED BY <1>5, <2>1 DEF new, L
<1>6. CASE kd # K
  <2>1. ASSUME NEW j
        PROVE  j \in (RowsOfPacket(kd))' <=> j \in RowsOfPacket(kd)
    BY <1>1, <1>2, <1>4, <1>6, Zenon DEF RowsOfPacket
  <2> QED BY <1>6, <2>1
<1> QED BY <1>5, <1>6

LEMMA FireMatched == ASSUME DInv, RuleFire PROVE Matched'
<1>1. /\ phase = "rules" /\ ri < Len(rules) /\ Fires(rules[ri + 1])
      /\ any' = TRUE /\ ri' = ri + 1 /\ rules' = rules /\ pkt' = pkt /\ runs' = runs
  BY DEF RuleFire
<1>2. ri \in Nat
  BY <1>1, RuleHere
<1>3. PICK m \in Nat : m = ri
  BY <1>2
<1>4. PICK q : q = m + 1
  OBVIOUS
<1>5. PICK K : K = rules[q].kind
  OBVIOUS
<1>6. PICK rows : rows = Emitted(rules[q])
  OBVIOUS
<1>7. K = rules[ri + 1].kind /\ rows = Emitted(rules[ri + 1]) /\ q = ri + 1 /\ Fires(rules[q])
  BY <1>1, <1>3, <1>4, <1>5, <1>6
<1>8. MatchedUpTo(m)
  BY <1>1, <1>3 DEF DInv, Matched
<1>9. Grown(K, rows)
  BY ONLY DInv, RuleFire, <1>7, TableGrows, Zenon
<1>10. \A rule : (Emitted(rule))' = Emitted(rule) /\ (Fires(rule))' = Fires(rule)
  BY <1>1, SameRun
<1>11. (any <=> \E k \in 1..q : Fires(rules[k]))'
  <2>1. q \in 1..q
    BY <1>4
  <2> QED BY <1>1, <1>7, <1>10, <2>1
<1> DEFINE L == Len(tables[K])
           new == (L + 1)..(L + Len(rows))
<1>12. /\ K \in Kinds /\ L \in Nat /\ Len(rows) \in Nat
       /\ \A kd \in Kinds : \A j \in 1..Len(tables[kd]) : tables'[kd][j] = tables[kd][j]
       /\ \A j \in new : j - L \in 1..Len(rows) /\ tables'[K][j] = rows[j - L]
       /\ \A j \in 1..Len(rows) : rows[j] \in RowType /\ rows[j].rule_id = ri /\ rows[j].index = j - 1
  BY ONLY <1>9, Zenon DEF Grown
<1>13. \A kd \in Kinds :
         (RowsOfPacket(kd))' = IF kd = K THEN RowsOfPacket(kd) \cup new ELSE RowsOfPacket(kd)
  BY <1>7, PacketRows
<1>14. \A j \in 1..Len(rows) : L + j \in new /\ (L + j) - L = j
  BY <1>12
<1>15. \A i \in 1..L : \A j \in new : ~(j < i)
  BY <1>12
<1>16. \A i, j \in new : i < j => i - L < j - L /\ (i - L) - 1 < (j - L) - 1
  BY <1>12
<1> HIDE DEF L, new
<1>17. \A kd \in Kinds : \A j \in RowsOfPacket(kd) :
         /\ j \in 1..Len(tables[kd]) /\ tables'[kd][j] = tables[kd][j]
         /\ tables[kd][j].rule_id \in Nat /\ tables[kd][j].rule_id < m
  <2> SUFFICES ASSUME NEW kd \in Kinds, NEW j \in RowsOfPacket(kd)
               PROVE  /\ j \in 1..Len(tables[kd]) /\ tables'[kd][j] = tables[kd][j]
                      /\ tables[kd][j].rule_id \in Nat /\ tables[kd][j].rule_id < m
    OBVIOUS
  <2>1. j \in 1..Len(tables[kd])
    BY DEF RowsOfPacket
  <2>2. tables[kd][j] \in RowType
    BY <2>1, RowHere
  <2> QED BY <1>8, <1>12, <2>1, <2>2 DEF RowType, MatchedUpTo
<1>18. \A j \in new : /\ j - L \in 1..Len(rows) /\ tables'[K][j] = rows[j - L]
                      /\ tables'[K][j].rule_id = m /\ tables'[K][j].index = (j - L) - 1
  BY <1>3, <1>12
<1>19. ASSUME NEW kd \in Kinds
       PROVE  ({tables[kd][j] : j \in RowsOfPacket(kd)} = Fired(kd, q))'
  <2>1. (Fired(kd, q))' = Fired(kd, q)
    BY <1>1, <1>10 DEF Fired
  <2>2. Fired(kd, q) = IF kd = K THEN Fired(kd, m) \cup Range(rows) ELSE Fired(kd, m)
    BY <1>4, <1>5, <1>6, <1>7, FiredStep
  <2>3. {tables[kd][j] : j \in RowsOfPacket(kd)} = Fired(kd, m)
    BY <1>8 DEF MatchedUpTo
  <2>4. Range(rows) = {tables'[K][j] : j \in new}
    <3>1. Range(rows) = {rows[j] : j \in 1..Len(rows)}
      <4>1. rows \in Seq(RowType)
        BY <1>1, <1>7, RuleHere, EmittedFacts
      <4> QED BY <4>1 DEF Range
    <3> QED BY <1>14, <1>18, <3>1
  <2>5. {tables'[kd][j] : j \in RowsOfPacket(kd)} = {tables[kd][j] : j \in RowsOfPacket(kd)}
    BY <1>17
  <2>6. CASE kd = K
    BY <1>13, <2>1, <2>2, <2>3, <2>4, <2>5, <2>6
  <2>7. CASE kd # K
    BY <1>13, <2>1, <2>2, <2>3, <2>5, <2>7
  <2> QED BY <2>6, <2>7
<1>20. ASSUME NEW kd \in Kinds
       PROVE  (\A j \in RowsOfPacket(kd) : tables[kd][j].rule_id < q)'
  <2> SUFFICES ASSUME NEW j \in (RowsOfPacket(kd))' PROVE tables'[kd][j].rule_id < m + 1
    BY <1>4
  <2>1. CASE j \in RowsOfPacket(kd)
    BY <1>17, <2>1
  <2>2. CASE kd = K /\ j \in new
    BY <1>18, <2>2
  <2> QED BY <1>13, <2>1, <2>2
<1>21. ASSUME NEW kd \in Kinds
       PROVE  (\A j, k \in RowsOfPacket(kd) : j < k => Precedes(tables[kd][j], tables[kd][k]))'
  <2> SUFFICES ASSUME NEW j \in (RowsOfPacket(kd))', NEW k \in (RowsOfPacket(kd))', j < k
               PROVE  Precedes(tables'[kd][j], tables'[kd][k])
    BY DEF Precedes
  <2>1. CASE j \in RowsOfPacket(kd) /\ k \in RowsOfPacket(kd)
    <3>1. Precedes(tables[kd][j], tables[kd][k])
      BY <1>8, <2>1 DEF MatchedUpTo
    <3> QED BY <1>17, <2>1, <3>1
  <2>2. CASE j \in RowsOfPacket(kd) /\ kd = K /\ k \in new
    BY <1>17, <1>18, <2>2 DEF Precedes
  <2>3. CASE j \in new /\ kd = K /\ k \in RowsOfPacket(kd)
    BY <1>15, <1>17, <2>3 DEF L
  <2>4. CASE j \in new /\ kd = K /\ k \in new
    <3>1. (j - L) - 1 < (k - L) - 1
      BY <1>16, <2>4
    <3> QED BY <1>18, <2>4, <3>1 DEF Precedes
  <2> QED BY <1>13, <2>1, <2>2, <2>3, <2>4
<1>22. (MatchedUpTo(q))'
  BY <1>11, <1>19, <1>20, <1>21 DEF MatchedUpTo
<1>23. ri' = q
  BY <1>1, <1>7
<1> QED BY <1>22, <1>23 DEF Matched

LEMMA RuleFireInv == ASSUME DInv, RuleFire PROVE DInv'
<1>1. /\ phase = "rules" /\ ri < Len(rules) /\ any' = TRUE /\ ri' = ri + 1
      /\ UNCHANGED <<rules, phase, pkt, runs, text, loaded, loads, marks>>
  BY DEF RuleFire, loadVars
<1>2. ri \in Nat /\ Len(rules) \in Nat
  BY <1>1, RuleHere
<1>3. stats' \in Stats /\ perRule' \in Seq(Stat) /\ Len(perRule') = Len(perRule)
  BY FireCounters
<1>4. /\ tables' \in [Kinds -> Seq(RowType)]
      /\ \A kd \in Kinds : \A j \in 1..Len(tables[kd]) : j \in 1..Len(tables'[kd])
  <2>1. Grown(rules[ri + 1].kind, Emitted(rules[ri + 1]))
    BY TableGrows, Zenon
  <2> QED BY ONLY <2>1, Zenon DEF Grown
<1>5. TypeOK' /\ InForce'
  BY <1>1, <1>2, <1>3, <1>4 DEF DInv, TypeOK, InForce
<1>6. History'
  <2>1. runs \in Seq(Packets) /\ marks \in [Kinds -> Nat] /\ \A kd \in Kinds : marks[kd] <= Len(tables[kd])
    BY DEF DInv, History
  <2>2. ASSUME NEW kd \in Kinds PROVE marks[kd] <= Len(tables'[kd])
    <3>1. Len(tables[kd]) \in Nat /\ Len(tables'[kd]) \in Nat /\ marks[kd] \in Nat
      BY <1>4, <2>1 DEF DInv, TypeOK
    <3>2. Len(tables[kd]) > 0 => Len(tables[kd]) \in 1..Len(tables'[kd])
      BY <1>4, <3>1
    <3> QED BY <2>1, <3>1, <3>2
  <2> QED BY <1>1, <2>1, <2>2 DEF History
<1>7. Running'
  BY <1>1, <1>2 DEF DInv, Running
<1> QED BY <1>5, <1>6, <1>7, FireRows, FireMatched, FireAccounted DEF DInv

LEMMA NextDInv == DInv /\ [Next]_vars => DInv'
<1> SUFFICES ASSUME DInv, [Next]_vars PROVE DInv'
  OBVIOUS
<1>1. ASSUME NEW t \in Texts, load_rules(t) PROVE DInv'
  BY <1>1, LoadInv
<1>2. ASSUME NEW p \in Packets, RunEmpty(p) PROVE DInv'
  BY <1>2, RunEmptyInv
<1>3. ASSUME NEW p \in Packets, RunBegin(p) PROVE DInv'
  BY <1>3, RunBeginInv
<1>4. CASE RulePass
  BY <1>4, RulePassInv
<1>5. CASE RuleFire
  BY <1>5, RuleFireInv
<1>6. CASE RunEnd
  BY <1>6, RunEndInv
<1>7. CASE UNCHANGED vars
  <2>1. UNCHANGED <<rules, stats, perRule, tables, phase, pkt, ri, any, runs, text, loaded, loads, marks>>
    BY <1>7 DEF vars, engineVars, runVars, loadVars
  <2>2. TypeOK' /\ InForce' /\ History' /\ Running' /\ RowsKnown' /\ RowsInsidePacket'
    BY <2>1 DEF DInv, TypeOK, InForce, History, Running, RowsKnown, RowsInsidePacket
  <2>3. Accounted'
    BY <2>1, SameRows DEF DInv, Accounted, RowsAccounted, RowsSince
  <2>4. Matched'
    <3>1. ri \in Nat
      BY DEF DInv, TypeOK
    <3>2. PICK m \in Nat : m = ri
      BY <3>1
    <3>3. phase = "rules" => (MatchedUpTo(m))'
      BY <2>1, <3>2, SameMatch DEF DInv, Matched
    <3> QED BY <2>1, <3>2, <3>3 DEF Matched
  <2> QED BY <2>2, <2>3, <2>4 DEF DInv
<1> QED BY <1>1, <1>2, <1>3, <1>4, <1>5, <1>6, <1>7 DEF Next, Run

LEMMA SpecDInv == Spec => []DInv
  BY InitDInv, NextDInv, PTL DEF Spec

-----------------------------------------------------------------------------
(* The engine is type correct, and per_rule has an element for the rule_id  *)
(* of every rule dpar_match may count, whatever texts are loaded.           *)
THEOREM DparTypeOK == Spec => []TypeOK
<1>1. DInv => TypeOK
  BY DEF DInv
<1> QED BY <1>1, SpecDInv, PTL

(* EngineStats counts the rows there are: the total those of all tables,    *)
(* per_rule those a rule appended since the load_rules that brought it, for *)
(* every sequence of reloads, failed or not, and of packets.                *)
THEOREM DparRowsAccounted == Spec => []RowsAccounted
<1>1. DInv => RowsAccounted
  BY DEF DInv, Accounted
<1> QED BY <1>1, SpecDInv, PTL

(* No row that a parser of the palette emits describes bytes outside of its *)
(* packet, whatever lengths and data offsets the packet claims.             *)
THEOREM DparRowsInsidePacket == Spec => []RowsInsidePacket
<1>1. DInv => RowsInsidePacket
  BY DEF DInv
<1> QED BY <1>1, SpecDInv, PTL

(* At the end of dpar_match's loop the rows of the packet are the records   *)
(* behind the innermost anchor of every rule whose predicates hold of the   *)
(* innermost PDUs, in rule order and parser order, and the packet counts as *)
(* matched if such a rule has its region.  A rule that matches without its  *)
(* region has no rows; whether it counts is left open.                      *)
THEOREM DparAllMatch == Spec => []AllMatch
<1>1. ASSUME DInv PROVE AllMatch
  <2> DEFINE due(kd) == UNION {RowsOf(rules[i]) : i \in {x \in 1..Len(rules) :
                                rules[x].kind = kd /\ Matches(rules[x])}}
  <2> SUFFICES ASSUME phase = "rules", ri = Len(rules)
               PROVE  /\ any => \E i \in 1..Len(rules) : Matches(rules[i])
                      /\ (\E i \in 1..Len(rules) : Matches(rules[i]) /\ AnchorsOf(rules[i]) # {}) => any
                      /\ \A kd \in Kinds :
                           /\ {tables[kd][j] : j \in RowsOfPacket(kd)} = due(kd)
                           /\ \A j, k \in RowsOfPacket(kd) :
                                j < k => Precedes(tables[kd][j], tables[kd][k])
    BY Zenon DEF AllMatch
  <2>1. MatchedUpTo(Len(rules))
    BY <1>1 DEF DInv, Matched
  <2>2. \A k : /\ Fires(rules[k]) <=> Matches(rules[k]) /\ AnchorsOf(rules[k]) # {}
               /\ Fires(rules[k]) => RowsOf(rules[k]) = Range(Emitted(rules[k]))
               /\ AnchorsOf(rules[k]) = {} => RowsOf(rules[k]) = {}
    <3>1. pkt \in Packets
      BY <1>1 DEF DInv, TypeOK
    <3> QED BY <3>1, FiresIff
  <2>3. any <=> \E i \in 1..Len(rules) : Fires(rules[i])
    BY <2>1, Zenon DEF MatchedUpTo
  <2>4. ASSUME NEW kd \in Kinds PROVE due(kd) = Fired(kd, Len(rules))
    <3>1. \A row : row \in due(kd) <=> row \in Fired(kd, Len(rules))
      <4>1. \A row : row \in due(kd) <=>
              \E k \in 1..Len(rules) : rules[k].kind = kd /\ Matches(rules[k]) /\ row \in RowsOf(rules[k])
        BY Zenon
      <4>2. \A row : row \in Fired(kd, Len(rules)) <=>
              \E k \in 1..Len(rules) : rules[k].kind = kd /\ Fires(rules[k]) /\ row \in Range(Emitted(rules[k]))
        BY Zenon DEF Fired
      <4>3. \A row, k : Matches(rules[k]) /\ row \in RowsOf(rules[k]) <=>
                        Fires(rules[k]) /\ row \in Range(Emitted(rules[k]))
        BY <2>2
      <4> HIDE DEF due
      <4> QED BY <4>1, <4>2, <4>3, Zenon
    <3> HIDE DEF due
    <3> QED BY <3>1
  <2> HIDE DEF due
  <2>5. \A kd \in Kinds : {tables[kd][j] : j \in RowsOfPacket(kd)} = due(kd)
    BY <2>1, <2>4, Zenon DEF MatchedUpTo
  <2>6. \A kd \in Kinds : \A j, k \in RowsOfPacket(kd) :
          j < k => Precedes(tables[kd][j], tables[kd][k])
    BY <2>1, Zenon DEF MatchedUpTo
  <2>7. any => \E i \in 1..Len(rules) : Matches(rules[i])
    BY <2>2, <2>3
  <2>8. (\E i \in 1..Len(rules) : Matches(rules[i]) /\ AnchorsOf(rules[i]) # {}) => any
    BY <2>2, <2>3
  <2> QED BY <2>5, <2>6, <2>7, <2>8, Zenon
<1> QED BY <1>1, SpecDInv, PTL

(* The rules in force compare every value a field can have as the numbers   *)
(* of their text say, except for the operands that parse_u64 changes into   *)
(* others which fit the field (~Distinct): those compile without an error,  *)
(* and nothing is shown of them.                                            *)
THEOREM DparRulesMeanText == Spec => []RulesMeanText
<1>1. DInv => RulesMeanText
  BY RulesMean DEF DInv
<1> QED BY <1>1, SpecDInv, PTL
=============================================================================
