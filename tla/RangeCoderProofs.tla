-------------------------- MODULE RangeCoderProofs --------------------------
(***************************************************************************)
(* Proofs about the range coder, for every digit base (256 in the code),   *)
(* every buffer size, every set of count tables that tile their total, and *)
(* messages of every length.                                               *)
(*                                                                         *)
(* That the two ends agree is not an invariant of their registers alone.   *)
(* The argument is about the sequence of intervals the message goes        *)
(* through, with a low end that grows without bound: `FullLow` puts it     *)
(* together from the digits that left low, so that a carry, a run of       *)
(* pending bytes and the 32-bit word are all one number.  The encoder      *)
(* walks that history (EncSaid), its finished digits point into the last   *)
(* interval and hence into all of them (PointsIntoAll), and the decoder    *)
(* walks it again (DecSaid) with a code word that is the distance of those *)
(* digits from the low end.                                                *)
(***************************************************************************)
EXTENDS RangeCoder, SequenceTheorems, WellFoundedInduction, TLAPS

-----------------------------------------------------------------------------
(* Arithmetic of the word sizes. *)

\* TOT, TOP and WORD are naturals, each a digit wider than the one before.
LEMMA Sizes ==
    /\ Base \in Nat /\ Base >= 2
    /\ TOT \in Nat /\ TOP \in Nat /\ WORD \in Nat
    /\ TOT = Base * Base /\ TOP = Base * TOT /\ WORD = Base * TOP
    /\ TOT >= 2 * Base /\ TOP >= 2 * TOT /\ WORD >= 2 * TOP
    /\ TOT > 0 /\ TOP > 0 /\ WORD > 0
<1>1. Base \in Nat /\ Base >= 2
    BY BaseAssumption
<1>2. \A x \in Nat : Base * x \in Nat /\ Base * x >= 2 * x
    BY <1>1
<1>3. TOT \in Nat /\ TOT >= 2 * Base
    BY <1>1, <1>2 DEF TOT
<1>4. TOP \in Nat /\ TOP >= 2 * TOT
    BY <1>2, <1>3 DEF TOP
<1>5. WORD \in Nat /\ WORD >= 2 * TOP
    BY <1>2, <1>4 DEF WORD
<1> QED
    BY <1>1, <1>3, <1>4, <1>5 DEF TOT, TOP, WORD

\* Division with remainder.
LEMMA DivMod ==
    ASSUME NEW a \in Nat, NEW b \in Nat, b > 0
    PROVE  /\ a \div b \in Nat /\ a % b \in 0 .. b - 1
           /\ a = b * (a \div b) + (a % b)
    OBVIOUS

\* Multiplication by a natural is monotone.
LEMMA MulMono ==
    ASSUME NEW a \in Nat, NEW b \in Nat, NEW c \in Nat, a <= b
    PROVE  a * c <= b * c /\ c * a <= c * b /\ a * c \in Nat /\ c * a = a * c
    OBVIOUS

\* One digit more: x below y gives Base * x below Base * y by a whole digit.
LEMMA ShiftMono ==
    ASSUME NEW x \in Nat, NEW y \in Nat, x < y
    PROVE  x * Base <= y * Base - Base /\ x * Base \in Nat
    BY BaseAssumption

\* The quotient of division is the largest multiple that fits.
LEMMA DivBound ==
    ASSUME NEW a \in Nat, NEW b \in Nat, b > 0, NEW k \in Nat, k * b <= a
    PROVE  k <= a \div b
    BY DivMod

-----------------------------------------------------------------------------
(* The encoder.  CarryAbsorbed alone is not inductive: whether a carry can  *)
(* still come depends on how far the interval reaches, low + range, until   *)
(* tq_ac_enc_finish has chosen a single point of it.                        *)

CarryRoom(w) ==
    /\ low + w <= 2 * WORD
    /\ low + w > WORD => primed /\ cache < Base - 1

EncInv ==
    /\ EncTypeOK
    /\ RangeFloor
    /\ CarryAbsorbed
    /\ epc \in {"ready", "renorm"} => CarryRoom(range)

\* tq_ac_put leaves a sequence of bytes in the buffer.
LEMMA PutType ==
    ASSUME NEW s \in Seq(Byte), buf \in Seq(Byte), overflow \in BOOLEAN,
           cap \in Caps, tq_ac_put(s)
    PROVE  buf' \in Seq(Byte) /\ overflow' \in BOOLEAN
<1>1. buf \o s \in Seq(Byte)
    OBVIOUS
<1>2. CASE Len(buf \o s) <= cap
    BY <1>1, <1>2 DEF tq_ac_put
<1>3. CASE ~ (Len(buf \o s) <= cap)
    <2>1. buf' = SubSeq(buf \o s, 1, cap) /\ overflow' = TRUE
        BY <1>3 DEF tq_ac_put
    <2>2. SubSeq(buf \o s, 1, cap) \in Seq(Byte)
        BY <1>1, <1>3, CapAssumption
    <2> QED
        BY <2>1, <2>2
<1> QED
    BY <1>2, <1>3

\* The bytes that settle are bytes.
LEMMA SettledType ==
    ASSUME NEW c \in Nat, cache \in Byte, pending \in Nat, primed \in BOOLEAN
    PROVE  Settled(c) \in Seq(Byte)
<1>1. (cache + c) % Base \in Byte /\ (Base - 1 + c) % Base \in Byte
    BY Sizes, DivMod DEF Byte
<1>2. [i \in 1 .. pending |-> (Base - 1 + c) % Base] \in Seq(Byte)
    BY <1>1
<1>3. (IF primed THEN <<(cache + c) % Base>> ELSE <<>>) \in Seq(Byte)
    BY <1>1
<1> QED
    BY <1>2, <1>3 DEF Settled

\* tq_ac_shift_low keeps the invariant when the width grows by a digit too.
LEMMA ShiftLowStep ==
    ASSUME EncTypeOK, NEW w \in Nat, w >= 1, CarryRoom(w), tq_ac_shift_low
    PROVE  /\ low' \in 0 .. WORD - Base
           /\ cache' \in Byte /\ pending' \in Nat /\ primed' \in BOOLEAN
           /\ overflow' \in BOOLEAN /\ buf' \in Seq(Byte)
           /\ low' + w * Base > WORD => primed' /\ cache' < Base - 1
<1> DEFINE d == low \div TOP
           m == low % TOP
<1>1. /\ low \in Nat /\ low < 2 * WORD
      /\ cache \in Byte /\ pending \in Nat /\ primed \in BOOLEAN
      /\ overflow \in BOOLEAN /\ buf \in Seq(Byte) /\ cap \in Caps
    BY Sizes DEF EncTypeOK
<1>2. d \in Nat /\ m \in 0 .. TOP - 1 /\ low = TOP * d + m
    BY <1>1, Sizes, DivMod
<1>3. m \in Nat /\ m < TOP /\ d \in Nat
    BY <1>2, Sizes
<1> HIDE DEF d, m
<1>4. low' = m * Base /\ m * Base \in 0 .. WORD - Base
    <2>1. low' = m * Base
        BY DEF tq_ac_shift_low, m
    <2>2. m * Base <= TOP * Base - Base /\ m * Base \in Nat
        BY <1>3, ShiftMono, Sizes
    <2> QED
        BY <2>1, <2>2, Sizes
<1>5. CASE CanSettle
    <2>1. /\ tq_ac_put(Settled(low \div WORD))
          /\ cache' = d % Base /\ primed' = TRUE /\ pending' = 0
        BY <1>5 DEF tq_ac_shift_low, d
    <2>2. buf' \in Seq(Byte) /\ overflow' \in BOOLEAN
        <3>1. low \div WORD \in Nat
            BY <1>1, Sizes, DivMod
        <3> QED
            BY <1>1, <2>1, <3>1, SettledType, PutType
    <2>3. d % Base \in Byte
        BY <1>2, <1>3, Sizes, DivMod DEF Byte
    <2>4. ASSUME m * Base + w * Base > WORD
          PROVE  d % Base < Base - 1
        <3>1. m + w > TOP
            <4>1. (m + w) * Base > TOP * Base
                BY <2>4, <1>2, <1>3, Sizes
            <4> QED
                BY <4>1, <1>2, <1>3, MulMono, Sizes
        <3>2. TOP * d + TOP < low + w
            BY <1>2, <1>3, <3>1, Sizes
        <3>3. d + 1 < 2 * Base
            <4>1. TOP * (d + 1) < TOP * (2 * Base)
                BY <3>2, <1>2, <1>3, Sizes DEF CarryRoom
            <4> QED
                BY <4>1, <1>2, <1>3, MulMono, Sizes
        <3>4. d # Base - 1
            <4>1. SUFFICES ASSUME d = Base - 1 PROVE FALSE
                OBVIOUS
            <4>2. TOP * d = WORD - TOP
                BY <4>1, Sizes
            <4> QED
                BY <4>2, <1>2, <1>3, <1>5, Sizes DEF CanSettle
        <3>5. CASE d < Base
            <4>1. d % Base = d
                BY <3>5, <1>2, <1>3, Sizes
            <4> QED
                BY <4>1, <3>4, <3>5, <1>2, <1>3, Sizes
        <3>6. CASE d >= Base
            <4>1. d % Base = d - Base
                <5> DEFINE q == d \div Base
                           e == d % Base
                <5>1. q \in Nat /\ e \in 0 .. Base - 1 /\ d = Base * q + e
                    BY <1>3, Sizes, DivMod
                <5> HIDE DEF q, e
                <5>2. Base * q < Base * 2
                    BY <5>1, <3>3, <1>3, Sizes
                <5>3. q < 2
                    BY <5>2, <5>1, MulMono, Sizes
                <5>4. q # 0
                    BY <5>1, <3>6, Sizes
                <5>5. q = 1
                    BY <5>3, <5>4, <5>1
                <5> QED
                    BY <5>1, <5>5, Sizes, <1>3 DEF e
            <4> QED
                BY <4>1, <3>3, <1>2, <1>3, Sizes
        <3> QED
            BY <3>5, <3>6, <1>2, <1>3, Sizes
    <2> QED
        BY <1>4, <2>1, <2>2, <2>3, <2>4
<1>6. CASE ~ CanSettle
    <2>1. pending' = pending + 1 /\ UNCHANGED <<buf, overflow, cache, primed>>
        BY <1>6 DEF tq_ac_shift_low
    <2>2. ASSUME m * Base + w * Base > WORD
          PROVE  primed /\ cache < Base - 1
        <3>1. m + w > TOP
            <4>1. (m + w) * Base > TOP * Base
                BY <2>2, <1>2, <1>3, Sizes
            <4> QED
                BY <4>1, <1>2, <1>3, MulMono, Sizes
        <3>2. d = Base - 1
            <4>1. TOP * d < WORD /\ TOP * (d + 1) > WORD - TOP
                BY <1>1, <1>2, <1>3, <1>6, Sizes DEF CanSettle
            <4>2. d < Base /\ d + 1 > Base - 1
                <5>1. TOP * d < TOP * Base /\ TOP * (d + 1) > TOP * (Base - 1)
                    BY <4>1, <1>2, <1>3, Sizes
                <5> QED
                    BY <5>1, <1>2, <1>3, MulMono, Sizes
            <4> QED
                BY <4>2, <1>2, <1>3, Sizes
        <3>3. TOP * d = WORD - TOP
            BY <3>2, Sizes
        <3>4. low + w > WORD
            BY <3>1, <3>3, <1>2, <1>3, Sizes
        <3> QED
            BY <3>4 DEF CarryRoom
    <2> QED
        BY <1>1, <1>4, <2>1, <2>2
<1> QED
    BY <1>5, <1>6

\* tq_ac_enc_init establishes the encoder's invariant.
LEMMA EncInitInv == EncInit => EncInv
<1> SUFFICES ASSUME EncInit PROVE EncInv
    OBVIOUS
<1>1. EncTypeOK
    <2>1. primed \in BOOLEAN /\ overflow \in BOOLEAN
        BY Zenon DEF EncInit
    <2>2. buf \in Seq(Byte) /\ cap \in Caps
        BY DEF EncInit
    <2>3. /\ low \in 0 .. 2 * WORD - 1 /\ range \in 1 .. WORD - 1
          /\ cache \in Byte /\ pending \in Nat /\ flush \in 0 .. 5
        BY Sizes DEF EncInit, Byte
    <2>4. epc \in {"ready", "renorm", "flush", "finished"}
        BY DEF EncInit
    <2> QED
        BY <2>1, <2>2, <2>3, <2>4 DEF EncTypeOK
<1>2. RangeFloor
    BY Sizes DEF EncInit, RangeFloor
<1>3. CarryAbsorbed /\ CarryRoom(range)
    BY Sizes DEF EncInit, CarryRoom, CarryAbsorbed
<1> QED
    BY <1>1, <1>2, <1>3 DEF EncInv

\* What a symbol's share of an interval is: at least a digit wide, and inside.
LEMMA ShareBounds ==
    ASSUME NEW t \in Triples, NEW R \in Nat, R >= TOP
    PROVE  LET r == R \div t.tot
           IN  /\ r \in Nat /\ r >= Base
               /\ r * t.cum \in Nat /\ r * t.freq \in Nat
               /\ r * t.freq >= Base
               /\ r * t.cum + r * t.freq <= R
<1> DEFINE r == R \div t.tot
<1>1. /\ t.cum \in Nat /\ t.freq \in Nat /\ t.freq >= 1 /\ t.tot \in Nat
      /\ t.cum + t.freq <= t.tot /\ t.tot <= TOT /\ t.tot > 0
    BY TriplesAssumption
<1>2. r \in Nat /\ t.tot * r <= R
    BY <1>1, DivMod
<1>3. r >= Base
    <2>1. Base * t.tot <= Base * TOT
        BY <1>1, MulMono, Sizes
    <2>2. Base * t.tot <= R
        BY <2>1, <1>1, Sizes
    <2> QED
        BY <2>2, <1>1, DivBound, Sizes
<1> HIDE DEF r
<1>4. r * t.cum \in Nat /\ r * t.freq \in Nat
    BY <1>1, <1>2
<1>5. r * t.freq >= Base
    <2>1. r * 1 <= r * t.freq
        BY <1>1, <1>2, MulMono
    <2> QED
        BY <2>1, <1>2, <1>3, <1>4, Sizes
<1>6. r * t.cum + r * t.freq <= R
    <2>1. r * (t.cum + t.freq) <= r * t.tot
        BY <1>1, <1>2, MulMono
    <2>2. r * (t.cum + t.freq) = r * t.cum + r * t.freq
        BY <1>1, <1>2
    <2>3. r * t.tot = t.tot * r
        BY <1>1, <1>2
    <2> QED
        BY <1>1, <1>2, <1>4, <2>1, <2>2, <2>3
<1> QED
    BY <1>2, <1>3, <1>4, <1>5, <1>6 DEF r

\* Coding a symbol narrows the interval to a part of itself: what room it had
\* for a carry it keeps.
LEMMA EncSymInv ==
    ASSUME EncInv, NEW t \in Triples, tq_ac_enc_sym(t)
    PROVE  EncInv'
<1> DEFINE r == range \div t.tot
<1>1. /\ epc = "ready" /\ low' = low + r * t.cum /\ range' = r * t.freq
      /\ epc' = (IF range' < TOP THEN "renorm" ELSE "ready")
      /\ UNCHANGED <<cache, pending, primed, overflow, buf, cap, flush>>
    BY DEF tq_ac_enc_sym
<1>2. /\ low \in Nat /\ range \in Nat /\ range >= TOP /\ range < WORD
      /\ low + range <= 2 * WORD
      /\ low + range > WORD => primed /\ cache < Base - 1
    BY <1>1, Sizes DEF EncInv, EncTypeOK, RangeFloor, CarryRoom
<1>3. /\ r \in Nat /\ r >= Base /\ r * t.cum \in Nat /\ r * t.freq \in Nat
      /\ r * t.freq >= Base /\ r * t.cum + r * t.freq <= range
    BY <1>2, ShareBounds
<1>4. low' \in Nat /\ range' \in Nat /\ range' >= Base /\ low' + range' <= low + range
    BY <1>1, <1>2, <1>3
<1>5. range' <= range
    BY <1>1, <1>2, <1>3
<1> HIDE DEF r
<1>6. EncTypeOK'
    BY <1>1, <1>2, <1>4, <1>5, Sizes, SMTT(30) DEF EncInv, EncTypeOK
<1>7. RangeFloor'
    BY <1>1, <1>4, Sizes DEF RangeFloor
<1>8. CarryAbsorbed' /\ CarryRoom(range)'
    BY <1>1, <1>2, <1>4, Sizes DEF CarryRoom, CarryAbsorbed
<1> QED
    BY <1>6, <1>7, <1>8 DEF EncInv

\* A turn of the renormalisation loop shifts low and range by the same digit.
LEMMA EncRenormInv ==
    ASSUME EncInv, EncRenorm
    PROVE  EncInv'
<1>1. /\ epc = "renorm" /\ tq_ac_shift_low /\ range' = range * Base
      /\ epc' = (IF range' < TOP THEN "renorm" ELSE "ready")
      /\ flush' = flush /\ cap' = cap
    BY DEF EncRenorm
<1>2. /\ EncTypeOK /\ CarryRoom(range) /\ range \in Nat /\ range >= Base
      /\ range < TOP
    BY <1>1 DEF EncInv, EncTypeOK, RangeFloor
<1>3. /\ low' \in 0 .. WORD - Base
      /\ cache' \in Byte /\ pending' \in Nat /\ primed' \in BOOLEAN
      /\ overflow' \in BOOLEAN /\ buf' \in Seq(Byte)
      /\ low' + range * Base > WORD => primed' /\ cache' < Base - 1
    BY <1>1, <1>2, ShiftLowStep, Sizes
<1>4. range' \in Nat /\ range' >= Base /\ range' <= WORD - Base
    <2>1. range * Base <= TOP * Base - Base /\ range * Base \in Nat
        BY <1>2, ShiftMono, Sizes
    <2>2. range * Base >= range
        BY <1>2, Sizes
    <2> QED
        BY <1>1, <1>2, <2>1, <2>2, Sizes
<1>5. EncTypeOK'
    BY <1>1, <1>2, <1>3, <1>4, Sizes DEF EncTypeOK
<1>6. RangeFloor'
    BY <1>1, <1>4, Sizes DEF RangeFloor
<1>7. CarryAbsorbed' /\ CarryRoom(range)'
    BY <1>1, <1>3, <1>4, Sizes DEF CarryRoom, CarryAbsorbed
<1> QED
    BY <1>5, <1>6, <1>7 DEF EncInv

\* Rounding up moves low by less than the unit, and never down.
LEMMA RoundUpBound ==
    ASSUME NEW i \in 1 .. 4, low \in Nat
    PROVE  RoundUp(i) \in Nat /\ RoundUp(i) >= low
<1> DEFINE unit == CASE i = 1 -> TOP [] i = 2 -> TOT [] i = 3 -> Base [] i = 4 -> 1
           q == (low + unit - 1) \div unit
<1>1. unit \in Nat /\ unit > 0
    BY Sizes
<1>2. RoundUp(i) = q * unit
    BY DEF RoundUp
<1> HIDE DEF unit
<1>3. /\ q \in Nat /\ (low + unit - 1) % unit \in 0 .. unit - 1
      /\ low + unit - 1 = unit * q + ((low + unit - 1) % unit)
    BY <1>1, DivMod
<1> HIDE DEF q
<1>4. q * unit \in Nat /\ q * unit = unit * q
    BY <1>1, <1>3
<1> QED
    BY <1>1, <1>2, <1>3, <1>4

\* tq_ac_enc_finish picks a point strictly inside the interval.
LEMMA EncFinishInv ==
    ASSUME EncInv, tq_ac_enc_finish
    PROVE  EncInv'
<1> DEFINE fits == {i \in 1 .. 4 : RoundUp(i) < low + range}
           best == CHOOSE i \in fits : \A j \in fits : i <= j
<1>1. /\ epc = "ready" /\ epc' = "flush" /\ flush' = 5
      /\ low' = (IF fits = {} THEN low ELSE RoundUp(best))
      /\ UNCHANGED <<range, cache, pending, primed, overflow, buf, cap>>
    BY DEF tq_ac_enc_finish
<1>2. /\ low \in Nat /\ range \in Nat /\ range >= 1
      /\ low + range <= 2 * WORD
      /\ low + range > WORD => primed /\ cache < Base - 1
    BY <1>1, Sizes DEF EncInv, EncTypeOK, CarryRoom
<1>3. low' \in Nat /\ low' < low + range
    <2>1. CASE fits = {}
        BY <1>1, <1>2, <2>1
    <2>2. CASE fits # {}
        <3>1. best \in fits
            <4>1. PICK k \in 1 .. 4 : k \in fits /\ \A j \in 1 .. k - 1 : j \notin fits
                BY <2>2
            <4> QED
                BY <4>1
        <3>2. best \in 1 .. 4 /\ RoundUp(best) < low + range
            BY <3>1
        <3>3. RoundUp(best) \in Nat
            BY <3>2, <1>2, RoundUpBound
        <3> QED
            BY <1>1, <2>2, <3>2, <3>3
    <2> QED
        BY <2>1, <2>2
<1>4. EncTypeOK'
    BY <1>1, <1>2, <1>3, Sizes DEF EncInv, EncTypeOK
<1>5. RangeFloor'
    BY <1>1 DEF RangeFloor
<1>6. CarryAbsorbed'
    BY <1>1, <1>2, <1>3, Sizes DEF CarryAbsorbed
<1> QED
    BY <1>1, <1>4, <1>5, <1>6 DEF EncInv

\* The five shifts of the flush: the interval is now the one point low.
LEMMA EncFlushInv ==
    ASSUME EncInv, EncFlush
    PROVE  EncInv'
<1>1. /\ epc = "flush" /\ flush > 0 /\ tq_ac_shift_low /\ flush' = flush - 1
      /\ UNCHANGED <<range, cap, epc>>
    BY DEF EncFlush
<1>2. EncTypeOK /\ CarryRoom(1)
    <2>1. EncTypeOK /\ CarryAbsorbed
        BY DEF EncInv
    <2>2. low \in Nat /\ low < 2 * WORD /\ WORD \in Nat
        BY <2>1, Sizes DEF EncTypeOK
    <2> QED
        BY <2>1, <2>2 DEF CarryAbsorbed, CarryRoom
<1>3. /\ low' \in 0 .. WORD - Base
      /\ cache' \in Byte /\ pending' \in Nat /\ primed' \in BOOLEAN
      /\ overflow' \in BOOLEAN /\ buf' \in Seq(Byte)
    BY <1>1, <1>2, ShiftLowStep
<1>4. EncTypeOK'
    BY <1>1, <1>2, <1>3, Sizes DEF EncTypeOK
<1>5. RangeFloor'
    BY <1>1 DEF RangeFloor
<1>6. CarryAbsorbed'
    BY <1>3, Sizes DEF CarryAbsorbed
<1> QED
    BY <1>1, <1>4, <1>5, <1>6 DEF EncInv

\* The strip leaves a prefix of the buffer.
LEMMA EncStripInv ==
    ASSUME EncInv, EncStrip
    PROVE  EncInv'
<1>1. /\ epc = "flush" /\ flush = 0 /\ epc' \in {"flush", "finished"}
      /\ UNCHANGED <<low, range, cache, pending, primed, overflow, cap, flush>>
    BY DEF EncStrip
<1>2. buf' \in Seq(Byte)
    <2>1. buf \in Seq(Byte)
        BY DEF EncInv, EncTypeOK
    <2>2. CASE buf # <<>> /\ buf[Len(buf)] = 0
        <3>1. buf' = SubSeq(buf, 1, Len(buf) - 1) /\ Len(buf) >= 1
            BY <2>1, <2>2 DEF EncStrip
        <3> QED
            BY <2>1, <3>1
    <2>3. CASE ~ (buf # <<>> /\ buf[Len(buf)] = 0)
        BY <2>1, <2>3 DEF EncStrip
    <2> QED
        BY <2>2, <2>3
<1>3. EncTypeOK'
    BY <1>1, <1>2 DEF EncInv, EncTypeOK
<1>4. RangeFloor'
    BY <1>1 DEF RangeFloor
<1>5. CarryAbsorbed'
    BY <1>1 DEF EncInv, CarryAbsorbed
<1> QED
    BY <1>1, <1>3, <1>4, <1>5 DEF EncInv

-----------------------------------------------------------------------------
(* The decoder, on any wire at all. *)

DecInv == DecTypeOK /\ DecRangeFloor

\* Every non-empty set of naturals has a least element.
LEMMA LeastElement ==
    ASSUME NEW S, S \subseteq Nat, S # {}
    PROVE  \E m \in S : \A n \in S : m <= n
<1>1. \E m \in S : \A n \in S : ~ (<<n, m>> \in OpToRel(<, Nat))
    BY NatLessThanWellFounded, WFMin, Zenon
<1>2. PICK m \in S : \A n \in S : ~ (<<n, m>> \in OpToRel(<, Nat))
    BY <1>1
<1>3. \A n \in S : ~ (n < m)
    BY <1>2 DEF OpToRel
<1> QED
    BY <1>3

\* tq_ac_find never leaves the table.
LEMMA FindInTable ==
    ASSUME NEW cnt, Len(cnt) \in Nat \ {0}, NEW target
    PROVE  tq_ac_find(cnt, target) \in 1 .. Len(cnt)
<1> DEFINE hits == {i \in 1 .. Len(cnt) : target < tq_ac_cum(cnt, i) + cnt[i]}
<1>1. CASE hits = {}
    BY <1>1 DEF tq_ac_find
<1>2. CASE hits # {}
    <2>1. \E i \in hits : \A j \in hits : i <= j
        <3>1. hits \subseteq Nat
            OBVIOUS
        <3> HIDE DEF hits
        <3> QED
            BY <1>2, <3>1, LeastElement
    <2>2. (CHOOSE i \in hits : \A j \in hits : i <= j) \in hits
        BY <2>1
    <2> QED
        BY <1>2, <2>2 DEF tq_ac_find
<1> QED
    BY <1>1, <1>2

\* A decoder nothing was delivered to yet is within its types.
LEMMA DecIdleInv == DecIdle => DecInv
<1> SUFFICES ASSUME DecIdle PROVE DecInv
    OBVIOUS
<1>1. starved \in BOOLEAN
    BY Zenon DEF DecIdle
<1>2. wire \in Seq(Byte) /\ found \in Seq(Nat) /\ pos \in 0 .. Len(wire)
    BY DEF DecIdle
<1>3. drange \in 1 .. WORD - 1 /\ code \in 0 .. WORD - 1
    BY Sizes DEF DecIdle
<1>4. dpc = "idle" /\ drange >= TOP
    BY Sizes DEF DecIdle
<1> QED
    BY <1>1, <1>2, <1>3, <1>4 DEF DecInv, DecTypeOK, DecRangeFloor

\* Four digits make a word.
LEMMA FourDigits ==
    ASSUME NEW a \in Byte, NEW b \in Byte, NEW c \in Byte, NEW d \in Byte
    PROVE  ((a * Base + b) * Base + c) * Base + d \in 0 .. WORD - 1
<1>1. ASSUME NEW x \in Nat, NEW n \in Nat, x < n, NEW e \in Byte
      PROVE  x * Base + e \in Nat /\ x * Base + e < n * Base
    BY <1>1, ShiftMono, Sizes DEF Byte
<1>2. a \in Nat /\ a < Base
    BY Sizes DEF Byte
<1> DEFINE x2 == a * Base + b
           x3 == x2 * Base + c
           x4 == x3 * Base + d
<1>0. /\ Base * Base = TOT /\ TOT * Base = TOP /\ TOP * Base = WORD
      /\ TOT \in Nat /\ TOP \in Nat /\ Base \in Nat
    BY Sizes
<1>3. x2 \in Nat /\ x2 < TOT
    BY <1>1, <1>2, <1>0
<1> HIDE DEF x2
<1>4. x3 \in Nat /\ x3 < TOP
    <2>1. x2 * Base + c \in Nat /\ x2 * Base + c < TOT * Base
        BY <1>1, <1>3, <1>0
    <2> QED
        BY <2>1, <1>0
<1> HIDE DEF x3
<1>5. x4 \in Nat /\ x4 < WORD
    <2>1. x3 * Base + d \in Nat /\ x3 * Base + d < TOP * Base
        BY <1>1, <1>4, <1>0
    <2> QED
        BY <2>1, <1>0
<1> QED
    BY <1>5, Sizes DEF x2, x3

\* A byte read from the wire, or the zero read past its end, is a byte.
LEMMA WireDigitType ==
    ASSUME NEW w \in Seq(Byte), NEW i \in Nat \ {0}
    PROVE  WireDigit(w, i) \in Byte
    BY Sizes DEF WireDigit, Byte

\* tq_ac_dec_init reads four bytes of any wire, or zeroes past its end.
LEMMA DecInitInv ==
    ASSUME NEW w \in Seq(Byte), tq_ac_dec_init(w)
    PROVE  DecInv'
<1>1. /\ wire' = w /\ found' = <<>> /\ dpc' = "ready" /\ starved' = FALSE
      /\ pos' = (IF Len(w) < 4 THEN Len(w) ELSE 4) /\ drange' = WORD - 1
    BY DEF tq_ac_dec_init
<1>2. code' \in 0 .. WORD - 1
    BY WireDigitType, FourDigits DEF tq_ac_dec_init
<1>3. wire' \in Seq(Byte) /\ found' \in Seq(Nat) /\ pos' \in 0 .. Len(wire')
    BY <1>1
<1>4. drange' \in 1 .. WORD - 1 /\ drange' >= TOP
    BY <1>1, Sizes
<1> QED
    BY <1>1, <1>2, <1>3, <1>4 DEF DecInv, DecTypeOK, DecRangeFloor

\* Decoding a symbol keeps range wide whatever the code word is.
LEMMA DecSymInv ==
    ASSUME DecInv, NEW cnt \in Tables, DecSym(cnt)
    PROVE  DecInv'
<1> DEFINE s == tq_ac_find(cnt, tq_ac_dec_target(Total(cnt)))
           t == Triple(cnt, s)
           r == drange \div Total(cnt)
<1>1. /\ dpc = "ready" /\ drange' = r * cnt[s]
      /\ code' = (code - tq_ac_cum(cnt, s) * r) % WORD
      /\ dpc' = (IF drange' < TOP THEN "renorm" ELSE "ready")
      /\ found' = Append(found, s)
      /\ UNCHANGED <<wire, pos, starved>>
    BY DEF DecSym
<1>2. s \in 1 .. Len(cnt) /\ Len(cnt) \in Nat
    BY TablesAssumption, FindInTable
<1>3. t \in Triples /\ t.cum = tq_ac_cum(cnt, s) /\ t.freq = cnt[s] /\ t.tot = Total(cnt)
    BY <1>2, TablesAssumption DEF Triple
<1>4. drange \in Nat /\ drange >= TOP /\ drange < WORD /\ code \in Nat
    BY <1>1, Sizes DEF DecInv, DecTypeOK, DecRangeFloor
<1> HIDE DEF s, t
<1>5. /\ r \in Nat /\ t.cum * r \in Nat /\ drange' \in Nat /\ drange' >= Base
      /\ drange' <= drange
    <2>1. /\ r \in Nat /\ r * t.cum \in Nat /\ r * t.freq \in Nat
          /\ r * t.freq >= Base /\ r * t.cum + r * t.freq <= drange
        BY <1>3, <1>4, ShareBounds
    <2> HIDE DEF r
    <2>2. t.cum \in Nat
        BY <1>3, TriplesAssumption
    <2> QED
        BY <1>1, <1>3, <1>4, <2>1, <2>2
<1> HIDE DEF r
<1>6. code' \in 0 .. WORD - 1
    BY <1>1, <1>3, <1>4, <1>5, Sizes
<1>7. found' \in Seq(Nat)
    BY <1>1, <1>2 DEF DecInv, DecTypeOK
<1>8. DecTypeOK'
    BY <1>1, <1>4, <1>5, <1>6, <1>7, Sizes, SMTT(30) DEF DecInv, DecTypeOK
<1>9. DecRangeFloor'
    BY <1>1, <1>5, Sizes DEF DecRangeFloor
<1> QED
    BY <1>8, <1>9 DEF DecInv

\* A turn of the decoder's renormalisation loop.
LEMMA DecRenormInv ==
    ASSUME DecInv, DecRenorm
    PROVE  DecInv'
<1> DEFINE m == code % TOP
           g == WireDigit(wire, pos + 1)
<1>1. /\ dpc = "renorm" /\ code' = m * Base + g /\ drange' = drange * Base
      /\ pos' = (IF pos < Len(wire) THEN pos + 1 ELSE pos)
      /\ starved' = (starved \/ pos >= Len(wire))
      /\ dpc' = (IF drange' < TOP THEN "renorm" ELSE "ready")
      /\ UNCHANGED <<wire, found>>
    BY DEF DecRenorm
<1>2. /\ wire \in Seq(Byte) /\ pos \in 0 .. Len(wire) /\ code \in Nat
      /\ drange \in Nat /\ drange >= Base /\ drange < TOP /\ found \in Seq(Nat)
    BY <1>1, Sizes DEF DecInv, DecTypeOK, DecRangeFloor
<1>3. m \in Nat /\ m < TOP
    BY <1>2, DivMod, Sizes
<1>4. g \in Byte
    BY <1>2, WireDigitType
<1> HIDE DEF m, g
<1>5. code' \in 0 .. WORD - 1
    <2>1. m * Base <= TOP * Base - Base /\ m * Base \in Nat
        BY <1>3, ShiftMono, Sizes
    <2> QED
        BY <1>1, <1>4, <2>1, Sizes DEF Byte
<1>6. drange' \in Nat /\ drange' >= Base /\ drange' <= WORD - Base
    <2>1. drange * Base <= TOP * Base - Base /\ drange * Base \in Nat
        BY <1>2, ShiftMono, Sizes
    <2>2. drange * Base >= drange
        BY <1>2, Sizes
    <2> QED
        BY <1>1, <1>2, <2>1, <2>2, Sizes
<1>7. pos' \in 0 .. Len(wire')
    BY <1>1, <1>2
<1>8. starved' \in BOOLEAN
    BY <1>1, Zenon
<1>9. DecTypeOK'
    BY <1>1, <1>2, <1>5, <1>6, <1>7, <1>8, Sizes DEF DecTypeOK
<1>10. DecRangeFloor'
    BY <1>1, <1>6, Sizes DEF DecRangeFloor
<1> QED
    BY <1>9, <1>10 DEF DecInv

-----------------------------------------------------------------------------
(* The composition. *)

Inv ==
    /\ EncInv
    /\ DecInv
    /\ sent \in Seq([cnt : Tables, sym : Nat])

\* The encoder's part of Next is a step of the encoder, the rest leaves it be.
LEMMA NextInv ==
    ASSUME Inv, [Next]_vars
    PROVE  Inv'
<1> USE DEF Inv
<1>1. ASSUME NEW cnt \in Tables, NEW i \in 1 .. Len(cnt), Send(cnt, i)
      PROVE  Inv'
    <2>1. /\ tq_ac_enc_sym(Triple(cnt, i)) /\ UNCHANGED decVars
          /\ sent' = Append(sent, [cnt |-> cnt, sym |-> i])
        BY <1>1 DEF Send
    <2>2. Triple(cnt, i) \in Triples
        BY TablesAssumption
    <2>3. EncInv'
        BY <2>1, <2>2, EncSymInv
    <2>4. DecInv'
        BY <2>1 DEF decVars, DecInv, DecTypeOK, DecRangeFloor
    <2>5. i \in Nat
        BY TablesAssumption
    <2> QED
        BY <2>1, <2>3, <2>4, <2>5
<1>2. CASE EncodeLoops
    <2>1. EncStep /\ UNCHANGED decVars /\ sent' = sent
        BY <1>2 DEF EncodeLoops
    <2>2. EncInv'
        BY <2>1, EncRenormInv, EncFlushInv, EncStripInv DEF EncStep
    <2>3. DecInv'
        BY <2>1 DEF decVars, DecInv, DecTypeOK, DecRangeFloor
    <2> QED
        BY <2>1, <2>2, <2>3
<1>3. CASE Finish
    <2>1. tq_ac_enc_finish /\ UNCHANGED decVars /\ sent' = sent
        BY <1>3 DEF Finish
    <2>2. EncInv'
        BY <2>1, EncFinishInv
    <2>3. DecInv'
        BY <2>1 DEF decVars, DecInv, DecTypeOK, DecRangeFloor
    <2> QED
        BY <2>1, <2>2, <2>3
<1>4. ASSUME UNCHANGED encVars
      PROVE  EncInv'
    BY <1>4 DEF encVars, EncInv, EncTypeOK, RangeFloor, CarryAbsorbed, CarryRoom
<1>5. CASE Deliver
    <2>1. tq_ac_dec_init(buf) /\ UNCHANGED encVars /\ sent' = sent
        BY <1>5 DEF Deliver
    <2>2. buf \in Seq(Byte)
        BY DEF EncInv, EncTypeOK
    <2> QED
        BY <1>4, <2>1, <2>2, DecInitInv
<1>6. CASE Receive
    <2>1. /\ Len(found) < Len(sent) /\ DecSym(sent[Len(found) + 1].cnt)
          /\ UNCHANGED encVars /\ sent' = sent
        BY <1>6 DEF Receive
    <2>2. sent[Len(found) + 1].cnt \in Tables
        <3> DEFINE k == Len(found) + 1
                   E == [cnt : Tables, sym : Nat]
        <3>1. Len(found) \in Nat
            BY DEF DecInv, DecTypeOK
        <3>2. sent \in Seq(E)
            OBVIOUS
        <3>3. k \in 1 .. Len(sent)
            BY <2>1, <3>1, <3>2
        <3> HIDE DEF k, E
        <3>4. sent[k] \in E
            BY <3>2, <3>3
        <3> QED
            BY <3>4 DEF k, E
    <2> QED
        BY <1>4, <2>1, <2>2, DecSymInv
<1>7. CASE DecodeLoop
    <2>1. DecRenorm /\ UNCHANGED encVars /\ sent' = sent
        BY <1>7 DEF DecodeLoop
    <2> QED
        BY <1>4, <2>1, DecRenormInv
<1>8. CASE UNCHANGED vars
    <2>1. UNCHANGED encVars /\ UNCHANGED decVars /\ sent' = sent
        BY <1>8 DEF vars
    <2> QED
        BY <1>4, <2>1 DEF decVars, DecInv, DecTypeOK, DecRangeFloor
<1> QED
    BY <1>1, <1>2, <1>3, <1>5, <1>6, <1>7, <1>8 DEF Next

\* The strengthening holds in every behaviour.
LEMMA InductiveInvariant == Spec => []Inv
<1>1. Init => Inv
    <2>1. EncInit => EncInv
        BY EncInitInv
    <2>2. DecIdle => DecInv
        BY DecIdleInv
    <2>3. Init => sent \in Seq([cnt : Tables, sym : Nat])
        BY DEF Init
    <2> QED
        BY <2>1, <2>2, <2>3 DEF Init, Inv
<1>2. Inv /\ [Next]_vars => Inv'
    BY NextInv
<1> QED
    BY <1>1, <1>2, PTL DEF Spec

\* Both halves of the coder stay inside their C types, on every message.
THEOREM TypeCorrect == Spec => []TypeOK
<1>1. Inv => TypeOK
    BY DEF Inv, EncInv, DecInv, TypeOK
<1> QED
    BY <1>1, InductiveInvariant, PTL

\* tq_ac_shift_low never wraps the cache byte and never drops a carry, for
\* messages of any length and any run of pending 0xFFs.
THEOREM CarryNeverLost == Spec => []CarryAbsorbed
<1>1. Inv => CarryAbsorbed
    BY DEF Inv, EncInv
<1> QED
    BY <1>1, InductiveInvariant, PTL

\* range / tot is never zero at either end, and both loops make progress.
THEOREM RangesStayWide == Spec => []RangesWide
<1>1. Inv => RangesWide
    BY DEF Inv, EncInv, DecInv, RangesWide
<1> QED
    BY <1>1, InductiveInvariant, PTL

-----------------------------------------------------------------------------
(* Digits and what they are worth.  The value of the first n digits of a    *)
(* number, and the cumulative counts of a table, are both folds of the form *)
(* V[k + 1] = V[k] * b + D[k]; that such a V exists for every D is shown    *)
(* from the least number for which it would not.                            *)

IsFold(V, b, D) ==
    /\ V \in [Nat -> Nat]
    /\ V[0] = 0
    /\ \A k \in Nat : V[k + 1] = V[k] * b + D[k]

\* f follows the recurrence for the first n elements of D.
Follows(f, n, b, D) == \A k \in 0 .. n - 1 : f[k + 1] = f[k] * b + D[k]

\* A fold of the first n elements of D.
IsFoldUpto(f, n, b, D) == f \in [0 .. n -> Nat] /\ f[0] = 0 /\ Follows(f, n, b, D)

\* The first n elements of two sequences are the same.
SameUpto(D, E, n) == \A k \in 0 .. n - 1 : D[k] = E[k]

\* Every sequence of naturals has a fold of its first n elements.
LEMMA FoldUptoExists ==
    ASSUME NEW b \in Nat, NEW D \in [Nat -> Nat], NEW n \in Nat
    PROVE  \E f : IsFoldUpto(f, n, b, D)
<1> DEFINE bad == {j \in Nat : ~ \E f : IsFoldUpto(f, j, b, D)}
<1>1. SUFFICES ASSUME bad # {} PROVE FALSE
    OBVIOUS
<1>2. PICK m \in bad : \A j \in bad : m <= j
    <2>1. bad \subseteq Nat
        OBVIOUS
    <2> HIDE DEF bad
    <2> QED
        BY <1>1, <2>1, LeastElement
<1>3. m \in Nat /\ ~ \E f : IsFoldUpto(f, m, b, D)
    OBVIOUS
<1>4. CASE m = 0
    <2> DEFINE f == [k \in 0 .. 0 |-> 0]
    <2>1. IsFoldUpto(f, 0, b, D)
        BY DEF IsFoldUpto, Follows
    <2> QED
        BY <1>3, <1>4, <2>1
<1>5. CASE m # 0
    <2>1. m - 1 \in Nat /\ m - 1 \notin bad
        BY <1>2, <1>3, <1>5
    <2>2. PICK f : IsFoldUpto(f, m - 1, b, D)
        BY <2>1
    <2> DEFINE g == [k \in 0 .. m |-> IF k = m THEN f[m - 1] * b + D[m - 1] ELSE f[k]]
    <2>3. f \in [0 .. m - 1 -> Nat] /\ f[0] = 0
          /\ \A k \in 0 .. (m - 1) - 1 : f[k + 1] = f[k] * b + D[k]
        BY <2>2 DEF IsFoldUpto, Follows
    <2>4. f[m - 1] * b + D[m - 1] \in Nat
        <3>1. PICK x \in Nat, y \in Nat : x = f[m - 1] /\ y = D[m - 1]
            BY <2>1, <2>3
        <3>2. x * b \in Nat
            OBVIOUS
        <3> QED
            BY <3>1, <3>2
    <2>5. g \in [0 .. m -> Nat]
        <3>1. ASSUME NEW k \in 0 .. m, k # m PROVE f[k] \in Nat
            BY <1>3, <2>3, <3>1
        <3> QED
            BY <2>4, <3>1
    <2>6. g[0] = 0
        BY <1>3, <1>5, <2>3
    <2>7. ASSUME NEW k \in 0 .. m - 1
          PROVE  g[k + 1] = g[k] * b + D[k]
        <3>1. CASE k = m - 1
            <4>1. k + 1 = m /\ k # m /\ k \in 0 .. m /\ m \in 0 .. m
                BY <1>3, <1>5, <3>1
            <4>2. g[k + 1] = f[m - 1] * b + D[m - 1] /\ g[k] = f[k]
                BY <4>1
            <4> QED
                BY <3>1, <4>2
        <3>2. CASE k # m - 1
            <4>1. k \in 0 .. (m - 1) - 1 /\ k + 1 \in 0 .. m /\ k \in 0 .. m
                  /\ k # m /\ k + 1 # m
                BY <1>3, <3>2
            <4>2. g[k + 1] = f[k + 1] /\ g[k] = f[k]
                BY <4>1
            <4> QED
                BY <2>3, <4>1, <4>2
        <3> QED
            BY <3>1, <3>2
    <2> HIDE DEF g
    <2>8. IsFoldUpto(g, m, b, D)
        BY <2>5, <2>6, <2>7 DEF IsFoldUpto, Follows
    <2> QED
        BY <1>3, <2>8
<1> QED
    BY <1>4, <1>5

\* Two folds agree as far as their elements do.
LEMMA FoldsAgree ==
    ASSUME NEW b \in Nat, NEW n \in Nat, NEW f, NEW g, NEW D, NEW E,
           f[0] = g[0], Follows(f, n, b, D), Follows(g, n, b, E), SameUpto(D, E, n)
    PROVE  \A k \in 0 .. n : f[k] = g[k]
<1> DEFINE bad == {k \in 0 .. n : f[k] # g[k]}
<1>1. SUFFICES ASSUME bad # {} PROVE FALSE
    OBVIOUS
<1>2. PICK m \in bad : \A j \in bad : m <= j
    <2>1. bad \subseteq Nat
        OBVIOUS
    <2> HIDE DEF bad
    <2> QED
        BY <1>1, <2>1, LeastElement
<1>3. m \in 0 .. n /\ f[m] # g[m] /\ m # 0
    OBVIOUS
<1>4. m - 1 \in 0 .. n - 1 /\ m - 1 \notin bad /\ (m - 1) + 1 = m
    BY <1>2, <1>3
<1>5. f[m - 1] = g[m - 1] /\ D[m - 1] = E[m - 1]
    BY <1>4 DEF SameUpto
<1>6. f[m] = f[m - 1] * b + D[m - 1] /\ g[m] = g[m - 1] * b + E[m - 1]
    BY <1>4 DEF Follows
<1> QED
    BY <1>3, <1>5, <1>6

\* Every sequence of naturals has a fold.
LEMMA FoldExists ==
    ASSUME NEW b \in Nat, NEW D \in [Nat -> Nat]
    PROVE  \E V : IsFold(V, b, D)
<1> DEFINE F == [n \in Nat |-> CHOOSE f : IsFoldUpto(f, n, b, D)]
           V == [n \in Nat |-> F[n][n]]
<1>1. ASSUME NEW n \in Nat PROVE IsFoldUpto(F[n], n, b, D)
    <2>1. F[n] = CHOOSE f : IsFoldUpto(f, n, b, D)
        OBVIOUS
    <2> QED
        BY <2>1, FoldUptoExists
<1>2. \A n \in Nat : V[n] = F[n][n]
    OBVIOUS
<1>3. V = [n \in Nat |-> F[n][n]]
    OBVIOUS
<1> HIDE DEF F, V
<1>4. V \in [Nat -> Nat]
    <2>1. ASSUME NEW n \in Nat PROVE F[n][n] \in Nat
        BY <1>1 DEF IsFoldUpto
    <2> QED
        BY <1>3, <2>1
<1>5. V[0] = 0
    BY <1>1, <1>2 DEF IsFoldUpto
<1>6. ASSUME NEW n \in Nat PROVE V[n + 1] = V[n] * b + D[n]
    <2>1. PICK f : f = F[n]
        OBVIOUS
    <2>2. PICK g : g = F[n + 1]
        OBVIOUS
    <2>3. IsFoldUpto(f, n, b, D) /\ IsFoldUpto(g, n + 1, b, D)
        BY <1>1, <2>1, <2>2
    <2>4. g[n + 1] = g[n] * b + D[n] /\ Follows(g, n, b, D)
        BY <2>3 DEF IsFoldUpto, Follows
    <2>5. \A k \in 0 .. n : g[k] = f[k]
        <3>1. g[0] = f[0] /\ Follows(f, n, b, D) /\ SameUpto(D, D, n)
            BY <2>3 DEF IsFoldUpto, SameUpto
        <3> QED
            BY <2>4, <3>1, FoldsAgree
    <2>6. V[n] = f[n] /\ V[n + 1] = g[n + 1]
        BY <1>2, <2>1, <2>2
    <2> QED
        BY <2>4, <2>5, <2>6
<1> QED
    BY <1>4, <1>5, <1>6 DEF IsFold

\* The digits of a message, zeroes past its end included, and the values of
\* their prefixes.
DigitsOf(s) == [k \in Nat |-> WireDigit(s, k + 1)]
Value(D) == CHOOSE V : IsFold(V, Base, D)

\* The digits of a message are bytes.
LEMMA DigitsType ==
    ASSUME NEW s \in Seq(Byte)
    PROVE  /\ DigitsOf(s) \in [Nat -> Byte] /\ DigitsOf(s) \in [Nat -> Nat]
           /\ \A k \in Nat : DigitsOf(s)[k] = WireDigit(s, k + 1)
<1>1. ASSUME NEW k \in Nat PROVE WireDigit(s, k + 1) \in Byte
    BY WireDigitType
<1>2. Byte \subseteq Nat
    BY Sizes DEF Byte
<1> QED
    BY <1>1, <1>2 DEF DigitsOf

\* Value is what its recurrence says.
LEMMA ValueFold ==
    ASSUME NEW D \in [Nat -> Nat]
    PROVE  IsFold(Value(D), Base, D)
    BY FoldExists, Sizes DEF Value

\* Equal digits have equal values.
LEMMA ValuesAgree ==
    ASSUME NEW D \in [Nat -> Nat], NEW E \in [Nat -> Nat], NEW n \in Nat,
           SameUpto(D, E, n)
    PROVE  Value(D)[n] = Value(E)[n]
<1>1. IsFold(Value(D), Base, D) /\ IsFold(Value(E), Base, E)
    BY ValueFold
<1>2. PICK V : V = Value(D)
    OBVIOUS
<1>3. PICK W : W = Value(E)
    OBVIOUS
<1>4. V[0] = W[0] /\ Follows(V, n, Base, D) /\ Follows(W, n, Base, E)
    BY <1>1, <1>2, <1>3, SMTT(30) DEF IsFold, Follows
<1>5. \A k \in 0 .. n : V[k] = W[k]
    BY <1>4, FoldsAgree, Sizes
<1> QED
    BY <1>2, <1>3, <1>5

\* A carry runs through a row of largest digits and leaves zeroes.
LEMMA CarryRuns ==
    ASSUME NEW D \in [Nat -> Nat], NEW E \in [Nat -> Nat], NEW n \in Nat, NEW p \in Nat,
           Value(E)[n] = Value(D)[n] + 1,
           \A k \in n .. n + p - 1 : D[k] = Base - 1 /\ E[k] = 0
    PROVE  Value(E)[n + p] = Value(D)[n + p] + 1
<1>1. IsFold(Value(D), Base, D) /\ IsFold(Value(E), Base, E)
    BY ValueFold
<1>2. PICK V : V = Value(D)
    OBVIOUS
<1>3. PICK W : W = Value(E)
    OBVIOUS
<1>4. /\ V \in [Nat -> Nat] /\ W \in [Nat -> Nat]
      /\ \A k \in Nat : V[k + 1] = V[k] * Base + D[k]
      /\ \A k \in Nat : W[k + 1] = W[k] * Base + E[k]
      /\ W[n] = V[n] + 1
    BY <1>1, <1>2, <1>3 DEF IsFold
<1> DEFINE bad == {k \in Nat : k <= p /\ W[n + k] # V[n + k] + 1}
<1>5. SUFFICES ASSUME bad # {} PROVE FALSE
    BY <1>2, <1>3
<1>6. PICK m \in bad : \A j \in bad : m <= j
    <2>1. bad \subseteq Nat
        OBVIOUS
    <2> HIDE DEF bad
    <2> QED
        BY <1>5, <2>1, LeastElement
<1>7. m \in Nat /\ m <= p /\ W[n + m] # V[n + m] + 1 /\ m # 0
    BY <1>4, <1>6
<1>8. m - 1 \in Nat /\ m - 1 \notin bad
    <2>1. m - 1 \in Nat /\ ~ (m <= m - 1)
        BY <1>7
    <2> HIDE DEF bad
    <2> QED
        BY <1>6, <2>1
<1>9. PICK k \in Nat : k = n + (m - 1)
    BY <1>8
<1>10. W[k] = V[k] + 1
    BY <1>7, <1>8, <1>9
<1>11. D[k] = Base - 1 /\ E[k] = 0
    <2>1. k \in n .. n + p - 1
        BY <1>7, <1>9
    <2> QED
        BY <2>1
<1>12. W[k + 1] = V[k + 1] + 1
    <2>1. V[k] \in Nat /\ Base \in Nat
        BY <1>4, <1>9, Sizes
    <2>2. W[k + 1] = (V[k] + 1) * Base + 0 /\ V[k + 1] = V[k] * Base + (Base - 1)
        BY <1>4, <1>9, <1>10, <1>11
    <2>3. PICK x \in Nat : x = V[k]
        BY <2>1
    <2>4. (x + 1) * Base = x * Base + Base /\ x * Base \in Nat
        BY <2>1
    <2> QED
        BY <2>1, <2>2, <2>3, <2>4, SMTT(30)
<1>13. k + 1 = n + m
    BY <1>7, <1>9
<1> QED
    BY <1>7, <1>12, <1>13

-----------------------------------------------------------------------------
(* Count tables.  The counts of a table tile [0, Total(cnt)), so a target    *)
(* inside the share of a symbol leads tq_ac_find to that symbol.             *)

\* The recurrence of the cumulative counts.
CumRecurrence(c, cnt) ==
    c = [k \in 0 .. Len(cnt) |-> IF k = 0 THEN 0 ELSE c[k - 1] + cnt[k]]

\* A table's cumulative counts exist.
LEMMA CumExists ==
    ASSUME NEW cnt, Len(cnt) \in Nat, \A k \in 1 .. Len(cnt) : cnt[k] \in Nat
    PROVE  \E c : CumRecurrence(c, cnt)
<1> DEFINE n == Len(cnt)
           D == [k \in Nat |-> IF k < n THEN cnt[k + 1] ELSE 0]
<1>1. D \in [Nat -> Nat]
    <2>1. ASSUME NEW k \in Nat, k < n PROVE cnt[k + 1] \in Nat
        BY <2>1
    <2> QED
        BY <2>1
<1>2. \A k \in Nat : k < n => D[k] = cnt[k + 1]
    OBVIOUS
<1> HIDE DEF D
<1>3. PICK V : IsFold(V, 1, D)
    BY <1>1, FoldExists
<1>4. V \in [Nat -> Nat] /\ V[0] = 0 /\ \A k \in Nat : V[k + 1] = V[k] * 1 + D[k]
    BY <1>3 DEF IsFold
<1> DEFINE c == [k \in 0 .. n |-> V[k]]
<1>5. ASSUME NEW k \in 0 .. n, k # 0 PROVE c[k] = c[k - 1] + cnt[k]
    <2>1. PICK j \in Nat : k = j + 1 /\ j < n
        BY <1>5
    <2>2. V[k] = V[j] + cnt[k]
        <3>1. PICK x \in Nat : x = V[j]
            BY <1>4
        <3>2. D[j] = cnt[k] /\ V[k] = V[j] * 1 + D[j] /\ x * 1 = x
            BY <1>2, <1>4, <2>1
        <3> QED
            BY <3>1, <3>2
    <2>3. c[k] = V[k] /\ c[k - 1] = V[j]
        BY <2>1
    <2> QED
        BY <2>2, <2>3
<1>6. c[0] = 0
    BY <1>4
<1>7. c = [k \in 0 .. n |-> IF k = 0 THEN 0 ELSE c[k - 1] + cnt[k]]
    <2>1. ASSUME NEW k \in 0 .. n PROVE c[k] = IF k = 0 THEN 0 ELSE c[k - 1] + cnt[k]
        BY <1>5, <1>6
    <2>2. c = [k \in 0 .. n |-> c[k]]
        OBVIOUS
    <2> HIDE DEF c
    <2> QED
        BY <2>1, <2>2
<1> QED
    BY <1>7 DEF CumRecurrence

\* tq_ac_cum adds up the counts.
LEMMA CumStep ==
    ASSUME NEW cnt \in Tables, NEW i \in 1 .. Len(cnt)
    PROVE  /\ tq_ac_cum(cnt, 1) = 0
           /\ tq_ac_cum(cnt, i + 1) = tq_ac_cum(cnt, i) + cnt[i]
           /\ tq_ac_cum(cnt, i) \in Nat /\ cnt[i] \in Nat /\ cnt[i] > 0
           /\ tq_ac_cum(cnt, i) + cnt[i] <= Total(cnt)
           /\ Len(cnt) \in Nat
<1>1. Len(cnt) \in Nat /\ \A k \in 1 .. Len(cnt) : Triple(cnt, k) \in Triples
    BY TablesAssumption
<1>2. \A k \in 1 .. Len(cnt) : /\ tq_ac_cum(cnt, k) \in Nat /\ cnt[k] \in Nat /\ cnt[k] > 0
                               /\ tq_ac_cum(cnt, k) + cnt[k] <= Total(cnt)
    <2>1. ASSUME NEW k \in 1 .. Len(cnt)
          PROVE  /\ tq_ac_cum(cnt, k) \in Nat /\ cnt[k] \in Nat /\ cnt[k] > 0
                 /\ tq_ac_cum(cnt, k) + cnt[k] <= Total(cnt)
        <3>1. PICK t \in Triples : t = Triple(cnt, k)
            BY <1>1
        <3>2. t.cum = tq_ac_cum(cnt, k) /\ t.freq = cnt[k] /\ t.tot = Total(cnt)
            BY <3>1 DEF Triple
        <3>3. t.cum \in Nat /\ t.freq \in Nat \ {0} /\ t.cum + t.freq <= t.tot
            BY TriplesAssumption
        <3> QED
            BY <3>2, <3>3
    <2> QED
        BY <2>1
<1> DEFINE c == CHOOSE f : CumRecurrence(f, cnt)
<1>3. CumRecurrence(c, cnt)
    BY <1>1, <1>2, CumExists
<1>4. ASSUME NEW k \in Nat PROVE tq_ac_cum(cnt, k) = c[k - 1]
    BY DEF tq_ac_cum, CumRecurrence
<1> HIDE DEF c
<1>5. c[0] = 0 /\ \A k \in 1 .. Len(cnt) : c[k] = c[k - 1] + cnt[k]
    BY <1>1, <1>3 DEF CumRecurrence
<1>6. tq_ac_cum(cnt, 1) = 0
    BY <1>4, <1>5
<1>7. tq_ac_cum(cnt, i + 1) = tq_ac_cum(cnt, i) + cnt[i]
    <2>1. i \in Nat /\ i + 1 \in Nat /\ (i + 1) - 1 = i
        BY <1>1
    <2>2. tq_ac_cum(cnt, i + 1) = c[i] /\ tq_ac_cum(cnt, i) = c[i - 1]
        BY <1>4, <2>1
    <2> QED
        BY <1>5, <2>2
<1> QED
    BY <1>1, <1>2, <1>6, <1>7

\* The share of a symbol ends at or before the shares of later ones begin.
LEMMA CumMonotone ==
    ASSUME NEW cnt \in Tables, NEW i \in 1 .. Len(cnt), NEW j \in 1 .. Len(cnt), i < j
    PROVE  tq_ac_cum(cnt, i) + cnt[i] <= tq_ac_cum(cnt, j)
<1> DEFINE bad == {k \in 1 .. Len(cnt) : i < k /\ ~ (tq_ac_cum(cnt, i) + cnt[i] <= tq_ac_cum(cnt, k))}
<1>1. SUFFICES ASSUME bad # {} PROVE FALSE
    OBVIOUS
<1>2. PICK m \in bad : \A k \in bad : m <= k
    <2>1. bad \subseteq Nat
        BY CumStep
    <2> HIDE DEF bad
    <2> QED
        BY <1>1, <2>1, LeastElement
<1>3. Len(cnt) \in Nat
    BY CumStep
<1>4. /\ m \in 1 .. Len(cnt) /\ m \in Nat /\ i < m /\ i \in Nat
      /\ ~ (tq_ac_cum(cnt, i) + cnt[i] <= tq_ac_cum(cnt, m))
    BY <1>2, <1>3
<1>5. PICK k \in 1 .. Len(cnt) : m = k + 1 /\ i <= k
    BY <1>3, <1>4
<1>6. tq_ac_cum(cnt, m) = tq_ac_cum(cnt, k) + cnt[k]
    BY <1>5, CumStep
<1>7. /\ tq_ac_cum(cnt, i) \in Nat /\ cnt[i] \in Nat
      /\ tq_ac_cum(cnt, k) \in Nat /\ cnt[k] \in Nat
    BY <1>5, CumStep
<1>8. CASE i = k
    BY <1>4, <1>6, <1>7, <1>8
<1>9. CASE i # k
    <2>1. k \notin bad
        <3>1. ~ (m <= k)
            BY <1>3, <1>5
        <3> HIDE DEF bad
        <3> QED
            BY <1>2, <3>1
    <2>2. i < k
        BY <1>3, <1>4, <1>5, <1>9
    <2>3. tq_ac_cum(cnt, i) + cnt[i] <= tq_ac_cum(cnt, k)
        BY <2>1, <2>2
    <2> QED
        BY <1>4, <1>6, <1>7, <2>3
<1> QED
    BY <1>8, <1>9

\* tq_ac_find returns the symbol in whose share the target lies.
LEMMA FindExact ==
    ASSUME NEW cnt \in Tables, NEW s \in 1 .. Len(cnt), NEW target \in Nat,
           tq_ac_cum(cnt, s) <= target, target < tq_ac_cum(cnt, s) + cnt[s]
    PROVE  tq_ac_find(cnt, target) = s
<1> DEFINE hits == {i \in 1 .. Len(cnt) : target < tq_ac_cum(cnt, i) + cnt[i]}
<1>1. Len(cnt) \in Nat
    BY CumStep
<1>2. s \in hits /\ hits \subseteq Nat
    BY <1>1
<1>3. ASSUME NEW j \in hits PROVE s <= j
    <2>1. SUFFICES ASSUME j < s PROVE FALSE
        BY <1>1
    <2>2. tq_ac_cum(cnt, j) + cnt[j] <= tq_ac_cum(cnt, s)
        BY <2>1, CumMonotone
    <2>3. tq_ac_cum(cnt, j) \in Nat /\ cnt[j] \in Nat /\ tq_ac_cum(cnt, s) \in Nat
        BY CumStep
    <2>4. target < tq_ac_cum(cnt, j) + cnt[j]
        OBVIOUS
    <2> QED
        BY <2>2, <2>3, <2>4
<1>4. tq_ac_find(cnt, target) = CHOOSE i \in hits : \A j \in hits : i <= j
    BY <1>2 DEF tq_ac_find
<1> HIDE DEF hits
<1>5. \A i \in hits : (\A j \in hits : i <= j) => i = s
    <2>1. ASSUME NEW i \in hits, \A j \in hits : i <= j PROVE i = s
        <3>1. i <= s /\ s <= i /\ i \in Nat /\ s \in Nat
            BY <1>2, <1>3, <2>1
        <3> QED
            BY <3>1
    <2> QED
        BY <2>1
<1> QED
    BY <1>2, <1>3, <1>4, <1>5

-----------------------------------------------------------------------------
(* What the encoder has said so far.  The bytes in the buffer, the cache and *)
(* the pending 0xFFs are the digits that left low; the number they make,     *)
(* with low behind it, is the low end of the coded interval, and a shift     *)
(* multiplies it by the base whether or not a carry ripples.                 *)

\* The digits that left low, a carry still in low not applied.
Gone == buf \o Settled(0)

GoneValue == Value(DigitsOf(Gone))[Len(Gone)]

\* The low end of the interval in full.
FullLow == GoneValue * WORD + low

\* Concatenation is associative.
LEMMA ConcatAssoc ==
    ASSUME NEW a \in Seq(Byte), NEW b \in Seq(Byte), NEW c \in Seq(Byte)
    PROVE  a \o (b \o c) = (a \o b) \o c
    OBVIOUS

\* Quotient and remainder are what they must be.
LEMMA DivModUnique ==
    ASSUME NEW b \in Nat, b > 0, NEW q \in Nat, NEW r \in Nat, r < b
    PROVE  (b * q + r) \div b = q /\ (b * q + r) % b = r
<1>1. PICK a \in Nat : a = b * q + r
    OBVIOUS
<1>2. PICK u \in Nat, v \in Nat : u = a \div b /\ v = a % b /\ v < b /\ a = b * u + v
    BY DivMod
<1>3. ~ (u < q)
    <2>1. SUFFICES ASSUME u + 1 <= q PROVE FALSE
        OBVIOUS
    <2>2. b * (u + 1) <= b * q /\ b * (u + 1) = b * u + b
        BY <2>1, MulMono
    <2> QED
        BY <1>1, <1>2, <2>2
<1>4. ~ (q < u)
    <2>1. SUFFICES ASSUME q + 1 <= u PROVE FALSE
        OBVIOUS
    <2>2. b * (q + 1) <= b * u /\ b * (q + 1) = b * q + b
        BY <2>1, MulMono
    <2> QED
        BY <1>1, <1>2, <2>2
<1>5. u = q
    BY <1>3, <1>4
<1> QED
    BY <1>1, <1>2, <1>5

\* The digits of a concatenation.
LEMMA ConcatDigits ==
    ASSUME NEW s \in Seq(Byte), NEW t \in Seq(Byte)
    PROVE  /\ \A k \in 0 .. Len(s) - 1 : DigitsOf(s \o t)[k] = s[k + 1]
           /\ \A k \in 0 .. Len(s) - 1 : DigitsOf(s)[k] = s[k + 1]
           /\ \A j \in 0 .. Len(t) - 1 : DigitsOf(s \o t)[Len(s) + j] = t[j + 1]
<1>0. s \o t \in Seq(Byte)
    OBVIOUS
<1>1. PICK u \in Seq(Byte) : u = s \o t
    BY <1>0
<1>2. /\ Len(u) = Len(s) + Len(t)
      /\ Len(s) \in Nat /\ Len(t) \in Nat
      /\ \A k \in 1 .. Len(s) : u[k] = s[k]
      /\ \A k \in 1 .. Len(t) : u[Len(s) + k] = t[k]
    BY <1>1
<1>3. ASSUME NEW v \in Seq(Byte), NEW k \in Nat, k + 1 <= Len(v)
      PROVE  DigitsOf(v)[k] = v[k + 1]
    <2>1. DigitsOf(v)[k] = WireDigit(v, k + 1)
        BY DigitsType
    <2> QED
        BY <1>3, <2>1 DEF WireDigit
<1>4. ASSUME NEW k \in 0 .. Len(s) - 1
      PROVE  DigitsOf(u)[k] = s[k + 1] /\ DigitsOf(s)[k] = s[k + 1]
    <2>1. /\ k \in Nat /\ k + 1 \in 1 .. Len(s)
          /\ k + 1 <= Len(s) /\ k + 1 <= Len(u)
        BY <1>2
    <2>2. DigitsOf(u)[k] = u[k + 1] /\ DigitsOf(s)[k] = s[k + 1]
        BY <1>3, <2>1
    <2> QED
        BY <1>2, <2>1, <2>2
<1>5. ASSUME NEW j \in 0 .. Len(t) - 1
      PROVE  DigitsOf(u)[Len(s) + j] = t[j + 1]
    <2>1. PICK k \in Nat : k = Len(s) + j
        BY <1>2
    <2>2. k + 1 = Len(s) + (j + 1) /\ k + 1 <= Len(u) /\ j + 1 \in 1 .. Len(t)
        BY <1>2, <2>1
    <2>3. DigitsOf(u)[k] = u[k + 1]
        BY <1>3, <2>2
    <2> QED
        BY <1>2, <2>1, <2>2, <2>3
<1> QED
    BY <1>1, <1>4, <1>5

\* One digit more.
LEMMA ValueAppend ==
    ASSUME NEW s \in Seq(Byte), NEW d \in Byte
    PROVE  /\ Len(s \o <<d>>) = Len(s) + 1
           /\ Value(DigitsOf(s \o <<d>>))[Len(s) + 1]
                = Value(DigitsOf(s))[Len(s)] * Base + d
           /\ Value(DigitsOf(s))[Len(s)] \in Nat
<1>1. /\ <<d>> \in Seq(Byte) /\ s \o <<d>> \in Seq(Byte) /\ Len(<<d>>) = 1
      /\ Len(s) \in Nat /\ Len(s \o <<d>>) = Len(s) + 1
    OBVIOUS
<1>2. PICK D \in [Nat -> Nat] : D = DigitsOf(s)
    BY DigitsType
<1>3. PICK E \in [Nat -> Nat] : E = DigitsOf(s \o <<d>>)
    BY <1>1, DigitsType
<1>4. SameUpto(D, E, Len(s))
    <2>1. /\ \A k \in 0 .. Len(s) - 1 : DigitsOf(s \o <<d>>)[k] = s[k + 1]
          /\ \A k \in 0 .. Len(s) - 1 : DigitsOf(s)[k] = s[k + 1]
        BY <1>1, ConcatDigits
    <2> QED
        BY <1>2, <1>3, <2>1 DEF SameUpto
<1>5. E[Len(s)] = d
    <2>1. 0 \in 0 .. Len(<<d>>) - 1 /\ Len(s) + 0 = Len(s) /\ <<d>>[0 + 1] = d
        BY <1>1
    <2>2. DigitsOf(s \o <<d>>)[Len(s) + 0] = <<d>>[0 + 1]
        BY <1>1, <2>1, ConcatDigits
    <2> QED
        BY <1>3, <2>1, <2>2
<1>6. Value(D)[Len(s)] = Value(E)[Len(s)]
    BY <1>1, <1>4, ValuesAgree
<1>7. /\ Value(E)[Len(s) + 1] = Value(E)[Len(s)] * Base + E[Len(s)]
      /\ Value(E)[Len(s)] \in Nat
    BY <1>1, ValueFold DEF IsFold
<1> QED
    BY <1>1, <1>2, <1>3, <1>5, <1>6, <1>7

\* A digit followed by p equal ones.
Row(c, e, p) == <<c>> \o [i \in 1 .. p |-> e]

\* A carry into a byte below the largest, through p largest digits.
LEMMA ValueCarry ==
    ASSUME NEW s \in Seq(Byte), NEW c \in Byte, c < Base - 1, NEW p \in Nat,
           NEW x \in Seq(Byte), x = Row(c, Base - 1, p),
           NEW y \in Seq(Byte), y = Row(c + 1, 0, p)
    PROVE  /\ Len(s \o x) = Len(s) + 1 + p /\ Len(s \o y) = Len(s) + 1 + p
           /\ Value(DigitsOf(s \o y))[Len(s) + 1 + p]
                = Value(DigitsOf(s \o x))[Len(s) + 1 + p] + 1
<1>1. /\ Len(x) = 1 + p /\ x[1] = c /\ \A j \in 2 .. 1 + p : x[j] = Base - 1
      /\ Len(y) = 1 + p /\ y[1] = c + 1 /\ \A j \in 2 .. 1 + p : y[j] = 0
    BY DEF Row
<1>2. /\ s \o x \in Seq(Byte) /\ s \o y \in Seq(Byte) /\ Len(s) \in Nat
      /\ Len(s \o x) = Len(s) + 1 + p /\ Len(s \o y) = Len(s) + 1 + p
    BY <1>1
<1>3. PICK D \in [Nat -> Nat] : D = DigitsOf(s \o x)
    BY <1>2, DigitsType
<1>4. PICK E \in [Nat -> Nat] : E = DigitsOf(s \o y)
    BY <1>2, DigitsType
<1>5. PICK n \in Nat : n = Len(s)
    BY <1>2
<1>6. \A k \in 0 .. n - 1 : D[k] = s[k + 1] /\ E[k] = s[k + 1]
    BY <1>3, <1>4, <1>5, ConcatDigits, ZenonT(40)
<1>7. \A j \in 0 .. p : D[n + j] = x[j + 1] /\ E[n + j] = y[j + 1]
    <2>1. Len(x) - 1 = p /\ Len(y) - 1 = p
        BY <1>1
    <2>2. \A j \in 0 .. p : D[n + j] = x[j + 1]
        <3>1. \A j \in 0 .. Len(x) - 1 : DigitsOf(s \o x)[Len(s) + j] = x[j + 1]
            BY ConcatDigits
        <3> QED
            BY <1>3, <1>5, <2>1, <3>1
    <2>3. \A j \in 0 .. p : E[n + j] = y[j + 1]
        <3>1. \A j \in 0 .. Len(y) - 1 : DigitsOf(s \o y)[Len(s) + j] = y[j + 1]
            BY ConcatDigits
        <3> QED
            BY <1>4, <1>5, <2>1, <3>1
    <2> QED
        BY <2>2, <2>3
<1>8. Value(D)[n] = Value(E)[n]
    BY <1>6, ValuesAgree, ZenonT(40) DEF SameUpto
<1>9. D[n] = c /\ E[n] = c + 1
    <2>1. 0 \in 0 .. p /\ n + 0 = n /\ 0 + 1 = 1
        OBVIOUS
    <2> QED
        BY <1>1, <1>7, <2>1
<1>10. Value(E)[n + 1] = Value(D)[n + 1] + 1
    <2>1. /\ Value(D)[n + 1] = Value(D)[n] * Base + D[n]
          /\ Value(E)[n + 1] = Value(E)[n] * Base + E[n]
          /\ Value(D)[n] \in Nat
        BY ValueFold DEF IsFold
    <2>2. PICK v \in Nat : v = Value(D)[n]
        BY <2>1
    <2>3. PICK w \in Nat : w = v * Base
        BY Sizes
    <2>4. Value(D)[n + 1] = w + c /\ Value(E)[n + 1] = w + (c + 1) /\ c \in Nat
        BY <1>8, <1>9, <2>1, <2>2, <2>3, Sizes DEF Byte
    <2> QED
        BY <2>4
<1>11. \A k \in n + 1 .. (n + 1) + p - 1 : D[k] = Base - 1 /\ E[k] = 0
    <2>1. ASSUME NEW k \in n + 1 .. (n + 1) + p - 1
          PROVE  D[k] = Base - 1 /\ E[k] = 0
        <3>1. PICK j \in 1 .. p : k = n + j
            <4>1. k - n \in 1 .. p /\ k = n + (k - n)
                OBVIOUS
            <4> QED
                BY <4>1
        <3>2. j \in 0 .. p /\ j + 1 \in 2 .. 1 + p
            BY <3>1
        <3> QED
            BY <1>1, <1>7, <3>1, <3>2
    <2> QED
        BY <2>1
<1>12. Value(E)[(n + 1) + p] = Value(D)[(n + 1) + p] + 1
    <2>1. n + 1 \in Nat
        OBVIOUS
    <2> QED
        BY <1>10, <1>11, <2>1, CarryRuns
<1> QED
    BY <1>2, <1>3, <1>4, <1>5, <1>12

\* A buffer that did not overflow holds all that was put.
LEMMA PutAll ==
    ASSUME NEW s \in Seq(Byte), buf \in Seq(Byte), tq_ac_put(s), ~ overflow'
    PROVE  buf' = buf \o s /\ ~ overflow
    BY DEF tq_ac_put

\* Whatever tq_ac_shift_low does with the digit, it is one digit more.
LEMMA ShiftValue ==
    ASSUME EncTypeOK, CarryAbsorbed, tq_ac_shift_low, ~ overflow'
    PROVE  /\ ~ overflow
           /\ Gone \in Seq(Byte) /\ Gone' \in Seq(Byte)
           /\ Len(Gone') = Len(Gone) + 1
           /\ GoneValue \in Nat
           /\ GoneValue' = GoneValue * Base + low \div TOP
<1>1. /\ low \in Nat /\ low < 2 * WORD
      /\ cache \in Byte /\ pending \in Nat /\ primed \in BOOLEAN
      /\ overflow \in BOOLEAN /\ buf \in Seq(Byte)
    BY Sizes DEF EncTypeOK
<1>2. Settled(0) \in Seq(Byte) /\ Gone \in Seq(Byte)
    BY <1>1, SettledType DEF Gone
<1>3. PICK g \in Seq(Byte) : g = Gone
    BY <1>2
<1>4. PICK d \in Nat, m \in Nat : d = low \div TOP /\ m < TOP /\ low = TOP * d + m
    <2>1. /\ low \div TOP \in Nat /\ low % TOP \in 0 .. TOP - 1
          /\ low = TOP * (low \div TOP) + (low % TOP)
        BY <1>1, Sizes, DivMod
    <2> QED
        BY <2>1, Sizes
<1>5. ASSUME NEW e \in Byte, Gone' = g \o <<e>>, e = d, ~ overflow
      PROVE  /\ ~ overflow /\ Gone' \in Seq(Byte) /\ Len(Gone') = Len(Gone) + 1
             /\ GoneValue \in Nat /\ GoneValue' = GoneValue * Base + d
    BY <1>3, <1>5, ValueAppend DEF GoneValue
<1>6. CASE ~ CanSettle
    <2>1. /\ pending' = pending + 1 /\ buf' = buf /\ overflow' = overflow
          /\ cache' = cache /\ primed' = primed
        BY <1>6 DEF tq_ac_shift_low
    <2>2. d = Base - 1
        <3>1. TOP * d < TOP * Base /\ TOP * (d + 1) > TOP * (Base - 1)
            BY <1>1, <1>4, <1>6, Sizes DEF CanSettle
        <3>2. d < Base /\ d + 1 > Base - 1
            BY <3>1, <1>4, MulMono, Sizes
        <3> QED
            BY <3>2, <1>4, Sizes
    <2>3. Base - 1 \in Byte /\ (Base - 1 + 0) % Base = Base - 1
        BY Sizes DEF Byte
    <2>4. <<Base - 1>> \in Seq(Byte)
        BY <2>3
    <2>5. Settled(0)' = Settled(0) \o <<Base - 1>>
        <3> DEFINE h == IF primed THEN <<(cache + 0) % Base>> ELSE <<>>
                   t == [i \in 1 .. pending |-> (Base - 1 + 0) % Base]
                   u == [i \in 1 .. pending + 1 |-> (Base - 1 + 0) % Base]
        <3>1. Settled(0) = h \o t /\ Settled(0)' = h \o u
            BY <2>1 DEF Settled
        <3>2. (cache + 0) % Base \in Byte
            BY <1>1, Sizes DEF Byte
        <3>3. h \in Seq(Byte)
            BY <1>1, <3>2
        <3>4. t \in Seq(Byte) /\ Len(t) = pending
            BY <1>1, <2>3
        <3>5. u = t \o <<Base - 1>>
            BY <1>1, <2>3
        <3> HIDE DEF h, t, u
        <3> QED
            <4>1. h \o (t \o <<Base - 1>>) = (h \o t) \o <<Base - 1>>
                BY <2>4, <3>3, <3>4, ConcatAssoc
            <4> QED
                BY <3>1, <3>5, <4>1
    <2>6. Gone' = g \o <<Base - 1>>
        <3>1. Gone' = buf \o (Settled(0) \o <<Base - 1>>)
            BY <2>1, <2>5 DEF Gone
        <3> QED
            <4>1. buf \o (Settled(0) \o <<Base - 1>>) = (buf \o Settled(0)) \o <<Base - 1>>
                BY <1>1, <1>2, <2>4, ConcatAssoc
            <4> QED
                BY <1>3, <3>1, <4>1 DEF Gone
    <2> QED
        BY <1>2, <1>4, <1>5, <2>1, <2>2, <2>3, <2>6
<1>7. CASE CanSettle
    <2>1. /\ tq_ac_put(Settled(low \div WORD))
          /\ cache' = d % Base /\ primed' = TRUE /\ pending' = 0
        BY <1>4, <1>7 DEF tq_ac_shift_low
    <2>2. d % Base \in Byte
        BY <1>4, Sizes, DivMod DEF Byte
    <2>3. PICK e \in Byte : e = d % Base
        BY <2>2
    <2>4. Settled(0)' = <<e>>
        <3>1. Settled(0)' = <<(e + 0) % Base>> \o [i \in 1 .. 0 |-> (Base - 1 + 0) % Base]
            BY <2>1, <2>3 DEF Settled
        <3>2. (e + 0) % Base = e
            BY Sizes DEF Byte
        <3>3. [i \in 1 .. 0 |-> (Base - 1 + 0) % Base] = <<>>
            OBVIOUS
        <3> QED
            BY <3>1, <3>2, <3>3
    <2>5. CASE low < WORD
        <3>1. low \div WORD = 0
            BY <1>1, <2>5, Sizes
        <3>2. buf' = g /\ ~ overflow
            BY <1>1, <1>2, <1>3, <2>1, <3>1, PutAll DEF Gone
        <3>3. e = d
            <4>1. TOP * d < TOP * Base
                BY <1>1, <1>4, <2>5, Sizes
            <4>2. d < Base
                BY <4>1, <1>4, MulMono, Sizes
            <4> QED
                BY <4>2, <1>4, <2>3, Sizes
        <3>4. Gone' = g \o <<e>>
            BY <2>4, <3>2 DEF Gone
        <3> QED
            BY <1>2, <1>4, <1>5, <3>2, <3>3, <3>4
    <2>6. CASE low >= WORD
        <3>1. low \div WORD = 1
            BY <1>1, <2>6, Sizes
        <3>2. primed /\ cache < Base - 1
            BY <2>6 DEF CarryAbsorbed
        <3> DEFINE x == Row(cache, Base - 1, pending)
                   y == Row(cache + 1, 0, pending)
        <3>3. /\ (cache + 0) % Base = cache /\ (cache + 1) % Base = cache + 1
              /\ (Base - 1 + 0) % Base = Base - 1 /\ (Base - 1 + 1) % Base = 0
              /\ cache + 1 \in Byte /\ Base - 1 \in Byte /\ 0 \in Byte
            <4>1. /\ cache \in Nat /\ cache + 1 < Base /\ cache + 0 = cache
                  /\ Base - 1 + 1 = Base /\ Base - 1 + 0 = Base - 1
                BY <1>1, <3>2, Sizes DEF Byte
            <4>2. (Base * 1 + 0) % Base = 0 /\ Base * 1 + 0 = Base
                BY DivModUnique, Sizes
            <4>3. cache % Base = cache /\ (cache + 1) % Base = cache + 1
                BY <4>1, Sizes
            <4>4. (Base - 1) % Base = Base - 1
                BY Sizes
            <4> QED
                BY <4>1, <4>2, <4>3, <4>4, Sizes DEF Byte
        <3>4. Settled(0) = x /\ Settled(1) = y
            BY <3>2, <3>3 DEF Settled, Row
        <3>5. x \in Seq(Byte) /\ y \in Seq(Byte)
            BY <1>1, <3>3 DEF Row
        <3>6. buf' = buf \o y /\ ~ overflow
            BY <1>1, <2>1, <3>1, <3>4, <3>5, PutAll
        <3>7. /\ Gone = buf \o x /\ Gone' = (buf \o y) \o <<e>>
            BY <2>4, <3>4, <3>6 DEF Gone
        <3>8. d = Base + e
            <4>1. TOP * Base <= TOP * d + m /\ TOP * d < TOP * (2 * Base)
                BY <1>1, <1>4, <2>6, Sizes
            <4>2. TOP * Base < TOP * (d + 1)
                BY <1>4, <4>1, Sizes
            <4>3. Base < d + 1 /\ d < 2 * Base
                BY <1>4, <4>1, <4>2, MulMono, Sizes
            <4>4. PICK f \in Nat : d = Base * 1 + f /\ f < Base
                <5>1. d - Base \in Nat /\ d = Base * 1 + (d - Base) /\ d - Base < Base
                    BY <1>4, <4>3, Sizes
                <5> QED
                    BY <5>1
            <4>5. d % Base = f
                BY <4>4, DivModUnique, Sizes
            <4> QED
                BY <2>3, <4>4, <4>5, Sizes
        <3> DEFINE n == Len(buf) + 1 + pending
                   v == Value(DigitsOf(buf \o x))[n]
        <3>9. /\ Len(buf \o x) = n /\ Len(buf \o y) = n
              /\ Value(DigitsOf(buf \o y))[n] = v + 1
            BY <1>1, <3>2, <3>5, ValueCarry
        <3> HIDE DEF x, y
        <3>10. buf \o x \in Seq(Byte) /\ buf \o y \in Seq(Byte)
            BY <1>1, <3>5
        <3>11. /\ Len(Gone') = n + 1
               /\ Value(DigitsOf((buf \o y) \o <<e>>))[n + 1] = (v + 1) * Base + e
            <4>1. PICK w \in Seq(Byte) : w = buf \o y
                BY <3>10
            <4>2. /\ Len(w \o <<e>>) = Len(w) + 1
                  /\ Value(DigitsOf(w \o <<e>>))[Len(w) + 1]
                       = Value(DigitsOf(w))[Len(w)] * Base + e
                BY ValueAppend
            <4> HIDE DEF n, v
            <4> QED
                BY <3>7, <3>9, <4>1, <4>2
        <3>12. v \in Nat
            BY <3>9, <3>10, ValueAppend
        <3>13. GoneValue' = (v + 1) * Base + e /\ GoneValue = v
            BY <3>7, <3>9, <3>11 DEF GoneValue
        <3>14. (v + 1) * Base + e = v * Base + d
            <4> HIDE DEF v
            <4>1. (v + 1) * Base = v * Base + Base /\ v * Base \in Nat /\ e \in Nat
                BY <3>12, Sizes DEF Byte
            <4> QED
                BY <3>8, <4>1, Sizes
        <3>15. Gone' \in Seq(Byte)
            BY <3>7, <3>10
        <3>16. Len(Gone) = n
            BY <3>7, <3>9
        <3> HIDE DEF n, v
        <3> QED
            BY <1>2, <1>4, <3>6, <3>11, <3>12, <3>13, <3>14, <3>15, <3>16
    <2> QED
        BY <1>1, <2>5, <2>6, Sizes
<1> QED
    BY <1>6, <1>7

-----------------------------------------------------------------------------
(* The flush.  tq_ac_enc_finish rounds low up to a multiple of TQ_AC_TOP,    *)
(* so that after the first of its five shifts low is zero and the rest only  *)
(* write zeroes, which the strip takes away again.                           *)

TailInv ==
    /\ settled \in Nat
    /\ epc = "flush" /\ ~ overflow =>
          /\ flush = 5 => Len(Gone) = settled /\ low % TOP = 0
          /\ flush = 4 => Len(Gone) = settled + 1 /\ low = 0
          /\ flush <= 3 => /\ low = 0 /\ cache = 0 /\ pending = 0 /\ primed
                           /\ \A i \in 1 .. Len(buf) : i > settled + 1 => buf[i] = 0
    /\ SingleByteTail

\* `settled` counts the digits that left low.
LEMMA GoneLength ==
    ASSUME EncTypeOK
    PROVE  /\ Gone \in Seq(Byte)
           /\ Len(Gone) = Len(buf) + pending + (IF primed THEN 1 ELSE 0)
<1>1. cache \in Byte /\ pending \in Nat /\ primed \in BOOLEAN /\ buf \in Seq(Byte)
    BY DEF EncTypeOK
<1>2. Settled(0) \in Seq(Byte) /\ Gone \in Seq(Byte)
    BY <1>1, SettledType DEF Gone
<1>3. Len(Settled(0)) = (IF primed THEN 1 ELSE 0) + pending
    <2> DEFINE e == (Base - 1 + 0) % Base
               t == [i \in 1 .. pending |-> e]
    <2>1. (cache + 0) % Base \in Byte /\ e \in Byte
        BY <1>1, Sizes, DivMod DEF Byte
    <2>2. t \in Seq(Byte) /\ Len(t) = pending
        BY <1>1, <2>1
    <2>3. Settled(0) = (IF primed THEN <<(cache + 0) % Base>> ELSE <<>>) \o t
        BY DEF Settled
    <2> HIDE DEF t
    <2>4. CASE primed
        BY <2>1, <2>2, <2>3, <2>4
    <2>5. CASE ~ primed
        BY <2>2, <2>3, <2>5
    <2> QED
        BY <2>4, <2>5
<1>4. Len(Gone) = Len(buf) + Len(Settled(0))
    BY <1>1, <1>2 DEF Gone
<1>5. Len(buf) \in Nat /\ (IF primed THEN 1 ELSE 0) \in Nat
    BY <1>1
<1> QED
    BY <1>1, <1>2, <1>3, <1>4, <1>5, SMTT(30)

\* The rounding succeeds with its coarsest unit: the range is at least that.
LEMMA FinishRounds ==
    ASSUME EncInv, tq_ac_enc_finish
    PROVE  low' % TOP = 0 /\ low' \in Nat /\ low <= low' /\ low' < low + range
<1> DEFINE fits == {i \in 1 .. 4 : RoundUp(i) < low + range}
           best == CHOOSE i \in fits : \A j \in fits : i <= j
<1>1. /\ epc = "ready" /\ low' = (IF fits = {} THEN low ELSE RoundUp(best))
    BY DEF tq_ac_enc_finish
<1>2. low \in Nat /\ range \in Nat /\ range >= TOP
    BY <1>1, Sizes DEF EncInv, EncTypeOK, RangeFloor
<1> DEFINE q == (low + TOP - 1) \div TOP
           r == (low + TOP - 1) % TOP
<1>3. /\ q \in Nat /\ r \in 0 .. TOP - 1 /\ low + TOP - 1 = TOP * q + r
    BY <1>2, Sizes, DivMod
<1>4. RoundUp(1) = q * TOP
    BY DEF RoundUp
<1> HIDE DEF q, r
<1>5. q * TOP = TOP * q /\ q * TOP \in Nat
    BY <1>3, Sizes
<1>6. RoundUp(1) \in Nat /\ low <= RoundUp(1) /\ RoundUp(1) < low + range
    BY <1>2, <1>3, <1>4, <1>5, Sizes
<1>7. 1 \in fits /\ \A j \in fits : 1 <= j
    BY <1>6
<1>8. best = 1
    <2>1. \A i \in fits : i \in 1 .. 4
        OBVIOUS
    <2> HIDE DEF fits
    <2>2. best \in fits /\ best <= 1
        BY <1>7
    <2> QED
        BY <2>1, <2>2
<1>9. low' = RoundUp(1)
    BY <1>1, <1>7, <1>8
<1>10. (TOP * q + 0) % TOP = 0 /\ TOP * q + 0 = q * TOP
    BY <1>3, <1>5, DivModUnique, Sizes
<1> QED
    BY <1>4, <1>6, <1>9, <1>10

\* Shifting a zero settles all digits and leaves a zero in the cache.
LEMMA ShiftZero ==
    ASSUME EncTypeOK, low = 0, tq_ac_shift_low, ~ overflow'
    PROVE  /\ ~ overflow /\ buf' = Gone
           /\ low' = 0 /\ cache' = 0 /\ pending' = 0 /\ primed'
<1>1. 0 \div WORD = 0 /\ 0 \div TOP = 0 /\ 0 % TOP = 0 /\ 0 % Base = 0
    BY Sizes
<1>2. CanSettle
    BY Sizes DEF CanSettle
<1>3. /\ tq_ac_put(Settled(0)) /\ cache' = 0 /\ pending' = 0 /\ primed' = TRUE
    BY <1>1, <1>2 DEF tq_ac_shift_low
<1>4. low' = 0
    BY <1>1, Sizes DEF tq_ac_shift_low
<1>5. buf \in Seq(Byte) /\ Settled(0) \in Seq(Byte)
    BY SettledType DEF EncTypeOK
<1>6. buf' = buf \o Settled(0) /\ ~ overflow
    BY <1>3, <1>5, PutAll
<1> QED
    BY <1>3, <1>4, <1>6 DEF Gone

\* With nothing but a zero in the cache, that zero is all that is not written.
LEMMA GoneZero ==
    ASSUME EncTypeOK, cache = 0, pending = 0, primed
    PROVE  Gone = buf \o <<0>>
<1>1. (0 + 0) % Base = 0 /\ [i \in 1 .. 0 |-> (Base - 1 + 0) % Base] = <<>>
    BY Sizes
<1>2. Settled(0) = <<0>>
    BY <1>1 DEF Settled
<1> QED
    BY <1>2 DEF Gone

\* A step of the flush or of the strip keeps the tail short.
LEMMA TailFlush ==
    ASSUME EncInv, TailInv, EncFlush, settled' = settled
    PROVE  TailInv'
<1>1. /\ epc = "flush" /\ epc' = "flush" /\ flush > 0 /\ flush' = flush - 1
      /\ tq_ac_shift_low /\ flush \in 1 .. 5
    BY DEF EncFlush, EncInv, EncTypeOK
<1>2. EncTypeOK /\ CarryAbsorbed
    BY DEF EncInv
<1>3. SingleByteTail' /\ settled' \in Nat
    BY <1>1 DEF SingleByteTail, TailInv
<1>4. SUFFICES ASSUME ~ overflow'
               PROVE  /\ flush' = 5 => Len(Gone)' = settled' /\ low' % TOP = 0
                      /\ flush' = 4 => Len(Gone)' = settled' + 1 /\ low' = 0
                      /\ flush' <= 3 =>
                           /\ low' = 0 /\ cache' = 0 /\ pending' = 0 /\ primed'
                           /\ \A i \in 1 .. Len(buf') : i > settled' + 1 => buf'[i] = 0
    BY <1>3 DEF TailInv
<1>5. ~ overflow /\ Len(Gone') = Len(Gone) + 1 /\ Gone \in Seq(Byte)
    BY <1>1, <1>2, <1>4, ShiftValue
<1>6. CASE flush = 5
    <2>1. Len(Gone) = settled /\ low % TOP = 0
        BY <1>1, <1>5, <1>6 DEF TailInv
    <2>2. low' = 0
        BY <1>1, <2>1, Sizes DEF tq_ac_shift_low
    <2> QED
        BY <1>1, <1>5, <1>6, <2>1, <2>2
<1>7. CASE flush = 4
    <2>1. Len(Gone) = settled + 1 /\ low = 0
        BY <1>1, <1>5, <1>7 DEF TailInv
    <2>2. buf' = Gone /\ low' = 0 /\ cache' = 0 /\ pending' = 0 /\ primed'
        BY <1>1, <1>2, <1>4, <2>1, ShiftZero
    <2>3. \A i \in 1 .. Len(buf') : ~ (i > settled' + 1)
        BY <1>3, <2>1, <2>2
    <2> QED
        BY <1>1, <1>7, <2>2, <2>3
<1>8. CASE flush <= 3
    <2>1. /\ low = 0 /\ cache = 0 /\ pending = 0 /\ primed
          /\ \A i \in 1 .. Len(buf) : i > settled + 1 => buf[i] = 0
        BY <1>1, <1>5, <1>8 DEF TailInv
    <2>2. buf' = Gone /\ low' = 0 /\ cache' = 0 /\ pending' = 0 /\ primed'
        BY <1>1, <1>2, <1>4, <2>1, ShiftZero
    <2>3. Gone = buf \o <<0>>
        BY <1>2, <2>1, GoneZero
    <2>4. buf \in Seq(Byte) /\ 0 \in Byte
        BY <1>2, Sizes DEF EncTypeOK, Byte
    <2>5. /\ Len(buf') = Len(buf) + 1 /\ buf'[Len(buf) + 1] = 0
          /\ \A i \in 1 .. Len(buf) : buf'[i] = buf[i]
        BY <2>2, <2>3, <2>4
    <2>6. \A i \in 1 .. Len(buf') : i > settled' + 1 => buf'[i] = 0
        BY <2>1, <2>4, <2>5
    <2>7. ~ (flush' = 5) /\ ~ (flush' = 4)
        BY <1>1, <1>8
    <2> QED
        BY <2>2, <2>6, <2>7
<1> QED
    BY <1>1, <1>6, <1>7, <1>8

\* The strip stops at the last digit that is not zero.
LEMMA TailStrip ==
    ASSUME EncInv, TailInv, EncStrip, settled' = settled
    PROVE  TailInv'
<1>1. /\ epc = "flush" /\ flush = 0 /\ flush' = 0 /\ low' = low /\ cache' = cache
      /\ pending' = pending /\ primed' = primed /\ overflow' = overflow
    BY DEF EncStrip
<1>2. buf \in Seq(Byte) /\ settled \in Nat
    BY DEF EncInv, EncTypeOK, TailInv
<1>3. ~ overflow => /\ low = 0 /\ cache = 0 /\ pending = 0 /\ primed
                    /\ \A i \in 1 .. Len(buf) : i > settled + 1 => buf[i] = 0
    BY <1>1 DEF TailInv
<1>4. CASE buf # <<>> /\ buf[Len(buf)] = 0
    <2>1. buf' = SubSeq(buf, 1, Len(buf) - 1) /\ epc' = epc
        BY <1>4 DEF EncStrip
    <2>2. Len(buf') <= Len(buf) /\ \A i \in 1 .. Len(buf') : buf'[i] = buf[i]
        BY <1>2, <1>4, <2>1
    <2>3. ~ overflow' => \A i \in 1 .. Len(buf') : i > settled + 1 => buf'[i] = 0
        <3>1. Len(buf') \in Nat /\ Len(buf) \in Nat
            BY <1>2, <1>4, <2>1
        <3> QED
            BY <1>1, <1>3, <2>2, <3>1
    <2> QED
        BY <1>1, <1>2, <1>3, <2>1, <2>3 DEF TailInv, SingleByteTail
<1>5. CASE ~ (buf # <<>> /\ buf[Len(buf)] = 0)
    <2>1. buf' = buf /\ epc' = "finished"
        BY <1>5 DEF EncStrip
    <2>2. ~ overflow => Len(buf) <= settled + 1
        BY <1>2, <1>3, <1>5
    <2> QED
        BY <1>1, <1>2, <2>1, <2>2 DEF TailInv, SingleByteTail
<1> QED
    BY <1>4, <1>5

\* Every step of the coder keeps the tail short.
LEMMA NextTail ==
    ASSUME Inv, TailInv, [Next]_vars
    PROVE  TailInv'
<1>1. EncInv
    BY DEF Inv
<1>2. ASSUME UNCHANGED encVars, settled' = settled PROVE TailInv'
    BY <1>2 DEF encVars, TailInv, SingleByteTail, Gone, Settled
<1>3. ASSUME epc' \in {"ready", "renorm"}, settled' = settled PROVE TailInv'
    BY <1>3 DEF TailInv, SingleByteTail
<1>4. ASSUME NEW cnt \in Tables, NEW i \in 1 .. Len(cnt), Send(cnt, i) PROVE TailInv'
    BY <1>3, <1>4 DEF Send, tq_ac_enc_sym
<1>5. CASE EncodeLoops
    <2>1. EncStep /\ settled' = settled
        BY <1>5 DEF EncodeLoops
    <2>2. CASE EncRenorm
        BY <1>3, <2>1, <2>2 DEF EncRenorm
    <2> QED
        BY <1>1, <2>1, <2>2, TailFlush, TailStrip DEF EncStep
<1>6. CASE Finish
    <2>1. /\ tq_ac_enc_finish /\ settled' = Len(buf) + pending + (IF primed THEN 1 ELSE 0)
        BY <1>6 DEF Finish
    <2>2. /\ epc' = "flush" /\ flush' = 5 /\ buf' = buf /\ cache' = cache
          /\ pending' = pending /\ primed' = primed
        BY <2>1 DEF tq_ac_enc_finish
    <2>3. low' % TOP = 0
        BY <1>1, <2>1, FinishRounds
    <2>4. Gone \in Seq(Byte) /\ settled' = Len(Gone) /\ Gone' = Gone
        BY <1>1, <2>1, <2>2, GoneLength DEF EncInv, Gone, Settled
    <2>5. settled' \in Nat /\ Len(Gone)' = settled'
        BY <2>4
    <2> QED
        BY <2>2, <2>3, <2>5 DEF TailInv, SingleByteTail
<1>7. CASE Deliver \/ Receive \/ DecodeLoop \/ UNCHANGED vars
    BY <1>2, <1>7 DEF Deliver, Receive, DecodeLoop, vars
<1> QED
    BY <1>4, <1>5, <1>6, <1>7 DEF Next

-----------------------------------------------------------------------------
(* The intervals a message goes through.  Both ends start from the whole     *)
(* word and take the same steps: narrow to the share of the next symbol      *)
(* while the range is wide, widen by a digit while it is not.  `lo` counts   *)
(* in units of the `sh`-th digit, without bound, so no carry is ever lost.   *)

Interval == [lo : Nat, rg : Nat, sh : Nat, n : Nat]

Whole == [lo |-> 0, rg |-> WORD - 1, sh |-> 0, n |-> 0]

Widen(a) == [lo |-> a.lo * Base, rg |-> a.rg * Base, sh |-> a.sh + 1, n |-> a.n]

Narrow(a, e) ==
    LET t == Triple(e.cnt, e.sym)
        r == a.rg \div t.tot
    IN  [lo |-> a.lo + r * t.cum, rg |-> r * t.freq, sh |-> a.sh, n |-> a.n + 1]

\* A symbol of a table, with the table.
Coded == {e \in [cnt : Tables, sym : Nat] : e.sym \in 1 .. Len(e.cnt)}

CoderStep(a, b, msg) ==
    IF a.rg < TOP THEN b = Widen(a)
                  ELSE a.n < Len(msg) /\ b = Narrow(a, msg[a.n + 1])

IsHistory(T, msg) ==
    /\ T \in Seq(Interval) /\ Len(T) >= 1 /\ T[1] = Whole
    /\ \A p \in 1 .. Len(T) - 1 : CoderStep(T[p], T[p + 1], msg)

\* The digits D point into the interval a.
PointsInto(D, a) ==
    /\ a.lo <= Value(D)[a.sh + 4]
    /\ Value(D)[a.sh + 4] < a.lo + a.rg

\* Narrowing stays inside.
LEMMA NarrowInside ==
    ASSUME NEW a \in Interval, a.rg >= TOP, NEW e \in Coded
    PROVE  LET t == Triple(e.cnt, e.sym)
               r == a.rg \div t.tot
               b == Narrow(a, e)
           IN  /\ b \in Interval
               /\ b.lo = a.lo + r * t.cum /\ b.rg = r * t.freq
               /\ b.sh = a.sh /\ b.n = a.n + 1
               /\ a.lo <= b.lo /\ b.lo + b.rg <= a.lo + a.rg
               /\ t \in Triples /\ r \in Nat /\ r >= Base
               /\ r * t.cum \in Nat /\ r * t.freq \in Nat
<1> DEFINE t == Triple(e.cnt, e.sym)
           r == a.rg \div t.tot
<1>1. e.cnt \in Tables /\ e.sym \in 1 .. Len(e.cnt)
    BY DEF Coded
<1>2. t \in Triples
    BY <1>1, TablesAssumption
<1>3. a.lo \in Nat /\ a.rg \in Nat /\ a.sh \in Nat /\ a.n \in Nat
    BY DEF Interval
<1>4. /\ r \in Nat /\ r >= Base /\ r * t.cum \in Nat /\ r * t.freq \in Nat
      /\ r * t.cum + r * t.freq <= a.rg
    BY <1>2, <1>3, ShareBounds
<1>5. Narrow(a, e) = [lo |-> a.lo + r * t.cum, rg |-> r * t.freq, sh |-> a.sh, n |-> a.n + 1]
    BY DEF Narrow
<1> DEFINE x == r * t.cum
           y == r * t.freq
<1>6. Narrow(a, e) = [lo |-> a.lo + x, rg |-> y, sh |-> a.sh, n |-> a.n + 1]
    BY <1>5
<1>7. x \in Nat /\ y \in Nat /\ x + y <= a.rg
    BY <1>4
<1> HIDE DEF x, y
<1>8. /\ Narrow(a, e) \in Interval /\ Narrow(a, e).lo = a.lo + x /\ Narrow(a, e).rg = y
      /\ Narrow(a, e).sh = a.sh /\ Narrow(a, e).n = a.n + 1
      /\ a.lo <= a.lo + x /\ (a.lo + x) + y <= a.lo + a.rg
    BY <1>3, <1>6, <1>7 DEF Interval
<1> QED
    BY <1>2, <1>4, <1>8 DEF x, y

\* A history continues with a step of the coder.
LEMMA HistoryExtended ==
    ASSUME NEW T, NEW msg, IsHistory(T, msg), NEW b \in Interval,
           CoderStep(T[Len(T)], b, msg)
    PROVE  /\ IsHistory(Append(T, b), msg)
           /\ Append(T, b)[Len(Append(T, b))] = b
<1>1. /\ T \in Seq(Interval) /\ Len(T) >= 1 /\ T[1] = Whole
      /\ \A p \in 1 .. Len(T) - 1 : CoderStep(T[p], T[p + 1], msg)
    BY DEF IsHistory
<1>2. PICK U \in Seq(Interval) : U = Append(T, b)
    <2>1. Append(T, b) \in Seq(Interval)
        BY <1>1
    <2> QED
        BY <2>1
<1>3. /\ Len(U) = Len(T) + 1 /\ U[Len(T) + 1] = b /\ Len(T) \in Nat
      /\ \A p \in 1 .. Len(T) : U[p] = T[p]
    BY <1>1, <1>2
<1>4. ASSUME NEW p \in 1 .. Len(U) - 1
      PROVE  CoderStep(U[p], U[p + 1], msg)
    <2>1. CASE p = Len(T)
        BY <1>1, <1>3, <2>1
    <2>2. CASE p # Len(T)
        <3>1. p \in 1 .. Len(T) - 1 /\ p \in 1 .. Len(T) /\ p + 1 \in 1 .. Len(T)
            BY <1>3, <2>2
        <3> QED
            BY <1>1, <1>3, <3>1
    <2> QED
        BY <2>1, <2>2
<1>5. U[1] = Whole /\ Len(U) >= 1
    BY <1>1, <1>3
<1> QED
    BY <1>2, <1>3, <1>4, <1>5 DEF IsHistory

\* A history of a message is one of a longer message.
LEMMA HistoryOfLonger ==
    ASSUME NEW msg \in Seq(Coded), NEW e \in Coded, NEW T, IsHistory(T, msg)
    PROVE  IsHistory(T, Append(msg, e))
<1>1. PICK l \in Seq(Coded) : l = Append(msg, e)
    <2>1. Append(msg, e) \in Seq(Coded)
        OBVIOUS
    <2> QED
        BY <2>1
<1>2. /\ Len(l) = Len(msg) + 1 /\ Len(msg) \in Nat
      /\ \A i \in 1 .. Len(msg) : l[i] = msg[i]
    BY <1>1
<1>3. /\ T \in Seq(Interval) /\ Len(T) \in Nat
      /\ \A p \in 1 .. Len(T) - 1 : CoderStep(T[p], T[p + 1], msg)
    BY DEF IsHistory
<1>4. ASSUME NEW p \in 1 .. Len(T) - 1
      PROVE  CoderStep(T[p], T[p + 1], l)
    <2>1. p \in 1 .. Len(T)
        BY <1>3
    <2>2. PICK a \in Interval : a = T[p]
        BY <1>3, <2>1
    <2>3. a.n \in Nat
        BY DEF Interval
    <2>4. a.n < Len(msg) => a.n < Len(l) /\ a.n + 1 \in 1 .. Len(msg)
        BY <1>2, <2>3
    <2>5. CoderStep(a, T[p + 1], msg)
        BY <1>3, <2>2
    <2> QED
        BY <1>2, <2>2, <2>4, <2>5 DEF CoderStep
<1> QED
    BY <1>1, <1>4 DEF IsHistory

\* One step back: digits that point into an interval point into the one it
\* was made from.
LEMMA PointsBack ==
    ASSUME NEW D \in [Nat -> Byte], NEW msg \in Seq(Coded), NEW a \in Interval,
           NEW b \in Interval, CoderStep(a, b, msg), PointsInto(D, b)
    PROVE  PointsInto(D, a)
<1>1. a.lo \in Nat /\ a.rg \in Nat /\ a.sh \in Nat /\ a.n \in Nat
    BY DEF Interval
<1>2. D \in [Nat -> Nat]
    <2>1. Byte \subseteq Nat
        BY Sizes DEF Byte
    <2> QED
        BY <2>1
<1>3. IsFold(Value(D), Base, D)
    BY <1>2, ValueFold
<1>4. PICK k \in Nat : k = a.sh + 4
    BY <1>1
<1>5. PICK v \in Nat, d \in Byte : v = Value(D)[k] /\ d = D[k]
    BY <1>3 DEF IsFold
<1>6. CASE a.rg < TOP
    <2>1. b = Widen(a)
        BY <1>6 DEF CoderStep
    <2>2. b.lo = a.lo * Base /\ b.rg = a.rg * Base /\ b.sh + 4 = k + 1
        BY <1>1, <1>4, <2>1 DEF Widen
    <2>3. Value(D)[k + 1] = v * Base + d
        BY <1>3, <1>5 DEF IsFold
    <2>4. a.lo * Base <= v * Base + d /\ v * Base + d < a.lo * Base + a.rg * Base
        BY <2>2, <2>3 DEF PointsInto
    <2>5. PICK l \in Nat, w \in Nat : l = a.lo /\ w = a.rg
        BY <1>1
    <2>6. d \in Nat /\ d < Base /\ Base \in Nat
        BY Sizes DEF Byte
    <2>7. l <= v
        <3>1. SUFFICES ASSUME v < l PROVE FALSE
            OBVIOUS
        <3>2. v * Base <= l * Base - Base /\ v * Base \in Nat /\ l * Base \in Nat
            BY <3>1, ShiftMono, Sizes
        <3> QED
            BY <2>4, <2>5, <2>6, <3>2
    <2>8. v < l + w
        <3>1. SUFFICES ASSUME l + w <= v PROVE FALSE
            OBVIOUS
        <3>2. /\ (l + w) * Base <= v * Base /\ (l + w) * Base = l * Base + w * Base
              /\ v * Base \in Nat /\ l * Base \in Nat /\ w * Base \in Nat
            BY <3>1, MulMono, Sizes
        <3>3. PICK x \in Nat, y \in Nat, z \in Nat :
                 x = l * Base /\ y = w * Base /\ z = v * Base
            BY <3>2
        <3>4. x + y <= z /\ z + d < x + y
            BY <2>4, <2>5, <3>2, <3>3
        <3> QED
            BY <2>6, <3>4
    <2> QED
        BY <1>4, <1>5, <2>5, <2>7, <2>8 DEF PointsInto
<1>7. CASE ~ (a.rg < TOP)
    <2>1. a.n < Len(msg) /\ b = Narrow(a, msg[a.n + 1])
        BY <1>7 DEF CoderStep
    <2>2. PICK e \in Coded : e = msg[a.n + 1]
        BY <1>1, <2>1
    <2>3. b.sh = a.sh /\ a.lo <= b.lo /\ b.lo + b.rg <= a.lo + a.rg
        <3>1. a.rg >= TOP
            BY <1>1, <1>7, Sizes
        <3> QED
            BY <2>1, <2>2, <3>1, NarrowInside
    <2>4. b.lo <= v /\ v < b.lo + b.rg
        BY <1>4, <1>5, <2>3 DEF PointsInto
    <2>5. b.lo \in Nat /\ b.rg \in Nat
        BY DEF Interval
    <2>6. a.lo <= v /\ v < a.lo + a.rg
        BY <1>1, <2>3, <2>4, <2>5
    <2> QED
        BY <1>4, <1>5, <2>6 DEF PointsInto
<1> QED
    BY <1>6, <1>7

\* Digits that point into the last interval of a history point into all.
LEMMA PointsIntoAll ==
    ASSUME NEW D \in [Nat -> Byte], NEW msg \in Seq(Coded), NEW T, IsHistory(T, msg),
           PointsInto(D, T[Len(T)]), NEW p \in 1 .. Len(T)
    PROVE  PointsInto(D, T[p])
<1>1. /\ T \in Seq(Interval) /\ Len(T) \in Nat /\ Len(T) >= 1
      /\ \A q \in 1 .. Len(T) - 1 : CoderStep(T[q], T[q + 1], msg)
    BY DEF IsHistory
<1> DEFINE bad == {j \in Nat : j < Len(T) /\ ~ PointsInto(D, T[Len(T) - j])}
<1>2. SUFFICES ASSUME bad # {} PROVE FALSE
    <2>1. Len(T) - p \in Nat /\ Len(T) - p < Len(T) /\ Len(T) - (Len(T) - p) = p
        BY <1>1
    <2> QED
        BY <2>1
<1>3. PICK j \in bad : \A i \in bad : j <= i
    <2>1. bad \subseteq Nat
        OBVIOUS
    <2> HIDE DEF bad
    <2> QED
        BY <1>2, <2>1, LeastElement
<1>4. j \in Nat /\ j < Len(T) /\ ~ PointsInto(D, T[Len(T) - j])
    OBVIOUS
<1>5. j # 0
    <2>1. Len(T) - 0 = Len(T)
        BY <1>1
    <2> QED
        BY <1>4, <2>1
<1>6. j - 1 \notin bad
    <2>1. ~ (j <= j - 1)
        BY <1>4
    <2> HIDE DEF bad
    <2> QED
        BY <1>3, <2>1
<1>7. PICK q \in 1 .. Len(T) - 1 : q = Len(T) - j
    BY <1>1, <1>4, <1>5
<1>8. q + 1 = Len(T) - (j - 1) /\ q + 1 \in 1 .. Len(T) /\ q \in 1 .. Len(T)
    BY <1>1, <1>4, <1>7
<1>9. PointsInto(D, T[q + 1])
    BY <1>1, <1>4, <1>5, <1>6, <1>8
<1>10. CoderStep(T[q], T[q + 1], msg) /\ T[q] \in Interval /\ T[q + 1] \in Interval
    BY <1>1, <1>8
<1>11. PointsInto(D, T[q])
    BY <1>9, <1>10, PointsBack
<1> QED
    BY <1>4, <1>7, <1>11

-----------------------------------------------------------------------------
(* What the encoder says: it walks through such a history, and the digits it *)
(* finishes with point into the last interval of it.                         *)

SentCoded == sent \in Seq(Coded)

\* Where the encoder is, after the interval a.
EncoderAt(a) ==
    /\ a.n = Len(sent)
    /\ epc \in {"ready", "renorm"} => a.lo = FullLow /\ a.rg = range /\ a.sh = Len(Gone)
    /\ epc \in {"flush", "finished"} => a.rg >= TOP /\ a.sh = settled
    /\ epc = "flush" =>
          /\ flush = 5 => a.lo <= FullLow /\ FullLow < a.lo + a.rg
          /\ flush = 4 => PointsInto(DigitsOf(Gone), a)
          /\ flush <= 3 => PointsInto(DigitsOf(buf), a)
    /\ epc = "finished" => PointsInto(DigitsOf(buf), a)

EncSaid ==
    ~ overflow => \E T : IsHistory(T, sent) /\ EncoderAt(T[Len(T)])

\* The digits that left low make a natural number.
LEMMA GoneValueType ==
    ASSUME EncTypeOK
    PROVE  GoneValue \in Nat
<1>1. Gone \in Seq(Byte)
    BY GoneLength
<1>2. PICK D \in [Nat -> Nat] : D = DigitsOf(Gone)
    BY <1>1, DigitsType
<1>3. Value(D) \in [Nat -> Nat]
    BY ValueFold DEF IsFold
<1>4. Len(Gone) \in Nat
    BY <1>1
<1> QED
    BY <1>2, <1>3, <1>4 DEF GoneValue

\* A shift multiplies the low end by the base.
LEMMA ShiftFullLow ==
    ASSUME EncTypeOK, CarryAbsorbed, tq_ac_shift_low, ~ overflow'
    PROVE  FullLow \in Nat /\ FullLow' = FullLow * Base
<1>1. low \in Nat
    BY DEF EncTypeOK
<1>2. PICK d \in Nat, m \in Nat : d = low \div TOP /\ m = low % TOP /\ low = TOP * d + m
    <2>1. /\ low \div TOP \in Nat /\ low % TOP \in 0 .. TOP - 1
          /\ low = TOP * (low \div TOP) + (low % TOP)
        BY <1>1, Sizes, DivMod
    <2> QED
        BY <2>1, Sizes
<1>3. PICK g \in Nat : g = GoneValue /\ GoneValue' = g * Base + d
    BY <1>2, ShiftValue
<1>4. low' = m * Base
    BY <1>2 DEF tq_ac_shift_low
<1>5. FullLow = g * WORD + (TOP * d + m)
    BY <1>2, <1>3 DEF FullLow
<1>6. FullLow' = (g * Base + d) * WORD + m * Base
    BY <1>3, <1>4 DEF FullLow
<1>7. (g * Base + d) * WORD = (g * WORD) * Base + (TOP * d) * Base
    <2>1. (g * Base + d) * WORD = (g * Base) * WORD + d * WORD
        BY Sizes
    <2>2. (g * Base) * WORD = (g * WORD) * Base
        BY Sizes
    <2>3. d * WORD = (TOP * d) * Base
        <3>1. d * (Base * TOP) = (TOP * d) * Base
            BY Sizes
        <3> QED
            BY <3>1, Sizes
    <2> QED
        BY <2>1, <2>2, <2>3
<1>8. PICK x \in Nat, y \in Nat : x = g * WORD /\ y = TOP * d
    BY Sizes
<1>9. (x + (y + m)) * Base = x * Base + y * Base + m * Base
    BY Sizes
<1> QED
    BY <1>5, <1>6, <1>7, <1>8, <1>9

\* The digits past the end are zero.
LEMMA ZeroPastEnd ==
    ASSUME NEW s \in Seq(Byte), NEW k \in Nat, k >= Len(s)
    PROVE  WireDigit(s, k + 1) = 0
<1>1. ~ (k + 1 <= Len(s))
    OBVIOUS
<1> QED
    BY <1>1 DEF WireDigit

\* Three zeroes behind a number.
LEMMA ValuePadded ==
    ASSUME NEW s \in Seq(Byte)
    PROVE  Value(DigitsOf(s))[Len(s) + 3] = Value(DigitsOf(s))[Len(s)] * TOP
<1>1. Len(s) \in Nat
    OBVIOUS
<1>2. PICK n \in Nat : n = Len(s)
    BY <1>1
<1>3. PICK D \in [Nat -> Nat] : D = DigitsOf(s)
    BY DigitsType
<1>4. D[n] = 0 /\ D[n + 1] = 0 /\ D[n + 2] = 0
    <2>1. \A k \in Nat : D[k] = WireDigit(s, k + 1)
        BY <1>3, DigitsType
    <2>2. n \in Nat /\ n + 1 \in Nat /\ n + 2 \in Nat
        OBVIOUS
    <2>3. n >= n /\ n + 1 >= n /\ n + 2 >= n
        OBVIOUS
    <2>4. WireDigit(s, n + 1) = 0 /\ WireDigit(s, (n + 1) + 1) = 0 /\ WireDigit(s, (n + 2) + 1) = 0
        BY <1>2, <2>2, <2>3, ZeroPastEnd
    <2> QED
        BY <2>1, <2>2, <2>4
<1>5. IsFold(Value(D), Base, D)
    BY ValueFold
<1>6. PICK V \in [Nat -> Nat] : V = Value(D)
    BY <1>5 DEF IsFold
<1>7. \A k \in Nat : V[k + 1] = V[k] * Base + D[k]
    BY <1>5, <1>6 DEF IsFold
<1>8. PICK v \in Nat : v = V[n]
    OBVIOUS
<1>9. V[n + 1] = v * Base
    <2>1. V[n + 1] = v * Base + 0
        BY <1>4, <1>7, <1>8
    <2>2. v * Base \in Nat
        BY Sizes
    <2> QED
        BY <2>1, <2>2
<1>10. V[n + 2] = (v * Base) * Base
    <2>1. (n + 1) + 1 = n + 2 /\ n + 1 \in Nat
        OBVIOUS
    <2>2. V[(n + 1) + 1] = V[n + 1] * Base + D[n + 1]
        BY <1>7, <2>1
    <2>3. (v * Base) * Base \in Nat
        BY Sizes
    <2> QED
        BY <1>4, <1>9, <2>1, <2>2, <2>3
<1>11. V[n + 3] = ((v * Base) * Base) * Base
    <2>1. (n + 2) + 1 = n + 3 /\ n + 2 \in Nat
        OBVIOUS
    <2>2. V[(n + 2) + 1] = V[n + 2] * Base + D[n + 2]
        BY <1>7, <2>1
    <2>3. ((v * Base) * Base) * Base \in Nat
        BY Sizes
    <2> QED
        BY <1>4, <1>10, <2>1, <2>2, <2>3
<1>12. ((v * Base) * Base) * Base = v * TOP
    <2>1. TOP = Base * (Base * Base)
        BY DEF TOP, TOT
    <2> QED
        BY <2>1, Sizes
<1> QED
    BY <1>2, <1>3, <1>6, <1>8, <1>11, <1>12

\* A zero at the end of a message says nothing.
LEMMA ZeroSaysNothing ==
    ASSUME NEW s \in Seq(Byte), NEW t \in Seq(Byte), Len(t) = Len(s) + 1,
           \A i \in 1 .. Len(s) : t[i] = s[i], t[Len(s) + 1] = 0
    PROVE  DigitsOf(t) = DigitsOf(s)
<1>1. ASSUME NEW k \in Nat PROVE WireDigit(t, k + 1) = WireDigit(s, k + 1)
    <2>1. Len(s) \in Nat
        OBVIOUS
    <2>2. CASE k + 1 <= Len(s)
        <3>1. k + 1 \in 1 .. Len(s) /\ k + 1 <= Len(t)
            BY <2>1, <2>2
        <3> QED
            BY <2>2, <3>1 DEF WireDigit
    <2>3. CASE k + 1 = Len(s) + 1
        <3>1. ~ (k + 1 <= Len(s)) /\ k + 1 <= Len(t)
            BY <2>1, <2>3
        <3> QED
            BY <2>3, <3>1 DEF WireDigit
    <2>4. CASE k + 1 > Len(s) + 1
        <3>1. ~ (k + 1 <= Len(s)) /\ ~ (k + 1 <= Len(t))
            BY <2>1, <2>4
        <3> QED
            BY <3>1 DEF WireDigit
    <2> QED
        BY <2>1, <2>2, <2>3, <2>4
<1> QED
    BY <1>1 DEF DigitsOf

\* Coding a symbol.
LEMMA SaidSend ==
    ASSUME Inv, SentCoded, EncSaid,
           NEW cnt \in Tables, NEW i \in 1 .. Len(cnt), Send(cnt, i)
    PROVE  EncSaid' /\ SentCoded'
<1>1. PICK e \in Coded : e = [cnt |-> cnt, sym |-> i]
    <2>1. i \in Nat
        BY TablesAssumption
    <2> QED
        BY <2>1 DEF Coded
<1>2. /\ sent' = Append(sent, e) /\ tq_ac_enc_sym(Triple(cnt, i))
      /\ e.cnt = cnt /\ e.sym = i
    BY <1>1 DEF Send
<1>3. SentCoded'
    BY <1>2 DEF SentCoded
<1>4. SUFFICES ASSUME ~ overflow'
               PROVE  \E T : IsHistory(T, sent') /\ (EncoderAt(T[Len(T)]))'
    BY <1>3 DEF EncSaid
<1> DEFINE t == Triple(cnt, i)
           r == range \div t.tot
<1>5. /\ epc = "ready" /\ low' = low + r * t.cum /\ range' = r * t.freq
      /\ epc' \in {"ready", "renorm"}
      /\ UNCHANGED <<cache, pending, primed, overflow, buf, flush>>
    BY <1>2 DEF tq_ac_enc_sym
<1>6. Gone' = Gone /\ GoneValue' = GoneValue
    BY <1>5 DEF Gone, GoneValue, Settled
<1>7. PICK T : IsHistory(T, sent) /\ EncoderAt(T[Len(T)])
    BY <1>4, <1>5 DEF EncSaid
<1>8. T \in Seq(Interval) /\ Len(T) >= 1
    BY <1>7 DEF IsHistory
<1>9. PICK a \in Interval : a = T[Len(T)]
    BY <1>8
<1>10. a.n = Len(sent) /\ a.lo = FullLow /\ a.rg = range /\ a.sh = Len(Gone)
    BY <1>5, <1>7, <1>9 DEF EncoderAt
<1>11. range >= TOP /\ range \in Nat /\ TOP \in Nat
    BY <1>5, Sizes DEF Inv, EncInv, EncTypeOK, RangeFloor
<1>12. PICK b \in Interval : b = Narrow(a, e)
    BY <1>10, <1>11, NarrowInside
<1>13. /\ b.lo = a.lo + r * t.cum /\ b.rg = r * t.freq /\ b.sh = a.sh /\ b.n = a.n + 1
       /\ r * t.cum \in Nat
    BY <1>2, <1>10, <1>11, <1>12, NarrowInside
<1>14. CoderStep(a, b, Append(sent, e))
    <2>1. /\ a.n < Len(Append(sent, e)) /\ Append(sent, e)[a.n + 1] = e
        BY <1>10 DEF SentCoded
    <2>2. ~ (a.rg < TOP)
        BY <1>10, <1>11
    <2> QED
        BY <1>12, <2>1, <2>2 DEF CoderStep
<1>15. IsHistory(T, Append(sent, e))
    BY <1>7, HistoryOfLonger DEF SentCoded
<1>16. PICK U : IsHistory(U, Append(sent, e)) /\ U[Len(U)] = b
    BY <1>9, <1>14, <1>15, HistoryExtended
<1>17. b.n = Len(sent') /\ b.lo = FullLow' /\ b.rg = range' /\ b.sh = Len(Gone')
    <2>1. Len(sent') = Len(sent) + 1
        BY <1>2 DEF SentCoded
    <2>2. FullLow' = FullLow + r * t.cum
        <3>1. low \in Nat /\ GoneValue * WORD \in Nat
            <4>1. GoneValue \in Nat
                BY GoneValueType DEF Inv, EncInv
            <4> QED
                BY <4>1, Sizes DEF Inv, EncInv, EncTypeOK
        <3>2. FullLow' = GoneValue * WORD + (low + r * t.cum)
            BY <1>5, <1>6 DEF FullLow
        <3> HIDE DEF r, t
        <3> QED
            BY <1>13, <3>1, <3>2 DEF FullLow
    <2> QED
        BY <1>5, <1>6, <1>10, <1>13, <2>1, <2>2
<1>18. EncoderAt(b)'
    BY <1>5, <1>17 DEF EncoderAt
<1> QED
    BY <1>2, <1>16, <1>18

\* A turn of the renormalisation loop.
LEMMA SaidRenorm ==
    ASSUME Inv, SentCoded, EncSaid, EncRenorm, sent' = sent
    PROVE  EncSaid'
<1>1. SUFFICES ASSUME ~ overflow'
               PROVE  \E T : IsHistory(T, sent') /\ (EncoderAt(T[Len(T)]))'
    BY DEF EncSaid
<1>2. /\ epc = "renorm" /\ tq_ac_shift_low /\ range' = range * Base
      /\ epc' \in {"ready", "renorm"}
    BY DEF EncRenorm
<1>3. EncTypeOK /\ CarryAbsorbed /\ range < TOP /\ range \in Nat
    BY <1>2 DEF Inv, EncInv, RangeFloor, EncTypeOK
<1>4. ~ overflow /\ Len(Gone') = Len(Gone) + 1 /\ Len(Gone) \in Nat
    BY <1>1, <1>2, <1>3, ShiftValue
<1>5. FullLow' = FullLow * Base
    BY <1>1, <1>2, <1>3, ShiftFullLow
<1>6. PICK T : IsHistory(T, sent) /\ EncoderAt(T[Len(T)])
    BY <1>4 DEF EncSaid
<1>7. T \in Seq(Interval) /\ Len(T) >= 1
    BY <1>6 DEF IsHistory
<1>8. PICK a \in Interval : a = T[Len(T)]
    BY <1>7
<1>9. a.n = Len(sent) /\ a.lo = FullLow /\ a.rg = range /\ a.sh = Len(Gone)
    BY <1>2, <1>6, <1>8 DEF EncoderAt
<1>10. PICK b \in Interval : b = Widen(a)
    <2>1. a.lo \in Nat /\ a.rg \in Nat /\ a.sh \in Nat /\ a.n \in Nat
        BY DEF Interval
    <2>2. a.lo * Base \in Nat /\ a.rg * Base \in Nat
        BY <2>1, Sizes
    <2>3. Widen(a) \in Interval
        BY <2>1, <2>2 DEF Interval, Widen
    <2> QED
        BY <2>3
<1>11. CoderStep(a, b, sent)
    BY <1>3, <1>9, <1>10 DEF CoderStep
<1>12. PICK U : IsHistory(U, sent) /\ U[Len(U)] = b
    BY <1>6, <1>8, <1>11, HistoryExtended
<1>13. b.n = Len(sent') /\ b.lo = FullLow' /\ b.rg = range' /\ b.sh = Len(Gone')
    BY <1>2, <1>4, <1>5, <1>9, <1>10 DEF Widen
<1>14. EncoderAt(b)'
    BY <1>2, <1>13 DEF EncoderAt
<1> QED
    BY <1>12, <1>14

\* The point tq_ac_enc_finish chooses lies in the last interval.
LEMMA SaidFinish ==
    ASSUME Inv, EncSaid, Finish
    PROVE  EncSaid'
<1>1. SUFFICES ASSUME ~ overflow'
               PROVE  \E T : IsHistory(T, sent') /\ (EncoderAt(T[Len(T)]))'
    BY DEF EncSaid
<1>2. /\ tq_ac_enc_finish /\ sent' = sent
      /\ settled' = Len(buf) + pending + (IF primed THEN 1 ELSE 0)
    BY DEF Finish
<1>3. /\ epc = "ready" /\ epc' = "flush" /\ flush' = 5 /\ buf' = buf /\ cache' = cache
      /\ pending' = pending /\ primed' = primed /\ overflow' = overflow
    BY <1>2 DEF tq_ac_enc_finish
<1>4. EncInv /\ EncTypeOK /\ low \in Nat /\ range \in Nat /\ range >= TOP
    BY <1>3 DEF Inv, EncInv, EncTypeOK, RangeFloor
<1>5. low' \in Nat /\ low <= low' /\ low' < low + range
    BY <1>2, <1>4, FinishRounds
<1>6. Gone' = Gone /\ GoneValue' = GoneValue
    BY <1>3 DEF Gone, GoneValue, Settled
<1>7. PICK g \in Nat : g = GoneValue * WORD
    BY <1>4, GoneValueType, Sizes
<1>8. FullLow = g + low /\ FullLow' = g + low'
    BY <1>6, <1>7 DEF FullLow
<1>9. PICK T : IsHistory(T, sent) /\ EncoderAt(T[Len(T)])
    BY <1>1, <1>3 DEF EncSaid
<1>10. PICK a : a = T[Len(T)]
    OBVIOUS
<1>11. a.n = Len(sent) /\ a.lo = FullLow /\ a.rg = range /\ a.sh = Len(Gone)
    BY <1>3, <1>9, <1>10 DEF EncoderAt
<1>12. a.sh = settled' /\ a.n = Len(sent') /\ a.rg >= TOP
    BY <1>2, <1>4, <1>11, GoneLength
<1>13. a.lo <= FullLow' /\ FullLow' < a.lo + a.rg
    <2>1. PICK x \in Nat, y \in Nat, w \in Nat : x = low /\ y = low' /\ w = range
        BY <1>4, <1>5
    <2>2. x <= y /\ y < x + w
        BY <1>5, <2>1
    <2>3. g + x <= g + y /\ g + y < (g + x) + w
        BY <2>2
    <2> QED
        BY <1>8, <1>11, <2>1, <2>3
<1>14. EncoderAt(a)'
    BY <1>3, <1>12, <1>13 DEF EncoderAt
<1> QED
    BY <1>2, <1>9, <1>10, <1>14

\* The first shift of the flush completes the message; the others add zeroes.
LEMMA SaidFlush ==
    ASSUME Inv, TailInv, EncSaid, EncFlush, sent' = sent, settled' = settled
    PROVE  EncSaid'
<1>1. SUFFICES ASSUME ~ overflow'
               PROVE  \E T : IsHistory(T, sent') /\ (EncoderAt(T[Len(T)]))'
    BY DEF EncSaid
<1>2. /\ epc = "flush" /\ epc' = "flush" /\ flush > 0 /\ flush' = flush - 1
      /\ tq_ac_shift_low /\ flush \in 1 .. 5
    BY DEF EncFlush, Inv, EncInv, EncTypeOK
<1>3. EncTypeOK /\ CarryAbsorbed
    BY DEF Inv, EncInv
<1>4. ~ overflow /\ Len(Gone') = Len(Gone) + 1 /\ Gone \in Seq(Byte) /\ Gone' \in Seq(Byte)
    BY <1>1, <1>2, <1>3, ShiftValue
<1>5. PICK T : IsHistory(T, sent) /\ EncoderAt(T[Len(T)])
    BY <1>4 DEF EncSaid
<1>6. PICK a : a = T[Len(T)]
    OBVIOUS
<1>7. /\ a.n = Len(sent') /\ a.rg >= TOP /\ a.sh = settled'
      /\ flush = 5 => a.lo <= FullLow /\ FullLow < a.lo + a.rg
      /\ flush = 4 => PointsInto(DigitsOf(Gone), a)
      /\ flush <= 3 => PointsInto(DigitsOf(buf), a)
    BY <1>2, <1>5, <1>6 DEF EncoderAt
<1>8. CASE flush = 5
    <2>1. Len(Gone) = settled /\ low % TOP = 0
        BY <1>2, <1>4, <1>8 DEF TailInv
    <2>2. PICK s \in Seq(Byte) : s = Gone'
        BY <1>4
    <2>3. Value(DigitsOf(s))[Len(s) + 3] = Value(DigitsOf(s))[Len(s)] * TOP
        BY ValuePadded
    <2>4. GoneValue' = Value(DigitsOf(s))[Len(s)] /\ Len(s) + 3 = a.sh + 4
        BY <1>4, <1>7, <2>1, <2>2 DEF GoneValue, TailInv
    <2>5. FullLow = GoneValue' * TOP
        <3>1. low \in Nat
            BY <1>3 DEF EncTypeOK
        <3>2. PICK d \in Nat : d = low \div TOP /\ low = TOP * d
            <4>1. low \div TOP \in Nat /\ low = TOP * (low \div TOP) + (low % TOP)
                BY <3>1, Sizes, DivMod
            <4>2. TOP * (low \div TOP) \in Nat
                BY <4>1, Sizes
            <4> QED
                BY <2>1, <4>1, <4>2
        <3>3. PICK g \in Nat : g = GoneValue /\ GoneValue' = g * Base + d
            BY <1>1, <1>2, <1>3, <3>2, ShiftValue
        <3>4. (g * Base + d) * TOP = g * WORD + TOP * d
            <4>1. (g * Base + d) * TOP = g * (Base * TOP) + TOP * d
                BY Sizes
            <4> QED
                BY <4>1, Sizes
        <3> QED
            BY <3>2, <3>3, <3>4 DEF FullLow
    <2>6. Value(DigitsOf(s))[a.sh + 4] = FullLow
        BY <2>3, <2>4, <2>5
    <2>7. PointsInto(DigitsOf(s), a)
        BY <1>7, <1>8, <2>6 DEF PointsInto
    <2>8. EncoderAt(a)'
        BY <1>2, <1>7, <1>8, <2>2, <2>7 DEF EncoderAt
    <2> QED
        BY <1>5, <1>6, <2>8
<1>9. CASE flush = 4
    <2>1. low = 0
        BY <1>2, <1>4, <1>9 DEF TailInv
    <2>2. buf' = Gone
        BY <1>1, <1>2, <1>3, <2>1, ShiftZero
    <2>3. PointsInto(DigitsOf(buf'), a)
        BY <1>7, <1>9, <2>2
    <2>4. EncoderAt(a)'
        BY <1>2, <1>7, <1>9, <2>3 DEF EncoderAt
    <2> QED
        BY <1>5, <1>6, <2>4
<1>10. CASE flush <= 3
    <2>1. low = 0 /\ cache = 0 /\ pending = 0 /\ primed
        BY <1>2, <1>4, <1>10 DEF TailInv
    <2>2. buf' = buf \o <<0>>
        BY <1>1, <1>2, <1>3, <2>1, ShiftZero, GoneZero
    <2>3. PICK s \in Seq(Byte) : s = buf
        BY <1>3 DEF EncTypeOK
    <2>4. PICK u \in Seq(Byte) : u = s \o <<0>>
        <3>1. 0 \in Byte
            BY Sizes DEF Byte
        <3>2. s \o <<0>> \in Seq(Byte)
            BY <3>1
        <3> QED
            BY <3>2
    <2>5. Len(u) = Len(s) + 1 /\ u[Len(s) + 1] = 0 /\ \A i \in 1 .. Len(s) : u[i] = s[i]
        BY <2>4
    <2>6. DigitsOf(u) = DigitsOf(s)
        BY <2>5, ZeroSaysNothing
    <2>7. PointsInto(DigitsOf(buf'), a)
        BY <1>7, <1>10, <2>2, <2>3, <2>4, <2>6
    <2>8. flush' <= 3 /\ ~ (flush' = 5) /\ ~ (flush' = 4)
        BY <1>2, <1>10
    <2>9. EncoderAt(a)'
        BY <1>2, <1>7, <2>7, <2>8 DEF EncoderAt
    <2> QED
        BY <1>5, <1>6, <2>9
<1> QED
    BY <1>2, <1>8, <1>9, <1>10

\* The strip does not change what the message says.
LEMMA SaidStrip ==
    ASSUME Inv, EncSaid, EncStrip, sent' = sent, settled' = settled
    PROVE  EncSaid'
<1>1. SUFFICES ASSUME ~ overflow'
               PROVE  \E T : IsHistory(T, sent') /\ (EncoderAt(T[Len(T)]))'
    BY DEF EncSaid
<1>2. epc = "flush" /\ flush = 0 /\ flush' = 0 /\ overflow' = overflow
    BY DEF EncStrip
<1>3. PICK T : IsHistory(T, sent) /\ EncoderAt(T[Len(T)])
    BY <1>1, <1>2 DEF EncSaid
<1>4. PICK a : a = T[Len(T)]
    OBVIOUS
<1>5. a.n = Len(sent') /\ a.rg >= TOP /\ a.sh = settled' /\ PointsInto(DigitsOf(buf), a)
    BY <1>2, <1>3, <1>4 DEF EncoderAt
<1>6. epc' \in {"flush", "finished"} /\ DigitsOf(buf') = DigitsOf(buf)
    <2>1. PICK t \in Seq(Byte) : t = buf
        BY DEF Inv, EncInv, EncTypeOK
    <2>2. CASE buf # <<>> /\ buf[Len(buf)] = 0
        <3>1. buf' = SubSeq(t, 1, Len(t) - 1) /\ epc' = epc
            BY <2>1, <2>2 DEF EncStrip
        <3>2. SubSeq(t, 1, Len(t) - 1) \in Seq(Byte)
            BY <2>1, <2>2
        <3>3. PICK s \in Seq(Byte) : s = SubSeq(t, 1, Len(t) - 1)
            BY <3>2
        <3>4. Len(t) = Len(s) + 1 /\ \A i \in 1 .. Len(s) : t[i] = s[i]
            <4>1. Len(t) \in Nat /\ Len(t) >= 1
                BY <2>1, <2>2
            <4>2. PICK n \in Nat : Len(t) = n + 1 /\ n = Len(t) - 1
                BY <4>1
            <4>3. Len(SubSeq(t, 1, n)) = n /\ \A i \in 1 .. n : SubSeq(t, 1, n)[i] = t[i]
                BY <4>2
            <4> QED
                BY <3>3, <4>2, <4>3
        <3>5. DigitsOf(t) = DigitsOf(s)
            BY <2>1, <2>2, <3>4, ZeroSaysNothing
        <3> QED
            BY <1>2, <2>1, <3>1, <3>3, <3>5
    <2>3. CASE ~ (buf # <<>> /\ buf[Len(buf)] = 0)
        BY <2>3 DEF EncStrip
    <2> QED
        BY <2>2, <2>3
<1>7. EncoderAt(a)'
    BY <1>2, <1>5, <1>6 DEF EncoderAt
<1> QED
    BY <1>3, <1>4, <1>7

\* Every step of the coder keeps the account of what the encoder said.
LEMMA NextSaid ==
    ASSUME Inv, TailInv, SentCoded, EncSaid, [Next]_vars
    PROVE  EncSaid' /\ SentCoded'
<1>1. ASSUME UNCHANGED encVars, sent' = sent, settled' = settled PROVE EncSaid' /\ SentCoded'
    BY <1>1, ZenonT(40) DEF encVars, EncSaid, SentCoded, EncoderAt, FullLow, GoneValue, Gone, Settled
<1>2. ASSUME NEW cnt \in Tables, NEW i \in 1 .. Len(cnt), Send(cnt, i)
      PROVE  EncSaid' /\ SentCoded'
    BY <1>2, SaidSend
<1>3. CASE EncodeLoops
    <2>1. EncStep /\ sent' = sent /\ settled' = settled
        BY <1>3 DEF EncodeLoops
    <2>2. EncSaid'
        BY <2>1, SaidRenorm, SaidFlush, SaidStrip DEF EncStep
    <2> QED
        BY <2>1, <2>2 DEF SentCoded
<1>4. CASE Finish
    BY <1>4, SaidFinish DEF SentCoded, Finish
<1>5. CASE Deliver \/ Receive \/ DecodeLoop \/ UNCHANGED vars
    BY <1>1, <1>5 DEF Deliver, Receive, DecodeLoop, vars
<1> QED
    BY <1>2, <1>3, <1>4, <1>5 DEF Next

-----------------------------------------------------------------------------
(* What the decoder finds: it walks through the same history, with the code  *)
(* word telling how far the wire points into the interval.                   *)

\* T is the history of the message sent, and the buffer points into its end.
Tells(T) ==
    /\ IsHistory(T, sent)
    /\ T[Len(T)].n = Len(sent) /\ T[Len(T)].rg >= TOP
    /\ PointsInto(DigitsOf(buf), T[Len(T)])

\* Where the decoder is, at the interval a.
DecoderAt(a) ==
    /\ drange = a.rg /\ Len(found) = a.n
    /\ code = Value(DigitsOf(buf))[a.sh + 4] - a.lo
    /\ pos = IF Len(wire) < a.sh + 4 THEN Len(wire) ELSE a.sh + 4

DecSaid ==
    IF dpc = "idle" THEN found = <<>>
    ELSE /\ epc = "finished" /\ ~ overflow /\ wire = buf
         /\ \E T : Tells(T) /\ \E p \in 1 .. Len(T) : DecoderAt(T[p])

\* The decoder is inside the interval it is at.
LEMMA DecoderInside ==
    ASSUME Inv, SentCoded, NEW T, Tells(T), NEW p \in 1 .. Len(T), DecoderAt(T[p])
    PROVE  /\ T[p] \in Interval /\ PointsInto(DigitsOf(buf), T[p])
           /\ code \in Nat /\ code < drange
<1>1. buf \in Seq(Byte)
    BY DEF Inv, EncInv, EncTypeOK
<1>2. PICK D \in [Nat -> Byte] : D = DigitsOf(buf) /\ D \in [Nat -> Nat]
    BY <1>1, DigitsType
<1>3. T \in Seq(Interval) /\ Len(T) >= 1
    BY DEF Tells, IsHistory
<1>4. PICK a \in Interval : a = T[p]
    BY <1>3
<1>5. PointsInto(D, a)
    BY <1>2, <1>4, PointsIntoAll DEF Tells, SentCoded
<1>6. a.lo \in Nat /\ a.rg \in Nat /\ a.sh + 4 \in Nat
    BY DEF Interval
<1>7. PICK v \in Nat : v = Value(D)[a.sh + 4]
    BY <1>2, <1>6, ValueFold DEF IsFold
<1>8. a.lo <= v /\ v < a.lo + a.rg
    BY <1>5, <1>7 DEF PointsInto
<1>9. code = v - a.lo /\ drange = a.rg
    BY <1>2, <1>4, <1>7 DEF DecoderAt
<1>10. code \in Nat /\ code < drange
    BY <1>6, <1>8, <1>9
<1> QED
    BY <1>2, <1>4, <1>5, <1>10

\* The first four digits of the wire are the code word of the whole interval.
LEMMA SaidDeliver ==
    ASSUME Inv, SentCoded, EncSaid, Deliver
    PROVE  DecSaid'
<1>1. /\ epc = "finished" /\ ~ overflow /\ tq_ac_dec_init(buf) /\ UNCHANGED encVars
      /\ sent' = sent
    BY DEF Deliver
<1>2. /\ wire' = buf /\ dpc' = "ready" /\ found' = <<>> /\ drange' = WORD - 1
      /\ pos' = IF Len(buf) < 4 THEN Len(buf) ELSE 4
    BY <1>1 DEF tq_ac_dec_init
<1>3. epc' = epc /\ overflow' = overflow /\ buf' = buf
    BY <1>1 DEF encVars
<1>4. PICK T : IsHistory(T, sent) /\ EncoderAt(T[Len(T)])
    BY <1>1 DEF EncSaid
<1>5. Tells(T)'
    BY <1>1, <1>3, <1>4 DEF EncoderAt, Tells
<1>6. T \in Seq(Interval) /\ 1 \in 1 .. Len(T) /\ T[1] = Whole
    BY <1>4 DEF IsHistory
<1>7. PICK s \in Seq(Byte) : s = buf
    BY DEF Inv, EncInv, EncTypeOK
<1>8. PICK D \in [Nat -> Nat] : /\ D = DigitsOf(s)
                                /\ \A k \in Nat : D[k] = WireDigit(s, k + 1)
    BY DigitsType
<1>9. PICK V \in [Nat -> Nat] : /\ V = Value(D) /\ V[0] = 0
                                /\ \A k \in Nat : V[k + 1] = V[k] * Base + D[k]
    BY ValueFold DEF IsFold
<1>10. code' = V[4]
    <2>1. PICK a \in Nat, b \in Nat, c \in Nat, d \in Nat :
             /\ a = WireDigit(s, 1) /\ b = WireDigit(s, 2)
             /\ c = WireDigit(s, 3) /\ d = WireDigit(s, 4)
             /\ a = D[0] /\ b = D[1] /\ c = D[2] /\ d = D[3]
        <3>1. 0 + 1 = 1 /\ 1 + 1 = 2 /\ 2 + 1 = 3 /\ 3 + 1 = 4
            OBVIOUS
        <3>2. /\ D[0] = WireDigit(s, 0 + 1) /\ D[1] = WireDigit(s, 1 + 1)
              /\ D[2] = WireDigit(s, 2 + 1) /\ D[3] = WireDigit(s, 3 + 1)
            BY <1>8
        <3>3. D[0] \in Nat /\ D[1] \in Nat /\ D[2] \in Nat /\ D[3] \in Nat
            OBVIOUS
        <3> QED
            BY <3>1, <3>2, <3>3
    <2>2. V[1] = a
        BY <1>9, <2>1, Sizes, SMTT(30)
    <2>3. V[2] = a * Base + b
        BY <1>9, <2>1, <2>2
    <2>4. V[3] = (a * Base + b) * Base + c
        BY <1>9, <2>1, <2>3
    <2>5. V[4] = ((a * Base + b) * Base + c) * Base + d
        BY <1>9, <2>1, <2>4
    <2>6. code' = ((a * Base + b) * Base + c) * Base + d
        BY <1>1, <1>7, <2>1 DEF tq_ac_dec_init
    <2> QED
        BY <2>5, <2>6
<1>11. V[4] - 0 = V[4] /\ 0 + 4 = 4
    OBVIOUS
<1>12. DecoderAt(Whole)'
    BY <1>2, <1>3, <1>7, <1>8, <1>9, <1>10, <1>11 DEF DecoderAt, Whole
<1> QED
    BY <1>1, <1>2, <1>3, <1>5, <1>6, <1>12 DEF DecSaid

\* The decoder finds the symbol that was coded and narrows to its share.
LEMMA SaidReceive ==
    ASSUME Inv, SentCoded, DecSaid, Receive
    PROVE  DecSaid' /\ found' = Append(found, sent[Len(found) + 1].sym)
<1>1. /\ Len(found) < Len(sent) /\ DecSym(sent[Len(found) + 1].cnt)
      /\ UNCHANGED encVars /\ sent' = sent /\ dpc = "ready"
    BY DEF Receive, DecSym
<1>2. epc = "finished" /\ ~ overflow /\ wire = buf
    BY <1>1 DEF DecSaid
<1>0. PICK T : Tells(T) /\ \E p \in 1 .. Len(T) : DecoderAt(T[p])
    BY <1>1 DEF DecSaid
<1>3. PICK p \in 1 .. Len(T) : Tells(T) /\ DecoderAt(T[p])
    BY <1>0
<1>4. /\ IsHistory(T, sent) /\ T \in Seq(Interval)
      /\ \A q \in 1 .. Len(T) - 1 : CoderStep(T[q], T[q + 1], sent)
    BY <1>3 DEF Tells, IsHistory
<1>5. PICK a \in Interval : a = T[p]
    BY <1>4
<1>6. a.lo \in Nat /\ a.rg \in Nat /\ a.sh \in Nat /\ a.n \in Nat
    BY DEF Interval
<1>7. drange = a.rg /\ Len(found) = a.n /\ drange >= TOP /\ drange \in Nat /\ drange < WORD
    BY <1>1, <1>3, <1>5, Sizes, SMTT(30) DEF DecoderAt, Inv, DecInv, DecRangeFloor, DecTypeOK
<1>8. p # Len(T) /\ p \in 1 .. Len(T) - 1 /\ p + 1 \in 1 .. Len(T)
    <2>1. p # Len(T)
        BY <1>1, <1>3, <1>5, <1>6, <1>7 DEF Tells, SentCoded
    <2> QED
        BY <1>4, <2>1
<1>9. CoderStep(a, T[p + 1], sent)
    BY <1>4, <1>5, <1>8
<1>10. PICK e \in Coded : e = sent[a.n + 1]
    <2>1. a.n + 1 \in 1 .. Len(sent)
        BY <1>1, <1>6, <1>7 DEF SentCoded
    <2> QED
        BY <2>1 DEF SentCoded
<1>11. e.cnt \in Tables /\ e.sym \in 1 .. Len(e.cnt)
    BY DEF Coded
<1>12. T[p + 1] = Narrow(a, e)
    <2>1. ~ (a.rg < TOP)
        BY <1>6, <1>7, Sizes
    <2> QED
        BY <1>9, <1>10, <2>1 DEF CoderStep
<1>13. PICK b \in Interval : b = Narrow(a, e)
    BY <1>7, NarrowInside
<1> DEFINE t == Triple(e.cnt, e.sym)
           r == a.rg \div t.tot
<1>14. /\ b.lo = a.lo + r * t.cum /\ b.rg = r * t.freq /\ b.sh = a.sh /\ b.n = a.n + 1
       /\ t \in Triples /\ r \in Nat /\ r >= Base /\ r * t.cum \in Nat /\ r * t.freq \in Nat
       /\ b.lo + b.rg <= a.lo + a.rg
    BY <1>7, <1>13, NarrowInside
<1>15. /\ t.cum = tq_ac_cum(e.cnt, e.sym) /\ t.freq = e.cnt[e.sym] /\ t.tot = Total(e.cnt)
    BY DEF Triple
<1>16. PICK c \in Nat, f \in Nat, n \in Nat :
          c = t.cum /\ f = t.freq /\ n = t.tot /\ c + f <= n
    BY <1>14, TriplesAssumption
<1>17. PICK r0 \in Nat : r0 = r
    BY <1>14
<1> HIDE DEF t, r
<1>18. buf \in Seq(Byte)
    BY DEF Inv, EncInv, EncTypeOK
<1>19. PICK D \in [Nat -> Byte] : D = DigitsOf(buf) /\ D \in [Nat -> Nat]
    BY <1>18, DigitsType
<1>20. PointsInto(D, b)
    BY <1>3, <1>4, <1>8, <1>12, <1>13, <1>19, PointsIntoAll DEF Tells, SentCoded
<1>21. PICK v \in Nat : v = Value(D)[a.sh + 4]
    <2>1. a.sh + 4 \in Nat
        BY <1>6
    <2> QED
        BY <1>19, <2>1, ValueFold DEF IsFold
<1>22. code = v - a.lo
    BY <1>3, <1>5, <1>19, <1>21 DEF DecoderAt
<1>23. PICK x \in Nat, y \in Nat : x = r0 * c /\ y = r0 * f
    BY <1>14, <1>16, <1>17
<1>24. /\ b.lo = a.lo + x /\ b.rg = y /\ a.lo + x <= v /\ v < a.lo + x + y
       /\ x + y <= a.rg
    <2>1. b.lo = a.lo + x /\ b.rg = y
        BY <1>14, <1>16, <1>17, <1>23
    <2>2. b.lo <= v /\ v < b.lo + b.rg
        BY <1>14, <1>20, <1>21 DEF PointsInto
    <2>3. b.lo + b.rg <= a.lo + a.rg
        BY <1>14
    <2> QED
        BY <1>6, <2>1, <2>2, <2>3
<1>25. code \in Nat /\ x <= code /\ code < x + y
    BY <1>6, <1>22, <1>24, SMTT(30)
<1> DEFINE target == tq_ac_dec_target(Total(e.cnt))
<1>26. target \in Nat /\ c <= target /\ target < c + f
    <2>1. PICK k \in Nat, m \in Nat : k = code \div r0 /\ m < r0 /\ code = r0 * k + m
        <3>1. r0 > 0
            BY <1>14, <1>17, Sizes
        <3>2. /\ code \div r0 \in Nat /\ code % r0 \in 0 .. r0 - 1
              /\ code = r0 * (code \div r0) + (code % r0)
            BY <1>25, <3>1, DivMod
        <3> QED
            BY <3>2
    <2>2. c <= k
        <3>1. SUFFICES ASSUME k + 1 <= c PROVE FALSE
            OBVIOUS
        <3>2. r0 * (k + 1) <= r0 * c /\ r0 * (k + 1) = r0 * k + r0 /\ r0 * k \in Nat
            BY <3>1, MulMono
        <3>3. PICK z \in Nat : z = r0 * k
            BY <3>2
        <3> QED
            BY <1>23, <1>25, <2>1, <3>2, <3>3
    <2>3. k < c + f
        <3>1. SUFFICES ASSUME c + f <= k PROVE FALSE
            OBVIOUS
        <3>2. r0 * (c + f) <= r0 * k /\ r0 * (c + f) = r0 * c + r0 * f /\ r0 * k \in Nat
            BY <3>1, MulMono
        <3>3. PICK z \in Nat : z = r0 * k
            BY <3>2
        <3> QED
            BY <1>23, <1>25, <2>1, <3>2, <3>3
    <2>4. target = k
        <3>1. drange \div Total(e.cnt) = r0
            BY <1>7, <1>15, <1>17 DEF r
        <3>2. ~ (k >= Total(e.cnt))
            BY <1>15, <1>16, <2>3
        <3> QED
            BY <2>1, <3>1, <3>2 DEF tq_ac_dec_target
    <2> HIDE DEF target
    <2> QED
        BY <2>2, <2>3, <2>4
<1>27. tq_ac_find(e.cnt, target) = e.sym
    <2> HIDE DEF target
    <2> QED
        BY <1>11, <1>15, <1>16, <1>26, FindExact
<1>28. /\ code' = (code - tq_ac_cum(e.cnt, e.sym) * r0) % WORD
       /\ drange' = r0 * e.cnt[e.sym] /\ dpc' # "idle"
       /\ found' = Append(found, e.sym) /\ UNCHANGED <<wire, pos, starved>>
    <2>1. sent[Len(found) + 1].cnt = e.cnt
        BY <1>7, <1>10
    <2>2. drange \div Total(e.cnt) = r0
        BY <1>7, <1>15, <1>17 DEF r
    <2> QED
        BY <1>1, <1>27, <2>1, <2>2 DEF DecSym
<1>29. code' = v - b.lo
    <2>1. code' = (code - c * r0) % WORD /\ c * r0 = x
        BY <1>15, <1>16, <1>23, <1>28
    <2>2. PICK z \in Nat : z = code - x /\ z < WORD
        BY <1>6, <1>7, <1>24, <1>25, Sizes
    <2>3. z % WORD = z
        BY <2>2, Sizes
    <2>4. code' = z
        BY <2>1, <2>2, <2>3
    <2> QED
        BY <1>6, <1>22, <1>24, <2>2, <2>4
<1>30. drange' = b.rg
    BY <1>15, <1>16, <1>23, <1>24, <1>28
<1>31. Len(found') = b.n
    <2>1. found \in Seq(Nat) /\ b.n = a.n + 1 /\ found' = Append(found, e.sym)
        BY <1>14, <1>28 DEF Inv, DecInv, DecTypeOK
    <2>2. Len(Append(found, e.sym)) = Len(found) + 1
        BY <2>1
    <2> QED
        BY <1>7, <2>1, <2>2
<1>32. /\ buf' = buf /\ epc' = epc /\ overflow' = overflow /\ wire' = wire /\ pos' = pos
    BY <1>1, <1>28 DEF encVars
<1>33. DecoderAt(b)'
    <2>1. pos = IF Len(wire) < a.sh + 4 THEN Len(wire) ELSE a.sh + 4
        BY <1>3, <1>5 DEF DecoderAt
    <2> QED
        BY <1>14, <1>19, <1>21, <1>29, <1>30, <1>31, <1>32, <2>1 DEF DecoderAt
<1>34. Tells(T)'
    BY <1>1, <1>3, <1>32 DEF Tells
<1>35. DecSaid'
    BY <1>2, <1>8, <1>12, <1>13, <1>28, <1>32, <1>33, <1>34 DEF DecSaid
<1> QED
    BY <1>7, <1>10, <1>28, <1>35

\* A word below the modulus is left as it is.
LEMMA SmallMod ==
    ASSUME NEW c \in Nat, NEW m \in Nat, c < m
    PROVE  c % m = c
    OBVIOUS

\* The read pointer follows the digit wanted and waits at the end of the wire,
\* where every digit is zero.
LEMMA ReadPointer ==
    ASSUME NEW s \in Seq(Byte), NEW k \in Nat,
           NEW q, q = (IF Len(s) < k THEN Len(s) ELSE k)
    PROVE  /\ WireDigit(s, q + 1) = WireDigit(s, k + 1)
           /\ (IF q < Len(s) THEN q + 1 ELSE q) = (IF Len(s) < k + 1 THEN Len(s) ELSE k + 1)
<1>1. PICK j \in Nat : j = Len(s)
    OBVIOUS
<1>2. CASE j < k
    <2>1. q = j /\ ~ (j + 1 <= j) /\ ~ (k + 1 <= j) /\ ~ (j < j) /\ j < k + 1
        BY <1>1, <1>2
    <2> QED
        BY <1>1, <2>1 DEF WireDigit
<1>3. CASE ~ (j < k)
    <2>1. q = k /\ (k < j => ~ (j < k + 1)) /\ (~ (k < j) => j = k /\ j < k + 1)
        BY <1>1, <1>3
    <2> QED
        BY <1>1, <2>1
<1> QED
    BY <1>2, <1>3

\* A turn of the decoder's loop takes the next digit, zero past the end.
LEMMA SaidDecode ==
    ASSUME Inv, SentCoded, DecSaid, DecodeLoop
    PROVE  DecSaid'
<1>0. TOP \in Nat /\ TOP > 0
    BY Sizes
<1>1. DecRenorm /\ UNCHANGED encVars /\ sent' = sent /\ dpc = "renorm"
    BY DEF DecodeLoop, DecRenorm
<1>2. epc = "finished" /\ ~ overflow /\ wire = buf
    BY <1>1 DEF DecSaid
<1>3. PICK T : Tells(T) /\ \E p \in 1 .. Len(T) : DecoderAt(T[p])
    BY <1>1 DEF DecSaid
<1>4. PICK p \in 1 .. Len(T) : DecoderAt(T[p])
    BY <1>3
<1>5. /\ T \in Seq(Interval)
      /\ \A q \in 1 .. Len(T) - 1 : CoderStep(T[q], T[q + 1], sent)
    BY <1>3 DEF Tells, IsHistory
<1>6. PICK a \in Interval : a = T[p]
    BY <1>5
<1>7. a.lo \in Nat /\ a.rg \in Nat /\ a.sh \in Nat /\ a.n \in Nat
    BY DEF Interval
<1>8. drange = a.rg /\ Len(found) = a.n /\ drange < TOP /\ drange \in Nat
    BY <1>1, <1>4, <1>6, Sizes DEF DecoderAt, Inv, DecInv, DecRangeFloor, DecTypeOK
<1>9. p \in 1 .. Len(T) - 1 /\ p + 1 \in 1 .. Len(T)
    <2>1. p # Len(T)
        BY <1>3, <1>6, <1>7, <1>8, Sizes DEF Tells
    <2> QED
        BY <1>5, <2>1
<1>10. PICK b \in Interval : b = T[p + 1]
    BY <1>5, <1>9
<1>11. b = Widen(a)
    BY <1>5, <1>6, <1>8, <1>9, <1>10 DEF CoderStep
<1>12. b.lo = a.lo * Base /\ b.rg = a.rg * Base /\ b.sh = a.sh + 1 /\ b.n = a.n
    BY <1>11 DEF Widen
<1>13. PICK s \in Seq(Byte) : s = buf
    BY DEF Inv, EncInv, EncTypeOK
<1>14. PICK D \in [Nat -> Nat] : /\ D = DigitsOf(s)
                                 /\ \A k \in Nat : D[k] = WireDigit(s, k + 1)
    BY DigitsType
<1>15. PICK V \in [Nat -> Nat] : /\ V = Value(D)
                                 /\ \A k \in Nat : V[k + 1] = V[k] * Base + D[k]
    BY ValueFold DEF IsFold
<1>16. PICK k \in Nat : k = a.sh + 4 /\ k + 1 = b.sh + 4
    <2>1. PICK h \in Nat : h = a.sh /\ b.sh = h + 1
        BY <1>7, <1>12
    <2>2. h + 4 \in Nat /\ (h + 4) + 1 = (h + 1) + 4
        OBVIOUS
    <2> QED
        BY <2>1, <2>2
<1>17. PICK v \in Nat, d \in Nat, l \in Nat : v = V[k] /\ d = D[k] /\ l = a.lo
    BY <1>7
<1>18. code = v - l /\ code \in Nat /\ code < TOP
    <2>1. code = v - l
        BY <1>4, <1>6, <1>13, <1>14, <1>15, <1>16, <1>17 DEF DecoderAt
    <2>2. PICK c \in Nat, w \in Nat : c = code /\ w = drange /\ c < w
        BY <1>3, <1>4, <1>8, DecoderInside
    <2>3. w < TOP
        BY <1>8, <2>2
    <2>4. c < TOP
        BY <1>0, <2>2, <2>3
    <2> QED
        BY <2>1, <2>2, <2>4
<1>19. pos = (IF Len(s) < k THEN Len(s) ELSE k)
    BY <1>2, <1>4, <1>6, <1>13, <1>16 DEF DecoderAt
<1>20. WireDigit(wire, pos + 1) = d
    <2>1. d = WireDigit(s, k + 1) /\ wire = s
        BY <1>2, <1>13, <1>14, <1>17
    <2> QED
        BY <1>19, <2>1, ReadPointer
<1>21. code' = V[k + 1] - b.lo
    <2>1. PICK c \in Nat : c = code /\ c < TOP /\ v = l + c
        BY <1>18
    <2>2. c % TOP = c
        BY <1>0, <2>1, SmallMod
    <2>3. code' = c * Base + d
        BY <1>1, <1>20, <2>1, <2>2 DEF DecRenorm
    <2>4. V[k + 1] = v * Base + d
        BY <1>15, <1>17
    <2>5. v * Base = l * Base + c * Base
        BY <2>1, Sizes
    <2>6. PICK x \in Nat, y \in Nat : x = l * Base /\ y = c * Base
        BY Sizes
    <2>7. b.lo = x
        BY <1>12, <1>17, <2>6
    <2> QED
        BY <2>3, <2>4, <2>5, <2>6, <2>7
<1>22. drange' = b.rg /\ dpc' # "idle" /\ found' = found /\ wire' = wire
    BY <1>1, <1>8, <1>12 DEF DecRenorm
<1>23. pos' = (IF Len(s) < k + 1 THEN Len(s) ELSE k + 1)
    <2>1. pos' = (IF pos < Len(s) THEN pos + 1 ELSE pos) /\ Len(s) \in Nat
        BY <1>1, <1>2, <1>13 DEF DecRenorm
    <2> QED
        BY <1>19, <2>1, ReadPointer
<1>24. buf' = buf /\ epc' = epc /\ overflow' = overflow
    BY <1>1 DEF encVars
<1>25. DecoderAt(b)'
    <2>1. Len(found') = b.n
        BY <1>8, <1>12, <1>22
    <2>2. code' = Value(DigitsOf(buf'))[b.sh + 4] - b.lo
        BY <1>13, <1>14, <1>15, <1>16, <1>21, <1>24
    <2>3. pos' = IF Len(wire') < b.sh + 4 THEN Len(wire') ELSE b.sh + 4
        BY <1>2, <1>13, <1>16, <1>22, <1>23
    <2> QED
        BY <1>22, <2>1, <2>2, <2>3 DEF DecoderAt
<1>26. Tells(T)'
    BY <1>1, <1>3, <1>24 DEF Tells
<1> QED
    BY <1>2, <1>9, <1>10, <1>22, <1>24, <1>25, <1>26 DEF DecSaid

-----------------------------------------------------------------------------
(* The whole coder.                                                          *)

FullInv == Inv /\ TailInv /\ SentCoded /\ EncSaid /\ DecSaid /\ RoundTrip

\* Nothing was coded yet: the history is the whole word.
LEMMA InitFull ==
    ASSUME Init
    PROVE  FullInv
<1>1. Inv
    BY EncInitInv, DecIdleInv DEF Init, Inv
<1>2. /\ low = 0 /\ range = WORD - 1 /\ buf = <<>> /\ pending = 0 /\ primed = FALSE
      /\ overflow = FALSE /\ epc = "ready" /\ sent = <<>> /\ settled = 0
      /\ dpc = "idle" /\ found = <<>>
    BY DEF Init, EncInit, DecIdle
<1>3. TailInv
    BY <1>2 DEF TailInv, SingleByteTail
<1>4. SentCoded
    BY <1>2 DEF SentCoded
<1>5. Whole \in Interval /\ Whole.n = 0 /\ Whole.lo = 0 /\ Whole.rg = WORD - 1 /\ Whole.sh = 0
    BY Sizes DEF Whole, Interval
<1>6. Len(Gone) = 0
    <2>1. Len(Gone) = Len(buf) + pending + (IF primed THEN 1 ELSE 0)
        BY <1>1, GoneLength DEF Inv, EncInv
    <2> QED
        BY <1>2, <2>1
<1>7. FullLow = 0
    <2>1. Gone \in Seq(Byte)
        BY <1>1, GoneLength DEF Inv, EncInv
    <2>2. PICK D \in [Nat -> Nat] : D = DigitsOf(Gone)
        BY <2>1, DigitsType
    <2>3. Value(D)[0] = 0
        BY ValueFold DEF IsFold
    <2>4. GoneValue = 0
        BY <1>6, <2>2, <2>3 DEF GoneValue
    <2>5. 0 * WORD = 0
        BY Sizes
    <2> QED
        BY <1>2, <2>4, <2>5 DEF FullLow
<1>8. EncSaid
    <2>1. EncoderAt(Whole)
        BY <1>2, <1>5, <1>6, <1>7 DEF EncoderAt
    <2>2. PICK T \in Seq(Interval) : T = <<Whole>>
        <3>1. <<Whole>> \in Seq(Interval)
            BY <1>5
        <3> QED
            BY <3>1
    <2>3. Len(T) = 1 /\ T[1] = Whole
        BY <2>2
    <2>4. IsHistory(T, sent)
        BY <2>3 DEF IsHistory
    <2> QED
        BY <2>1, <2>3, <2>4 DEF EncSaid
<1>9. DecSaid /\ RoundTrip
    BY <1>2 DEF DecSaid, RoundTrip
<1> QED
    BY <1>1, <1>3, <1>4, <1>8, <1>9 DEF FullInv

\* The encoder only moves before the message is delivered.
LEMMA EncoderMoves ==
    ASSUME DecSaid, epc # "finished", UNCHANGED decVars
    PROVE  dpc = "idle" /\ DecSaid' /\ found' = <<>> /\ found = <<>>
<1>1. dpc = "idle" /\ found = <<>>
    BY DEF DecSaid
<1>2. dpc' = dpc /\ found' = found
    BY DEF decVars
<1> QED
    BY <1>1, <1>2 DEF DecSaid

\* Every step keeps the account of what the decoder finds.
LEMMA NextDec ==
    ASSUME Inv, SentCoded, EncSaid, DecSaid, RoundTrip, [Next]_vars
    PROVE  DecSaid' /\ RoundTrip'
<1>1. ASSUME epc # "finished", UNCHANGED decVars PROVE DecSaid' /\ RoundTrip'
    <2>1. DecSaid' /\ found' = <<>>
        BY <1>1, EncoderMoves
    <2> QED
        BY <2>1 DEF RoundTrip
<1>2. ASSUME NEW cnt \in Tables, NEW i \in 1 .. Len(cnt), Send(cnt, i)
      PROVE  DecSaid' /\ RoundTrip'
    BY <1>1, <1>2 DEF Send, tq_ac_enc_sym
<1>3. CASE EncodeLoops
    BY <1>1, <1>3 DEF EncodeLoops, EncStep, EncRenorm, EncFlush, EncStrip
<1>4. CASE Finish
    BY <1>1, <1>4 DEF Finish, tq_ac_enc_finish
<1>5. CASE Deliver
    <2>1. found' = <<>>
        BY <1>5 DEF Deliver, tq_ac_dec_init
    <2> QED
        BY <1>5, <2>1, SaidDeliver DEF RoundTrip
<1>6. CASE Receive
    <2>1. DecSaid' /\ found' = Append(found, sent[Len(found) + 1].sym) /\ sent' = sent
        BY <1>6, SaidReceive DEF Receive
    <2>2. found \in Seq(Nat) /\ Len(found) \in Nat
        BY DEF Inv, DecInv, DecTypeOK
    <2>3. /\ Len(found') = Len(found) + 1
          /\ found'[Len(found) + 1] = sent[Len(found) + 1].sym
          /\ \A i \in 1 .. Len(found) : found'[i] = found[i]
        BY <2>1, <2>2
    <2>4. ASSUME NEW i \in 1 .. Len(found') PROVE found'[i] = sent'[i].sym
        <3>1. i \in 1 .. Len(found) \/ i = Len(found) + 1
            BY <2>2, <2>3
        <3> QED
            BY <2>1, <2>3, <3>1 DEF RoundTrip
    <2> QED
        BY <2>1, <2>4 DEF RoundTrip
<1>7. CASE DecodeLoop
    <2>1. found' = found /\ sent' = sent
        BY <1>7 DEF DecodeLoop, DecRenorm
    <2> QED
        BY <1>7, <2>1, SaidDecode DEF RoundTrip
<1>8. CASE UNCHANGED vars
    BY <1>8 DEF vars, encVars, decVars, DecSaid, Tells, DecoderAt, RoundTrip
<1> QED
    BY <1>2, <1>3, <1>4, <1>5, <1>6, <1>7, <1>8 DEF Next

\* Coder and decoder keep to one history, whatever is coded.
LEMMA FullInvariant == Spec => []FullInv
<1>1. Init => FullInv
    BY InitFull
<1>2. FullInv /\ [Next]_vars => FullInv'
    BY NextInv, NextTail, NextSaid, NextDec DEF FullInv
<1> QED
    BY <1>1, <1>2, PTL DEF Spec

\* The contract of tq_ac.c: the decoder finds the symbols that were coded, for
\* every base, buffer, set of tables and length of the message, through every
\* carry, with the trailing zeroes stripped.
THEOREM AlwaysRoundTrips == Spec => []RoundTrip
<1>1. FullInv => RoundTrip
    BY DEF FullInv
<1> QED
    BY <1>1, FullInvariant, PTL

\* On a genuine message the decoder's code word lies in its interval at every
\* symbol, so the clamp of tq_ac_dec_target never acts.
THEOREM CodeAlwaysInside == Spec => []CodeInsideRange
<1>1. FullInv => CodeInsideRange
    <2>1. SUFFICES ASSUME Inv, SentCoded, DecSaid, dpc = "ready" PROVE code < drange
        BY DEF FullInv, CodeInsideRange
    <2>2. PICK T : Tells(T) /\ \E p \in 1 .. Len(T) : DecoderAt(T[p])
        BY <2>1 DEF DecSaid
    <2>3. PICK p \in 1 .. Len(T) : DecoderAt(T[p])
        BY <2>2
    <2> QED
        BY <2>1, <2>2, <2>3, DecoderInside
<1> QED
    BY <1>1, FullInvariant, PTL

\* tq_ac_enc_finish adds at most one byte to what the symbols had shifted out of
\* low: the value it rounds to has zeroes below its first digit.
THEOREM TailAlwaysShort == Spec => []SingleByteTail
<1>1. FullInv => SingleByteTail
    BY DEF FullInv, TailInv
<1> QED
    BY <1>1, FullInvariant, PTL

-----------------------------------------------------------------------------
(* The coder as a courier of symbols.                                        *)

\* The symbols handed over, as the sequence the mapping makes of them.
LEMMA HandedSymbols ==
    ASSUME NEW msg \in Seq(Coded)
    PROVE  LET h == [i \in 1 .. Len(msg) |-> msg[i].sym]
           IN  h \in Seq(Nat) /\ Len(h) = Len(msg)
<1>1. \A i \in 1 .. Len(msg) : msg[i].sym \in Nat
    BY DEF Coded
<1> QED
    BY <1>1

\* One symbol more.
LEMMA HandedMore ==
    ASSUME NEW msg \in Seq(Coded), NEW e \in Coded
    PROVE  [i \in 1 .. Len(Append(msg, e)) |-> Append(msg, e)[i].sym]
             = Append([i \in 1 .. Len(msg) |-> msg[i].sym], e.sym)
<1>1. PICK l \in Seq(Coded) : l = Append(msg, e)
    <2>1. Append(msg, e) \in Seq(Coded)
        OBVIOUS
    <2> QED
        BY <2>1
<1>2. /\ Len(l) = Len(msg) + 1 /\ Len(msg) \in Nat /\ l[Len(msg) + 1] = e
      /\ \A i \in 1 .. Len(msg) : l[i] = msg[i]
    BY <1>1
<1> DEFINE h == [i \in 1 .. Len(msg) |-> msg[i].sym]
           g == [i \in 1 .. Len(l) |-> l[i].sym]
<1>3. h \in Seq(Nat) /\ Len(h) = Len(msg) /\ g \in Seq(Nat) /\ Len(g) = Len(l)
    BY HandedSymbols
<1>4. e.sym \in Nat
    BY DEF Coded
<1>5. PICK a \in Seq(Nat) : a = Append(h, e.sym)
    <2>1. Append(h, e.sym) \in Seq(Nat)
        BY <1>3, <1>4
    <2> QED
        BY <2>1
<1>6. /\ Len(a) = Len(msg) + 1 /\ a[Len(msg) + 1] = e.sym
      /\ \A i \in 1 .. Len(msg) : a[i] = msg[i].sym
    BY <1>3, <1>4, <1>5
<1>7. ASSUME NEW i \in 1 .. Len(l) PROVE g[i] = a[i]
    <2>1. i \in 1 .. Len(msg) \/ i = Len(msg) + 1
        BY <1>2
    <2> QED
        BY <1>2, <1>6, <2>1
<1>8. g = a
    <2>1. Len(g) = Len(a)
        BY <1>2, <1>3, <1>6
    <2> HIDE DEF g, h
    <2> QED
        BY <1>3, <1>7, <2>1, SeqEqual
<1> QED
    BY <1>1, <1>5, <1>8

\* Every step of the coder is a step of the courier, or none.
LEMMA CourierStep ==
    ASSUME FullInv, [Next]_vars
    PROVE  [Channel!Next]_(Channel!vars)
<1> DEFINE h == [i \in 1 .. Len(sent) |-> sent[i].sym]
           fate == IF epc # "finished" THEN "open" ELSE IF overflow THEN "lost" ELSE "sealed"
<1>1. Inv /\ SentCoded /\ DecSaid
    BY DEF FullInv
<1>2. ASSUME sent' = sent, found' = found, fate' = fate
      PROVE  UNCHANGED Channel!vars
    BY <1>2 DEF Channel!vars
<1>3. ASSUME NEW cnt \in Tables, NEW i \in 1 .. Len(cnt), Send(cnt, i)
      PROVE  Channel!Hand(i) /\ i \in UNION {1 .. Len(c) : c \in Tables}
    <2>1. /\ epc = "ready" /\ epc' # "finished" /\ UNCHANGED decVars
          /\ sent' = Append(sent, [cnt |-> cnt, sym |-> i])
        BY <1>3 DEF Send, tq_ac_enc_sym
    <2>2. PICK e \in Coded : e = [cnt |-> cnt, sym |-> i] /\ e.sym = i
        <3>1. i \in Nat
            BY TablesAssumption
        <3>2. [cnt |-> cnt, sym |-> i] \in Coded
            BY <3>1 DEF Coded
        <3> QED
            BY <3>2
    <2>3. h' = Append(h, i)
        BY <1>1, <2>1, <2>2, HandedMore DEF SentCoded
    <2>4. found' = found
        BY <2>1 DEF decVars
    <2> QED
        BY <2>1, <2>3, <2>4 DEF Channel!Hand
<1>4. CASE EncodeLoops
    <2>1. EncStep /\ sent' = sent /\ found' = found
        BY <1>4 DEF EncodeLoops, decVars
    <2>2. CASE EncRenorm \/ EncFlush
        <3>1. fate' = fate
            BY <2>2 DEF EncRenorm, EncFlush
        <3> QED
            BY <1>2, <2>1, <3>1
    <2>3. CASE EncStrip
        <3>1. epc = "flush" /\ overflow' = overflow /\ epc' \in {"flush", "finished"}
            BY <2>3 DEF EncStrip
        <3>2. CASE epc' = "flush"
            BY <1>2, <2>1, <3>1, <3>2
        <3>3. CASE epc' = "finished" /\ overflow
            BY <2>1, <3>1, <3>3 DEF Channel!Next, Channel!Lose
        <3>4. CASE epc' = "finished" /\ ~ overflow
            BY <2>1, <3>1, <3>4 DEF Channel!Next, Channel!Seal
        <3> QED
            BY <3>1, <3>2, <3>3, <3>4
    <2> QED
        BY <2>1, <2>2, <2>3 DEF EncStep
<1>5. CASE Finish
    <2>1. sent' = sent /\ found' = found /\ fate' = fate
        BY <1>5 DEF Finish, tq_ac_enc_finish, decVars
    <2> QED
        BY <1>2, <2>1
<1>6. CASE Deliver
    <2>1. sent' = sent /\ found' = <<>> /\ dpc = "idle" /\ epc' = epc /\ overflow' = overflow
        BY <1>6 DEF Deliver, tq_ac_dec_init, encVars
    <2>2. found = <<>>
        BY <1>1, <2>1 DEF DecSaid
    <2> QED
        BY <1>2, <2>1, <2>2
<1>7. CASE Receive
    <2>1. /\ Len(found) < Len(sent) /\ dpc = "ready" /\ sent' = sent
          /\ epc' = epc /\ overflow' = overflow
        BY <1>7 DEF Receive, DecSym, encVars
    <2>2. found' = Append(found, sent[Len(found) + 1].sym)
        BY <1>1, <1>7, SaidReceive
    <2>3. fate = "sealed" /\ fate' = "sealed"
        BY <1>1, <2>1 DEF DecSaid
    <2>4. Len(h) = Len(sent)
        BY <1>1, HandedSymbols DEF SentCoded
    <2>5. h[Len(found) + 1] = sent[Len(found) + 1].sym
        <3>1. found \in Seq(Nat) /\ sent \in Seq(Coded)
            BY <1>1 DEF Inv, DecInv, DecTypeOK, SentCoded
        <3>2. Len(found) + 1 \in 1 .. Len(sent)
            BY <2>1, <3>1
        <3> QED
            BY <3>2
    <2>6. Channel!Arrive
        BY <2>1, <2>2, <2>3, <2>4, <2>5 DEF Channel!Arrive
    <2> QED
        BY <2>6 DEF Channel!Next
<1>8. CASE DecodeLoop
    <2>1. sent' = sent /\ found' = found /\ epc' = epc /\ overflow' = overflow
        BY <1>8 DEF DecodeLoop, DecRenorm, encVars
    <2> QED
        BY <1>2, <2>1
<1>9. CASE UNCHANGED vars
    BY <1>2, <1>9 DEF vars, encVars, decVars
<1>10. CASE \E cnt \in Tables : \E i \in 1 .. Len(cnt) : Send(cnt, i)
    BY <1>3, <1>10 DEF Channel!Next
<1> QED
    BY <1>4, <1>5, <1>6, <1>7, <1>8, <1>9, <1>10 DEF Next

\* The safety half of SymbolsByCourier: no symbol of a message is altered,
\* invented, doubled, reordered or left out, and none arrives of a message that
\* overran the buffer.
THEOREM SymbolsArriveInOrder == Spec => Channel!Safety
<1>1. Init => Channel!Init
    <2>1. SUFFICES ASSUME sent = <<>>, found = <<>>, epc = "ready" PROVE Channel!Init
        BY DEF Init, EncInit, DecIdle
    <2>2. [i \in 1 .. Len(sent) |-> sent[i].sym] = <<>>
        BY <2>1
    <2> QED
        BY <2>1, <2>2 DEF Channel!Init
<1>2. FullInv /\ [Next]_vars => [Channel!Next]_(Channel!vars)
    BY CourierStep
<1> QED
    BY <1>1, <1>2, FullInvariant, PTL DEF Spec, Channel!Safety
=============================================================================
