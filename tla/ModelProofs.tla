---------------------------- MODULE ModelProofs -----------------------------
(***************************************************************************)
(* Proofs about core/src/tq_model.c.                                       *)
(*                                                                         *)
(* tq_carve and tq_runtime_init, for every model shape, every context      *)
(* length, and every size and address of the two arenas.  RegionsSound is  *)
(* not inductive: that the next region starts behind the earlier ones      *)
(* needs that all of them end at or before `used', and the bound on wasted *)
(* bytes needs the same count for `used' itself.                           *)
(*                                                                         *)
(* tq_model_open, for directories of any length, read in chunks of any     *)
(* size, with any names, offsets and lengths.  The walk keeps a set of     *)
(* globals found and one offset per tensor.  The invariant says what these *)
(* are of the entries inspected so far, at every entry: `found' is the set *)
(* of globals that have an entry, and an offset is that of the entry that  *)
(* counts, the first or the last of its name.                              *)
(***************************************************************************)
EXTENDS RuntimeInit, ModelOpen, TLAPS

\* Every region carved so far ends at or before `used`.
CarvedBelowUsed ==
    \A i \in 1 .. Len(carved) : carved[i].off + carved[i].bytes <= used

\* `used` counts what was asked for and at most 15 bytes per call.
UsedBound == used <= asked + 15 * calls

ArenaInv ==
    /\ ArenaTypeOK
    /\ RegionsSound
    /\ CarvedBelowUsed
    /\ UsedBound
    /\ RefusedOnlyWhenFull

\* Nothing is carved before the range check has passed.
StartedInRange == phase \in {"fast", "cache"} => max_seq \in Nat

Inv == TypeOK /\ ArenaInv /\ StartedInRange

-----------------------------------------------------------------------------

\* tq_align_up returns the least multiple of 16 at or above its argument.
LEMMA AlignUp ==
    ASSUME NEW v \in Nat
    PROVE  /\ tq_align_up(v) \in Nat
           /\ v <= tq_align_up(v)
           /\ tq_align_up(v) <= v + 15
           /\ tq_align_up(v) % 16 = 0
  BY DEF tq_align_up

\* The next region starts behind what is used, less than 16 bytes further, at
\* an aligned address whatever the alignment of the base.
LEMMA NextOffAligned ==
    ASSUME ArenaTypeOK
    PROVE  /\ NextOff \in Nat
           /\ used <= NextOff
           /\ NextOff <= used + 15
           /\ (base + NextOff) % 16 = 0
<1> DEFINE skew == base % 16
           up   == tq_align_up(used + skew)
<1>1. base \in Nat /\ used \in Nat
  BY DEF ArenaTypeOK
<1>2. skew \in 0 .. 15 /\ (base - skew) % 16 = 0
  BY <1>1
<1>3. used + skew \in Nat
  BY <1>1, <1>2
<1>4. up \in Nat /\ used + skew <= up /\ up <= used + skew + 15 /\ up % 16 = 0
  BY <1>3, AlignUp
<1>5. NextOff = up - skew
  BY DEF NextOff
<1> HIDE DEF skew, up
<1>6. base + NextOff = (base - skew) + up
  BY <1>1, <1>2, <1>4, <1>5
<1>7. ((base - skew) + up) % 16 = 0
  BY <1>1, <1>2, <1>4
<1>8. QED
  BY <1>1, <1>2, <1>4, <1>5, <1>6, <1>7

\* An element of a sequence over S is in S.
LEMMA SeqElement ==
    ASSUME NEW S, NEW s \in Seq(S), NEW i \in 1 .. Len(s)
    PROVE  s[i] \in S
  OBVIOUS

\* A fresh arena satisfies the invariant.
LEMMA FreshInv ==
    ASSUME base \in Nat, cap \in Nat, used = 0, carved = <<>>, refused = FALSE,
           asked = 0, calls = 0
    PROVE  ArenaInv
<1>1. carved \in Seq([off : Nat, bytes : Nat]) /\ Len(carved) = 0
  OBVIOUS
<1>2. ArenaTypeOK
  BY <1>1 DEF ArenaTypeOK
<1>3. RegionsSound /\ CarvedBelowUsed
  BY <1>1 DEF RegionsSound, CarvedBelowUsed
<1>4. UsedBound /\ RefusedOnlyWhenFull
  BY DEF UsedBound, RefusedOnlyWhenFull
<1>5. QED
  BY <1>2, <1>3, <1>4 DEF ArenaInv

\* The same for the arena an action leaves behind.
LEMMA FreshInvNext ==
    ASSUME base' \in Nat, cap' \in Nat, used' = 0, carved' = <<>>, refused' = FALSE,
           asked' = 0, calls' = 0
    PROVE  ArenaInv'
<1>1. carved' \in Seq([off : Nat, bytes : Nat]) /\ Len(carved') = 0
  OBVIOUS
<1>2. ArenaTypeOK'
  BY <1>1 DEF ArenaTypeOK
<1>3. RegionsSound' /\ CarvedBelowUsed'
  BY <1>1 DEF RegionsSound, CarvedBelowUsed
<1>4. UsedBound' /\ RefusedOnlyWhenFull'
  BY DEF UsedBound, RefusedOnlyWhenFull
<1>5. QED
  BY <1>2, <1>3, <1>4 DEF ArenaInv

\* What ends below one bound ends below a later one.
LEMMA Chain ==
    ASSUME NEW a \in Nat, NEW b \in Nat, NEW c \in Nat, NEW d \in Nat,
           a + b <= c, c <= d
    PROVE  a + b <= d
  OBVIOUS

\* tq_carve preserves the invariant, whether it succeeds or returns NULL.
LEMMA CarveInv ==
    ASSUME ArenaInv, NEW bytes \in Nat, tq_carve(bytes)
    PROVE  ArenaInv'
<1>1. ArenaTypeOK
  BY DEF ArenaInv
<1>2. /\ base \in Nat /\ cap \in Nat /\ used \in Nat /\ asked \in Nat /\ calls \in Nat
      /\ carved \in Seq([off : Nat, bytes : Nat]) /\ refused \in BOOLEAN
  BY <1>1 DEF ArenaTypeOK
<1>3. NextOff \in Nat /\ used <= NextOff /\ NextOff <= used + 15
  BY <1>1, NextOffAligned
<1>4. (base + NextOff) % 16 = 0
  BY <1>1, NextOffAligned
<1>5. used \in Nat
  BY <1>2
<1>6. /\ base' = base /\ cap' = cap
      /\ asked' = asked + bytes /\ calls' = calls + 1
  BY DEF tq_carve
<1>7. CASE NextOff + bytes > cap
  <2>1. used' = used /\ carved' = carved /\ refused' = TRUE
    BY <1>7 DEF tq_carve
  <2>2. ArenaTypeOK'
    BY <1>2, <1>6, <2>1 DEF ArenaTypeOK
  <2>3. RegionsSound' /\ CarvedBelowUsed'
    BY <1>6, <2>1 DEF ArenaInv, RegionsSound, CarvedBelowUsed
  <2>4. UsedBound' /\ RefusedOnlyWhenFull'
    BY <1>2, <1>3, <1>6, <1>7, <2>1 DEF ArenaInv, UsedBound, RefusedOnlyWhenFull
  <2>5. QED
    BY <2>2, <2>3, <2>4 DEF ArenaInv
<1>8. CASE ~ (NextOff + bytes > cap)
  <2> DEFINE r == [off |-> NextOff, bytes |-> bytes]
  <2>1. /\ used' = NextOff + bytes /\ carved' = Append(carved, r)
        /\ refused' = refused
    BY <1>8 DEF tq_carve
  <2>2. r \in [off : Nat, bytes : Nat]
    BY <1>3
  <2>3. /\ Len(carved') = Len(carved) + 1
        /\ \A i \in 1 .. Len(carved) : carved'[i] = carved[i]
        /\ carved'[Len(carved) + 1] = r
        /\ Len(carved) \in Nat
    BY <1>2, <2>1, <2>2
  <2>4. ArenaTypeOK'
    BY <1>2, <1>3, <1>6, <2>1, <2>2 DEF ArenaTypeOK
  <2>5. \A i \in 1 .. Len(carved) : carved[i].off \in Nat /\ carved[i].bytes \in Nat
    <3>1. ASSUME NEW i \in 1 .. Len(carved)
          PROVE  carved[i].off \in Nat /\ carved[i].bytes \in Nat
      <4>1. carved[i] \in [off : Nat, bytes : Nat]
        BY <1>2, SeqElement
      <4>2. QED
        BY <4>1
    <3>2. QED
      BY <3>1
  <2>6. CarvedBelowUsed'
    <3>1. \A i \in 1 .. Len(carved) : carved[i].off + carved[i].bytes <= used
      BY DEF ArenaInv, CarvedBelowUsed
    <3>2. ASSUME NEW i \in 1 .. Len(carved')
          PROVE  carved'[i].off + carved'[i].bytes <= used'
      <4>1. CASE i \in 1 .. Len(carved)
        <5>1. carved'[i] = carved[i]
          BY <2>3, <4>1
        <5>2. /\ carved[i].off + carved[i].bytes <= used
              /\ carved[i].off \in Nat /\ carved[i].bytes \in Nat
          BY <2>5, <3>1, <4>1
        <5>3. used <= used'
          BY <1>3, <1>5, <2>1
        <5>4. used' \in Nat
          BY <1>3, <2>1
        <5>5. QED
          BY <1>5, <5>1, <5>2, <5>3, <5>4, Chain
      <4>2. CASE i = Len(carved) + 1
        <5>1. carved'[i].off = NextOff /\ carved'[i].bytes = bytes
          BY <2>3, <4>2
        <5>2. QED
          BY <1>3, <2>1, <5>1
      <4>3. QED
        BY <2>3, <4>1, <4>2
    <3>3. QED
      BY <3>2 DEF CarvedBelowUsed
  <2>7. RegionsSound'
    <3>1. ASSUME NEW i \in 1 .. Len(carved')
          PROVE  (base' + carved'[i].off) % 16 = 0 /\ carved'[i].off + carved'[i].bytes <= cap'
      <4>1. CASE i \in 1 .. Len(carved)
        BY <1>6, <2>3, <4>1 DEF ArenaInv, RegionsSound
      <4>2. CASE i = Len(carved) + 1
        <5>1. carved'[i].off = NextOff /\ carved'[i].bytes = bytes
          BY <2>3, <4>2
        <5>2. QED
          BY <1>2, <1>3, <1>6, <1>8, <1>4, <5>1
      <4>3. QED
        BY <2>3, <4>1, <4>2
    <3>2. ASSUME NEW i \in 1 .. Len(carved'), NEW j \in 1 .. Len(carved'), i < j
          PROVE  carved'[i].off + carved'[i].bytes <= carved'[j].off
      <4>1. CASE j \in 1 .. Len(carved)
        BY <2>3, <3>2, <4>1 DEF ArenaInv, RegionsSound
      <4>2. CASE j = Len(carved) + 1
        <5>1. carved'[j].off = NextOff
          BY <2>3, <4>2
        <5>2. i \in 1 .. Len(carved)
          BY <2>3, <3>2, <4>2
        <5>3. carved[i].off + carved[i].bytes <= used
          BY <5>2 DEF ArenaInv, CarvedBelowUsed
        <5>4. carved'[i] = carved[i]
          BY <2>3, <5>2
        <5>5. carved[i].off \in Nat /\ carved[i].bytes \in Nat
          BY <2>5, <5>2
        <5>6. carved[i].off + carved[i].bytes <= NextOff
          BY <1>3, <1>5, <5>3, <5>5, Chain
        <5>7. QED
          BY <5>1, <5>4, <5>6
      <4>3. QED
        BY <2>3, <4>1, <4>2
    <3>3. QED
      BY <3>1, <3>2 DEF RegionsSound
  <2>8. UsedBound' /\ RefusedOnlyWhenFull'
    BY <1>2, <1>3, <1>6, <2>1 DEF ArenaInv, UsedBound, RefusedOnlyWhenFull
  <2>9. QED
    BY <2>4, <2>6, <2>7, <2>8 DEF ArenaInv
<1>9. QED
  BY <1>7, <1>8

-----------------------------------------------------------------------------

\* Products of naturals are naturals; stated once, as the provers are slow to
\* see it inside larger terms.
LEMMA NatProduct ==
    ASSUME NEW a \in Nat, NEW b \in Nat
    PROVE  a * b \in Nat
  OBVIOUS

\* The sizes asked for, and the sizes the callers are told, are naturals.
LEMMA SizesAreNat ==
    ASSUME NEW mo \in Models, NEW n \in Nat, NEW q \in BOOLEAN
    PROVE  /\ FastRequests(mo, n) \in Seq(Nat)
           /\ CacheRequests(mo, n, q) \in Seq(Nat)
           /\ tq_runtime_bytes(mo, n) \in Nat
           /\ tq_kv_bytes(mo, n, q) \in Nat
<1>1. mo \in Shape
  BY RuntimeAssumption
<1>2. /\ mo.dim \in Nat /\ mo.hidden_dim \in Nat /\ mo.n_layers \in Nat
      /\ mo.n_heads \in Nat /\ mo.head_size \in Nat /\ mo.kv_dim \in Nat
      /\ mo.n_kv_heads \in Nat /\ mo.vocab_size \in Nat
  BY <1>1 DEF Shape
<1> DEFINE att == mo.n_heads * n
           row == mo.n_layers * n
           kvn == row * mo.kv_dim
           scl == row * mo.n_kv_heads
<1>3. att \in Nat /\ row \in Nat
  BY <1>2, NatProduct
<1>4. kvn \in Nat /\ scl \in Nat
  BY <1>2, <1>3, NatProduct
<1>5. /\ mo.dim \div 32 \in Nat /\ mo.hidden_dim \div 32 \in Nat
      /\ mo.head_size \div 2 \in Nat
  BY <1>2
<1>6. tq_align_up(scl * 4) \in Nat
  BY <1>4, AlignUp
<1> HIDE DEF att, row, kvn, scl
<1>7. FastRequests(mo, n) \in Seq(Nat)
  <2>1. att * 4 \in Nat
    BY <1>3
  <2>2. QED
    BY <1>2, <1>5, <2>1 DEF FastRequests, GROUP, BLOCK, att
<1>8. CacheRequests(mo, n, q) \in Seq(Nat)
  <2>1. kvn * 4 \in Nat /\ scl * 4 \in Nat
    BY <1>4
  <2>2. CASE q
    BY <1>4, <2>1, <2>2 DEF CacheRequests, kvn, scl, row
  <2>3. CASE ~ q
    BY <1>4, <2>1, <2>3 DEF CacheRequests, kvn, scl, row
  <2>4. QED
    BY <2>2, <2>3
<1>9. tq_runtime_bytes(mo, n) \in Nat
  <2> DEFINE vecs  == 4 * mo.dim * 4 + 2 * mo.hidden_dim * 4 + 2 * mo.kv_dim * 4
                        + mo.head_size * 4
             attn  == att * 4
             logit == mo.vocab_size * 4
             xq    == (mo.dim \div 32) * 34
             hq    == (mo.hidden_dim \div 32) * 34
  <2>1. vecs \in Nat /\ attn \in Nat /\ logit \in Nat /\ xq \in Nat /\ hq \in Nat
    BY <1>2, <1>3, <1>5
  <2>2. tq_runtime_bytes(mo, n) = vecs + attn + logit + xq + hq + 16 * 14
    BY DEF tq_runtime_bytes, GROUP, BLOCK, att
  <2> HIDE DEF vecs, attn, logit, xq, hq
  <2>3. QED
    BY <2>1, <2>2
<1>10. tq_kv_bytes(mo, n, q) \in Nat
  <2>1. 2 * kvn * 4 + 32 \in Nat /\ 2 * (kvn + tq_align_up(scl * 4) + 16) \in Nat
    BY <1>4, <1>6
  <2>2. QED
    BY <2>1 DEF tq_kv_bytes, kvn, scl, row
<1>11. QED
  BY <1>7, <1>8, <1>9, <1>10

\* The invariant holds initially.
LEMMA InitInv == Init => Inv
<1> SUFFICES ASSUME Init PROVE Inv
  OBVIOUS
<1> USE DEF Init
<1>1. m \in Shape /\ m.dim \in Nat
  BY RuntimeAssumption DEF Shape
<1>2. max_seq > 0 => max_seq \in Nat
  BY RuntimeAssumption
<1>3. max_seq > 0 => tq_runtime_bytes(m, max_seq) \in Nat
  BY <1>2, SizesAreNat
<1>4. /\ base \in Nat /\ cap \in Nat /\ used = 0 /\ carved = <<>>
      /\ refused = FALSE /\ asked = 0 /\ calls = 0
  BY <1>1, <1>3, RuntimeAssumption DEF ArenaIs, Fresh
<1>5. ArenaInv
  BY <1>4, FreshInv
<1>6. TypeOK
  BY <1>5 DEF TypeOK, ArenaInv
<1>7. QED
  BY <1>5, <1>6 DEF Inv, StartedInRange

\* Every step of tq_runtime_init preserves it.
LEMMA NextInv == Inv /\ [Next]_vars => Inv'
<1> SUFFICES ASSUME Inv, [Next]_vars PROVE Inv'
  OBVIOUS
<1>1. /\ m \in Models /\ max_seq \in MaxSeqs /\ q8 \in BOOLEAN
      /\ phase \in {"start", "fast", "cache", "ok", "nomem", "range"}
      /\ todo \in Seq(Nat) /\ cacheBase \in CacheBases /\ exact \in BOOLEAN
      /\ ArenaInv /\ ArenaTypeOK
  BY DEF Inv, TypeOK
<1>2. CASE UNCHANGED vars
  BY <1>1, <1>2 DEF Inv, TypeOK, ArenaInv, ArenaTypeOK, RegionsSound, CarvedBelowUsed,
         UsedBound, RefusedOnlyWhenFull, StartedInRange, vars, arenaVars,
         callVars
<1>3. ASSUME UNCHANGED arenaVars
      PROVE  ArenaInv' /\ ArenaTypeOK'
  BY <1>1, <1>3 DEF ArenaInv, ArenaTypeOK, RegionsSound, CarvedBelowUsed,
         UsedBound, RefusedOnlyWhenFull, arenaVars
<1>4. CASE Start
  <2>2. ~ (max_seq <= 0) => max_seq \in Nat
    BY <1>1, RuntimeAssumption
  <2>3. todo' \in Seq(Nat)
    BY <1>1, <1>4, <2>2, SizesAreNat DEF Start
  <2>4. ArenaInv' /\ ArenaTypeOK'
    BY <1>3, <1>4 DEF Start
  <2>5. QED
    BY <1>1, <1>4, <2>2, <2>3, <2>4 DEF Start, Inv, TypeOK, callVars, StartedInRange
<1>5. CASE Carve
  <2>1. Head(todo) \in Nat /\ Tail(todo) \in Seq(Nat)
    BY <1>1, <1>5 DEF Carve
  <2>2. ArenaInv'
    BY <1>1, <1>5, <2>1, CarveInv DEF Carve
  <2>3. ArenaTypeOK'
    BY <2>2 DEF ArenaInv
  <2>4. QED
    BY <1>1, <1>5, <2>1, <2>2, <2>3 DEF Carve, Inv, TypeOK, callVars, StartedInRange
<1>6. CASE FastDone
  <2>1. CASE refused
    <3>1. UNCHANGED arenaVars /\ todo' = todo /\ phase' = "nomem"
      BY <1>6, <2>1 DEF FastDone
    <3>2. QED
      BY <1>1, <1>3, <1>6, <3>1 DEF FastDone, Inv, TypeOK, callVars, StartedInRange
  <2>2. CASE ~ refused
    <3>1. max_seq \in Nat
      BY <1>6 DEF FastDone, Inv, StartedInRange
    <3>2. tq_kv_bytes(m, max_seq, q8) \in Nat /\ CacheRequests(m, max_seq, q8) \in Seq(Nat)
      BY <1>1, <3>1, SizesAreNat
    <3>3. /\ phase' = "cache" /\ todo' = CacheRequests(m, max_seq, q8)
          /\ base' = cacheBase /\ cap' = tq_kv_bytes(m, max_seq, q8)
          /\ used' = 0 /\ carved' = <<>> /\ refused' = FALSE
          /\ asked' = 0 /\ calls' = 0
      BY <1>6, <2>2 DEF FastDone, Fresh
    <3>4. base' \in Nat /\ cap' \in Nat
      BY <1>1, <3>2, <3>3, RuntimeAssumption
    <3>5. (ArenaInv)'
      BY <3>3, <3>4, FreshInvNext
    <3>6. QED
      BY <1>1, <1>6, <3>1, <3>2, <3>3, <3>5
         DEF FastDone, Inv, TypeOK, ArenaInv, callVars, StartedInRange
  <2>3. QED
    BY <1>1, <2>1, <2>2 DEF ArenaTypeOK
<1>7. CASE CacheDone
  <2>1. ArenaInv' /\ ArenaTypeOK'
    BY <1>3, <1>7 DEF CacheDone
  <2>2. QED
    BY <1>1, <1>7, <2>1 DEF CacheDone, Inv, TypeOK, callVars, StartedInRange
<1>8. QED
  BY <1>2, <1>4, <1>5, <1>6, <1>7 DEF Next

-----------------------------------------------------------------------------
(***************************************************************************)
(* The sizing functions.  SizingSuffices needs to know, at every carve,    *)
(* which requests were made and what they added up to: `asked` for the     *)
(* activations, whose slack of 16 bytes a request covers any padding, and  *)
(* `used` itself for the KV cache, whose 32 bytes of slack are less than   *)
(* four paddings of 15 and suffice only because the padding of two equal   *)
(* requests starts from an aligned address.                                *)
(***************************************************************************)

\* The bytes asked for before each activation, and after the last.
FastMarks(R) ==
    LET x   == R[1] + R[2] + R[3] + R[4]
        hb  == x + R[5] + R[6]
        att == hb + R[7] + R[8]
        xq  == att + R[9] + R[10]
        kv  == xq + R[11] + R[12]
    IN  << 0, R[1], R[1] + R[2], R[1] + R[2] + R[3], x, x + R[5], hb,
           hb + R[7], att, att + R[9], xq, xq + R[11], kv,
           kv + R[13], kv + R[13] + R[14] >>

\* The bytes used before each part of the KV cache, and after the last.
CacheMarks(R, q) ==
    LET A == tq_align_up(R[1])
    IN  IF q THEN << 0, R[1], A + R[1], 2 * A + R[3],
                     2 * A + tq_align_up(R[3]) + R[3] >>
             ELSE << 0, R[1], A + R[1] >>

\* What is left of the requests R once `calls` of them were made.
Remaining(R) ==
    /\ calls \in 0 .. Len(R)
    /\ Len(todo) = Len(R) - calls
    /\ \A i \in 1 .. Len(todo) : todo[i] = R[calls + i]

FastSized ==
    /\ phase = "start" => calls = 0 /\ asked = 0
    /\ phase \in {"start", "fast"} /\ exact /\ max_seq > 0
          => cap = tq_runtime_bytes(m, max_seq)
    /\ phase = "fast" => /\ max_seq > 0
                         /\ Remaining(FastRequests(m, max_seq))
                         /\ asked = FastMarks(FastRequests(m, max_seq))[calls + 1]

CacheSized ==
    phase = "cache" => /\ ~ refused
                       /\ base % 16 = 0
                       /\ cap = tq_kv_bytes(m, max_seq, q8)
                       /\ Remaining(CacheRequests(m, max_seq, q8))
                       /\ used = CacheMarks(CacheRequests(m, max_seq, q8), q8)[calls + 1]

SizeInv == FastSized /\ CacheSized /\ SizingSuffices

\* An aligned part is passed over by tq_align_up.
LEMMA AlignSum ==
    ASSUME NEW a \in Nat, NEW b \in Nat, a % 16 = 0
    PROVE  tq_align_up(a + b) = a + tq_align_up(b)
<1>1. PICK c \in Nat : a = 16 * c
  <2>1. a \div 16 \in Nat /\ a = 16 * (a \div 16)
    OBVIOUS
  <2>2. QED
    BY <2>1
<1>2. PICK d \in Nat : d = (b + 15) \div 16
  OBVIOUS
<1>3. 16 * d <= b + 15 /\ b + 15 < 16 * d + 16
  BY <1>2
<1>4. (16 * c + b + 15) \div 16 = c + d
  BY <1>3
<1>5. QED
  BY <1>1, <1>2, <1>4 DEF tq_align_up

\* In an arena at an aligned address, regions start at aligned offsets.
LEMMA NextOffAtAligned ==
    ASSUME ArenaTypeOK, base % 16 = 0
    PROVE  NextOff = tq_align_up(used)
<1>1. used \in Nat /\ used + 0 = used
  BY DEF ArenaTypeOK
<1>2. tq_align_up(used) \in Nat
  BY <1>1, AlignUp
<1>3. QED
  BY <1>1, <1>2 DEF NextOff

\* FastMarks are the sums of the requests before each.
LEMMA FastMarksAdd ==
    ASSUME NEW R \in Seq(Nat), Len(R) = 14, NEW c \in 0 .. 13
    PROVE  FastMarks(R)[c + 2] = FastMarks(R)[c + 1] + R[c + 1]
<1>1. c \in {0, 1, 2, 3, 4, 5, 6} \/ c \in {7, 8, 9, 10, 11, 12, 13}
  OBVIOUS
<1>2. R[1] \in Nat
  BY SeqElement
<1>3. CASE c \in {0, 1, 2, 3, 4, 5, 6}
  BY <1>2, <1>3 DEF FastMarks
<1>4. CASE c \in {7, 8, 9, 10, 11, 12, 13}
  BY <1>2, <1>4 DEF FastMarks
<1>5. QED
  BY <1>1, <1>3, <1>4

\* The activations and 15 bytes of padding for each fit what tq_runtime_bytes
\* says: the two halves of the RoPE tables are at most head_size floats.
LEMMA FastTotal ==
    ASSUME NEW mo \in Models, NEW n \in Nat
    PROVE  /\ Len(FastRequests(mo, n)) = 14
           /\ FastMarks(FastRequests(mo, n))[15] + 15 * 14 <= tq_runtime_bytes(mo, n)
<1>1. mo \in Shape
  BY RuntimeAssumption
<1>2. /\ mo.dim \in Nat /\ mo.hidden_dim \in Nat /\ mo.n_heads \in Nat
      /\ mo.head_size \in Nat /\ mo.kv_dim \in Nat /\ mo.vocab_size \in Nat
  BY <1>1 DEF Shape
<1>3. PICK dim \in Nat, hid \in Nat, head \in Nat, kv \in Nat, voc \in Nat :
         dim = mo.dim /\ hid = mo.hidden_dim /\ head = mo.head_size /\ kv = mo.kv_dim
           /\ voc = mo.vocab_size
  BY <1>2
<1>4. PICK att \in Nat : att = mo.n_heads * n
  BY <1>2, NatProduct
<1>5. PICK xq \in Nat, hq \in Nat, half \in Nat :
         xq = (mo.dim \div 32) * 34 /\ hq = (mo.hidden_dim \div 32) * 34
           /\ half = mo.head_size \div 2
  BY <1>2
<1>6. 2 * half <= head
  BY <1>3, <1>5
<1>7. FastRequests(mo, n)
        = << dim * 4, dim * 4, dim * 4, dim * 4, hid * 4, hid * 4, att * 4, voc * 4,
             xq, hq, kv * 4, kv * 4, half * 4, half * 4 >>
  BY <1>3, <1>4, <1>5 DEF FastRequests, GROUP, BLOCK
<1>8. FastMarks(FastRequests(mo, n))[15]
        = dim * 4 + dim * 4 + dim * 4 + dim * 4 + hid * 4 + hid * 4 + att * 4 + voc * 4
            + xq + hq + kv * 4 + kv * 4 + half * 4 + half * 4
  BY <1>7 DEF FastMarks
<1>9. tq_runtime_bytes(mo, n)
        = 4 * dim * 4 + 2 * hid * 4 + 2 * kv * 4 + head * 4 + att * 4 + voc * 4
            + xq + hq + 16 * 14
  BY <1>3, <1>4, <1>5 DEF tq_runtime_bytes, GROUP, BLOCK
<1>10. QED
  BY <1>6, <1>7, <1>8, <1>9

\* The KV cache starts at offset 0, each part of it starts where CacheMarks,
\* aligned, says, and the last one ends inside what tq_kv_bytes says.
LEMMA CacheFits ==
    ASSUME NEW mo \in Models, NEW n \in Nat, NEW q \in BOOLEAN, NEW R \in Seq(Nat),
           R = CacheRequests(mo, n, q), NEW c \in 0 .. Len(R) - 1
    PROVE  /\ CacheMarks(R, q)[1] = 0
           /\ CacheMarks(R, q)[c + 2] = tq_align_up(CacheMarks(R, q)[c + 1]) + R[c + 1]
           /\ CacheMarks(R, q)[c + 2] <= tq_kv_bytes(mo, n, q)
<1>1. mo \in Shape
  BY RuntimeAssumption
<1>2. mo.n_layers \in Nat /\ mo.kv_dim \in Nat /\ mo.n_kv_heads \in Nat
  BY <1>1 DEF Shape
<1>3. PICK row \in Nat : row = mo.n_layers * n
  BY <1>2, NatProduct
<1>4. PICK kvn \in Nat, scl \in Nat : kvn = row * mo.kv_dim /\ scl = row * mo.n_kv_heads
  BY <1>2, <1>3, NatProduct
<1>5. tq_align_up(0) = 0
  BY DEF tq_align_up
<1>6. CASE q
  <2>1. PICK s \in Nat : s = scl * 4
    BY <1>4
  <2>2. R = <<kvn, kvn, s, s>>
    BY <1>3, <1>4, <1>6, <2>1 DEF CacheRequests
  <2>3. PICK A \in Nat, B \in Nat : A = tq_align_up(kvn) /\ B = tq_align_up(s)
    BY <1>4, <2>1, AlignUp
  <2>4. kvn <= A /\ A <= kvn + 15 /\ s <= B /\ A % 16 = 0
    BY <1>4, <2>1, <2>3, AlignUp
  <2>5. tq_kv_bytes(mo, n, q) = 2 * (kvn + B + 16)
    BY <1>3, <1>4, <1>6, <2>1, <2>3 DEF tq_kv_bytes
  <2>6. CacheMarks(R, q) = <<0, kvn, A + kvn, 2 * A + s, 2 * A + B + s>>
    <3>1. R[1] = kvn /\ R[3] = s
      BY <2>2
    <3>2. QED
      BY <1>6, <2>3, <3>1, Zenon DEF CacheMarks
  <2>7. tq_align_up(A + kvn) = 2 * A
    <3>1. tq_align_up(A + kvn) = A + A
      BY <1>4, <2>3, <2>4, AlignSum
    <3>2. QED
      BY <3>1
  <2>8. tq_align_up(2 * A + s) = 2 * A + B
    <3>1. 2 * A \in Nat /\ (2 * A) % 16 = 0
      BY <2>4
    <3>2. QED
      BY <2>1, <2>3, <3>1, AlignSum
  <2>9. c \in {0, 1, 2, 3}
    BY <2>2
  <2>10. CASE c = 0
    BY <1>5, <2>2, <2>3, <2>4, <2>5, <2>6, <2>10
  <2>11. CASE c = 1
    BY <2>2, <2>3, <2>4, <2>5, <2>6, <2>11
  <2>12. CASE c = 2
    BY <2>1, <2>2, <2>3, <2>4, <2>5, <2>6, <2>7, <2>12
  <2>13. CASE c = 3
    BY <2>1, <2>2, <2>3, <2>4, <2>5, <2>6, <2>8, <2>13
  <2>14. QED
    BY <2>9, <2>10, <2>11, <2>12, <2>13
<1>7. CASE ~ q
  <2>1. PICK w \in Nat : w = kvn * 4
    BY <1>4
  <2>2. R = <<w, w>>
    BY <1>3, <1>4, <1>7, <2>1 DEF CacheRequests
  <2>3. PICK A \in Nat : A = tq_align_up(w)
    BY <2>1, AlignUp
  <2>4. A <= w + 15
    BY <2>1, <2>3, AlignUp
  <2>5. tq_kv_bytes(mo, n, q) = 2 * w + 32
    BY <1>3, <1>4, <1>7, <2>1 DEF tq_kv_bytes
  <2>6. CacheMarks(R, q) = <<0, w, A + w>>
    BY <1>7, <2>2, <2>3 DEF CacheMarks
  <2>7. c \in {0, 1}
    BY <2>2
  <2>8. QED
    BY <1>5, <2>2, <2>3, <2>4, <2>5, <2>6, <2>7
<1>8. QED
  BY <1>6, <1>7

\* A carve takes the first of the requests that remain.
LEMMA RemainingTaken ==
    ASSUME NEW R \in Seq(Nat), Remaining(R), todo \in Seq(Nat), todo # <<>>,
           todo' = Tail(todo), calls' = calls + 1
    PROVE  calls \in 0 .. Len(R) - 1 /\ Head(todo) = R[calls + 1] /\ Remaining(R)'
<1>1. Len(todo) \in Nat /\ Len(todo) > 0 /\ Len(R) \in Nat
  OBVIOUS
<1>2. /\ calls \in 0 .. Len(R) /\ Len(todo) = Len(R) - calls
      /\ \A i \in 1 .. Len(todo) : todo[i] = R[calls + i]
  BY DEF Remaining
<1>3. calls \in 0 .. Len(R) - 1 /\ Head(todo) = R[calls + 1]
  BY <1>1, <1>2, SMTT(30)
<1>4. /\ Len(todo') = Len(todo) - 1
      /\ \A i \in 1 .. Len(todo') : todo'[i] = todo[i + 1]
  BY <1>1
<1>5. \A i \in 1 .. Len(todo') : todo'[i] = R[calls' + i]
  <2>1. ASSUME NEW i \in 1 .. Len(todo')
        PROVE  todo'[i] = R[calls' + i]
    <3>1. i + 1 \in 1 .. Len(todo) /\ calls + (i + 1) = calls' + i
      BY <1>1, <1>2, <1>4
    <3>2. QED
      BY <1>2, <1>4, <3>1
  <2>2. QED
    BY <2>1
<1>6. calls' \in 0 .. Len(R) /\ Len(todo') = Len(R) - calls'
  BY <1>1, <1>2, <1>3, <1>4
<1>7. QED
  BY <1>3, <1>5, <1>6 DEF Remaining

\* A list of requests none of which was made yet.
LEMMA RemainingAll ==
    ASSUME NEW R \in Seq(Nat), todo' = R, calls' = 0
    PROVE  Remaining(R)'
  BY DEF Remaining

\* Initially the arena has the size the caller was told, or is smaller.
LEMMA InitSize == Init => SizeInv
<1> SUFFICES ASSUME Init PROVE SizeInv
  OBVIOUS
<1>1. phase = "start" /\ asked = 0 /\ calls = 0
  BY DEF Init, ArenaIs, Fresh
<1>2. exact /\ max_seq > 0 => cap = tq_runtime_bytes(m, max_seq)
  BY DEF Init, ArenaIs, Fresh
<1>3. QED
  BY <1>1, <1>2 DEF SizeInv, FastSized, CacheSized, SizingSuffices

\* A carve of the activations adds what it asks for.
LEMMA FastCarveSize ==
    ASSUME Inv, SizeInv, Carve, phase = "fast"
    PROVE  SizeInv'
<1>1. /\ m \in Models /\ max_seq \in Nat /\ todo \in Seq(Nat) /\ q8 \in BOOLEAN
  BY DEF Inv, TypeOK, StartedInRange
<1>2. PICK R \in Seq(Nat) : R = FastRequests(m, max_seq)
  BY <1>1, SizesAreNat
<1>3. Len(R) = 14
  BY <1>1, <1>2, FastTotal
<1>4. /\ Remaining(R) /\ asked = FastMarks(R)[calls + 1] /\ max_seq > 0
      /\ exact => cap = tq_runtime_bytes(m, max_seq)
  BY <1>2 DEF SizeInv, FastSized
<1>5. /\ todo # <<>> /\ todo' = Tail(todo) /\ m' = m /\ max_seq' = max_seq
      /\ exact' = exact /\ phase' = phase
      /\ calls' = calls + 1 /\ asked' = asked + Head(todo) /\ cap' = cap
  BY DEF Carve, callVars, tq_carve
<1>6. calls \in 0 .. 13 /\ Head(todo) = R[calls + 1] /\ Remaining(R)'
  <2>1. calls \in 0 .. Len(R) - 1 /\ Head(todo) = R[calls + 1] /\ Remaining(R)'
    BY <1>1, <1>4, <1>5, RemainingTaken
  <2>2. QED
    BY <1>3, <2>1
<1>7. asked' = FastMarks(R)[calls' + 1]
  <2>1. FastMarks(R)[calls + 2] = FastMarks(R)[calls + 1] + R[calls + 1]
    BY <1>3, <1>6, FastMarksAdd
  <2>2. calls' + 1 = calls + 2
    BY <1>5, <1>6
  <2>3. QED
    BY <1>4, <1>5, <1>6, <2>1, <2>2
<1>8. R = FastRequests(m', max_seq')
  BY <1>2, <1>5
<1>9. FastSized'
  BY <1>4, <1>5, <1>6, <1>7, <1>8 DEF FastSized
<1>10. QED
  BY <1>5, <1>9 DEF SizeInv, CacheSized, SizingSuffices

\* A carve of the KV cache always fits.
LEMMA CacheCarveSize ==
    ASSUME Inv, SizeInv, Carve, phase = "cache"
    PROVE  SizeInv'
<1>1. /\ m \in Models /\ max_seq \in Nat /\ todo \in Seq(Nat) /\ q8 \in BOOLEAN
      /\ ArenaTypeOK
  BY DEF Inv, TypeOK, StartedInRange
<1>2. PICK R \in Seq(Nat) : R = CacheRequests(m, max_seq, q8)
  BY <1>1, SizesAreNat
<1>3. /\ Remaining(R) /\ used = CacheMarks(R, q8)[calls + 1]
      /\ ~ refused /\ base % 16 = 0 /\ cap = tq_kv_bytes(m, max_seq, q8)
  BY <1>2 DEF SizeInv, CacheSized
<1>4. /\ todo # <<>> /\ todo' = Tail(todo) /\ m' = m /\ max_seq' = max_seq
      /\ q8' = q8 /\ exact' = exact /\ phase' = phase
      /\ calls' = calls + 1 /\ cap' = cap /\ base' = base
      /\ tq_carve(Head(todo))
  BY DEF Carve, callVars, tq_carve
<1>5. calls \in 0 .. Len(R) - 1 /\ Head(todo) = R[calls + 1] /\ Remaining(R)'
  BY <1>1, <1>3, <1>4, RemainingTaken
<1>6. NextOff = tq_align_up(used)
  BY <1>1, <1>3, NextOffAtAligned
<1>7. /\ NextOff + Head(todo) = CacheMarks(R, q8)[calls + 2]
      /\ CacheMarks(R, q8)[calls + 2] <= cap
  BY <1>1, <1>2, <1>3, <1>5, <1>6, CacheFits
<1>8. ~ (NextOff + Head(todo) > cap)
  <2>1. NextOff \in Nat /\ cap \in Nat /\ Head(todo) \in Nat
    BY <1>1, <1>4, NextOffAligned, SMTT(30) DEF ArenaTypeOK
  <2>2. QED
    BY <1>7, <2>1
<1>9. used' = NextOff + Head(todo) /\ refused' = refused
  BY <1>4, <1>8 DEF tq_carve
<1>10. used' = CacheMarks(R, q8)[calls' + 1]
  <2>1. calls' + 1 = calls + 2
    BY <1>4, <1>5
  <2>2. QED
    BY <1>7, <1>9, <2>1
<1>11. R = CacheRequests(m', max_seq', q8')
  BY <1>2, <1>4
<1>12. CacheSized'
  BY <1>3, <1>4, <1>5, <1>9, <1>10, <1>11 DEF CacheSized
<1>13. QED
  BY <1>4, <1>12 DEF SizeInv, FastSized, SizingSuffices

\* After the last activation: if the caller provided what it was told, none
\* was refused, and the KV cache starts empty.
LEMMA FastDoneSize ==
    ASSUME Inv, SizeInv, FastDone
    PROVE  SizeInv'
<1>1. /\ m \in Models /\ max_seq \in Nat /\ q8 \in BOOLEAN /\ cacheBase \in CacheBases
      /\ phase = "fast" /\ todo = <<>> /\ ArenaTypeOK /\ RefusedOnlyWhenFull
  BY DEF Inv, TypeOK, StartedInRange, ArenaInv, FastDone
<1>2. PICK R \in Seq(Nat) : R = FastRequests(m, max_seq)
  BY <1>1, SizesAreNat
<1>3. Len(R) = 14 /\ FastMarks(R)[15] + 15 * 14 <= tq_runtime_bytes(m, max_seq)
  BY <1>1, <1>2, FastTotal
<1>4. /\ Remaining(R) /\ asked = FastMarks(R)[calls + 1]
      /\ exact => cap = tq_runtime_bytes(m, max_seq)
  BY <1>1, <1>2 DEF SizeInv, FastSized
<1>5. calls = 14
  BY <1>1, <1>3, <1>4 DEF Remaining
<1>6. exact => ~ refused
  <2>1. SUFFICES ASSUME exact, refused PROVE FALSE
    OBVIOUS
  <2>2. asked + 15 * 14 > cap
    BY <1>1, <1>5, <2>1 DEF RefusedOnlyWhenFull
  <2>3. asked + 15 * 14 <= cap
    BY <1>3, <1>4, <1>5, <2>1
  <2>4. asked \in Nat /\ cap \in Nat
    BY <1>1 DEF ArenaTypeOK
  <2>5. QED
    BY <2>2, <2>3, <2>4
<1>7. CASE refused
  BY <1>6, <1>7 DEF FastDone, callVars, SizeInv, FastSized, CacheSized, SizingSuffices
<1>8. CASE ~ refused
  <2>1. PICK C \in Seq(Nat) : C = CacheRequests(m, max_seq, q8)
    BY <1>1, SizesAreNat
  <2>2. /\ phase' = "cache" /\ todo' = C /\ base' = cacheBase
        /\ cap' = tq_kv_bytes(m, max_seq, q8) /\ used' = 0 /\ refused' = FALSE
        /\ calls' = 0 /\ m' = m /\ max_seq' = max_seq /\ q8' = q8
    BY <1>8, <2>1 DEF FastDone, Fresh, callVars
  <2>3. Remaining(C)'
    BY <2>2, RemainingAll
  <2>4. C = CacheRequests(m', max_seq', q8')
    BY <2>1, <2>2
  <2>5. base' % 16 = 0
    BY <1>1, <2>2, RuntimeAssumption
  <2>6. used' = CacheMarks(C, q8)[calls' + 1]
    <3>1. CacheMarks(C, q8)[1] = 0
      BY <1>1 DEF CacheMarks
    <3>2. QED
      BY <2>2, <3>1
  <2>7. CacheSized'
    BY <2>2, <2>3, <2>4, <2>5, <2>6 DEF CacheSized
  <2>8. QED
    BY <2>2, <2>7 DEF SizeInv, FastSized, SizingSuffices
<1>9. QED
  BY <1>7, <1>8

\* Every step of tq_runtime_init keeps the account of sizes.
LEMMA NextSize == Inv /\ SizeInv /\ [Next]_vars => SizeInv'
<1> SUFFICES ASSUME Inv, SizeInv, [Next]_vars PROVE SizeInv'
  OBVIOUS
<1>1. CASE UNCHANGED vars
  BY <1>1, SMTT(30) DEF vars, arenaVars, callVars, SizeInv, FastSized, CacheSized, Remaining,
         SizingSuffices, FastMarks, CacheMarks
<1>2. CASE Start
  <2>1. /\ phase = "start" /\ calls = 0 /\ asked = 0
        /\ exact /\ max_seq > 0 => cap = tq_runtime_bytes(m, max_seq)
        /\ m \in Models /\ max_seq \in MaxSeqs
    BY <1>2 DEF Start, SizeInv, FastSized, Inv, TypeOK
  <2>2. /\ m' = m /\ max_seq' = max_seq /\ exact' = exact /\ cap' = cap
        /\ calls' = 0 /\ asked' = 0
    BY <1>2, <2>1 DEF Start, callVars, arenaVars
  <2>3. CASE max_seq <= 0 \/ max_seq > m.seq_len
    <3>1. phase' = "range"
      BY <1>2, <2>3 DEF Start
    <3>2. QED
      BY <3>1 DEF SizeInv, FastSized, CacheSized, SizingSuffices
  <2>4. CASE ~ (max_seq <= 0 \/ max_seq > m.seq_len)
    <3>1. max_seq \in Nat /\ max_seq > 0
      BY <2>1, <2>4, RuntimeAssumption
    <3>2. PICK R \in Seq(Nat) : R = FastRequests(m, max_seq)
      BY <2>1, <3>1, SizesAreNat
    <3>3. phase' = "fast" /\ todo' = R
      BY <1>2, <2>4, <3>2 DEF Start
    <3>4. Remaining(R)'
      BY <2>2, <3>3, RemainingAll
    <3>5. asked' = FastMarks(R)[calls' + 1]
      <4>1. FastMarks(R)[1] = 0
        BY DEF FastMarks
      <4>2. QED
        BY <2>2, <4>1
    <3>6. R = FastRequests(m', max_seq')
      BY <2>2, <3>2
    <3>7. FastSized'
      BY <2>1, <2>2, <3>1, <3>3, <3>4, <3>5, <3>6 DEF FastSized
    <3>8. QED
      BY <3>3, <3>7 DEF SizeInv, CacheSized, SizingSuffices
  <2>5. QED
    BY <2>3, <2>4
<1>3. CASE Carve
  BY <1>3, FastCarveSize, CacheCarveSize DEF Carve
<1>4. CASE FastDone
  BY <1>4, FastDoneSize
<1>5. CASE CacheDone
  <2>1. ~ refused
    BY <1>5 DEF CacheDone, SizeInv, CacheSized
  <2>2. phase' = "ok"
    BY <1>5, <2>1 DEF CacheDone
  <2>3. QED
    BY <2>2 DEF SizeInv, FastSized, CacheSized, SizingSuffices
<1>6. QED
  BY <1>1, <1>2, <1>3, <1>4, <1>5 DEF Next

-----------------------------------------------------------------------------

\* The regions that tq_runtime_init hands out are aligned, inside their arena
\* and disjoint, for every model, context length, arena size and address.
THEOREM RegionsAlwaysSound == Spec => []RegionsSound
<1>1. Inv => RegionsSound
  BY DEF Inv, ArenaInv
<1>2. QED
  BY InitInv, NextInv, <1>1, PTL DEF Spec

\* A carve is refused only when the requests and 15 bytes of padding for each
\* exceed the arena.
THEOREM NoEarlyRefusal == Spec => []RefusedOnlyWhenFull
<1>1. Inv => RefusedOnlyWhenFull
  BY DEF Inv, ArenaInv
<1>2. QED
  BY InitInv, NextInv, <1>1, PTL DEF Spec

\* Type correctness of tq_runtime_init's state.
THEOREM RuntimeTypeCorrect == Spec => []TypeOK
<1>1. Inv => TypeOK
  BY DEF Inv
<1>2. QED
  BY InitInv, NextInv, <1>1, PTL DEF Spec

\* A caller that provides what tq_runtime_bytes and tq_kv_bytes said never
\* sees tq_runtime_init run out of memory, whatever the address of the
\* activations, as long as the KV cache is 16-byte aligned.
THEOREM SizingAlwaysSuffices == Spec => []SizingSuffices
<1>1. Init => Inv /\ SizeInv
  BY InitInv, InitSize
<1>2. Inv /\ SizeInv /\ [Next]_vars => Inv' /\ SizeInv'
  BY NextInv, NextSize
<1>3. Inv /\ SizeInv => SizingSuffices
  BY DEF SizeInv
<1>4. QED
  BY <1>1, <1>2, <1>3, PTL DEF Spec

-----------------------------------------------------------------------------
(* tq_model_open. *)

OpenTypeOK ==
    /\ shared \in BOOLEAN /\ count \in Nat
    /\ pc \in {"header", "chunk", "entry", "checks", "returned"}
    /\ idx \in Nat /\ take \in Nat /\ k \in Nat
    /\ found \subseteq Globals /\ slot \in [Slots -> Nat] /\ dir \in Seq(Entries)

\* How far the walk is.
Progress ==
    /\ pc = "header" => Len(dir) = 0 /\ idx = 0
    /\ pc = "chunk" => Len(dir) = idx /\ idx <= count
    /\ pc = "entry" => Len(dir) = idx + k /\ k <= take /\ idx + take <= count
    /\ pc = "checks" => Len(dir) = count
    /\ pc # "returned" => rc = "none"

\* An entry that passed the checks made of every entry.
Accepted(e) ==
    /\ e.offset % Align = 0
    /\ e.offset + e.nbytes \in (0 .. FileBytes) \cup (WORD64 .. WORD64 + FileBytes)

\* Entry i is the one that counts for the tensor s.
Decides(s, i) ==
    /\ i \in Named(s)
    /\ \A j \in Named(s) : IF s.layer = -1 THEN i <= j ELSE j <= i

Resolved(s) ==
    \/ Named(s) = {} /\ slot[s] = 0
    \/ \E i \in Named(s) : Decides(s, i) /\ slot[s] = dir[i].offset /\ dir[i].fits

\* What the walk knows is what the entries inspected say.
Walked ==
    pc # "returned" =>
        /\ \A i \in 1 .. Len(dir) : Accepted(dir[i])
        /\ found = {g \in Globals : Named(GlobalName(g)) # {}}
        /\ \A s \in Slots : Resolved(s)

OpenInv == OpenTypeOK /\ Progress /\ Walked /\ OpensAsWritten /\ MissingIsReal
-----------------------------------------------------------------------------

\* The names of slots and entries; a global's is never a layer tensor's.
LEMMA NamesApart ==
    /\ \A g : GlobalName(g).layer = -1 /\ GlobalName(g).part = g
    /\ \A s \in Slots : \/ s.layer = -1 /\ s.part \in Globals /\ s = GlobalName(s.part)
                        \/ s.layer # -1 /\ s.layer \in 0 .. NLayers - 1 /\ s.part \in Parts
    /\ \A n \in Names : \/ n.layer = -1 /\ n = GlobalName(n.part)
                        \/ n.layer # -1 /\ n.layer \in Layers /\ n.part \in Parts
                           /\ n = [layer |-> n.layer, part |-> n.part]
    /\ \A g \in Globals : GlobalName(g) \in Slots
    /\ \A n \in Names : n.layer \in 0 .. NLayers - 1 /\ n.part \in Parts => n \in Slots
    /\ \A n \in Names : n.layer = -1 /\ n.part \in Globals => n \in Slots
<1>1. Layers \subseteq Nat /\ NLayers \in Nat
  BY ModelOpenAssumption
<1>2. \A g : GlobalName(g).layer = -1 /\ GlobalName(g).part = g
  BY DEF GlobalName
<1>3. \A s \in Slots : \/ s.layer = -1 /\ s.part \in Globals /\ s = GlobalName(s.part)
                       \/ s.layer # -1 /\ s.layer \in 0 .. NLayers - 1 /\ s.part \in Parts
  BY <1>1, <1>2 DEF Slots
<1>4. \A n \in Names : \/ n.layer = -1 /\ n = GlobalName(n.part)
                       \/ n.layer # -1 /\ n.layer \in Layers /\ n.part \in Parts
                          /\ n = [layer |-> n.layer, part |-> n.part]
  BY <1>1, <1>2 DEF Names
<1>5. \A g \in Globals : GlobalName(g) \in Slots
  BY DEF Slots
<1>6. \A n \in Names : n.layer \in 0 .. NLayers - 1 /\ n.part \in Parts => n \in Slots
  BY <1>1, <1>4 DEF Slots
<1>7. \A n \in Names : n.layer = -1 /\ n.part \in Globals => n \in Slots
  BY <1>4, <1>5
<1>8. QED
  BY <1>2, <1>3, <1>4, <1>5, <1>6, <1>7, Zenon

\* The least and the greatest of a set of positions, once known to exist.
LEMMA LeastIs ==
    ASSUME NEW I \in SUBSET Nat, NEW i \in I
    PROVE  /\ (\A j \in I : i <= j) => First(I) = i
           /\ (\A j \in I : j <= i) => Final(I) = i
<1>1. ASSUME \A j \in I : i <= j PROVE First(I) = i
  <2>1. \A at \in I : (\A j \in I : at <= j) => at = i
    BY <1>1
  <2>2. QED
    BY <1>1, <2>1 DEF First
<1>2. ASSUME \A j \in I : j <= i PROVE Final(I) = i
  <2>1. \A at \in I : (\A j \in I : j <= at) => at = i
    BY <1>2
  <2>2. QED
    BY <1>2, <2>1 DEF Final
<1>3. QED
  BY <1>1, <1>2

\* A sum of an offset and a length that passes modulo 2^64.
LEMMA EndsInside ==
    ASSUME NEW a \in 0 .. WORD64 - 1, NEW b \in 0 .. WORD64 - 1,
           ~ ((a + b) % WORD64 > FileBytes)
    PROVE  a + b \in (0 .. FileBytes) \cup (WORD64 .. WORD64 + FileBytes)
<1>1. WORD64 \in Nat \ {0} /\ FileBytes \in Nat
  BY ModelOpenAssumption
<1>2. a + b \in Nat /\ a + b < 2 * WORD64
  BY <1>1
<1>3. /\ a + b < WORD64 => (a + b) % WORD64 = a + b
      /\ a + b >= WORD64 => (a + b) % WORD64 = a + b - WORD64
  BY <1>1, <1>2
<1>4. QED
  BY <1>1, <1>2, <1>3

\* Nothing is inspected before the first chunk.
LEMMA OpenInitInv == OpenInit => OpenInv
<1> SUFFICES ASSUME OpenInit PROVE OpenInv
  OBVIOUS
<1>1. dir = <<>> /\ Len(dir) = 0 /\ pc = "header" /\ rc = "none" /\ idx = 0 /\ found = {}
      /\ take = 0 /\ k = 0
  BY DEF OpenInit
<1>2. \A s : Named(s) = {}
  BY <1>1 DEF Named
<1>3. OpenTypeOK
  <2>1. count \in Nat
    BY ModelOpenAssumption DEF OpenInit
  <2>2. dir \in Seq(Entries) /\ slot \in [Slots -> Nat] /\ shared \in BOOLEAN
    BY DEF OpenInit
  <2>3. QED
    BY <1>1, <2>1, <2>2 DEF OpenTypeOK
<1>4. Progress
  BY <1>1 DEF Progress
<1>5. \A s \in Slots : slot[s] = 0
  BY DEF OpenInit
<1>6. Walked
  BY <1>1, <1>2, <1>5 DEF Walked, Resolved
<1>7. OpensAsWritten /\ MissingIsReal
  BY <1>1 DEF OpensAsWritten, MissingIsReal
<1>8. QED
  BY <1>3, <1>4, <1>6, <1>7 DEF OpenInv

\* The errors of the header checks are their own.
LEMMA HeaderStep == ASSUME OpenInv, Header PROVE OpenInv'
<1>1. /\ pc = "header" /\ shared' = shared /\ count' = count /\ idx' = idx /\ take' = take
      /\ k' = k /\ found' = found /\ slot' = slot /\ dir' = dir
  BY DEF Header, fileVars
<1>2. \/ pc' = "chunk" /\ rc' = rc
      \/ pc' = "returned" /\ rc' \notin {"OK", "MISSING"}
  <2>1. CASE flaws = {}
    BY <2>1 DEF Header
  <2>2. CASE flaws # {}
    <3>1. PICK n \in 1 .. Len(HeaderChecks) : Return(HeaderChecks[n].err)
      BY <2>2 DEF Header
    <3>2. Len(HeaderChecks) = 11
      BY DEF HeaderChecks
    <3>3. n \in {1, 2, 3, 4, 5, 6, 7, 8, 9, 10, 11}
      BY <3>2
    <3>4. HeaderChecks[n].err \notin {"OK", "MISSING"}
      BY <3>3 DEF HeaderChecks
    <3>5. QED
      BY <3>1, <3>4 DEF Return
  <2>3. QED
    BY <2>1, <2>2
<1>3. \A s : Named(s)' = Named(s)
  BY <1>1 DEF Named
<1>4. OpenTypeOK'
  BY <1>1, <1>2 DEF OpenInv, OpenTypeOK
<1>5. Progress'
  BY <1>1, <1>2 DEF OpenInv, OpenTypeOK, Progress
<1>6. Walked'
  BY <1>1, <1>2, <1>3 DEF OpenInv, Walked, Resolved, Decides, Accepted
<1>7. rc' \notin {"OK", "MISSING"}
  BY <1>1, <1>2 DEF OpenInv, Progress
<1>8. OpensAsWritten' /\ MissingIsReal'
  BY <1>7 DEF OpensAsWritten, MissingIsReal
<1>9. QED
  BY <1>4, <1>5, <1>6, <1>8 DEF OpenInv

\* Between entries only the counters move.
LEMMA ChunkStep == ASSUME OpenInv, Chunk \/ ChunkDone \/ WalkDone PROVE OpenInv'
<1>1. /\ shared' = shared /\ count' = count /\ found' = found /\ slot' = slot /\ dir' = dir
      /\ pc \in {"chunk", "entry"}
  BY DEF Chunk, ChunkDone, WalkDone, fileVars
<1>2. OpenTypeOK /\ Progress /\ DIR_CHUNK \in Nat \ {0}
  BY ModelOpenAssumption DEF OpenInv
<1>3. \A s : Named(s)' = Named(s)
  BY <1>1 DEF Named
<1>4. /\ pc' \in {"header", "chunk", "entry", "checks", "returned"}
      /\ idx' \in Nat /\ take' \in Nat /\ k' \in Nat
  BY <1>2 DEF Chunk, ChunkDone, WalkDone, OpenTypeOK, Return
<1>5. OpenTypeOK'
  BY <1>1, <1>2, <1>4 DEF OpenTypeOK
<1>6. Progress'
  <2>1. CASE Chunk
    BY <1>1, <1>2, <2>1 DEF Chunk, OpenTypeOK, Progress, Return
  <2>2. CASE ChunkDone
    BY <1>1, <1>2, <2>2 DEF ChunkDone, OpenTypeOK, Progress
  <2>3. CASE WalkDone
    BY <1>1, <1>2, <2>3 DEF WalkDone, OpenTypeOK, Progress
  <2>4. QED
    BY <2>1, <2>2, <2>3
<1>7. Walked'
  BY <1>1, <1>3 DEF OpenInv, Walked, Resolved, Decides, Accepted
<1>8. rc' \notin {"OK", "MISSING"}
  BY <1>1, <1>2 DEF Chunk, ChunkDone, WalkDone, Progress, Return
<1>9. OpensAsWritten' /\ MissingIsReal'
  BY <1>8 DEF OpensAsWritten, MissingIsReal
<1>10. QED
  BY <1>5, <1>6, <1>7, <1>9 DEF OpenInv

\* What an entry behind the others adds: a position to its own name.
LEMMA NamedGrows ==
    ASSUME dir \in Seq(Entries), NEW e \in Entries, dir' = Append(dir, e)
    PROVE  /\ Len(dir) \in Nat /\ Len(dir') = Len(dir) + 1 /\ dir' \in Seq(Entries)
           /\ dir'[Len(dir) + 1] = e /\ \A i \in 1 .. Len(dir) : dir'[i] = dir[i]
           /\ \A s : Named(s) \subseteq 1 .. Len(dir)
           /\ \A s : s # e.name => Named(s)' = Named(s)
           /\ Named(e.name)' = Named(e.name) \cup {Len(dir) + 1}
<1>1. /\ Len(dir) \in Nat /\ Len(dir') = Len(dir) + 1 /\ dir' \in Seq(Entries)
      /\ dir'[Len(dir) + 1] = e /\ \A i \in 1 .. Len(dir) : dir'[i] = dir[i]
  OBVIOUS
<1>2. \A i \in 1 .. Len(dir') : i \in 1 .. Len(dir) \/ i = Len(dir) + 1
  BY <1>1
<1>3. 1 .. Len(dir) \subseteq 1 .. Len(dir') /\ Len(dir) + 1 \in 1 .. Len(dir')
  BY <1>1
<1>4. \A s : Named(s) \subseteq 1 .. Len(dir)
  BY DEF Named
<1>5. ASSUME NEW s, s # e.name PROVE Named(s)' = Named(s)
  <2>1. \A i : i \in Named(s)' <=> i \in Named(s)
    BY <1>1, <1>2, <1>3, <1>5, Zenon DEF Named
  <2>2. QED
    BY <2>1
<1>6. Named(e.name)' = Named(e.name) \cup {Len(dir) + 1}
  <2>1. \A i : i \in Named(e.name)' <=> i \in Named(e.name) \cup {Len(dir) + 1}
    BY <1>1, <1>2, <1>3, Zenon DEF Named
  <2>2. QED
    BY <2>1
<1>7. QED
  BY <1>1, <1>4, <1>5, <1>6

\* An entry that is accepted is resolved as its place in the directory says.
LEMMA InspectStep == ASSUME OpenInv, NEW e \in Entries, Inspect(e) PROVE OpenInv'
<1>1. /\ pc = "entry" /\ k < take /\ dir' = Append(dir, e)
      /\ shared' = shared /\ count' = count /\ idx' = idx /\ take' = take
  BY DEF Inspect, fileVars
<1>2. OpenTypeOK /\ Progress /\ Walked
  BY DEF OpenInv
<1>3. /\ Len(dir) \in Nat /\ Len(dir') = Len(dir) + 1 /\ dir' \in Seq(Entries)
      /\ dir'[Len(dir) + 1] = e /\ \A i \in 1 .. Len(dir) : dir'[i] = dir[i]
      /\ \A s : Named(s) \subseteq 1 .. Len(dir)
      /\ \A s : s # e.name => Named(s)' = Named(s)
      /\ Named(e.name)' = Named(e.name) \cup {Len(dir) + 1}
  BY <1>1, <1>2, NamedGrows DEF OpenTypeOK
<1> PICK at \in Nat : at = Len(dir) + 1
  BY <1>3
<1>4. CASE \/ (e.offset + e.nbytes) % WORD64 > FileBytes
           \/ e.offset % Align # 0
           \/ (Wanted(e) \/ OfLayer(e)) /\ ~ e.fits
  <2>1. /\ pc' = "returned" /\ rc' \notin {"OK", "MISSING"}
        /\ k' = k /\ found' = found /\ slot' = slot
    BY <1>4 DEF Inspect, Return
  <2>2. OpenTypeOK'
    BY <1>1, <1>2, <1>3, <2>1 DEF OpenTypeOK
  <2>3. Progress' /\ Walked' /\ OpensAsWritten' /\ MissingIsReal'
    BY <2>1 DEF Progress, Walked, OpensAsWritten, MissingIsReal
  <2>4. QED
    BY <2>2, <2>3 DEF OpenInv
<1>5. CASE ~ (\/ (e.offset + e.nbytes) % WORD64 > FileBytes
              \/ e.offset % Align # 0
              \/ (Wanted(e) \/ OfLayer(e)) /\ ~ e.fits)
  <2>1. /\ found' = (IF Wanted(e) THEN found \cup {e.name.part} ELSE found)
        /\ slot' = (IF Wanted(e) \/ OfLayer(e) THEN [slot EXCEPT ![e.name] = e.offset] ELSE slot)
        /\ k' = k + 1 /\ pc' = pc /\ rc' = rc
    BY <1>5 DEF Inspect
  <2>2. /\ e.name \in Names /\ e.offset \in 0 .. WORD64 - 1 /\ e.nbytes \in 0 .. WORD64 - 1
        /\ e.offset \in Nat
    <3>1. e.name \in Names /\ e.offset \in Offsets /\ e.nbytes \in Lengths
      BY Zenon DEF Entries
    <3>2. Offsets \subseteq 0 .. WORD64 - 1 /\ Lengths \subseteq 0 .. WORD64 - 1
      BY ModelOpenAssumption, Zenon
    <3>3. e.offset \in 0 .. WORD64 - 1 /\ e.nbytes \in 0 .. WORD64 - 1
      BY <3>1, <3>2, Zenon
    <3>4. \A a \in 0 .. WORD64 - 1 : a \in Nat
      BY ModelOpenAssumption
    <3>5. QED
      BY <3>1, <3>3, <3>4, Zenon
  <2>3. Wanted(e) => e.name.layer = -1 /\ e.name.part \in Globals /\ e.name.part \notin found
    BY DEF Wanted
  <2>4. OpenTypeOK'
    <3>1. k' \in Nat /\ pc' = "entry"
      BY <1>1, <1>2, <2>1 DEF OpenTypeOK
    <3>2. found' \subseteq Globals
      BY <1>2, <2>1, <2>3 DEF OpenTypeOK
    <3>3. slot' \in [Slots -> Nat]
      BY <1>2, <2>1, <2>2 DEF OpenTypeOK
    <3>4. QED
      BY <1>1, <1>2, <1>3, <3>1, <3>2, <3>3 DEF OpenTypeOK
  <2>5. Progress'
    <3>1. /\ idx \in Nat /\ take \in Nat /\ k \in Nat /\ rc = "none"
          /\ Len(dir) = idx + k /\ k < take /\ idx + take <= count
      BY <1>1, <1>2 DEF OpenTypeOK, Progress
    <3>2. pc' = "entry" /\ rc' = "none"
      BY <1>1, <2>1, <3>1
    <3>3. Len(dir') = idx' + k' /\ k' <= take' /\ idx' + take' <= count'
      BY <1>1, <1>3, <2>1, <3>1
    <3>4. QED
      BY <3>2, <3>3 DEF Progress
  <2>6. /\ \A i \in 1 .. Len(dir) : Accepted(dir[i])
        /\ found = {g \in Globals : Named(GlobalName(g)) # {}}
        /\ \A s \in Slots : Resolved(s)
    BY <1>1, <1>2 DEF Walked
  <2>7. \A i \in 1 .. Len(dir') : Accepted(dir'[i])
    <3>1. Accepted(e)
      BY <1>5, <2>2, EndsInside DEF Accepted
    <3>2. \A i \in 1 .. Len(dir') : i \in 1 .. Len(dir) \/ i = Len(dir) + 1
      BY <1>3
    <3>3. QED
      BY <1>3, <2>6, <3>1, <3>2, Zenon
  <2>8. found' = {g \in Globals : Named(GlobalName(g))' # {}}
    <3>1. ASSUME NEW g \in Globals PROVE g \in found' <=> Named(GlobalName(g))' # {}
      <4>1. CASE GlobalName(g) = e.name
        <5>1. e.name.layer = -1 /\ e.name.part = g
          BY <4>1, NamesApart
        <5>2. g \in found'
          BY <2>1, <5>1 DEF Wanted
        <5>3. Named(GlobalName(g))' # {}
          BY <1>3, <4>1
        <5>4. QED
          BY <5>2, <5>3
      <4>2. CASE GlobalName(g) # e.name
        <5>1. Named(GlobalName(g))' = Named(GlobalName(g))
          BY <1>3, <4>2
        <5>2. ~ (Wanted(e) /\ e.name.part = g)
          BY <2>2, <2>3, <4>2, NamesApart
        <5>3. g \in found' <=> g \in found
          BY <2>1, <5>2
        <5>4. QED
          BY <2>6, <5>1, <5>3
      <4>3. QED
        BY <4>1, <4>2
    <3>2. found' \subseteq Globals
      BY <2>4 DEF OpenTypeOK
    <3>3. QED
      BY <3>1, <3>2
  <2>9. ASSUME NEW s \in Slots PROVE Resolved(s)'
    <3>1. Resolved(s) /\ slot \in [Slots -> Nat]
      BY <1>2, <2>6 DEF OpenTypeOK
    <3>2. CASE s # e.name
      <4>1. Named(s)' = Named(s) /\ slot'[s] = slot[s]
        BY <1>3, <2>1, <3>1, <3>2
      <4>2. \A i \in Named(s) : dir'[i] = dir[i]
        BY <1>3
      <4>3. QED
        BY <3>1, <4>1, <4>2 DEF Resolved, Decides
    <3>3. CASE s = e.name
      <4>1. CASE s.layer = -1 /\ Named(s) = {}
        <5>1. s.part \in Globals /\ s = GlobalName(s.part)
          BY <4>1, NamesApart
        <5>2. s.part \notin found
          BY <2>6, <4>1, <5>1
        <5>3. Wanted(e)
          BY <3>3, <4>1, <5>1, <5>2 DEF Wanted
        <5>4. e.fits /\ slot'[s] = e.offset
          BY <1>5, <2>1, <3>1, <3>3, <5>3
        <5>5. Named(s)' = {at} /\ dir'[at] = e
          BY <1>3, <3>3, <4>1
        <5>6. Decides(s, at)'
          BY <1>3, <5>5 DEF Decides
        <5>7. QED
          BY <5>4, <5>5, <5>6 DEF Resolved
      <4>2. CASE s.layer = -1 /\ Named(s) # {}
        <5>1. s.part \in Globals /\ s = GlobalName(s.part)
          BY <4>2, NamesApart
        <5>2. s.part \in found
          BY <2>6, <4>2, <5>1
        <5>3. ~ Wanted(e) /\ ~ OfLayer(e)
          BY <3>3, <4>2, <5>2, ModelOpenAssumption DEF Wanted, OfLayer
        <5>4. slot' = slot
          BY <2>1, <5>3
        <5>5. PICK i \in Named(s) : Decides(s, i) /\ slot[s] = dir[i].offset /\ dir[i].fits
          BY <3>1, <4>2 DEF Resolved
        <5>6. dir'[i] = dir[i] /\ i \in Named(s)' /\ i <= Len(dir) + 1
          BY <1>3, <3>3, <5>5
        <5>7. Decides(s, i)'
          BY <1>3, <3>3, <4>2, <5>5, <5>6 DEF Decides
        <5>8. QED
          BY <5>4, <5>5, <5>6, <5>7 DEF Resolved
      <4>3. CASE s.layer # -1
        <5>1. OfLayer(e)
          BY <3>3, <4>3, NamesApart DEF OfLayer
        <5>2. e.fits /\ slot'[s] = e.offset
          BY <1>5, <2>1, <3>1, <3>3, <5>1
        <5>3. (\A j \in Named(s)' : j <= at) /\ at \in Named(s)' /\ dir'[at] = e
          BY <1>3, <3>3
        <5>4. Decides(s, at)'
          BY <4>3, <5>3 DEF Decides
        <5>5. QED
          BY <5>2, <5>3, <5>4 DEF Resolved
      <4>4. QED
        BY <4>1, <4>2, <4>3
    <3>4. QED
      BY <3>2, <3>3
  <2>10. Walked'
    BY <2>7, <2>8, <2>9 DEF Walked, Accepted
  <2>11. rc' = "none"
    BY <1>1, <1>2, <2>1 DEF Progress
  <2>12. OpensAsWritten' /\ MissingIsReal'
    BY <2>11 DEF OpensAsWritten, MissingIsReal
  <2>13. QED
    BY <2>4, <2>5, <2>10, <2>12 DEF OpenInv
<1>6. QED
  BY <1>4, <1>5

\* Which entry decides is the one the specification of a directory names.
LEMMA ResolvedEntry ==
    ASSUME OpenInv, pc # "returned", NEW s \in Slots
    PROVE  /\ Named(s) = {} => slot[s] = 0
           /\ Named(s) # {} =>
                 LET i == IF s.layer = -1 THEN First(Named(s)) ELSE Final(Named(s))
                 IN  slot[s] = dir[i].offset /\ dir[i].fits
<1>1. Resolved(s)
  BY DEF OpenInv, Walked
<1>2. Named(s) \in SUBSET Nat
  BY DEF Named
<1>3. CASE Named(s) = {}
  BY <1>1, <1>3 DEF Resolved
<1>4. CASE Named(s) # {}
  <2>1. PICK i \in Named(s) : Decides(s, i) /\ slot[s] = dir[i].offset /\ dir[i].fits
    BY <1>1, <1>4 DEF Resolved
  <2>2. i = IF s.layer = -1 THEN First(Named(s)) ELSE Final(Named(s))
    BY <1>2, <2>1, LeastIs DEF Decides
  <2>3. QED
    BY <1>4, <2>1, <2>2
<1>5. QED
  BY <1>3, <1>4

\* The checks behind the walk accept what is complete and refuse what is not.
LEMMA ChecksStep == ASSUME OpenInv, Checks PROVE OpenInv'
<1>1. /\ pc = "checks" /\ pc' = "returned" /\ shared' = shared /\ count' = count
      /\ idx' = idx /\ take' = take /\ k' = k /\ found' = found /\ dir' = dir
  BY DEF Checks, fileVars, Return
<1>2. OpenTypeOK /\ Len(dir) = count /\ Walked
  BY <1>1 DEF OpenInv, Progress
<1> DEFINE cls == GlobalName("cls")
           emb == GlobalName("tok_emb")
<1>3. cls \in Slots /\ emb \in Slots /\ cls.layer = -1 /\ emb.layer = -1 /\ cls.part = "cls"
  BY NamesApart, ModelOpenAssumption
<1>4. slot \in [Slots -> Nat] /\ slot' \in [Slots -> Nat]
      /\ (\A s \in Slots : s # cls \/ ~ shared \/ rc' # "OK" => slot'[s] = slot[s] \/ rc' # "OK")
  BY <1>2, <1>3 DEF OpenTypeOK, Checks
<1>5. OpenTypeOK' /\ Progress' /\ Walked'
  BY <1>1, <1>2, <1>4 DEF OpenTypeOK, Progress, Walked
<1>6. \A s : Named(s)' = Named(s)
  BY <1>1 DEF Named
<1>7. Needed' = Needed
  BY <1>1 DEF Needed
<1>8. \A g \in Globals : g \in found <=> Named(GlobalName(g)) # {}
  BY <1>1, <1>2 DEF Walked
<1>9. Needed \subseteq Globals
  BY ModelOpenAssumption DEF Needed
<1>10. \A s \in Slots :
          /\ Named(s) = {} => slot[s] = 0
          /\ Named(s) # {} /\ s.layer = -1 =>
                slot[s] = dir[First(Named(s))].offset /\ dir[First(Named(s))].fits
          /\ Named(s) # {} /\ s.layer # -1 =>
                slot[s] = dir[Final(Named(s))].offset /\ dir[Final(Named(s))].fits
  BY <1>1, ResolvedEntry
<1>11. MissingIsReal'
  <2> SUFFICES ASSUME rc' = "MISSING" PROVE MissingIsReal'
    BY DEF MissingIsReal
  <2>1. CASE ~ (Needed \subseteq found)
    <3>1. PICK g \in Needed : g \notin found
      BY <2>1
    <3>2. Named(GlobalName(g))' = {}
      BY <1>6, <1>8, <1>9, <3>1
    <3>3. g \in (Required \cup (IF shared' THEN {} ELSE {"cls"}))
      BY <1>1, <3>1 DEF Needed
    <3>4. QED
      BY <3>2, <3>3 DEF MissingIsReal
  <2>2. CASE Needed \subseteq found
    <3>1. \E s \in Slots : s.layer # -1 /\ slot[s] = 0
      BY <2>2 DEF Checks, Return
    <3>2. PICK s \in Slots : s.layer # -1 /\ slot[s] = 0
      BY <3>1
    <3>3. Named(s) = {} \/ dir[Final(Named(s))].offset = 0
      BY <1>10, <3>2
    <3>4. Named(s)' = {} \/ dir'[Final(Named(s)')].offset = 0
      BY <1>1, <1>6, <3>3
    <3>5. QED
      BY <3>2, <3>4 DEF MissingIsReal, Final
  <2>3. QED
    BY <2>1, <2>2
<1>12. OpensAsWritten'
  <2> SUFFICES ASSUME rc' = "OK" PROVE OpensAsWritten'
    BY DEF OpensAsWritten
  <2>1. /\ Needed \subseteq found
        /\ \A s \in Slots : s.layer # -1 => slot[s] # 0
        /\ slot' = (IF shared THEN [slot EXCEPT ![cls] = slot[emb]] ELSE slot)
    BY DEF Checks, Return
  <2>2. Len(dir') = count' /\ \A i \in 1 .. count' : Accepted(dir'[i])
    BY <1>1, <1>2 DEF Walked
  <2>3. ASSUME NEW s \in Slots, shared, s = cls
        PROVE  IF Named(emb) = {} THEN slot'[s] = 0 /\ s.layer = -1 /\ s.part \notin Needed
               ELSE slot'[s] = dir[First(Named(emb))].offset /\ dir[First(Named(emb))].fits
    <3>1. slot'[s] = slot[emb] /\ s.layer = -1
      BY <1>3, <1>4, <2>1, <2>3
    <3>2. s.part \notin Needed
      BY <1>3, <2>3, ModelOpenAssumption DEF Needed
    <3>3. QED
      BY <1>3, <1>10, <3>1, <3>2
  <2>4. ASSUME NEW s \in Slots, ~ (shared /\ s = cls)
        PROVE  IF Named(s) = {} THEN slot'[s] = 0 /\ s.layer = -1 /\ s.part \notin Needed
               ELSE LET i == IF s.layer = -1 THEN First(Named(s)) ELSE Final(Named(s))
                    IN  slot'[s] = dir[i].offset /\ dir[i].fits
    <3>1. slot'[s] = slot[s]
      BY <1>3, <1>4, <2>1, <2>4
    <3>2. Named(s) = {} => s.layer = -1 /\ s.part \notin Needed
      <4> SUFFICES ASSUME Named(s) = {} PROVE s.layer = -1 /\ s.part \notin Needed
        OBVIOUS
      <4>1. s.layer = -1
        BY <1>10, <2>1
      <4>2. s.part \in Globals /\ s = GlobalName(s.part)
        BY <4>1, NamesApart
      <4>3. QED
        BY <1>8, <2>1, <4>1, <4>2
    <3>3. QED
      BY <1>10, <3>1, <3>2
  <2>5. ASSUME NEW s \in Slots
        PROVE  LET I == IF shared /\ s = cls THEN Named(emb) ELSE Named(s)
                   i == IF s.layer = -1 THEN First(I) ELSE Final(I)
               IN  IF I = {} THEN slot'[s] = 0 /\ s.layer = -1 /\ s.part \notin Needed
                   ELSE slot'[s] = dir[i].offset /\ dir[i].fits
    <3>1. CASE shared /\ s = cls
      BY <1>3, <2>3, <3>1
    <3>2. CASE ~ (shared /\ s = cls)
      BY <2>4, <3>2
    <3>3. QED
      BY <3>1, <3>2
  <2>6. QED
    BY <1>1, <1>6, <1>7, <2>2, <2>5, ZenonT(40) DEF OpensAsWritten, Accepted, First, Final
<1>13. QED
  BY <1>5, <1>11, <1>12 DEF OpenInv

\* Every step of tq_model_open keeps the invariant.
LEMMA OpenNextInv == ASSUME OpenInv, [OpenNext]_openVars PROVE OpenInv'
<1>1. CASE Header
  BY <1>1, HeaderStep
<1>2. CASE Chunk \/ ChunkDone \/ WalkDone
  BY <1>2, ChunkStep
<1>3. CASE Checks
  BY <1>3, ChecksStep
<1>4. CASE \E e \in Entries : Inspect(e)
  BY <1>4, InspectStep
<1>5. CASE UNCHANGED openVars
  <2>1. UNCHANGED <<shared, count, pc, idx, take, k, found, slot, rc, dir>>
    BY <1>5 DEF openVars
  <2>2. OpenTypeOK' /\ Progress'
    BY <2>1 DEF OpenInv, OpenTypeOK, Progress
  <2>3. Walked'
    BY <2>1 DEF OpenInv, Walked, Accepted, Resolved, Decides, Named
  <2>4. \A s : Named(s)' = Named(s)
    BY <2>1 DEF Named
  <2>5. OpensAsWritten' /\ MissingIsReal'
    <3>1. OpensAsWritten'
      BY <2>1, ZenonT(40) DEF OpenInv, OpensAsWritten, Named, Needed
    <3>2. MissingIsReal'
      BY <2>1, Zenon DEF OpenInv, MissingIsReal, Named
    <3>3. QED
      BY <3>1, <3>2
  <2>6. QED
    BY <2>2, <2>3, <2>5 DEF OpenInv
<1>6. QED
  BY <1>1, <1>2, <1>3, <1>4, <1>5 DEF OpenNext
-----------------------------------------------------------------------------

\* A model that tq_model_open accepts is resolved as its directory says, however
\* it was cut into chunks: first entry of a global, last of a layer tensor.
THEOREM AlwaysOpensAsWritten == OpenSpec => []OpensAsWritten
<1>1. OpenInv => OpensAsWritten
  BY DEF OpenInv
<1>2. QED
  BY OpenInitInv, OpenNextInv, <1>1, PTL DEF OpenSpec

\* TQ_ERR_MISSING is never returned for a complete directory.
THEOREM MissingAlwaysReal == OpenSpec => []MissingIsReal
<1>1. OpenInv => MissingIsReal
  BY DEF OpenInv
<1>2. QED
  BY OpenInitInv, OpenNextInv, <1>1, PTL DEF OpenSpec

=============================================================================
