---------------------------- MODULE RangeEncoder ----------------------------
(***************************************************************************)
(* The range encoder of core/src/tq_ac.c: struct TqAcEnc as variables,     *)
(* tq_ac_enc_sym and tq_ac_enc_finish as actions, one step per iteration   *)
(* of their loops.  `epc` says which loop the call in progress is in.      *)
(*                                                                         *)
(* What could go wrong here is the carry.  Bytes leave `low` before later  *)
(* symbols are known, and a later symbol can add a carry to bytes that     *)
(* already left it.  The code holds back one byte (cache) and a run of     *)
(* 0xFFs (pending) so that the carry is settled before a byte is written;  *)
(* the first byte is held in a cache that is not yet `primed`, where a     *)
(* carry would be dropped without a trace.                                 *)
(***************************************************************************)
EXTENDS AcTables

CONSTANTS
    Caps,       \* sizes of the callers' output buffers
    Triples     \* the (cum, freq, tot) triples the callers may code

\* "`tot` must be <= TQ_AC_TOT and the counts must tile [0, tot) exactly"
ASSUME CapAssumption == Caps \subseteq Nat
ASSUME TriplesAssumption ==
    \A t \in Triples : /\ t.cum \in Nat /\ t.freq \in Nat \ {0}
                       /\ t.tot \in Nat
                       /\ t.cum + t.freq <= t.tot
                       /\ t.tot <= TOT

VARIABLES
    low,        \* low end of the interval, digits already shifted out removed
    range,      \* width of the interval
    cache,      \* the last byte shifted out that was not 0xFF
    pending,    \* number of 0xFF bytes shifted out after it
    primed,     \* cache holds a byte of the message
    overflow,   \* a byte did not fit in the buffer
    buf,        \* buf[0 .. len) of the code
    cap,        \* size of the buffer behind it
    epc,        \* "ready", in "renorm", in "flush", or "finished"
    flush       \* tq_ac_shift_low calls left in tq_ac_enc_finish

encVars == <<low, range, cache, pending, primed, overflow, buf, cap, epc, flush>>

\* tq_ac_enc_init
EncInit ==
    /\ low = 0 /\ range = WORD - 1
    /\ cache = 0 /\ pending = 0 /\ primed = FALSE
    /\ overflow = FALSE /\ buf = <<>> /\ cap \in Caps
    /\ epc = "ready" /\ flush = 0

-----------------------------------------------------------------------------

\* tq_ac_put for a run of bytes: what fits is stored, the rest is dropped and
\* the overflow flag raised.
tq_ac_put(bytes) ==
    LET all == buf \o bytes
    IN  IF Len(all) <= cap
        THEN buf' = all /\ UNCHANGED overflow
        ELSE buf' = SubSeq(all, 1, cap) /\ overflow' = TRUE

\* Mutant: the carry reaches the cached byte but not the 0xFFs behind it.
SettledNoRipple(carry) ==
    (IF primed THEN <<(cache + carry) % Base>> ELSE <<>>)
        \o [i \in 1 .. pending |-> Base - 1]

\* The bytes that settle when a carry (0 or 1) is known to reach the cache.
Settled(carry) ==
    (IF primed THEN <<(cache + carry) % Base>> ELSE <<>>)
        \o [i \in 1 .. pending |-> (Base - 1 + carry) % Base]

\* Mutant: the threshold 0xFFFFFFFF in place of 0xFF000000.
CanSettleTooOften == low >= WORD \/ low < WORD - 1

\* The top byte of low can be settled: it carried, or it is not 0xFF.
CanSettle == low >= WORD \/ low < WORD - TOP

\* Mutant: the mask 0x00FFFFFF is forgotten.
ShiftLowUnmasked ==
    /\ tq_ac_put(Settled(low \div WORD))
    /\ cache' = (low \div TOP) % Base
    /\ primed' = TRUE
    /\ pending' = 0
    /\ low' = low * Base

\* tq_ac_shift_low: move the top byte of low into the cache, or count it as
\* pending.  Digits above the lowest three leave low in either case.
tq_ac_shift_low ==
    /\ \/ /\ CanSettle
          /\ tq_ac_put(Settled(low \div WORD))
          /\ cache' = (low \div TOP) % Base
          /\ primed' = TRUE
          /\ pending' = 0
       \/ /\ ~ CanSettle
          /\ pending' = pending + 1
          /\ UNCHANGED <<buf, overflow, cache, primed>>
    /\ low' = (low % TOP) * Base

\* tq_ac_enc_sym up to its loop: narrow the interval to the symbol's share.
tq_ac_enc_sym(t) ==
    LET r == range \div t.tot
    IN  /\ epc = "ready"
        /\ low' = low + r * t.cum
        /\ range' = r * t.freq
        /\ epc' = IF range' < TOP THEN "renorm" ELSE "ready"
        /\ UNCHANGED <<cache, pending, primed, overflow, buf, cap, flush>>

\* Mutant: an `if` in place of the `while`.
EncRenormOnce ==
    /\ epc = "renorm"
    /\ tq_ac_shift_low
    /\ range' = range * Base
    /\ epc' = "ready"
    /\ UNCHANGED <<cap, flush>>

\* Mutant: the range is not scaled up with low.
EncRenormForever ==
    /\ epc = "renorm"
    /\ tq_ac_shift_low
    /\ UNCHANGED <<range, cap, epc, flush>>

\* One iteration of `while (e->range < TQ_AC_TOP)`.
EncRenorm ==
    /\ epc = "renorm"
    /\ tq_ac_shift_low
    /\ range' = range * Base
    /\ epc' = IF range' < TOP THEN "renorm" ELSE "ready"
    /\ UNCHANGED <<cap, flush>>

\* low rounded up to i trailing bytes that are not free to choose: the masks
\* 0x00FFFFFF, 0x0000FFFF, 0x000000FF and 0 for i = 1, 2, 3, 4.
RoundUp(i) ==
    LET unit == CASE i = 1 -> TOP [] i = 2 -> TOT [] i = 3 -> Base [] i = 4 -> 1
    IN  ((low + unit - 1) \div unit) * unit

\* Mutant: low itself is flushed, all its digits significant.
FinishUnrounded ==
    /\ epc = "ready"
    /\ epc' = "flush" /\ flush' = 5
    /\ UNCHANGED <<low, range, cache, pending, primed, overflow, buf, cap>>

\* tq_ac_enc_finish up to its flush loop: the point of [low, low+range) with
\* the most trailing zero bytes.  Only the first call does anything.
tq_ac_enc_finish ==
    /\ epc = "ready"
    /\ LET fits == {i \in 1 .. 4 : RoundUp(i) < low + range}
       IN  low' = IF fits = {} THEN low
                  ELSE RoundUp(CHOOSE i \in fits : \A j \in fits : i <= j)
    /\ epc' = "flush"
    /\ flush' = 5
    /\ UNCHANGED <<range, cache, pending, primed, overflow, buf, cap>>

\* One of the five shifts of the flush.
EncFlush ==
    /\ epc = "flush" /\ flush > 0
    /\ tq_ac_shift_low
    /\ flush' = flush - 1
    /\ UNCHANGED <<range, cap, epc>>

\* The end of the first call: trailing zeroes are not transmitted.
EncStrip ==
    /\ epc = "flush" /\ flush = 0
    /\ IF buf # <<>> /\ buf[Len(buf)] = 0
       THEN buf' = SubSeq(buf, 1, Len(buf) - 1) /\ UNCHANGED epc
       ELSE epc' = "finished" /\ UNCHANGED buf
    /\ UNCHANGED <<low, range, cache, pending, primed, overflow, cap, flush>>

\* The part of a call that runs on its own once the call was made.
EncStep == EncRenorm \/ EncFlush \/ EncStrip

EncNext ==
    \/ \E t \in Triples : tq_ac_enc_sym(t)
    \/ EncStep
    \/ tq_ac_enc_finish

EncSpec == EncInit /\ [][EncNext]_encVars

-----------------------------------------------------------------------------

\* Every field of TqAcEnc stays inside the type that holds it: low never needs
\* more than one carry digit above the word, cache is a byte.
EncTypeOK ==
    /\ low \in 0 .. 2 * WORD - 1
    /\ range \in 1 .. WORD - 1
    /\ cache \in Byte
    /\ pending \in Nat
    /\ primed \in BOOLEAN
    /\ overflow \in BOOLEAN
    /\ buf \in Seq(Byte) /\ cap \in Caps
    /\ epc \in {"ready", "renorm", "flush", "finished"}
    /\ flush \in 0 .. 5

\* When low carries out of the word there is a primed cache byte below 0xFF to
\* take the carry.  Hence cache + carry never wraps in tq_ac_shift_low, and no
\* carry is dropped because the first byte was not primed yet.
CarryAbsorbed == low >= WORD => primed /\ cache < Base - 1

\* Between calls the range is at least TQ_AC_TOP, and inside the loop it never
\* falls to zero: range/tot keeps a digit of precision, the loop terminates,
\* and the rounding of the flush succeeds at its first step.
RangeFloor ==
    /\ epc = "ready" => range >= TOP
    /\ epc = "renorm" => range >= Base /\ range < TOP
=============================================================================
