------------------------------ MODULE AcTables ------------------------------
(***************************************************************************)
(* The integer arithmetic of core/src/tq_ac.c that does not depend on the  *)
(* coder's state: the word sizes and the count tables.                     *)
(*                                                                         *)
(* The C code works in base 256: a byte is a digit, `range` and the low    *)
(* half of `low` are four digits wide, TQ_AC_TOP is 2^24 and TQ_AC_TOT is  *)
(* 2^16.  Everything is stated here for an arbitrary digit base with the   *)
(* same proportions, so that TLC can explore base 4 completely while the   *)
(* theorems hold for 256.                                                  *)
(*                                                                         *)
(* Sequences are 1-based: symbol i here is index i-1 in the C arrays.      *)
(***************************************************************************)
EXTENDS Integers, Sequences

CONSTANT Base   \* digits per byte: 256 in the code

ASSUME BaseAssumption == Base \in Nat /\ Base >= 2

Byte == 0 .. Base - 1

\* TQ_AC_TOT, TQ_AC_TOP and 2^32, in digits of the chosen base.
TOT  == Base * Base
TOP  == Base * TOT
WORD == Base * TOP

-----------------------------------------------------------------------------

\* The cumulative count below symbol i.
tq_ac_cum(cnt, i) ==
    LET c[k \in 0 .. Len(cnt)] == IF k = 0 THEN 0 ELSE c[k - 1] + cnt[k]
    IN  c[i - 1]

\* The total of a table, which the callers pass to the coder as `tot`.
Total(cnt) == tq_ac_cum(cnt, Len(cnt) + 1)

\* Table entry i as the (cum, freq, tot) triple the coder takes.
Triple(cnt, i) == [cum |-> tq_ac_cum(cnt, i), freq |-> cnt[i], tot |-> Total(cnt)]

\* The first symbol whose interval ends above target; the last symbol when
\* there is none.
tq_ac_find(cnt, target) ==
    LET hits == {i \in 1 .. Len(cnt) : target < tq_ac_cum(cnt, i) + cnt[i]}
    IN  IF hits = {} THEN Len(cnt)
        ELSE CHOOSE i \in hits : \A j \in hits : i <= j

\* Weights to counts: one count reserved for every symbol, the rest shared out
\* in proportion and rounded down, the leftover given to the first heaviest.
tq_ac_normalize(w) ==
    LET n      == Len(w)
        sum    == Total(w)
        spread == TOT - n
        top    == CHOOSE i \in 1 .. n : /\ \A j \in 1 .. n : w[j] <= w[i]
                                        /\ \A j \in 1 .. i - 1 : w[j] < w[i]
        share  == [i \in 1 .. n |->
                     IF sum = 0 THEN 1 ELSE 1 + (w[i] * spread) \div sum]
    IN  [share EXCEPT ![top] = @ + (TOT - Total(share))]
=============================================================================
